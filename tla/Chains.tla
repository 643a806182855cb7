------------------------------- MODULE Chains -------------------------------
(***************************************************************************)
(* The two chains the bridge talks to.  Nothing here is code of the        *)
(* repository: it is the environment, modelled from what the Go code reads *)
(* from it (internal/bridge/base/adapter.go) and from the mock portal of   *)
(* contracts/test/L1ClearingHouse.t.sol.                                   *)
(*                                                                         *)
(*   head     the latest block of the L2 (Base)                            *)
(*   dropped  blocks that reorgs took off the L2's tip                     *)
(*   games    the dispute games of the L1 factory, oldest first            *)
(*   portal   OptimismPortal2.provenWithdrawals[w][our signer], and        *)
(*            whether the withdrawal was finalized                         *)
(*   mempool  our signer's transactions not yet included, in nonce order   *)
(*   reorgs   how many L1 reorgs removed a proof                           *)
(* History variables, read by properties only:                             *)
(*   accepted withdrawals for which the portal accepted a proof            *)
(*   matured  withdrawals one of whose proofs stood the challenge window   *)
(*                                                                         *)
(* Absolute time is replaced by the age of each proof, which stops growing *)
(* at FinalizationPeriod: the code only compares it with that.             *)
(***************************************************************************)
EXTENDS Naturals, Sequences

CONSTANTS
  Withdrawals,         \* withdrawal hashes the bridge may rebuild
  Passed,              \* those the L2's message passer really recorded
  FinalizationPeriod,  \* the 7-day window, in ticks of Elapse
  MaxHead,             \* bound: the L2 chain stops growing here
  MaxL2Reorgs,         \* bound: blocks dropped from the tip of the L2
  MaxGames,            \* bound: dispute games ever created
  MaxReorgs            \* bound: L1 reorgs that drop a proof

ASSUME ChainsAssumption ==
  /\ Passed \subseteq Withdrawals
  /\ FinalizationPeriod \in Nat \ {0}
  /\ MaxHead \in Nat \ {0}
  /\ MaxL2Reorgs \in Nat
  /\ MaxGames \in Nat
  /\ MaxReorgs \in Nat

VARIABLES head, dropped, games, portal, mempool, reorgs, accepted, matured

chainVars == <<head, dropped, games, portal, mempool, reorgs, accepted, matured>>

GameStatus == {"InProgress", "ChallengerWins", "DefenderWins"}
Game == [l2Block : 0 .. MaxHead, respected : BOOLEAN, status : GameStatus]

\* A portal record; game 0 is the zero address of an unproven withdrawal.
Record == [proven : BOOLEAN, game : 0 .. MaxGames,
           age : 0 .. FinalizationPeriod, finalized : BOOLEAN]
Unproven == [proven |-> FALSE, game |-> 0, age |-> 0, finalized |-> FALSE]

Tx == [kind : {"prove", "finalize"}, w : Withdrawals, game : 0 .. MaxGames]

ChainsTypeOK ==
  /\ head \in 1 .. MaxHead
  /\ dropped \in 0 .. MaxL2Reorgs
  /\ games \in Seq(Game) /\ Len(games) <= MaxGames
  /\ portal \in [Withdrawals -> Record]
  /\ mempool \in Seq(Tx)
  /\ reorgs \in 0 .. MaxReorgs
  /\ accepted \subseteq Withdrawals
  /\ matured \subseteq Withdrawals

ChainsInit ==
  /\ head = 1
  /\ dropped = 0
  /\ games = <<>>
  /\ portal = [w \in Withdrawals |-> Unproven]
  /\ mempool = <<>>
  /\ reorgs = 0
  /\ accepted = {}
  /\ matured = {}

-----------------------------------------------------------------------------
\* A proposer opens a game on the output root of an L2 block that exists.
CreateGame(b, r) ==
  /\ Len(games) < MaxGames
  /\ b <= head
  /\ games' = Append(games, [l2Block |-> b, respected |-> r, status |-> "InProgress"])
  /\ UNCHANGED <<head, dropped, portal, mempool, reorgs, accepted, matured>>

\* A game resolves once, for either side.
ResolveGame(g, s) ==
  /\ games[g].status = "InProgress"
  /\ games' = [games EXCEPT ![g].status = s]
  /\ UNCHANGED <<head, dropped, portal, mempool, reorgs, accepted, matured>>

-----------------------------------------------------------------------------
\* The portal takes a proof of a withdrawal the L2 recorded, against a game the
\* challenger has not won; a second proof replaces the first and restarts its age.
ProofAcceptable(tx) ==
  /\ tx.kind = "prove"
  /\ tx.w \in Passed
  /\ games[tx.game].respected
  /\ games[tx.game].status # "ChallengerWins"
  /\ ~portal[tx.w].finalized

\* The portal finalizes once the proof is old enough and its game was defended.
Finalizable(w) ==
  /\ portal[w].proven
  /\ games[portal[w].game].status = "DefenderWins"
  /\ portal[w].age = FinalizationPeriod
  /\ ~portal[w].finalized

IncludeProof ==
  /\ mempool # <<>> /\ ProofAcceptable(Head(mempool))
  /\ LET tx == Head(mempool) IN
       /\ portal' = [portal EXCEPT ![tx.w] = [proven |-> TRUE, game |-> tx.game,
                                              age |-> 0, finalized |-> FALSE]]
       /\ accepted' = accepted \union {tx.w}
  /\ mempool' = Tail(mempool)
  /\ UNCHANGED <<head, dropped, games, reorgs, matured>>

IncludeFinalize ==
  /\ mempool # <<>> /\ Head(mempool).kind = "finalize" /\ Finalizable(Head(mempool).w)
  /\ portal' = [portal EXCEPT ![Head(mempool).w].finalized = TRUE]
  /\ mempool' = Tail(mempool)
  /\ UNCHANGED <<head, dropped, games, reorgs, accepted, matured>>

\* The transaction reverts, runs out of its fallback gas limit, or is dropped:
\* it leaves no trace the code looks at.
LoseTx ==
  /\ mempool # <<>>
  /\ mempool' = Tail(mempool)
  /\ UNCHANGED <<head, dropped, games, portal, reorgs, accepted, matured>>

ProcessTx == IncludeProof \/ IncludeFinalize \/ LoseTx

-----------------------------------------------------------------------------
Older(w) ==
  IF portal[w].proven /\ portal[w].age < FinalizationPeriod
  THEN [portal[w] EXCEPT !.age = @ + 1] ELSE portal[w]

\* One tick of L1 time.
Elapse ==
  /\ \E w \in Withdrawals : portal[w].proven /\ portal[w].age < FinalizationPeriod
  /\ portal' = [w \in Withdrawals |-> Older(w)]
  /\ matured' = matured \union
       {w \in Withdrawals : Older(w).proven /\ Older(w).age = FinalizationPeriod}
  /\ UNCHANGED <<head, dropped, games, mempool, reorgs, accepted>>

\* A reorg drops the block with a recent proof (MockPortal.clearProven).
L1Reorg(w) ==
  /\ reorgs < MaxReorgs
  /\ portal[w].proven /\ portal[w].age = 0
  /\ portal' = [portal EXCEPT ![w] = Unproven]
  /\ reorgs' = reorgs + 1
  /\ UNCHANGED <<head, dropped, games, mempool, accepted, matured>>

L1Next ==
  \/ \E b \in 1 .. MaxHead, r \in BOOLEAN : CreateGame(b, r)
  \/ \E g \in DOMAIN games, s \in {"ChallengerWins", "DefenderWins"} : ResolveGame(g, s)
  \/ ProcessTx
  \/ Elapse
  \/ \E w \in Withdrawals : L1Reorg(w)
=============================================================================
