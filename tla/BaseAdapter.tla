----------------------------- MODULE BaseAdapter -----------------------------
(***************************************************************************)
(* The Base bridge adapter (internal/bridge/base/adapter.go): the three    *)
(* questions it answers about a withdrawal by querying L1, the search for  *)
(* a dispute game to prove against, and the two transactions it sends.     *)
(*                                                                         *)
(* A call is one step: the adapter keeps no state, and what its queries    *)
(* read only moves one way while it runs (a game resolves once, a proof    *)
(* gets older), so the call may be placed at its first query of the        *)
(* portal.  The hash and transaction of an event are abstracted to the     *)
(* withdrawal w they rebuild; a rebuilt hash that the message passer never *)
(* recorded is a w outside Passed.                                         *)
(***************************************************************************)
EXTENDS Chains

CONSTANTS
  GameSearchDepth,  \* games looked at, from the newest
  Wired,            \* FALSE: no signer key, the read-only adapter of New
  Faulty,           \* whether an RPC query or a send may fail
  Decodes           \* whether what abi.Unpack returns for provenWithdrawals has the
                    \* type asserted of it.  FALSE for the code as it is: the type is
                    \* local to queryProvenWithdrawal, and the library never builds it

ASSUME AdapterAssumption ==
  /\ GameSearchDepth \in Nat \ {0}
  /\ Wired \in BOOLEAN
  /\ Faulty \in BOOLEAN
  /\ Decodes \in BOOLEAN

-----------------------------------------------------------------------------
\* The last GameSearchDepth games (all of them if there are fewer).
SearchWindow == {i \in DOMAIN games : i + GameSearchDepth > Len(games)}

FaultySuitableAnyStatus(g, b) == games[g].respected /\ games[g].l2Block >= b
FaultySuitableAnyBlock(g, b) == games[g].respected /\ games[g].status = "DefenderWins"

Suitable(g, b) ==
  /\ games[g].respected
  /\ games[g].l2Block >= b
  /\ games[g].status = "DefenderWins"

\* The game findSuitableGame returns when the queries about `reached` succeed: the
\* newest suitable one, as a set with at most one element; empty is its error.
findSuitableGame(b, reached) ==
  LET hits == {g \in SearchWindow \intersect reached : Suitable(g, b)}
  IN {g \in hits : \A h \in hits : h <= g}

\* The sets of games whose queries may succeed during one search.
Reachable == IF Faulty THEN SUBSET DOMAIN games ELSE {DOMAIN games}

sendL1Transaction(kind, w, g) ==
  mempool' = Append(mempool, [kind |-> kind, w |-> w, game |-> g])

\* ProveWithdrawal of w, observed at L2 block b, returning a hash (ok) or an error.
\* A failed send may still have reached the node.  (fetchOutputRootProof panics on a
\* proof of several trie nodes: that outcome is the process's Restart.)
ProveWithdrawal(w, b, ok) ==
  /\ \/ /\ Wired /\ (ok \/ Faulty)
        /\ \E reached \in Reachable : \E g \in findSuitableGame(b, reached) :
             sendL1Transaction("prove", w, g)
     \/ /\ ~ok
        /\ ~Wired \/ Faulty \/ findSuitableGame(b, DOMAIN games) = {}
        /\ UNCHANGED mempool
  /\ UNCHANGED <<head, dropped, games, portal, reorgs, accepted, matured>>

FinalizeWithdrawal(w, ok) ==
  /\ \/ /\ Wired /\ (ok \/ Faulty)
        /\ sendL1Transaction("finalize", w, 0)
     \/ ~ok /\ (~Wired \/ Faulty) /\ UNCHANGED mempool
  /\ UNCHANGED <<head, dropped, games, portal, reorgs, accepted, matured>>

-----------------------------------------------------------------------------
\* The answers a poll may give when `fact` holds on L1.  Without an L1 client every
\* poll says no.  With one, every poll goes through queryProvenWithdrawal: it errs on
\* the portal's answer unless the type assertion can hold, and then any of its queries
\* may still fail.
Answers(fact) ==
  CASE ~Wired            -> {"no"}
    [] Wired /\ ~Decodes -> {"error"}
    [] Wired /\ Decodes  -> {IF fact THEN "yes" ELSE "no"}
                              \union (IF Faulty THEN {"error"} ELSE {})

FaultyIsProvenOnSend(w) ==
  Answers(portal[w].proven \/ \E i \in DOMAIN mempool : mempool[i].w = w)

IsProven(w) == Answers(portal[w].proven)

FaultyIsFinalizedNoPeriod(w) ==
  Answers(portal[w].proven /\ games[portal[w].game].status = "DefenderWins")

IsFinalized(w) ==
  Answers(/\ portal[w].proven
          /\ games[portal[w].game].status = "DefenderWins"
          /\ portal[w].age = FinalizationPeriod)

\* As the code has it: the gate of finalizeWithdrawal, asked again.
IsSettled(w) == IsFinalized(w)
=============================================================================
