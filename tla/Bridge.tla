-------------------------------- MODULE Bridge --------------------------------
(***************************************************************************)
(* The process of main.go as it runs without a signer key: the chain       *)
(* client feeds the clearing use case, whose IngestEvent runs in the       *)
(* client's goroutine, and the orchestrator ticks in another.  The         *)
(* finality checker reads the head of the same L2.  L1 stands still, since *)
(* nothing is sent to it.                                                  *)
(***************************************************************************)
EXTENDS BaseClient

CONSTANTS NoID, Workers, SafeConfirmations

VARIABLES events, intents, lis, wrk, calls

useCaseVars == <<events, intents, lis, wrk, calls>>
vars == <<clientVars, useCaseVars>>

IDs == Logs \ Malformed

ASSUME BridgeAssumption == NoID \notin IDs /\ SafeConfirmations \in Nat

UC == INSTANCE ClearingUseCase WITH
  head <- tip, games <- <<>>, mempool <- <<>>, accepted <- {}, matured <- {},
  portal <- [l \in Logs |->
               [proven |-> FALSE, game |-> 0, age |-> 0, finalized |-> FALSE]],
  dropped <- reorgs, reorgs <- 0, delivered <- [l \in IDs |-> 0],
  Withdrawals <- Logs, Passed <- Logs, WithdrawalOf <- [l \in IDs |-> l],
  FinalizationPeriod <- 1, MaxGames <- 0, MaxReorgs <- 0, GameSearchDepth <- 1,
  Wired <- FALSE, Decodes <- FALSE, MaxBlock <- MaxHead, MaxLag <- MaxHead, MaxDeliveries <- 0

BridgeTypeOK == TypeOK /\ UC!TypeOK

BridgeInit == Init /\ UC!Init

-----------------------------------------------------------------------------
FaultyIngest(n) ==
  /\ Handle(n)
  /\ UC!SaveEvent(n.entry.log, n.entry.block) \/ UNCHANGED useCaseVars

\* The handler the listener gives to SubscribeLogs: IngestEvent, which returns when
\* lis is idle again.  Until then the client's goroutine does nothing else.
Ingest(n) == Handle(n) /\ UC!SaveEvent(n.entry.log, n.entry.block)

ClientRuns == lis.pc = "idle" /\ ClientStep /\ UNCHANGED useCaseVars

UseCaseStep ==
  /\ UC!ListenerStep \/ \E o \in Workers : UC!WorkerStep(o)
  /\ UNCHANGED clientVars

L2Moves == L2Step /\ UNCHANGED useCaseVars

ProcessRestart == Restart /\ UC!Restart

Next ==
  \/ \E n \in inbox : Ingest(n)
  \/ ClientRuns
  \/ UseCaseStep
  \/ L2Moves
  \/ ProcessRestart

Spec == BridgeInit /\ [][Next]_vars

-----------------------------------------------------------------------------
(* Both goroutines go on, the L2 grows, and neither the reads of the poll nor *)
(* the finality checks fail for ever.  A subscription may end at any time.    *)

Quiet == UNCHANGED useCaseVars

Fairness ==
  /\ WF_vars(\E n \in inbox : Ingest(n))
  /\ WF_vars(ClientRuns)
  /\ SF_vars(lis.pc = "idle" /\ Fetch /\ Quiet)
  /\ WF_vars(UC!ListenerStep /\ UNCHANGED clientVars)
  /\ WF_vars((\E B \in SUBSET Logs : Mine(B)) /\ Quiet)
  /\ \A o \in Workers :
       /\ WF_vars(UC!WorkerStep(o) /\ UNCHANGED clientVars)
       /\ \A l \in IDs : SF_vars(UC!RecheckPromote(o, l) /\ UNCHANGED clientVars)

FairSpec == Spec /\ Fairness

-----------------------------------------------------------------------------
\* A log the use case still answers for: a pending event, an intent, or a goroutine
\* between the two store calls of createIntent.
Kept(l) ==
  \/ events[l].status = "Pending" \/ intents[l].status # "None"
  \/ lis.pc = "save" /\ lis.id = l
  \/ \E o \in Workers : wrk[o].pc = "create" /\ wrk[o].cur = l

\* From the chain to the store, at every moment: a log that decodes, in a block the
\* feed covers, is waiting for the handler or kept by the use case, however polls and
\* finality checks fail and listener and orchestrator race, unless it was mined below
\* the cursor (client.go:186-226, clearing.go:51-98, 238-254).
EveryLogKept ==
  pc \in Running =>
    \A e \in Entry :
      /\ OnChain(e) /\ from <= e.block /\ e.log \notin Malformed
      /\ mode = "poll" => e.block < Frontier
      => e \in Waiting \union missed \/ Kept(e.log)

\* A log of the feed, deep enough for the chain of the instance to make it safe.
OnFeed(l) ==
  /\ pc \in Running
  /\ \E e \in Entry :
       /\ e.log = l /\ OnChain(e)
       /\ from <= e.block /\ e.block + SafeConfirmations <= MaxHead
       /\ e \notin missed

\* From the chain to the store: a log the feed covers gets its intent, though polls
\* fail, heads move back and checks say no, unless a reorg or a restart takes it off
\* the feed, or the subscription ends (client.go:100-234, clearing.go:51-98).
EveryLogServed ==
  \A l \in IDs : OnFeed(l) ~> intents[l].status # "None" \/ ~OnFeed(l)

\* client.go:152-153, a removed event "is being un-applied; downstream finality
\* checker will naturally deal with this": once the client has read all notices, an
\* intent is for a log of the chain.
IntentIsCanonical ==
  \A l \in IDs :
    mode = "ws" /\ inbox = {} /\ intents[l].status # "None"
      => l \in chain[intents[l].block].logs
=============================================================================
