-------------------------- MODULE BridgeStoreProofs --------------------------
(***************************************************************************)
(* Proofs about the composed process, for every set of logs, any number of *)
(* orchestrators and all bounds: its types, and that a log the chain holds *)
(* and the feed covers is kept, from the client's channel to the stores.   *)
(* What the use case keeps is taken from the proofs about it, of which UCP *)
(* is the instance that Bridge composes: the names of UC and those of UCP  *)
(* stand for the same formulas, of which Section 1 convinces the provers.  *)
(***************************************************************************)
EXTENDS BridgeProofs

UCP == INSTANCE ClearingUseCaseProofs WITH
  head <- tip, games <- <<>>, mempool <- <<>>, accepted <- {}, matured <- {},
  portal <- [l \in Logs |->
               [proven |-> FALSE, game |-> 0, age |-> 0, finalized |-> FALSE]],
  dropped <- reorgs, reorgs <- 0, delivered <- [l \in IDs |-> 0],
  Withdrawals <- Logs, Passed <- Logs, WithdrawalOf <- [l \in IDs |-> l],
  FinalizationPeriod <- 1, MaxGames <- 0, MaxReorgs <- 0, GameSearchDepth <- 1,
  Wired <- FALSE, Decodes <- FALSE, MaxBlock <- MaxHead, MaxLag <- MaxHead, MaxDeliveries <- 0

-----------------------------------------------------------------------------
(* 1. The instance the process is composed of is the one proved about.      *)

\* The process gives the use case constants that it takes.
LEMMA UseCaseAssumptions ==
  UCP!ChainsAssumption /\ UCP!AdapterAssumption /\ UCP!ClearingAssumption
<1>1. UCP!ChainsAssumption /\ UCP!AdapterAssumption
  BY BaseClientAssumption DEF UCP!ChainsAssumption, UCP!AdapterAssumption
<1>2. UCP!ClearingAssumption
  BY BaseClientAssumption, BridgeAssumption DEF UCP!ClearingAssumption, IDs
<1>3. QED
  BY <1>1, <1>2

LEMMA SameType == UC!TypeOK <=> UCP!TypeOK
BY DEF UC!TypeOK, UCP!TypeOK, UC!ChainsTypeOK, UCP!ChainsTypeOK,
       UC!Event, UCP!Event, UC!EventStatus, UCP!EventStatus, UC!Intent, UCP!Intent,
       UC!IntentStatus, UCP!IntentStatus, UC!ActiveStatus, UCP!ActiveStatus,
       UC!Terminal, UCP!Terminal, UC!Worker, UCP!Worker, UC!Game, UCP!Game,
       UC!GameStatus, UCP!GameStatus, UC!Tx, UCP!Tx, UC!Record, UCP!Record

LEMMA SameInit == UC!Init <=> UCP!Init
BY DEF UC!Init, UCP!Init, UC!ChainsInit, UCP!ChainsInit, UC!Unproven, UCP!Unproven,
       UC!NoEvent, UCP!NoEvent, UC!NoIntent, UCP!NoIntent,
       UC!IdleListener, UCP!IdleListener, UC!IdleWorker, UCP!IdleWorker

LEMMA SameSave == \A id, b : UC!SaveEvent(id, b) <=> UCP!SaveEvent(id, b)
BY DEF UC!SaveEvent, UCP!SaveEvent, UC!chainVars, UCP!chainVars

LEMMA SameListener == UC!ListenerStep <=> UCP!ListenerStep
BY DEF UC!ListenerStep, UCP!ListenerStep, UC!IngestUnsafe, UCP!IngestUnsafe,
       UC!IngestSafe, UCP!IngestSafe, UC!IngestSave, UCP!IngestSave,
       UC!IsSafe, UCP!IsSafe, UC!IdleListener, UCP!IdleListener,
       UC!FreshIntent, UCP!FreshIntent, UC!NoIntent, UCP!NoIntent,
       UC!storeVars, UCP!storeVars, UC!chainVars, UCP!chainVars, UC!envVars, UCP!envVars

LEMMA SameRestart == UC!Restart <=> UCP!Restart
BY DEF UC!Restart, UCP!Restart, UC!NoEvent, UCP!NoEvent, UC!NoIntent, UCP!NoIntent,
       UC!IdleListener, UCP!IdleListener, UC!IdleWorker, UCP!IdleWorker,
       UC!chainVars, UCP!chainVars

LEMMA SameRecheck ==
  ASSUME NEW o \in Workers
  PROVE  /\ UC!Tick(o) <=> UCP!Tick(o)
         /\ \A id : UC!RecheckSkip(o, id) <=> UCP!RecheckSkip(o, id)
         /\ \A id : UC!RecheckPromote(o, id) <=> UCP!RecheckPromote(o, id)
         /\ UC!RecheckSave(o) <=> UCP!RecheckSave(o)
         /\ UC!GetPending(o) <=> UCP!GetPending(o)
         /\ UC!EndTick(o) <=> UCP!EndTick(o)
BY DEF UC!Tick, UCP!Tick, UC!PendingEvents, UCP!PendingEvents,
       UC!RecheckSkip, UCP!RecheckSkip, UC!RecheckPromote, UCP!RecheckPromote,
       UC!IsSafe, UCP!IsSafe, UC!RecheckSave, UCP!RecheckSave,
       UC!FreshIntent, UCP!FreshIntent, UC!NoIntent, UCP!NoIntent,
       UC!GetPending, UCP!GetPending, UC!PendingIntents, UCP!PendingIntents,
       UC!Terminal, UCP!Terminal, UC!EndTick, UCP!EndTick, UC!IdleWorker, UCP!IdleWorker,
       UC!storeVars, UCP!storeVars, UC!chainVars, UCP!chainVars, UC!envVars, UCP!envVars

LEMMA SameWrite ==
  ASSUME NEW o \in Workers
  PROVE  UC!Write(o) <=> UCP!Write(o)
BY DEF UC!Write, UCP!Write, UC!Written, UCP!Written, UC!NoIntent, UCP!NoIntent,
       UC!chainVars, UCP!chainVars, UC!envVars, UCP!envVars

LEMMA SameAdvance ==
  ASSUME NEW o \in Workers, NEW id
  PROVE  UC!Advance(o, id) <=> UCP!Advance(o, id)
BY DEF UC!Advance, UCP!Advance, UC!AdvanceSafe, UCP!AdvanceSafe,
       UC!AdvanceProving, UCP!AdvanceProving, UC!AdvanceProven, UCP!AdvanceProven,
       UC!AdvanceNoTimestamp, UCP!AdvanceNoTimestamp,
       UC!AdvanceFinalizable, UCP!AdvanceFinalizable,
       UC!AdvanceFinalizing, UCP!AdvanceFinalizing,
       UC!Advancing, UCP!Advancing, UC!Poll, UCP!Poll, UC!Decide, UCP!Decide,
       UC!Leave, UCP!Leave, UC!CountUpTo2, UCP!CountUpTo2, UC!NoIntent, UCP!NoIntent,
       UC!ProveWithdrawal, UCP!ProveWithdrawal, UC!FinalizeWithdrawal, UCP!FinalizeWithdrawal,
       UC!findSuitableGame, UCP!findSuitableGame, UC!SearchWindow, UCP!SearchWindow,
       UC!Suitable, UCP!Suitable, UC!Reachable, UCP!Reachable,
       UC!sendL1Transaction, UCP!sendL1Transaction, UC!Answers, UCP!Answers,
       UC!IsProven, UCP!IsProven, UC!IsFinalized, UCP!IsFinalized,
       UC!IsSettled, UCP!IsSettled,
       UC!storeVars, UCP!storeVars, UC!chainVars, UCP!chainVars, UC!envVars, UCP!envVars

LEMMA SameWorker == \A o \in Workers : UC!WorkerStep(o) <=> UCP!WorkerStep(o)
BY SameRecheck, SameWrite, SameAdvance DEF UC!WorkerStep, UCP!WorkerStep

-----------------------------------------------------------------------------
(* 2. What holds in the process: the client's invariant and the use case's, *)
(* and what ties them, that the handler was called with nothing the store   *)
(* does not know.                                                           *)

HandedStored == \A e \in handed : e.log \in IDs /\ events[e.log].status # "None"

ProcessInv == ClientInv /\ UCP!KeptInv /\ HandedStored

LEMMA ProcessInit == ASSUME BridgeInit PROVE ProcessInv
<1>1. ClientInv
  BY ClientInvInit DEF BridgeInit
<1>2. UCP!Init
  BY SameInit DEF BridgeInit
<1>3. UCP!TypeOK
  BY <1>2, UCP!InitType, UseCaseAssumptions
<1>4. UCP!NoLostEvent /\ UCP!SnapshotsReal
  BY <1>2, UCP!EmptyKept, UseCaseAssumptions DEF UCP!Init
<1>5. HandedStored
  BY DEF BridgeInit, Init, HandedStored
<1>6. QED
  BY <1>1, <1>3, <1>4, <1>5 DEF ProcessInv, UCP!KeptInv

\* IngestEvent saves the event before it does anything else, so a log the handler was
\* called with is in the store.
LEMMA IngestKeeps ==
  ASSUME ProcessInv, NEW n \in inbox, Ingest(n)
  PROVE  UCP!KeptInv' /\ HandedStored'
<1>1. ClientInv /\ UCP!KeptInv /\ UCP!TypeOK /\ HandedStored /\ TypeOK
  BY DEF ProcessInv, ClientInv, UCP!KeptInv
<1>2. n.entry.log \in IDs /\ n.entry.block \in 0 .. MaxHead
  <2>1. n.entry \in Entry
    BY <1>1 DEF TypeOK, Notice
  <2>2. n.entry.log \notin Malformed
    BY DEF Ingest, Handle, Ignored
  <2>3. QED
    BY <2>1, <2>2, EntryType, BaseClientAssumption DEF IDs, Heights
<1>3. UCP!SaveEvent(n.entry.log, n.entry.block)
  BY SameSave DEF Ingest
<1>4. UCP!StoresOK' /\ UCP!ListenerOK'
  BY <1>1, <1>2, <1>3, UCP!SaveType, UseCaseAssumptions
<1>5. UCP!TypeOK'
  <2>1. UCP!ChainsTypeOK' /\ UCP!WorkersOK' /\ UCP!CountersOK'
    BY <1>1, <1>3, UCP!TypeParts, UseCaseAssumptions
       DEF UCP!SaveEvent, UCP!ChainsTypeOK, UCP!WorkersOK, UCP!CountersOK, UCP!chainVars
  <2>2. QED
    BY <1>4, <2>1, UCP!TypePartsNext, UseCaseAssumptions
<1>6. UCP!NoLostEvent' /\ UCP!SnapshotsReal'
  BY <1>1, <1>2, <1>3, UCP!ListenerKept, UseCaseAssumptions
<1>7. HandedStored'
  <2>1. events' = [events EXCEPT ![n.entry.log] = [status |-> "Pending", block |-> n.entry.block]]
    BY <1>3 DEF UCP!SaveEvent
  <2>2. events \in [IDs -> UCP!Event]
    BY <1>1 DEF UCP!TypeOK
  <2>3. handed' = handed \union {n.entry}
    BY DEF Ingest, Handle
  <2>4. QED
    BY <1>1, <1>2, <2>1, <2>2, <2>3 DEF HandedStored
<1>8. QED
  BY <1>5, <1>6, <1>7 DEF UCP!KeptInv

LEMMA UseCaseKeeps ==
  ASSUME ProcessInv, UseCaseStep
  PROVE  UCP!KeptInv' /\ HandedStored'
<1>1. UCP!KeptInv /\ UCP!TypeOK /\ HandedStored
  BY DEF ProcessInv, UCP!KeptInv
<1>2. UCP!ListenerStep \/ \E o \in Workers : UCP!WorkerStep(o)
  BY SameListener, SameWorker DEF UseCaseStep
<1>3. UCP!KeptInv'
  BY <1>1, <1>2, UCP!KeptStep, UseCaseAssumptions DEF UCP!Next
<1>4. \A id \in IDs : events[id].status # "None" => events'[id].status # "None"
  BY <1>1, <1>2, UCP!EventStays, UseCaseAssumptions
<1>5. handed' = handed
  BY DEF UseCaseStep, clientVars, runVars
<1>6. HandedStored'
  BY <1>1, <1>4, <1>5 DEF HandedStored
<1>7. QED
  BY <1>3, <1>6

\* A restart empties the stores and starts a new feed.
LEMMA RestartKeeps ==
  ASSUME ProcessInv, ProcessRestart
  PROVE  UCP!KeptInv' /\ HandedStored'
<1>1. UCP!KeptInv' 
  BY SameRestart, UCP!KeptStep, UseCaseAssumptions DEF ProcessRestart, ProcessInv, UCP!Next
<1>2. HandedStored'
  BY DEF ProcessRestart, Restart, HandedStored
<1>3. QED
  BY <1>1, <1>2

\* The other steps are none of the use case's; they may move the head it reads.
LEMMA OthersKeep ==
  ASSUME ProcessInv, TypeOK', L2Moves \/ ClientRuns \/ UNCHANGED vars
  PROVE  UCP!KeptInv' /\ HandedStored'
<1>1. UCP!KeptInv /\ UCP!TypeOK /\ HandedStored
  BY DEF ProcessInv, UCP!KeptInv
<1>2. UNCHANGED <<events, intents, lis, wrk, calls>>
  BY DEF L2Moves, ClientRuns, vars, useCaseVars
<1>3. UNCHANGED <<handed, restarts>>
  <2>1. CASE L2Moves
    BY <2>1 DEF L2Moves, L2Step, Mine, Reorg, runVars
  <2>2. CASE ClientRuns
    BY <2>2 DEF ClientRuns, ClientStep, StartPoll, StartWS, StartFails, Tick, Fetch, FetchFails,
                PassOver, EndPoll, SubscriptionEnds, runVars
  <2>3. CASE UNCHANGED vars
    BY <2>3 DEF vars, clientVars, runVars
  <2>4. QED
    BY <2>1, <2>2, <2>3
<1>4. UCP!TypeOK'
  <2>1. tip' \in 1 .. MaxHead /\ reorgs' \in 0 .. MaxL2Reorgs
    BY DEF TypeOK, Heights
  <2>2. QED
    BY <1>1, <1>2, <1>3, <2>1 DEF UCP!TypeOK, UCP!ChainsTypeOK
<1>5. UCP!NoLostEvent' /\ UCP!SnapshotsReal'
  BY <1>1, <1>2 DEF UCP!KeptInv, UCP!NoLostEvent, UCP!SnapshotsReal
<1>6. HandedStored'
  BY <1>1, <1>2, <1>3 DEF HandedStored
<1>7. QED
  BY <1>4, <1>5, <1>6 DEF UCP!KeptInv

LEMMA ProcessStep == ASSUME ProcessInv, [Next]_vars PROVE ProcessInv'
<1>1. ClientInv' /\ TypeOK'
  BY BridgeStep, ClientInvStep DEF ProcessInv, ClientInv
<1>2. UCP!KeptInv' /\ HandedStored'
  BY <1>1, IngestKeeps, UseCaseKeeps, RestartKeeps, OthersKeep DEF Next
<1>3. QED
  BY <1>1, <1>2 DEF ProcessInv

LEMMA ProcessInvariant == Spec => []ProcessInv
BY ProcessInit, ProcessStep, PTL DEF Spec

-----------------------------------------------------------------------------
(* 3. The theorems.                                                         *)

\* Client, stores, listener and orchestrators keep the types of their state when they
\* run in one process (main.go).
THEOREM BridgeTypesAlways == Spec => []BridgeTypeOK
<1>1. ProcessInv => BridgeTypeOK
  BY SameType DEF ProcessInv, ClientInv, UCP!KeptInv, BridgeTypeOK
<1>2. QED
  BY <1>1, ProcessInvariant, PTL

\* No log of the chain that the feed covers is lost between the client and the stores,
\* at any moment, whatever fails and however the goroutines interleave
\* (client.go:186-226, clearing.go:51-98, 238-254).
THEOREM EveryLogAlwaysKept == Spec => []EveryLogKept
<1>1. ProcessInv => EveryLogKept
  <2> SUFFICES ASSUME ProcessInv, pc \in Running, NEW e \in Entry,
                      OnChain(e), from <= e.block, e.log \notin Malformed,
                      mode = "poll" => e.block < Frontier,
                      e \in handed
               PROVE  Kept(e.log)
    BY DEF EveryLogKept, ProcessInv, ClientInv, NothingSkipped
  <2>1. e.log \in IDs /\ events[e.log].status # "None"
    BY DEF ProcessInv, HandedStored
  <2>2. events[e.log].status \in {"None", "Pending", "Safe"}
    BY <2>1 DEF ProcessInv, UCP!KeptInv, UCP!TypeOK, UCP!Event, UCP!EventStatus
  <2>3. QED
    BY <2>1, <2>2 DEF Kept, ProcessInv, UCP!KeptInv, UCP!NoLostEvent
<1>2. QED
  BY <1>1, ProcessInvariant, PTL
=============================================================================
