--------------------------- MODULE ClearingUseCase ---------------------------
(***************************************************************************)
(* The core of the bridge (internal/usecase/clearing.go) with the two      *)
(* in-memory stores it writes (internal/repo/memory/store.go), and the     *)
(* goroutines that call it: the listener, which ingests the events of one  *)
(* chain client in sequence (internal/listener/listener.go), and the       *)
(* orchestrator, which ticks (internal/clearing/orchestrator.go).  Each    *)
(* store call is atomic, under the store's mutex; whatever a goroutine     *)
(* does between two of them interleaves with the others.                   *)
(*                                                                         *)
(*   events     the EventStore: status and source block of an event        *)
(*   intents    the ClearingStore: status, the copy of the event's block,  *)
(*              whether ProveSubmittedAt / ProveTxHash and FinalizeTxHash  *)
(*              are set.  intents[e] is the intent "intent-<e>"            *)
(*   lis        the listener goroutine                                     *)
(*   wrk        the goroutines running ProcessPending, one per Worker      *)
(*   delivered  how often the chain client delivered each event            *)
(*   restarts   how often the process was restarted                        *)
(*   calls      history: ProveWithdrawal and FinalizeWithdrawal calls made *)
(*              for each intent, counted up to 2                           *)
(***************************************************************************)
EXTENDS BaseAdapter

CONSTANTS
  IDs,                \* event IDs
  NoID,               \* no event
  WithdrawalOf,       \* the withdrawal the adapter rebuilds from an event
  Workers,            \* orchestrators; main.go starts one
  SafeConfirmations,  \* finality configuration of the chain
  MaxBlock,           \* bound: the highest block that holds an event
  MaxLag,             \* bound: blocks between a log and the listener's check of it
  MaxDeliveries,      \* bound: deliveries of one event (more than 1: reorgs)
  MaxRestarts         \* bound: restarts of the process

ASSUME ClearingAssumption ==
  /\ NoID \notin IDs
  /\ WithdrawalOf \in [IDs -> Withdrawals]
  /\ SafeConfirmations \in Nat
  /\ MaxBlock \in Nat \ {0}
  /\ MaxLag \in Nat
  /\ MaxDeliveries \in Nat
  /\ MaxRestarts \in Nat

VARIABLES events, intents, lis, wrk, delivered, restarts, calls

storeVars == <<events, intents>>
envVars == <<delivered, restarts>>
vars == <<chainVars, storeVars, lis, wrk, envVars, calls>>

Blocks == 1 .. MaxBlock

-----------------------------------------------------------------------------
\* Event statuses.  An event is stored Pending and becomes Safe; the rest of the
\* lifecycle is that of the copy inside its intent.
EventStatus == {"None", "Pending", "Safe"}
Terminal == {"Finalized", "Failed"}
ActiveStatus == {"Safe", "Proving", "Proven", "Finalizable", "Finalizing"}
IntentStatus == {"None"} \union ActiveStatus \union Terminal

Event == [status : EventStatus, block : 0 .. MaxBlock]
Intent == [status : IntentStatus, block : 0 .. MaxBlock, proveTx : BOOLEAN, finTx : BOOLEAN]

NoEvent == [status |-> "None", block |-> 0]
NoIntent == [status |-> "None", block |-> 0, proveTx |-> FALSE, finTx |-> FALSE]

FaultyFreshIntent(b) == [NoIntent EXCEPT !.status = "Pending", !.block = b]

FreshIntent(b) == [NoIntent EXCEPT !.status = "Safe", !.block = b]

IdleListener == [pc |-> "idle", id |-> NoID, block |-> 0]
IdleWorker == [pc |-> "idle", seen |-> [id \in IDs |-> 0],
               snap |-> [id \in IDs |-> NoIntent], cur |-> NoID, next |-> "None"]

\* A goroutine in ProcessPending: what is left of its snapshot of pending events
\* (their blocks, 0 for none) and of pending intents, and the intent being written.
Worker == [pc : {"idle", "recheck", "create", "advance", "write"},
           seen : [IDs -> 0 .. MaxBlock], snap : [IDs -> Intent],
           cur : IDs \union {NoID}, next : IntentStatus]

TypeOK ==
  /\ ChainsTypeOK
  /\ events \in [IDs -> Event]
  /\ intents \in [IDs -> Intent]
  /\ lis \in [pc : {"idle", "check", "save"}, id : IDs \union {NoID}, block : 0 .. MaxBlock]
  /\ lis.pc # "idle" => lis.id \in IDs
  /\ wrk \in [Workers -> Worker]
  /\ \A o \in Workers : wrk[o].pc \in {"create", "write"} => wrk[o].cur \in IDs
  /\ delivered \in [IDs -> 0 .. MaxDeliveries]
  /\ restarts \in 0 .. MaxRestarts
  /\ calls \in [IDs -> [prove : 0 .. 2, finalize : 0 .. 2]]

Init ==
  /\ ChainsInit
  /\ events = [id \in IDs |-> NoEvent]
  /\ intents = [id \in IDs |-> NoIntent]
  /\ lis = IdleListener
  /\ wrk = [o \in Workers |-> IdleWorker]
  /\ delivered = [id \in IDs |-> 0]
  /\ restarts = 0
  /\ calls = [id \in IDs |-> [prove |-> 0, finalize |-> 0]]

-----------------------------------------------------------------------------
\* Source-chain finality (internal/finality/checker.go).
FaultyIsSafe(b) == head >= b

IsSafe(b) == head >= b + SafeConfirmations

-----------------------------------------------------------------------------
\* The listener: IngestEvent, from the delivery of a log to its return.

\* A log of block b reaches the handler, which saves the event as Pending.
SaveEvent(id, b) ==
  /\ lis.pc = "idle"
  /\ events' = [events EXCEPT ![id] = [status |-> "Pending", block |-> b]]
  /\ lis' = [pc |-> "check", id |-> id, block |-> b]
  /\ UNCHANGED <<chainVars, intents, wrk, restarts, calls>>

Deliver(id, b) ==
  /\ delivered[id] < MaxDeliveries
  /\ b <= head /\ head <= b + MaxLag
  /\ delivered' = [delivered EXCEPT ![id] = @ + 1]
  /\ SaveEvent(id, b)

\* The block is not safe yet, or the finality check failed: left to the rechecks.
IngestUnsafe ==
  /\ lis.pc = "check"
  /\ ~IsSafe(lis.block) \/ Faulty
  /\ lis' = IdleListener
  /\ UNCHANGED <<chainVars, storeVars, wrk, envVars, calls>>

\* createIntent, its first store call ...
IngestSafe ==
  /\ lis.pc = "check"
  /\ IsSafe(lis.block)
  /\ events' = [events EXCEPT ![lis.id].status = "Safe"]
  /\ lis' = [lis EXCEPT !.pc = "save"]
  /\ UNCHANGED <<chainVars, intents, wrk, envVars, calls>>

\* ... and its second.
IngestSave ==
  /\ lis.pc = "save"
  /\ intents' = [intents EXCEPT ![lis.id] = FreshIntent(lis.block)]
  /\ lis' = IdleListener
  /\ UNCHANGED <<chainVars, events, wrk, envVars, calls>>

ListenerStep == IngestUnsafe \/ IngestSafe \/ IngestSave

-----------------------------------------------------------------------------
\* The orchestrator: one tick is one run of ProcessPending.

\* GetByStatus(Pending), the snapshot RecheckPendingEvents goes through.
FaultyNoRecheck == [id \in IDs |-> 0]
FaultyAnyStatus == [id \in IDs |-> events[id].block]

PendingEvents ==
  [id \in IDs |-> IF events[id].status = "Pending" THEN events[id].block ELSE 0]

Tick(o) ==
  /\ wrk[o].pc = "idle"
  /\ wrk' = [wrk EXCEPT ![o].pc = "recheck", ![o].seen = PendingEvents]
  /\ UNCHANGED <<chainVars, storeVars, lis, envVars, calls>>

RecheckSkip(o, id) ==
  /\ wrk[o].pc = "recheck" /\ wrk[o].seen[id] # 0
  /\ ~IsSafe(wrk[o].seen[id]) \/ Faulty
  /\ wrk' = [wrk EXCEPT ![o].seen[id] = 0]
  /\ UNCHANGED <<chainVars, storeVars, lis, envVars, calls>>

\* createIntent for a pending event: the event becomes Safe ...
RecheckPromote(o, id) ==
  /\ wrk[o].pc = "recheck" /\ wrk[o].seen[id] # 0
  /\ IsSafe(wrk[o].seen[id])
  /\ events' = [events EXCEPT ![id].status = "Safe"]
  /\ wrk' = [wrk EXCEPT ![o].pc = "create", ![o].cur = id]
  /\ UNCHANGED <<chainVars, intents, lis, envVars, calls>>

FaultyRecheckSave(o) ==
  /\ wrk[o].pc = "create"
  /\ intents' \in {intents,
       [intents EXCEPT ![wrk[o].cur] = FreshIntent(wrk[o].seen[wrk[o].cur])]}
  /\ wrk' = [wrk EXCEPT ![o].pc = "recheck", ![o].seen[wrk[o].cur] = 0, ![o].cur = NoID]
  /\ UNCHANGED <<chainVars, events, lis, envVars, calls>>

FaultyRecheckReread(o) ==
  /\ wrk[o].pc = "create"
  /\ intents' = [intents EXCEPT ![wrk[o].cur] = FreshIntent(events[wrk[o].cur].block)]
  /\ wrk' = [wrk EXCEPT ![o].pc = "recheck", ![o].seen[wrk[o].cur] = 0, ![o].cur = NoID]
  /\ UNCHANGED <<chainVars, events, lis, envVars, calls>>

\* ... and a fresh intent replaces whatever is stored under its ID.
RecheckSave(o) ==
  /\ wrk[o].pc = "create"
  /\ intents' = [intents EXCEPT ![wrk[o].cur] = FreshIntent(wrk[o].seen[wrk[o].cur])]
  /\ wrk' = [wrk EXCEPT ![o].pc = "recheck", ![o].seen[wrk[o].cur] = 0, ![o].cur = NoID]
  /\ UNCHANGED <<chainVars, events, lis, envVars, calls>>

-----------------------------------------------------------------------------
\* GetPending: copies of the intents that are not in a terminal status.
FaultyFinalizingIsTerminal ==
  [id \in IDs |-> IF intents[id].status \in Terminal \union {"Finalizing"}
                  THEN NoIntent ELSE intents[id]]

PendingIntents ==
  [id \in IDs |-> IF intents[id].status \in Terminal THEN NoIntent ELSE intents[id]]

GetPending(o) ==
  /\ wrk[o].pc = "recheck"
  /\ \A id \in IDs : wrk[o].seen[id] = 0
  /\ wrk' = [wrk EXCEPT ![o].pc = "advance", ![o].snap = PendingIntents]
  /\ UNCHANGED <<chainVars, storeVars, lis, envVars, calls>>

\* advance, up to the store call that ends it: the status to write is decided from
\* the snapshot's copy of the intent, which may be stale by now.
Advancing(o, id, s) == wrk[o].pc = "advance" /\ wrk[o].snap[id].status = s

Decide(o, id, s) ==
  wrk' = [wrk EXCEPT ![o].pc = "write", ![o].cur = id, ![o].next = s]
Leave(o, id) == wrk' = [wrk EXCEPT ![o].snap[id] = NoIntent]

CountUpTo2(n) == IF n < 2 THEN n + 1 ELSE 2

AdvanceSafe(o, id) ==
  /\ Advancing(o, id, "Safe")
  /\ \E ok \in BOOLEAN :
       /\ ProveWithdrawal(WithdrawalOf[id], wrk[o].snap[id].block, ok)
       /\ Decide(o, id, IF ok THEN "Proving" ELSE "Failed")
  /\ calls' = [calls EXCEPT ![id].prove = CountUpTo2(@)]
  /\ UNCHANGED <<storeVars, lis, envVars>>

\* A poll that leads to status s: yes writes s, no leaves the intent for the next
\* tick, an error fails it.
Poll(o, id, answers, s) ==
  /\ \E a \in answers :
       \/ a = "yes" /\ Decide(o, id, s)
       \/ a = "no" /\ Leave(o, id)
       \/ a = "error" /\ Decide(o, id, "Failed")
  /\ UNCHANGED <<chainVars, storeVars, lis, envVars, calls>>

AdvanceProving(o, id) ==
  /\ Advancing(o, id, "Proving")
  /\ Poll(o, id, IsProven(WithdrawalOf[id]), "Proven")

AdvanceProven(o, id) ==
  /\ Advancing(o, id, "Proven") /\ wrk[o].snap[id].proveTx
  /\ Poll(o, id, IsFinalized(WithdrawalOf[id]), "Finalizable")

\* ProveSubmittedAt is nil for a proven intent.
AdvanceNoTimestamp(o, id) ==
  /\ Advancing(o, id, "Proven") /\ ~wrk[o].snap[id].proveTx
  /\ Decide(o, id, "Failed")
  /\ UNCHANGED <<chainVars, storeVars, lis, envVars, calls>>

AdvanceFinalizable(o, id) ==
  /\ Advancing(o, id, "Finalizable")
  /\ \E ok \in BOOLEAN :
       /\ FinalizeWithdrawal(WithdrawalOf[id], ok)
       /\ Decide(o, id, IF ok THEN "Finalizing" ELSE "Failed")
  /\ calls' = [calls EXCEPT ![id].finalize = CountUpTo2(@)]
  /\ UNCHANGED <<storeVars, lis, envVars>>

AdvanceFinalizing(o, id) ==
  /\ Advancing(o, id, "Finalizing")
  /\ Poll(o, id, IsSettled(WithdrawalOf[id]), "Finalized")

\* The store call that ends advance, or markFailed: UpdateStatus changes the status
\* of what is stored now, Save puts back the snapshot's copy of everything else.
FaultyWritten(stored, copy, s) == [stored EXCEPT !.status = s]

Written(stored, copy, s) ==
  CASE s = "Proving"    -> [copy EXCEPT !.status = s, !.proveTx = TRUE]
    [] s = "Finalizing" -> [copy EXCEPT !.status = s, !.finTx = TRUE]
    [] s = "Failed"     -> [copy EXCEPT !.status = s]
    [] OTHER            -> [stored EXCEPT !.status = s]

Write(o) ==
  /\ wrk[o].pc = "write"
  /\ LET id == wrk[o].cur IN
       /\ intents' = [intents EXCEPT ![id] = Written(@, wrk[o].snap[id], wrk[o].next)]
       /\ wrk' = [wrk EXCEPT ![o] = [@ EXCEPT !.pc = "advance", !.snap[id] = NoIntent,
                                             !.cur = NoID, !.next = "None"]]
  /\ UNCHANGED <<chainVars, events, lis, envVars, calls>>

EndTick(o) ==
  /\ wrk[o].pc = "advance"
  /\ \A id \in IDs : wrk[o].snap[id].status = "None"
  /\ wrk' = [wrk EXCEPT ![o] = IdleWorker]
  /\ UNCHANGED <<chainVars, storeVars, lis, envVars, calls>>

Advance(o, id) ==
  \/ AdvanceSafe(o, id)
  \/ AdvanceProving(o, id)
  \/ AdvanceProven(o, id)
  \/ AdvanceNoTimestamp(o, id)
  \/ AdvanceFinalizable(o, id)
  \/ AdvanceFinalizing(o, id)

WorkerStep(o) ==
  \/ Tick(o)
  \/ \E id \in IDs : RecheckSkip(o, id) \/ RecheckPromote(o, id)
  \/ RecheckSave(o)
  \/ GetPending(o)
  \/ \E id \in IDs : Advance(o, id)
  \/ Write(o)
  \/ EndTick(o)

-----------------------------------------------------------------------------
\* The L2 grows, at most MaxLag blocks past a log the listener is checking.
AdvanceHead ==
  /\ head < MaxHead
  /\ lis.pc = "check" => head < lis.block + MaxLag
  /\ head' = head + 1
  /\ UNCHANGED <<dropped, games, portal, mempool, reorgs, accepted, matured>>
  /\ UNCHANGED <<storeVars, lis, wrk, envVars, calls>>

\* A reorg drops the newest block of the L2, or the node that answers is behind.
DropHead ==
  /\ dropped < MaxL2Reorgs
  /\ head > 1
  /\ head' = head - 1 /\ dropped' = dropped + 1
  /\ UNCHANGED <<games, portal, mempool, reorgs, accepted, matured>>
  /\ UNCHANGED <<storeVars, lis, wrk, envVars, calls>>

\* The process stops anywhere and starts again with empty stores (main.go wires the
\* in-memory ones); the chains, and the transactions already sent, stay.  One of the
\* places is ProveWithdrawal, which panics on a storage proof of several nodes.
Restart ==
  /\ restarts < MaxRestarts
  /\ restarts' = restarts + 1
  /\ events' = [id \in IDs |-> NoEvent]
  /\ intents' = [id \in IDs |-> NoIntent]
  /\ lis' = IdleListener
  /\ wrk' = [o \in Workers |-> IdleWorker]
  /\ UNCHANGED <<chainVars, delivered, calls>>

L1Step == L1Next /\ UNCHANGED <<storeVars, lis, wrk, envVars, calls>>

Next ==
  \/ \E id \in IDs, b \in Blocks : Deliver(id, b)
  \/ ListenerStep
  \/ \E o \in Workers : WorkerStep(o)
  \/ AdvanceHead
  \/ DropHead
  \/ L1Step
  \/ Restart

Spec == Init /\ [][Next]_vars
=============================================================================
