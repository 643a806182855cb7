------------------------- MODULE PromptDeliveryProofs -------------------------
(***************************************************************************)
(* Theorems that hold under prompt delivery: every event is delivered at   *)
(* most once and checked before its block is safe, one orchestrator runs   *)
(* (as in main.go), the process is not restarted, and no two events are    *)
(* about one withdrawal.  Then one goroutine alone writes intents, so a    *)
(* snapshot is never stale: the bridge keeps its records consistent and    *)
(* follows the lifecycle.                                                  *)
(***************************************************************************)
EXTENDS ClearingUseCaseProofs

PromptDelivery ==
  /\ MaxDeliveries = 1
  /\ MaxRestarts = 0
  /\ MaxLag < SafeConfirmations
  /\ \A o, p \in Workers : o = p
  /\ \A i, j \in IDs : WithdrawalOf[i] = WithdrawalOf[j] => i = j

-----------------------------------------------------------------------------
(* Snapshots are what is stored.                                            *)

\* An event is stored once, and has an intent, with its block, only once it is Safe.
StoredOnce ==
  \A id \in IDs :
    /\ delivered[id] = 0 => events[id].status = "None"
    /\ events[id].status # "Safe" => intents[id].status = "None"
    /\ intents[id].status # "None" => intents[id].block = events[id].block

\* The listener finds every event unsafe and leaves it to the rechecks.
ListenerWaits ==
  /\ lis.pc # "save"
  /\ lis.pc = "check" => head <= lis.block + MaxLag

\* What a recheck has seen pending still is, but for the event it just promoted.
RecheckFresh ==
  \A o \in Workers : wrk[o].pc \in {"recheck", "create"} =>
    /\ \A id \in IDs : wrk[o].seen[id] # 0 =>
         /\ wrk[o].seen[id] = events[id].block
         /\ intents[id].status = "None"
         /\ wrk[o].pc = "recheck" \/ wrk[o].cur # id => events[id].status = "Pending"
    /\ wrk[o].pc = "create" => /\ wrk[o].seen[wrk[o].cur] # 0
                               /\ events[wrk[o].cur].status = "Safe"

\* The arrows of the lifecycle.
Arrow(s, t) ==
  \/ s = "Safe" /\ t = "Proving"
  \/ s = "Proving" /\ t = "Proven"
  \/ s = "Proven" /\ t = "Finalizable"
  \/ s = "Finalizable" /\ t = "Finalizing"
  \/ s = "Finalizing" /\ t = "Finalized"
  \/ s \in ActiveStatus /\ t = "Failed"

\* A snapshot is what is stored, and a decision follows an arrow from there.
SnapshotFresh ==
  \A o \in Workers : wrk[o].pc \in {"advance", "write"} =>
    /\ \A id \in IDs : wrk[o].snap[id].status # "None" => wrk[o].snap[id] = intents[id]
    /\ wrk[o].pc = "write" => Arrow(wrk[o].snap[wrk[o].cur].status, wrk[o].next)

PromptInv ==
  /\ PromptDelivery /\ TypeOK
  /\ StoredOnce /\ ListenerWaits /\ RecheckFresh /\ SnapshotFresh /\ RecordMatchesStatus

\* The invariant but for the types, which every step keeps.
FreshParts ==
  StoredOnce /\ ListenerWaits /\ RecheckFresh /\ SnapshotFresh /\ RecordMatchesStatus

\* A delivery is the first of its event; the listener finds the block unsafe.
LEMMA ListenerFresh ==
  ASSUME PromptInv, ListenerStep \/ \E id \in IDs, b \in Blocks : Deliver(id, b)
  PROVE  FreshParts'
<1>0. /\ FreshParts /\ PromptDelivery /\ StoresOK /\ ListenerOK /\ WorkersOK
      /\ delivered \in [IDs -> 0 .. MaxDeliveries]
  BY TypeParts DEF PromptInv, FreshParts, CountersOK
<1>1. ASSUME NEW id \in IDs, NEW b \in Blocks, Deliver(id, b) PROVE FreshParts'
  <2>1. UNCHANGED <<head, dropped, intents, wrk>>
    BY <1>1 DEF Deliver, SaveEvent, chainVars
  <2>2. delivered[id] = 0 /\ delivered'[id] = 1
    BY <1>0, <1>1 DEF Deliver, PromptDelivery
  <2>3. \A i \in IDs \ {id} : events'[i] = events[i] /\ delivered'[i] = delivered[i]
    BY <1>0, <1>1 DEF Deliver, SaveEvent, StoresOK
  <2>4. events[id].status = "None" /\ intents[id].status = "None"
    BY <1>0, <2>2 DEF FreshParts, StoredOnce
  <2>5. StoredOnce'
    BY <1>0, <2>1, <2>2, <2>3, <2>4 DEF FreshParts, StoredOnce
  <2>6. ListenerWaits'
    BY <1>1, <2>1 DEF ListenerWaits, Deliver, SaveEvent
  <2>7. RecheckFresh'
    BY <1>0, <2>1, <2>3, <2>4 DEF FreshParts, RecheckFresh, WorkersOK
  <2> QED BY <1>0, <2>1, <2>5, <2>6, <2>7 DEF FreshParts, SnapshotFresh, RecordMatchesStatus
<1>2. CASE IngestUnsafe
  <2>1. UNCHANGED <<head, dropped, events, intents, wrk, delivered>> /\ lis'.pc = "idle"
    BY <1>2 DEF IngestUnsafe, chainVars, storeVars, envVars, IdleListener
  <2> QED BY <1>0, <2>1 DEF FreshParts, StoredOnce, ListenerWaits, RecheckFresh, SnapshotFresh,
                            RecordMatchesStatus
<1>3. ~IngestSafe /\ ~IngestSave
  <2>1. ASSUME IngestSafe PROVE FALSE
    <3>1. /\ head <= lis.block + MaxLag /\ head >= lis.block + SafeConfirmations
          /\ lis.block \in Nat /\ head \in Nat
      BY <1>0, <2>1 DEF FreshParts, ListenerWaits, IngestSafe, IsSafe, ListenerOK, PromptInv,
                        TypeOK, ChainsTypeOK
    <3> QED BY <1>0, <3>1, ClearingAssumption DEF PromptDelivery
  <2> QED BY <1>0, <2>1 DEF FreshParts, ListenerWaits, IngestSave
<1> QED BY <1>1, <1>2, <1>3 DEF ListenerStep

\* advance decides along an arrow, on what is stored.
LEMMA AdvanceFresh ==
  ASSUME PromptInv, NEW o \in Workers, NEW id \in IDs, Advance(o, id)
  PROVE  FreshParts'
<1>0. FreshParts /\ PromptDelivery /\ wrk \in [Workers -> Worker]
  BY DEF PromptInv, FreshParts, TypeOK
<1>1. UNCHANGED <<head, dropped, events, intents, lis, delivered>> /\ wrk[o].pc = "advance"
  BY DEF Advance, AdvanceSafe, AdvanceProving, AdvanceProven, AdvanceNoTimestamp,
         AdvanceFinalizable, AdvanceFinalizing, Advancing, Poll, ProveWithdrawal,
         FinalizeWithdrawal, chainVars, storeVars, envVars
<1>2. \/ Leave(o, id)
      \/ \E s \in IntentStatus : Arrow(wrk[o].snap[id].status, s) /\ Decide(o, id, s)
  BY DEF Advance, AdvanceSafe, AdvanceProving, AdvanceProven, AdvanceNoTimestamp,
         AdvanceFinalizable, AdvanceFinalizing, Advancing, Poll, Arrow, ActiveStatus,
         IntentStatus, Terminal
<1>3. SnapshotFresh'
  <2>1. CASE Leave(o, id)
    <3>1. wrk'[o].pc = "advance" /\ wrk'[o].snap = [wrk[o].snap EXCEPT ![id] = NoIntent]
      BY <1>0, <1>1, <2>1 DEF Leave, Worker
    <3>2. \A i \in IDs : wrk'[o].snap[i] \in {wrk[o].snap[i], NoIntent}
      BY <1>0, <3>1 DEF Worker
    <3>3. \A i \in IDs : wrk'[o].snap[i].status # "None" => wrk'[o].snap[i] = intents'[i]
      BY <1>0, <1>1, <3>2 DEF FreshParts, SnapshotFresh, NoIntent
    <3> QED BY <1>0, <3>1, <3>3 DEF SnapshotFresh, PromptDelivery
  <2>2. ASSUME NEW s \in IntentStatus, Arrow(wrk[o].snap[id].status, s), Decide(o, id, s)
        PROVE  SnapshotFresh'
    <3>1. /\ wrk'[o].snap = wrk[o].snap /\ wrk'[o].cur = id /\ wrk'[o].next = s
          /\ wrk'[o].pc = "write"
      BY <1>0, <2>2 DEF Decide, Worker
    <3> QED BY <1>0, <1>1, <2>2, <3>1 DEF FreshParts, SnapshotFresh, PromptDelivery
  <2> QED BY <1>2, <2>1, <2>2
<1>4. wrk'[o].pc \in {"advance", "write"}
  BY <1>0, <1>1, <1>2 DEF Leave, Decide, Worker
<1>5. RecheckFresh'
  BY <1>0, <1>4 DEF PromptDelivery, RecheckFresh
<1> QED BY <1>0, <1>1, <1>3, <1>5
        DEF FreshParts, StoredOnce, ListenerWaits, RecordMatchesStatus

\* The other steps of the orchestrator.
LEMMA WorkerFresh ==
  ASSUME PromptInv, NEW o \in Workers, WorkerStep(o)
  PROVE  FreshParts'
<1>0. /\ FreshParts /\ PromptDelivery /\ StoresOK /\ WorkersOK /\ wrk[o] \in Worker
      /\ \A p \in Workers : p = o
  BY TypeParts DEF PromptInv, FreshParts, WorkersOK, PromptDelivery
<1>1. UNCHANGED <<head, dropped, lis, delivered>>
  BY DEF WorkerStep, Tick, RecheckSkip, RecheckPromote, RecheckSave, GetPending, Write, EndTick,
         Advance, AdvanceSafe, AdvanceProving, AdvanceProven, AdvanceNoTimestamp,
         AdvanceFinalizable, AdvanceFinalizing, Poll, ProveWithdrawal, FinalizeWithdrawal,
         chainVars, storeVars, envVars
<1>2. ListenerWaits'
  BY <1>0, <1>1 DEF FreshParts, ListenerWaits
<1>3. ASSUME UNCHANGED storeVars PROVE StoredOnce' /\ RecordMatchesStatus'
  BY <1>0, <1>1, <1>3 DEF FreshParts, StoredOnce, RecordMatchesStatus, storeVars
<1>4. CASE Tick(o)
  <2>1. UNCHANGED storeVars /\ wrk'[o].pc = "recheck" /\ wrk'[o].seen = PendingEvents
    BY <1>0, <1>4 DEF Tick, WorkersOK, Worker
  <2>2. \A i \in IDs : PendingEvents[i] # 0 =>
          PendingEvents[i] = events[i].block /\ events[i].status = "Pending"
    BY DEF PendingEvents
  <2>3. RecheckFresh'
    BY <1>0, <2>1, <2>2 DEF RecheckFresh, FreshParts, StoredOnce, storeVars
  <2>4. SnapshotFresh'
    BY <1>0, <2>1 DEF SnapshotFresh
  <2> QED BY <1>2, <1>3, <2>1, <2>3, <2>4 DEF FreshParts
<1>5. ASSUME NEW id \in IDs, RecheckSkip(o, id) PROVE FreshParts'
  <2>1. /\ UNCHANGED storeVars /\ wrk'[o].pc = "recheck" /\ wrk[o].pc = "recheck"
        /\ \A i \in IDs : wrk'[o].seen[i] \in {wrk[o].seen[i], 0}
    BY <1>0, <1>5 DEF RecheckSkip, WorkersOK, Worker
  <2>2. RecheckFresh'
    BY <1>0, <2>1 DEF RecheckFresh, FreshParts, storeVars
  <2>3. SnapshotFresh'
    BY <1>0, <2>1 DEF SnapshotFresh
  <2> QED BY <1>2, <1>3, <2>1, <2>2, <2>3 DEF FreshParts
<1>6. ASSUME NEW id \in IDs, RecheckPromote(o, id) PROVE FreshParts'
  <2>1. /\ wrk[o].pc = "recheck" /\ wrk'[o].pc = "create" /\ wrk'[o].seen = wrk[o].seen
        /\ wrk'[o].cur = id /\ wrk[o].seen[id] # 0
    BY <1>0, <1>6 DEF RecheckPromote, WorkersOK, Worker
  <2>2. /\ intents' = intents /\ events'[id].status = "Safe"
        /\ events'[id].block = events[id].block
        /\ \A i \in IDs \ {id} : events'[i] = events[i]
    BY <1>0, <1>6 DEF RecheckPromote, StoresOK, Event
  <2>3. events[id].status = "Pending"
    BY <1>0, <2>1 DEF FreshParts, RecheckFresh
  <2>4. StoredOnce'
    BY <1>0, <1>1, <2>2, <2>3 DEF FreshParts, StoredOnce
  <2>5. RecheckFresh'
    BY <1>0, <2>1, <2>2 DEF FreshParts, RecheckFresh
  <2>6. SnapshotFresh' /\ RecordMatchesStatus'
    BY <1>0, <2>1, <2>2 DEF FreshParts, SnapshotFresh, RecordMatchesStatus
  <2> QED BY <1>2, <2>4, <2>5, <2>6 DEF FreshParts
<1>7. CASE RecheckSave(o)
  <2> DEFINE id == wrk[o].cur
  <2>1. /\ wrk[o].pc = "create" /\ id \in IDs /\ wrk'[o].pc = "recheck"
        /\ wrk'[o].seen = [wrk[o].seen EXCEPT ![id] = 0]
    BY <1>0, <1>7 DEF RecheckSave, WorkersOK, Worker
  <2>2. /\ wrk'[o].seen[id] = 0
        /\ \A i \in IDs \ {id} : wrk'[o].seen[i] = wrk[o].seen[i]
    BY <1>0, <2>1 DEF Worker
  <2>3. /\ events' = events /\ intents'[id] = FreshIntent(wrk[o].seen[id])
        /\ \A i \in IDs \ {id} : intents'[i] = intents[i]
    BY <1>0, <1>7, <2>1 DEF RecheckSave, StoresOK
  <2>4. intents'[id].status = "Safe" /\ intents'[id].block = wrk[o].seen[id]
    BY <2>3 DEF FreshIntent, NoIntent
  <2>5. /\ events[id].status = "Safe" /\ wrk[o].seen[id] = events[id].block
    BY <1>0, <2>1 DEF FreshParts, RecheckFresh
  <2>6. StoredOnce'
    BY <1>0, <1>1, <2>3, <2>4, <2>5 DEF FreshParts, StoredOnce
  <2>7. RecheckFresh'
    <3>1. \A i \in IDs \ {id} : wrk[o].seen[i] # 0 =>
            /\ wrk[o].seen[i] = events[i].block /\ intents[i].status = "None"
            /\ events[i].status = "Pending"
      BY <1>0, <2>1 DEF FreshParts, RecheckFresh
    <3>2. \A i \in IDs : wrk'[o].seen[i] # 0 =>
            /\ wrk'[o].seen[i] = events'[i].block /\ intents'[i].status = "None"
            /\ events'[i].status = "Pending"
      BY <2>2, <2>3, <3>1
    <3> HIDE DEF id
    <3> QED BY <1>0, <2>1, <3>2 DEF RecheckFresh
  <2>8. SnapshotFresh' /\ RecordMatchesStatus'
    BY <1>0, <2>1, <2>3, <2>4 DEF FreshParts, SnapshotFresh, RecordMatchesStatus, OnceProven
  <2> QED BY <1>2, <2>6, <2>7, <2>8 DEF FreshParts
<1>8. CASE GetPending(o)
  <2>1. UNCHANGED storeVars /\ wrk'[o].pc = "advance" /\ wrk'[o].snap = PendingIntents
    BY <1>0, <1>8 DEF GetPending, WorkersOK, Worker
  <2>2. \A i \in IDs : PendingIntents[i].status # "None" => PendingIntents[i] = intents[i]
    BY DEF PendingIntents, NoIntent
  <2>3. SnapshotFresh'
    BY <1>0, <2>1, <2>2 DEF SnapshotFresh, storeVars
  <2>4. RecheckFresh'
    BY <1>0, <2>1 DEF RecheckFresh
  <2> QED BY <1>2, <1>3, <2>1, <2>3, <2>4 DEF FreshParts
<1>9. ASSUME NEW id \in IDs, Advance(o, id) PROVE FreshParts'
  BY <1>9, AdvanceFresh
<1>10. CASE Write(o)
  <2> DEFINE id == wrk[o].cur
             new == Written(intents[id], wrk[o].snap[id], wrk[o].next)
  <2>1. /\ wrk[o].pc = "write" /\ id \in IDs /\ wrk[o].next \in IntentStatus
        /\ intents[id] \in Intent
    BY <1>0, <1>10 DEF Write, WorkersOK, StoresOK, Worker
  <2>2. /\ events' = events /\ intents'[id] = new
        /\ \A i \in IDs \ {id} : intents'[i] = intents[i]
    BY <1>0, <1>10, <2>1 DEF Write, StoresOK
  <2>3. /\ wrk'[o].pc = "advance" /\ wrk'[o].snap[id] = NoIntent
        /\ \A i \in IDs \ {id} : wrk'[o].snap[i] = wrk[o].snap[i]
    BY <1>0, <1>10, <2>1 DEF Write, WorkersOK, Worker
  <2>4. Arrow(wrk[o].snap[id].status, wrk[o].next)
    BY <1>0, <2>1 DEF FreshParts, SnapshotFresh
  <2>5. wrk[o].snap[id] = intents[id]
    BY <1>0, <2>1, <2>4 DEF FreshParts, SnapshotFresh, Arrow, ActiveStatus
  <2>6. new.status = wrk[o].next /\ new.block = intents[id].block
    BY <2>1, <2>5, WrittenType, WrittenBlock
  <2>7. Arrow(intents[id].status, new.status)
    BY <2>4, <2>5, <2>6
  <2>8. StoredOnce'
    BY <1>0, <1>1, <2>2, <2>6, <2>7 DEF FreshParts, StoredOnce, Arrow, ActiveStatus
  <2>9. /\ new.proveTx = (intents[id].proveTx \/ new.status = "Proving")
        /\ new.finTx = (intents[id].finTx \/ new.status = "Finalizing")
    BY <2>1, <2>5, <2>6 DEF Written, Intent
  <2>10. RecordMatchesStatus'
    BY <1>0, <2>1, <2>2, <2>7, <2>9 DEF FreshParts, RecordMatchesStatus, Arrow, OnceProven
  <2>11. SnapshotFresh' /\ RecheckFresh'
    BY <1>0, <2>1, <2>2, <2>3 DEF FreshParts, SnapshotFresh, RecheckFresh, NoIntent
  <2> QED BY <1>2, <2>8, <2>10, <2>11 DEF FreshParts
<1>11. CASE EndTick(o)
  <2>1. UNCHANGED storeVars /\ wrk'[o].pc = "idle"
    BY <1>0, <1>11 DEF EndTick, WorkersOK, IdleWorker
  <2>2. SnapshotFresh' /\ RecheckFresh'
    BY <1>0, <2>1 DEF SnapshotFresh, RecheckFresh
  <2> QED BY <1>2, <1>3, <2>1, <2>2 DEF FreshParts
<1> QED BY <1>4, <1>5, <1>6, <1>7, <1>8, <1>9, <1>10, <1>11 DEF WorkerStep

LEMMA PromptStep == PromptInv /\ [Next]_vars => PromptInv'
<1> SUFFICES ASSUME PromptInv, [Next]_vars PROVE PromptInv'
  OBVIOUS
<1>0. FreshParts /\ PromptDelivery /\ TypeOK /\ TypeOK' /\ PromptDelivery'
  BY StepType DEF PromptInv, FreshParts, PromptDelivery
<1>1. ASSUME FreshParts' PROVE PromptInv'
  BY <1>0, <1>1 DEF PromptInv, FreshParts
<1>2. CASE ListenerStep \/ \E id \in IDs, b \in Blocks : Deliver(id, b)
  BY <1>1, <1>2, ListenerFresh
<1>3. ASSUME NEW o \in Workers, WorkerStep(o) PROVE PromptInv'
  BY <1>1, <1>3, WorkerFresh
<1>4. CASE L1Step \/ UNCHANGED vars
  <2>1. UNCHANGED <<head, dropped, events, intents, lis, wrk, delivered>>
    BY <1>4 DEF L1Step, storeVars, envVars, vars, chainVars, L1Next, CreateGame, ResolveGame,
                ProcessTx, IncludeProof, IncludeFinalize, LoseTx, Elapse, L1Reorg
  <2> QED BY <1>0, <1>1, <2>1 DEF FreshParts, StoredOnce, ListenerWaits, RecheckFresh,
                                  SnapshotFresh, RecordMatchesStatus
<1>5. CASE AdvanceHead \/ DropHead
  <2>1. UNCHANGED <<events, intents, lis, wrk, delivered>>
    BY <1>5 DEF AdvanceHead, DropHead, storeVars, envVars
  <2>2. ListenerWaits'
    <3>1. head \in Nat /\ lis.block \in Nat /\ MaxLag \in Nat
      BY <1>0, ClearingAssumption DEF TypeOK, ChainsTypeOK
    <3>2. CASE AdvanceHead
      BY <1>0, <2>1, <3>1, <3>2 DEF AdvanceHead, FreshParts, ListenerWaits
    <3>3. CASE DropHead
      BY <1>0, <2>1, <3>1, <3>3 DEF DropHead, FreshParts, ListenerWaits
    <3> QED BY <1>5, <3>2, <3>3
  <2> QED BY <1>0, <1>1, <2>1, <2>2 DEF FreshParts, StoredOnce, RecheckFresh, SnapshotFresh,
                                        RecordMatchesStatus
<1>6. ~Restart
  BY <1>0 DEF Restart, PromptDelivery, TypeOK
<1> QED BY <1>2, <1>3, <1>4, <1>5, <1>6 DEF Next

LEMMA PromptAlways == PromptDelivery => (Spec => []PromptInv)
<1>1. PromptDelivery /\ Init => PromptInv
  BY InitType DEF Init, PromptInv, StoredOnce, ListenerWaits, RecheckFresh, SnapshotFresh,
       RecordMatchesStatus, NoEvent, NoIntent, IdleListener, IdleWorker, OnceProven
<1> QED BY <1>1, PromptStep, PTL DEF Spec

\* Under prompt delivery an intent that got as far as Proving records its prove
\* transaction, and one that got as far as Finalizing its finalize transaction, although
\* the two store calls that write them differ (clearing.go:158-176, 207-224).
THEOREM RecordAlwaysMatches == PromptDelivery => (Spec => []RecordMatchesStatus)
<1>1. PromptInv => RecordMatchesStatus
  BY DEF PromptInv
<1> QED BY <1>1, PromptAlways, PTL

-----------------------------------------------------------------------------
(* Calls are made once.                                                     *)

\* The worker is about to write the status it decided for an intent.
Writing(id) == \E o \in Workers : wrk[o].pc = "write" /\ wrk[o].cur = id

\* A call was made for a Safe or Finalizable intent just when its result is about to
\* be written, and none is made twice.
CallsMade ==
  \A id \in IDs :
    /\ calls[id].prove <= 1 /\ calls[id].finalize <= 1
    /\ intents[id].status = "None" => calls[id].prove = 0
    /\ intents[id].status = "Safe" => (calls[id].prove = 1 <=> Writing(id))
    /\ intents[id].status \in {"None", "Safe", "Proving", "Proven"} => calls[id].finalize = 0
    /\ intents[id].status = "Finalizable" => (calls[id].finalize = 1 <=> Writing(id))

\* A proof is on its way only for an event ProveWithdrawal was called for.
AskedFor(w) == \A id \in IDs : WithdrawalOf[id] = w => calls[id].prove = 1
MempoolAsked ==
  \A i \in DOMAIN mempool : mempool[i].kind = "prove" => AskedFor(mempool[i].w)

LifecycleInv == PromptInv /\ BackedInv /\ CallsMade /\ MempoolAsked

\* What each step of the orchestrator does to intents and calls: createIntent's second
\* store call makes an intent where there was none ...
LEMMA SaveCreates ==
  ASSUME PromptInv, NEW o \in Workers, RecheckSave(o)
  PROVE  /\ wrk[o].cur \in IDs /\ intents[wrk[o].cur].status = "None"
         /\ intents'[wrk[o].cur].status = "Safe"
         /\ \A i \in IDs \ {wrk[o].cur} : intents'[i] = intents[i]
         /\ wrk'[o].pc = "recheck"
         /\ UNCHANGED <<calls, mempool, accepted, matured>>
<1>1. wrk[o].cur \in IDs /\ StoresOK /\ wrk \in [Workers -> Worker] /\ wrk[o].pc = "create"
  BY TypeParts DEF PromptInv, RecheckSave, WorkersOK
<1>2. intents[wrk[o].cur].status = "None"
  BY <1>1 DEF PromptInv, RecheckFresh
<1>3. wrk'[o].pc = "recheck"
  BY <1>1 DEF RecheckSave, Worker
<1> QED BY <1>1, <1>2, <1>3 DEF RecheckSave, StoresOK, FreshIntent, NoIntent, chainVars

\* ... the store call that ends advance moves it along an arrow ...
LEMMA WriteMoves ==
  ASSUME PromptInv, NEW o \in Workers, Write(o)
  PROVE  /\ wrk[o].pc = "write" /\ wrk[o].cur \in IDs
         /\ Arrow(intents[wrk[o].cur].status, wrk[o].next)
         /\ intents'[wrk[o].cur].status = wrk[o].next
         /\ \A i \in IDs \ {wrk[o].cur} : intents'[i] = intents[i]
         /\ wrk'[o].pc = "advance"
         /\ UNCHANGED <<calls, mempool, accepted, matured>>
<1> DEFINE id == wrk[o].cur
<1>1. id \in IDs /\ StoresOK /\ wrk \in [Workers -> Worker] /\ wrk[o].pc = "write"
  BY TypeParts DEF PromptInv, Write, WorkersOK
<1>2. Arrow(wrk[o].snap[id].status, wrk[o].next)
  BY <1>1 DEF PromptInv, SnapshotFresh
<1>3. wrk[o].snap[id] = intents[id]
  BY <1>1, <1>2 DEF PromptInv, SnapshotFresh, Arrow, ActiveStatus
<1>4. intents[id] \in Intent /\ wrk[o].next \in IntentStatus
  BY <1>1 DEF StoresOK, Worker
<1>5. Written(intents[id], wrk[o].snap[id], wrk[o].next).status = wrk[o].next
  BY <1>3, <1>4, WrittenType
<1>6. wrk'[o].pc = "advance"
  BY <1>1 DEF Write, Worker
<1> QED BY <1>1, <1>2, <1>3, <1>5, <1>6 DEF Write, StoresOK, chainVars

\* ... and each call is the first of its kind.
LEMMA CallsProve ==
  ASSUME LifecycleInv, NEW o \in Workers, NEW id \in IDs, AdvanceSafe(o, id)
  PROVE  /\ intents[id].status = "Safe" /\ calls[id].prove = 0
         /\ calls' = [calls EXCEPT ![id].prove = 1]
         /\ wrk'[o].pc = "write" /\ wrk'[o].cur = id
         /\ UNCHANGED <<intents, accepted, matured>>
<1>1. /\ wrk \in [Workers -> Worker] /\ calls \in [IDs -> [prove : 0 .. 2, finalize : 0 .. 2]]
      /\ wrk[o].pc = "advance" /\ \A p \in Workers : p = o
  BY DEF LifecycleInv, PromptInv, TypeOK, AdvanceSafe, Advancing, PromptDelivery
<1>2. intents[id].status = "Safe"
  BY <1>1 DEF LifecycleInv, PromptInv, SnapshotFresh, AdvanceSafe, Advancing
<1>3. ~Writing(id)
  BY <1>1 DEF Writing
<1>4. calls[id].prove \in 0 .. 2 /\ calls[id].prove <= 1 /\ calls[id].prove # 1
  BY <1>1, <1>2, <1>3 DEF LifecycleInv, CallsMade
<1>5. calls[id].prove = 0 /\ CountUpTo2(calls[id].prove) = 1
  BY <1>4 DEF CountUpTo2
<1>6. wrk'[o].pc = "write" /\ wrk'[o].cur = id
  BY <1>1 DEF AdvanceSafe, Decide, Worker
<1> QED BY <1>2, <1>5, <1>6 DEF AdvanceSafe, ProveWithdrawal, storeVars

LEMMA CallsFinalize ==
  ASSUME LifecycleInv, NEW o \in Workers, NEW id \in IDs, AdvanceFinalizable(o, id)
  PROVE  /\ intents[id].status = "Finalizable" /\ calls[id].finalize = 0
         /\ calls' = [calls EXCEPT ![id].finalize = 1]
         /\ wrk'[o].pc = "write" /\ wrk'[o].cur = id
         /\ UNCHANGED <<intents, accepted, matured>>
<1>1. /\ wrk \in [Workers -> Worker] /\ calls \in [IDs -> [prove : 0 .. 2, finalize : 0 .. 2]]
      /\ wrk[o].pc = "advance" /\ \A p \in Workers : p = o
  BY DEF LifecycleInv, PromptInv, TypeOK, AdvanceFinalizable, Advancing, PromptDelivery
<1>2. intents[id].status = "Finalizable"
  BY <1>1 DEF LifecycleInv, PromptInv, SnapshotFresh, AdvanceFinalizable, Advancing
<1>3. ~Writing(id)
  BY <1>1 DEF Writing
<1>4. calls[id].finalize \in 0 .. 2 /\ calls[id].finalize <= 1 /\ calls[id].finalize # 1
  BY <1>1, <1>2, <1>3 DEF LifecycleInv, CallsMade
<1>5. calls[id].finalize = 0 /\ CountUpTo2(calls[id].finalize) = 1
  BY <1>4 DEF CountUpTo2
<1>6. wrk'[o].pc = "write" /\ wrk'[o].cur = id
  BY <1>1 DEF AdvanceFinalizable, Decide, Worker
<1> QED BY <1>2, <1>5, <1>6 DEF AdvanceFinalizable, FinalizeWithdrawal, storeVars

\* The polls decide for intents in other statuses and make no call.
Polls(o, id) ==
  AdvanceProving(o, id) \/ AdvanceProven(o, id) \/ AdvanceNoTimestamp(o, id)
    \/ AdvanceFinalizing(o, id)

LEMMA PollsOnly ==
  ASSUME PromptInv, NEW o \in Workers, NEW id \in IDs, Polls(o, id)
  PROVE  /\ intents[id].status \in {"Proving", "Proven", "Finalizing"}
         /\ wrk[o].pc = "advance"
         /\ wrk'[o].pc = "advance" \/ (wrk'[o].pc = "write" /\ wrk'[o].cur = id)
         /\ UNCHANGED <<intents, calls, mempool, accepted, matured>>
<1>1. /\ wrk \in [Workers -> Worker] /\ wrk[o].pc = "advance"
      /\ wrk[o].snap[id].status \in {"Proving", "Proven", "Finalizing"}
  BY DEF PromptInv, TypeOK, Polls, AdvanceProving, AdvanceProven, AdvanceNoTimestamp,
         AdvanceFinalizing, Advancing
<1>2. intents[id] = wrk[o].snap[id]
  BY <1>1 DEF PromptInv, SnapshotFresh
<1>3. Leave(o, id) \/ \E s \in IntentStatus : Decide(o, id, s)
  BY DEF Polls, AdvanceProving, AdvanceProven, AdvanceNoTimestamp, AdvanceFinalizing, Poll,
         IntentStatus, ActiveStatus, Terminal
<1>4. wrk'[o].pc = "advance" \/ (wrk'[o].pc = "write" /\ wrk'[o].cur = id)
  BY <1>1, <1>3 DEF Leave, Decide, Worker
<1>5. UNCHANGED <<chainVars, storeVars, calls>>
  BY DEF Polls, AdvanceProving, AdvanceProven, AdvanceNoTimestamp, AdvanceFinalizing, Poll
<1> QED BY <1>1, <1>2, <1>4, <1>5 DEF chainVars, storeVars

\* The steps of the orchestrator that touch neither an intent nor a call.
Quiet(o) ==
  \/ Tick(o) \/ GetPending(o) \/ EndTick(o)
  \/ \E id \in IDs : RecheckSkip(o, id) \/ RecheckPromote(o, id)

LEMMA QuietOnly ==
  ASSUME PromptInv, NEW o \in Workers, Quiet(o)
  PROVE  /\ wrk[o].pc # "write" /\ wrk'[o].pc # "write"
         /\ UNCHANGED <<intents, calls, mempool, accepted, matured>>
<1>1. wrk \in [Workers -> Worker]
  BY DEF PromptInv, TypeOK
<1> QED BY <1>1 DEF Quiet, Tick, GetPending, EndTick, RecheckSkip, RecheckPromote, Worker,
                    IdleWorker, chainVars, storeVars

LEMMA WorkerSteps ==
  ASSUME NEW o \in Workers, WorkerStep(o)
  PROVE  \/ Quiet(o) \/ RecheckSave(o) \/ Write(o)
         \/ \E id \in IDs : AdvanceSafe(o, id) \/ AdvanceFinalizable(o, id) \/ Polls(o, id)
  BY DEF WorkerStep, Quiet, Advance, Polls

\* A send adds one transaction to the mempool.
LEMMA SendAdds ==
  ASSUME mempool \in Seq(Tx), NEW kind, NEW w, NEW g, sendL1Transaction(kind, w, g)
  PROVE  \A i \in DOMAIN mempool' :
           \/ i \in DOMAIN mempool /\ mempool'[i] = mempool[i]
           \/ mempool'[i] = [kind |-> kind, w |-> w, game |-> g]
  BY DEF sendL1Transaction

\* Every step of the orchestrator keeps the account of its calls.
LEMMA WorkerCalls ==
  ASSUME LifecycleInv, NEW o \in Workers, WorkerStep(o)
  PROVE  CallsMade' /\ MempoolAsked'
<1>0. /\ PromptInv /\ CallsMade /\ MempoolAsked /\ \A p \in Workers : p = o
      /\ calls \in [IDs -> [prove : 0 .. 2, finalize : 0 .. 2]]
      /\ mempool \in Seq(Tx) /\ StoresOK
  BY TypeParts DEF LifecycleInv, PromptInv, PromptDelivery, TypeOK, ChainsTypeOK
<1>1. ASSUME UNCHANGED <<calls, mempool>> PROVE MempoolAsked'
  BY <1>0, <1>1 DEF MempoolAsked, AskedFor
<1>2. CASE Quiet(o)
  <2>1. /\ wrk[o].pc # "write" /\ wrk'[o].pc # "write" /\ UNCHANGED <<intents, calls, mempool>>
    BY <1>0, <1>2, QuietOnly
  <2>2. \A i \in IDs : ~Writing(i) /\ ~Writing(i)'
    BY <1>0, <2>1 DEF Writing
  <2> QED BY <1>0, <1>1, <2>1, <2>2 DEF CallsMade
<1>3. CASE RecheckSave(o)
  <2> DEFINE id == wrk[o].cur
  <2>1. /\ id \in IDs /\ intents[id].status = "None" /\ intents'[id].status = "Safe"
        /\ \A i \in IDs \ {id} : intents'[i] = intents[i]
        /\ wrk'[o].pc = "recheck" /\ UNCHANGED <<calls, mempool>>
    BY <1>0, <1>3, SaveCreates
  <2>2. wrk[o].pc = "create"
    BY <1>3 DEF RecheckSave
  <2>3. \A i \in IDs : ~Writing(i) /\ ~Writing(i)'
    BY <1>0, <2>1, <2>2 DEF Writing
  <2>4. CallsMade'
    BY <1>0, <2>1, <2>3 DEF CallsMade
  <2> QED BY <1>1, <2>1, <2>4
<1>4. CASE Write(o)
  <2> DEFINE id == wrk[o].cur
  <2>1. /\ wrk[o].pc = "write" /\ id \in IDs /\ Arrow(intents[id].status, intents'[id].status)
        /\ \A i \in IDs \ {id} : intents'[i] = intents[i]
        /\ wrk'[o].pc = "advance" /\ UNCHANGED <<calls, mempool>>
    BY <1>0, <1>4, WriteMoves
  <2>2. \A i \in IDs : ~Writing(i)' /\ (Writing(i) => i = id)
    BY <1>0, <2>1 DEF Writing
  <2>3. CallsMade'
    BY <1>0, <2>1, <2>2 DEF CallsMade, Arrow
  <2> QED BY <1>1, <2>1, <2>3
<1>5. ASSUME NEW id \in IDs, Polls(o, id) PROVE CallsMade' /\ MempoolAsked'
  <2>1. /\ intents[id].status \in {"Proving", "Proven", "Finalizing"} /\ wrk[o].pc = "advance"
        /\ wrk'[o].pc = "advance" \/ (wrk'[o].pc = "write" /\ wrk'[o].cur = id)
        /\ UNCHANGED <<intents, calls, mempool>>
    BY <1>0, <1>5, PollsOnly
  <2>2. \A i \in IDs : ~Writing(i) /\ (Writing(i)' => i = id)
    BY <1>0, <2>1 DEF Writing
  <2> QED BY <1>0, <1>1, <2>1, <2>2 DEF CallsMade
<1>6. ASSUME NEW id \in IDs, AdvanceSafe(o, id) PROVE CallsMade' /\ MempoolAsked'
  <2>1. /\ intents[id].status = "Safe" /\ calls[id].prove = 0
        /\ calls' = [calls EXCEPT ![id].prove = 1]
        /\ wrk'[o].pc = "write" /\ wrk'[o].cur = id /\ intents' = intents
    BY <1>6, CallsProve
  <2>2. /\ calls'[id].prove = 1 /\ calls'[id].finalize = calls[id].finalize
        /\ \A i \in IDs \ {id} : calls'[i] = calls[i]
    BY <1>0, <2>1
  <2>3. \A i \in IDs : ~Writing(i) /\ (Writing(i)' <=> i = id)
    BY <1>0, <1>6, <2>1 DEF Writing, AdvanceSafe, Advancing
  <2>4. CallsMade'
    BY <1>0, <2>1, <2>2, <2>3 DEF CallsMade
  <2>5. \A i \in DOMAIN mempool' :
          \/ i \in DOMAIN mempool /\ mempool'[i] = mempool[i]
          \/ mempool'[i].w = WithdrawalOf[id]
    <3>1. mempool' = mempool \/ \E g : sendL1Transaction("prove", WithdrawalOf[id], g)
      BY <1>6 DEF AdvanceSafe, ProveWithdrawal
    <3> QED BY <1>0, <3>1, SendAdds
  <2>6. AskedFor(WithdrawalOf[id])' /\ \A w : AskedFor(w) => AskedFor(w)'
    BY <1>0, <2>2 DEF AskedFor, PromptInv, PromptDelivery
  <2>7. MempoolAsked'
    BY <1>0, <2>5, <2>6 DEF MempoolAsked
  <2> QED BY <2>4, <2>7
<1>7. ASSUME NEW id \in IDs, AdvanceFinalizable(o, id) PROVE CallsMade' /\ MempoolAsked'
  <2>1. /\ intents[id].status = "Finalizable" /\ calls[id].finalize = 0
        /\ calls' = [calls EXCEPT ![id].finalize = 1]
        /\ wrk'[o].pc = "write" /\ wrk'[o].cur = id /\ intents' = intents
    BY <1>7, CallsFinalize
  <2>2. /\ calls'[id].finalize = 1 /\ calls'[id].prove = calls[id].prove
        /\ \A i \in IDs \ {id} : calls'[i] = calls[i]
    BY <1>0, <2>1
  <2>3. \A i \in IDs : ~Writing(i) /\ (Writing(i)' <=> i = id)
    BY <1>0, <1>7, <2>1 DEF Writing, AdvanceFinalizable, Advancing
  <2>4. CallsMade'
    BY <1>0, <2>1, <2>2, <2>3 DEF CallsMade
  <2>5. \A i \in DOMAIN mempool' :
          \/ i \in DOMAIN mempool /\ mempool'[i] = mempool[i]
          \/ mempool'[i].kind = "finalize"
    <3>1. mempool' = mempool \/ sendL1Transaction("finalize", WithdrawalOf[id], 0)
      BY <1>7 DEF AdvanceFinalizable, FinalizeWithdrawal
    <3> QED BY <1>0, <3>1, SendAdds
  <2>6. \A w : AskedFor(w) => AskedFor(w)'
    BY <2>2 DEF AskedFor
  <2>7. MempoolAsked'
    BY <1>0, <2>5, <2>6 DEF MempoolAsked
  <2> QED BY <2>4, <2>7
<1> QED BY <1>2, <1>3, <1>4, <1>5, <1>6, <1>7, WorkerSteps

LEMMA LifecycleInvStep == LifecycleInv /\ [Next]_vars => LifecycleInv'
<1> SUFFICES ASSUME LifecycleInv, [Next]_vars PROVE LifecycleInv'
  OBVIOUS
<1>0. PromptInv /\ PromptInv' /\ BackedInv' /\ CallsMade /\ MempoolAsked /\ mempool \in Seq(Tx)
  BY PromptStep, BackedStep DEF LifecycleInv, PromptInv, TypeOK, ChainsTypeOK
<1>1. ASSUME NEW o \in Workers, WorkerStep(o) PROVE LifecycleInv'
  BY <1>0, <1>1, WorkerCalls DEF LifecycleInv
<1>2. ASSUME UNCHANGED <<intents, wrk, calls>> PROVE CallsMade'
  BY <1>0, <1>2 DEF CallsMade, Writing
<1>3. CASE L1Step
  <2>1. UNCHANGED <<intents, wrk, calls>>
    BY <1>3 DEF L1Step, storeVars
  <2>2. mempool' = mempool \/ (mempool # <<>> /\ mempool' = Tail(mempool))
    BY <1>3 DEF L1Step, L1Next, CreateGame, ResolveGame, ProcessTx, IncludeProof,
                IncludeFinalize, LoseTx, Elapse, L1Reorg
  <2>3. \A i \in DOMAIN mempool' : \E j \in DOMAIN mempool : mempool'[i] = mempool[j]
    <3>1. ASSUME mempool # <<>>, NEW i \in DOMAIN Tail(mempool)
          PROVE  i + 1 \in DOMAIN mempool /\ Tail(mempool)[i] = mempool[i + 1]
      BY <1>0, <3>1
    <3> QED BY <2>2, <3>1
  <2>4. MempoolAsked'
    BY <1>0, <2>1, <2>3 DEF MempoolAsked, AskedFor
  <2> QED BY <1>0, <1>2, <2>1, <2>4 DEF LifecycleInv
<1>4. CASE \/ ListenerStep \/ AdvanceHead \/ DropHead \/ UNCHANGED vars
           \/ \E id \in IDs, b \in Blocks : Deliver(id, b)
  <2>1. UNCHANGED <<wrk, calls, mempool>>
    BY <1>4 DEF ListenerStep, IngestUnsafe, IngestSafe, IngestSave, Deliver, SaveEvent,
                AdvanceHead, DropHead, vars, chainVars
  <2>2. intents' = intents
    BY <1>0, <1>4 DEF PromptInv, ListenerWaits, ListenerStep, IngestUnsafe, IngestSafe,
                      IngestSave, Deliver, SaveEvent, AdvanceHead, DropHead, vars, storeVars
  <2>3. MempoolAsked'
    BY <1>0, <2>1 DEF MempoolAsked, AskedFor
  <2> QED BY <1>0, <1>2, <2>1, <2>2, <2>3 DEF LifecycleInv
<1>5. ~Restart
  BY <1>0 DEF Restart, PromptInv, PromptDelivery, TypeOK
<1> QED BY <1>1, <1>3, <1>4, <1>5 DEF Next

LEMMA LifecycleInvAlways == PromptDelivery => (Spec => []LifecycleInv)
<1>1. Init => CallsMade /\ MempoolAsked
  BY DEF Init, ChainsInit, CallsMade, MempoolAsked, NoIntent, IdleWorker, Writing
<1>2. PromptInv /\ BackedInv /\ CallsMade /\ MempoolAsked => LifecycleInv
  BY DEF LifecycleInv
<1> QED BY <1>1, <1>2, PromptAlways, BackedAlways, LifecycleInvStep, PTL DEF Spec

-----------------------------------------------------------------------------
(* The refinement: every step of the bridge is a step of the lifecycle of   *)
(* one withdrawal, or none.                                                 *)

\* Nothing an observer of the lifecycle sees.
Unseen == UNCHANGED <<intents, calls, accepted, matured>>

LEMMA UnseenStutters ==
  ASSUME Unseen
  PROVE  UNCHANGED Lifecycle!abstractVars
  BY DEF Unseen, Lifecycle!abstractVars, L1Grant

\* One intent changing its status is a move of the lifecycle.
LEMMA MoveMaps ==
  ASSUME NEW id \in IDs, UNCHANGED <<calls, accepted, matured>>,
         \A i \in IDs \ {id} : intents'[i] = intents[i],
         NEW from, NEW to, intents[id].status = from, intents'[id].status = to
  PROVE  Lifecycle!Move(id, from, to)
  BY DEF Lifecycle!Move, L1Grant

\* A write is the move the call or the poll before it decided.
LEMMA WriteMaps ==
  ASSUME LifecycleInv, NEW o \in Workers, Write(o)
  PROVE  Lifecycle!Next
<1> DEFINE id == wrk[o].cur
           s == wrk[o].next
<1>1. /\ id \in IDs /\ Arrow(intents[id].status, s) /\ s = intents'[id].status
      /\ \A from, to : intents[id].status = from /\ s = to => Lifecycle!Move(id, from, to)
  BY WriteMoves, MoveMaps DEF LifecycleInv
<1>2. Writing(id) /\ CallsMade /\ Backed(id, s, accepted, matured)
  BY WriteMoves DEF LifecycleInv, Writing, BackedInv, WorkersBacked
<1> HIDE DEF id, s
<1>3. CASE intents[id].status = "Safe" /\ s = "Proving"
  <2>1. calls[id].prove = 1
    BY <1>1, <1>2, <1>3 DEF CallsMade
  <2> QED BY <1>1, <1>3, <2>1 DEF Lifecycle!Next, Lifecycle!Submitted
<1>4. CASE intents[id].status = "Proving" /\ s = "Proven"
  <2>1. L1Grant(WithdrawalOf[id]) # "none"
    BY <1>2, <1>4 DEF Backed, OnceProven, L1Grant
  <2> QED BY <1>1, <1>4, <2>1 DEF Lifecycle!Next, Lifecycle!Confirmed
<1>5. CASE intents[id].status = "Proven" /\ s = "Finalizable"
  <2>1. L1Grant(WithdrawalOf[id]) = "matured"
    BY <1>2, <1>5 DEF Backed, OnceMature, OnceProven, L1Grant
  <2> QED BY <1>1, <1>5, <2>1 DEF Lifecycle!Next, Lifecycle!WindowOver
<1>6. CASE intents[id].status = "Finalizable" /\ s = "Finalizing"
  <2>1. calls[id].finalize = 1
    BY <1>1, <1>2, <1>6 DEF CallsMade
  <2> QED BY <1>1, <1>6, <2>1 DEF Lifecycle!Next, Lifecycle!FinalizeSubmitted
<1>7. CASE intents[id].status = "Finalizing" /\ s = "Finalized"
  BY <1>1, <1>7 DEF Lifecycle!Next, Lifecycle!Settled
<1>8. CASE intents[id].status \in ActiveStatus /\ s = "Failed"
  BY <1>1, <1>8 DEF Lifecycle!Next, Lifecycle!Fail, Lifecycle!Active, ActiveStatus
<1> QED BY <1>1, <1>3, <1>4, <1>5, <1>6, <1>7, <1>8 DEF Arrow

\* L1 adds to what it granted, and only to a withdrawal whose proof was asked for.
LEMMA L1Maps ==
  ASSUME LifecycleInv, L1Step
  PROVE  Lifecycle!L1Moves
<1>1. /\ accepted \subseteq accepted' /\ matured \subseteq matured'
      /\ ChainHistory /\ MempoolAsked /\ mempool \in Seq(Tx)
  BY HistoryKept DEF LifecycleInv, BackedInv, TypeOK, ChainsTypeOK, L1Step
<1>2. UNCHANGED <<intents, calls>>
  BY DEF L1Step, storeVars
<1>3. ASSUME NEW id \in IDs, WithdrawalOf[id] \in accepted' \ accepted
      PROVE  calls[id].prove = 1
  <2>1. IncludeProof /\ WithdrawalOf[id] = Head(mempool).w
    BY <1>3 DEF L1Step, L1Next, CreateGame, ResolveGame, ProcessTx, IncludeProof,
                IncludeFinalize, LoseTx, Elapse, L1Reorg
  <2>2. 1 \in DOMAIN mempool /\ mempool[1] = Head(mempool)
    BY <1>1, <2>1 DEF IncludeProof
  <2> QED BY <1>1, <2>1, <2>2 DEF IncludeProof, ProofAcceptable, MempoolAsked, AskedFor
<1>4. ASSUME NEW id \in IDs, WithdrawalOf[id] \in matured' \ matured
      PROVE  WithdrawalOf[id] \in accepted
  <2>1. Elapse /\ Older(WithdrawalOf[id]).proven /\ WithdrawalOf[id] \in Withdrawals
    BY <1>4, ClearingAssumption
       DEF L1Step, L1Next, CreateGame, ResolveGame, ProcessTx, IncludeProof, IncludeFinalize,
           LoseTx, Elapse, L1Reorg
  <2>2. portal[WithdrawalOf[id]].proven
    BY <2>1 DEF Older, LifecycleInv, BackedInv, TypeOK, ChainsTypeOK, Record
  <2> QED BY <1>1, <2>1, <2>2 DEF ChainHistory
<1> DEFINE l1 == [id \in IDs |-> L1Grant(WithdrawalOf[id])]
<1>5. ASSUME NEW id \in IDs
      PROVE  L1Grant(WithdrawalOf[id])' \in Lifecycle!Granted(id)
  <2> DEFINE w == WithdrawalOf[id]
  <2>1. CASE w \in matured
    BY <1>1, <2>1 DEF L1Grant, Lifecycle!Granted
  <2>2. CASE w \in accepted \ matured
    BY <1>1, <2>2 DEF L1Grant, Lifecycle!Granted
  <2>3. CASE w \notin accepted /\ w \notin matured
    BY <1>3, <1>4, <2>3 DEF L1Grant, Lifecycle!Granted
  <2> QED BY <2>1, <2>2, <2>3
<1> QED BY <1>2, <1>5 DEF Lifecycle!L1Moves

\* What the orchestrator does is one step of the lifecycle, or is not seen there.
LEMMA WorkerMaps ==
  ASSUME LifecycleInv, NEW o \in Workers, WorkerStep(o)
  PROVE  Lifecycle!Next \/ Unseen
<1>1. ASSUME NEW id \in IDs, AdvanceSafe(o, id) PROVE Lifecycle!Next
  <2>1. Lifecycle!CallProve(id)
    BY <1>1, CallsProve DEF Lifecycle!CallProve, L1Grant
  <2> QED BY <2>1 DEF Lifecycle!Next
<1>2. ASSUME NEW id \in IDs, AdvanceFinalizable(o, id) PROVE Lifecycle!Next
  <2>1. Lifecycle!CallFinalize(id)
    BY <1>2, CallsFinalize DEF Lifecycle!CallFinalize, L1Grant
  <2> QED BY <2>1 DEF Lifecycle!Next
<1>3. CASE RecheckSave(o)
  <2>1. wrk[o].cur \in IDs /\ Lifecycle!Move(wrk[o].cur, "None", "Safe")
    BY <1>3, SaveCreates, MoveMaps DEF LifecycleInv
  <2> QED BY <2>1 DEF Lifecycle!Next, Lifecycle!Create
<1>4. ASSUME Quiet(o) \/ \E id \in IDs : Polls(o, id) PROVE Unseen
  BY <1>4, QuietOnly, PollsOnly DEF LifecycleInv, Unseen
<1> QED BY <1>1, <1>2, <1>3, <1>4, WorkerSteps, WriteMaps

LEMMA StepMaps == LifecycleInv /\ [Next]_vars => [Lifecycle!Next]_(Lifecycle!abstractVars)
<1> SUFFICES ASSUME LifecycleInv, [Next]_vars PROVE Lifecycle!Next \/ Unseen
  BY UnseenStutters
<1>1. ASSUME NEW o \in Workers, WorkerStep(o) PROVE Lifecycle!Next \/ Unseen
  BY <1>1, WorkerMaps
<1>2. CASE L1Step
  BY <1>2, L1Maps DEF Lifecycle!Next
<1>3. CASE \/ ListenerStep \/ AdvanceHead \/ DropHead \/ UNCHANGED vars
           \/ \E id \in IDs, b \in Blocks : Deliver(id, b)
  <2>1. ~IngestSave
    BY DEF LifecycleInv, PromptInv, ListenerWaits, IngestSave
  <2> QED BY <1>3, <2>1 DEF ListenerStep, IngestUnsafe, IngestSafe, Deliver, SaveEvent,
                            AdvanceHead, DropHead, vars, chainVars, storeVars, Unseen
<1>4. ~Restart
  BY DEF LifecycleInv, Restart, PromptInv, PromptDelivery, TypeOK
<1> QED BY <1>1, <1>2, <1>3, <1>4 DEF Next

\* Under prompt delivery the bridge implements the lifecycle: an intent moves only along
\* its arrows, each by the one call or poll that stands for it, with one prove call and
\* one finalize call in its life (clearing.go:15-17, 142-228; interfaces.go:34-52).
THEOREM BridgeImplementsLifecycle == PromptDelivery => (Spec => LifecycleSpec)
<1>1. Init => Lifecycle!Init
  BY DEF Init, ChainsInit, Lifecycle!Init, L1Grant, NoIntent
<1> QED
  BY <1>1, StepMaps, LifecycleInvAlways, PTL DEF Spec, LifecycleSpec, Lifecycle!Spec

-----------------------------------------------------------------------------
(* Proofs cover their withdrawals.                                          *)

\* A game covers the block of the event that w was rebuilt from, which was observed.
CoversEvents(g, w) ==
  \A id \in IDs : WithdrawalOf[id] = w =>
    events[id].status # "None" /\ games[g].l2Block >= events[id].block

\* A proof of w against game g is in flight or on the portal.
ProofFor(g, w) ==
  \/ \E i \in DOMAIN mempool :
       mempool[i].kind = "prove" /\ mempool[i].game = g /\ mempool[i].w = w
  \/ portal[w].proven /\ portal[w].game = g

ProofsCover ==
  \A g \in DOMAIN games, w \in Withdrawals : ProofFor(g, w) => CoversEvents(g, w)

CoverInv == PromptInv /\ ProofsInv /\ ProofsCover

\* An event that was observed keeps its block: it is not delivered again.
LEMMA EventsStay ==
  ASSUME PromptInv, [Next]_vars, NEW id \in IDs, events[id].status # "None"
  PROVE  events'[id].status # "None" /\ events'[id].block = events[id].block
<1>0. StoresOK /\ StoredOnce /\ PromptDelivery /\ TypeOK
  BY TypeParts DEF PromptInv
<1>1. CASE events' = events
  BY <1>1
<1>2. ASSUME NEW i \in IDs, events' = [events EXCEPT ![i].status = "Safe"]
      PROVE  events'[id].status # "None" /\ events'[id].block = events[id].block
  BY <1>0, <1>2 DEF StoresOK, Event
<1>3. ASSUME NEW i \in IDs, NEW b \in Blocks, Deliver(i, b) PROVE i # id /\ events'[id] = events[id]
  <2>1. delivered[i] = 0
    BY <1>0, <1>3 DEF Deliver, PromptDelivery, TypeOK
  <2> QED BY <1>0, <1>3, <2>1 DEF StoredOnce, Deliver, SaveEvent, StoresOK
<1>4. ~Restart /\ (IngestSafe => lis.id \in IDs)
  BY <1>0 DEF Restart, PromptDelivery, TypeOK, IngestSafe
<1>5. CASE ListenerStep \/ AdvanceHead \/ DropHead \/ L1Step \/ UNCHANGED vars
  BY <1>1, <1>2, <1>4, <1>5
     DEF ListenerStep, IngestUnsafe, IngestSafe, IngestSave, AdvanceHead, DropHead, L1Step, vars, storeVars
<1>6. ASSUME NEW o \in Workers, WorkerStep(o)
      PROVE  events' = events \/ \E i \in IDs : events' = [events EXCEPT ![i].status = "Safe"]
  BY <1>6 DEF WorkerStep, Tick, RecheckSkip, RecheckPromote, RecheckSave, GetPending, Write,
              EndTick, Advance, AdvanceSafe, AdvanceProving, AdvanceProven, AdvanceNoTimestamp,
              AdvanceFinalizable, AdvanceFinalizing, Poll, storeVars
<1> QED BY <1>1, <1>2, <1>3, <1>4, <1>5, <1>6 DEF Next

\* A game keeps its L2 block.
LEMMA GamesStay ==
  ASSUME ChainsTypeOK, L1Next \/ UNCHANGED games, NEW g \in DOMAIN games
  PROVE  games'[g].l2Block = games[g].l2Block
<1>1. ASSUME NEW b \in 1 .. MaxHead, NEW r \in BOOLEAN, CreateGame(b, r)
      PROVE  games'[g] = games[g]
  BY <1>1 DEF CreateGame, ChainsTypeOK
<1>2. ASSUME NEW h \in DOMAIN games, NEW s \in {"ChallengerWins", "DefenderWins"},
             ResolveGame(h, s)
      PROVE  games'[g].l2Block = games[g].l2Block
  BY <1>2 DEF ResolveGame, ChainsTypeOK, Game
<1> QED BY <1>1, <1>2 DEF L1Next, ProcessTx, IncludeProof, IncludeFinalize, LoseTx, Elapse, L1Reorg

\* A game that covers a withdrawal's event goes on covering it.
LEMMA CoverStays ==
  ASSUME PromptInv, [Next]_vars, L1Next \/ UNCHANGED games,
         NEW g \in DOMAIN games, NEW w, CoversEvents(g, w)
  PROVE  CoversEvents(g, w)'
<1>1. games'[g].l2Block = games[g].l2Block
  BY GamesStay DEF PromptInv, TypeOK
<1> QED BY <1>1, EventsStay DEF CoversEvents

\* ProveWithdrawal searches a game for the block of the event it was called for.
LEMMA SendCovers ==
  ASSUME CoverInv, NEW o \in Workers, NEW id \in IDs, AdvanceSafe(o, id),
         NEW reached, NEW g \in findSuitableGame(wrk[o].snap[id].block, reached)
  PROVE  g \in DOMAIN games /\ CoversEvents(g, WithdrawalOf[id])
<1>1. g \in DOMAIN games /\ games[g].l2Block >= wrk[o].snap[id].block
  BY DEF findSuitableGame, SearchWindow, Suitable
<1>2. intents[id] = wrk[o].snap[id] /\ intents[id].status = "Safe"
  BY DEF CoverInv, PromptInv, SnapshotFresh, AdvanceSafe, Advancing
<1>3. events[id].status = "Safe" /\ intents[id].block = events[id].block
  BY <1>2 DEF CoverInv, PromptInv, StoredOnce
<1> QED BY <1>1, <1>2, <1>3 DEF CoversEvents, CoverInv, PromptInv, PromptDelivery

\* A proof that a step adds was sent for an event, against a game found for its block.
LEMMA ProofsAdded ==
  ASSUME CoverInv, [Next]_vars, NEW g, NEW w \in Withdrawals, ProofFor(g, w)', ~ProofFor(g, w)
  PROVE  g \in DOMAIN games /\ CoversEvents(g, w) /\ UNCHANGED games
<1>1. mempool \in Seq(Tx) /\ portal \in [Withdrawals -> Record]
  BY DEF CoverInv, PromptInv, TypeOK, ChainsTypeOK
<1>2. ASSUME NEW o \in Workers, NEW id \in IDs, AdvanceSafe(o, id)
      PROVE  g \in DOMAIN games /\ CoversEvents(g, w) /\ UNCHANGED games
  <2>1. UNCHANGED <<games, portal>>
    BY <1>2 DEF AdvanceSafe, ProveWithdrawal
  <2>2. PICK reached : \E h \in findSuitableGame(wrk[o].snap[id].block, reached) :
               sendL1Transaction("prove", WithdrawalOf[id], h)
    BY <1>2, <2>1 DEF AdvanceSafe, ProveWithdrawal, ProofFor
  <2>3. PICK h \in findSuitableGame(wrk[o].snap[id].block, reached) :
               sendL1Transaction("prove", WithdrawalOf[id], h)
    BY <2>2
  <2>4. g = h /\ w = WithdrawalOf[id]
    BY <1>1, <2>1, <2>3, SendAdds DEF ProofFor
  <2> QED BY <1>2, <2>1, <2>3, <2>4, SendCovers
<1>3. ASSUME NEW o \in Workers, NEW id \in IDs, AdvanceFinalizable(o, id) PROVE FALSE
  <2>1. UNCHANGED portal /\ (mempool' = mempool
                              \/ sendL1Transaction("finalize", WithdrawalOf[id], 0))
    BY <1>3 DEF AdvanceFinalizable, FinalizeWithdrawal
  <2> QED BY <1>1, <2>1, SendAdds DEF ProofFor
<1>4. CASE L1Step
  <2>1. L1Next
    BY <1>4 DEF L1Step
  <2>2. mempool' = mempool \/ (mempool # <<>> /\ mempool' = Tail(mempool))
    BY <2>1 DEF L1Next, CreateGame, ResolveGame, ProcessTx, IncludeProof, IncludeFinalize,
                LoseTx, Elapse, L1Reorg
  <2>3. \A i \in DOMAIN mempool' : \E j \in DOMAIN mempool : mempool'[i] = mempool[j]
    <3>1. ASSUME mempool # <<>>, NEW i \in DOMAIN Tail(mempool)
          PROVE  i + 1 \in DOMAIN mempool /\ Tail(mempool)[i] = mempool[i + 1]
      BY <1>1, <3>1
    <3> QED BY <2>2, <3>1
  <2>4. portal'[w].proven /\ portal'[w].game = g
    BY <2>3 DEF ProofFor
  <2>5. CASE IncludeProof
    <3>1. 1 \in DOMAIN mempool /\ mempool[1] = Head(mempool)
      BY <1>1, <2>5 DEF IncludeProof
    <3> QED BY <1>1, <2>4, <2>5, <3>1 DEF IncludeProof, ProofAcceptable, ProofFor
  <2>6. CASE IncludeFinalize
    BY <1>1, <2>4, <2>6 DEF IncludeFinalize, Record, ProofFor
  <2>7. CASE Elapse
    BY <1>1, <2>4, <2>7 DEF Elapse, Older, Record, ProofFor
  <2>8. CASE \E v \in Withdrawals : L1Reorg(v)
    BY <1>1, <2>4, <2>8 DEF L1Reorg, Unproven, ProofFor
  <2>9. CASE portal' = portal
    BY <2>4, <2>9 DEF ProofFor
  <2> QED BY <2>1, <2>5, <2>6, <2>7, <2>8, <2>9 
          DEF L1Next, ProcessTx, LoseTx, CreateGame, ResolveGame
<1>5. CASE UNCHANGED <<portal, mempool>>
  BY <1>5 DEF ProofFor
<1>6. CASE \/ ListenerStep \/ AdvanceHead \/ DropHead \/ Restart \/ UNCHANGED vars
           \/ \E id \in IDs, b \in Blocks : Deliver(id, b)
  BY <1>5, <1>6 DEF ListenerStep, IngestUnsafe, IngestSafe, IngestSave, Deliver, SaveEvent,
                    AdvanceHead, DropHead, Restart, vars, chainVars
<1>7. ASSUME NEW o \in Workers, Quiet(o) \/ RecheckSave(o) \/ Write(o)
                                \/ \E id \in IDs : Polls(o, id)
      PROVE  UNCHANGED <<portal, mempool>>
  BY <1>7 DEF Quiet, Tick, GetPending, EndTick, RecheckSkip, RecheckPromote, RecheckSave,
              Write, Polls, AdvanceProving, AdvanceProven, AdvanceNoTimestamp,
              AdvanceFinalizing, Poll, chainVars
<1> QED BY <1>2, <1>3, <1>4, <1>5, <1>6, <1>7, WorkerSteps DEF Next

\* Only L1 changes the games.
LEMMA GamesChange ==
  ASSUME [Next]_vars
  PROVE  L1Next \/ UNCHANGED games
<1>1. ASSUME NEW o \in Workers, WorkerStep(o) PROVE UNCHANGED games
  BY <1>1 DEF WorkerStep, Tick, RecheckSkip, RecheckPromote, RecheckSave, GetPending, Write,
              EndTick, Advance, AdvanceSafe, AdvanceProving, AdvanceProven, AdvanceNoTimestamp,
              AdvanceFinalizable, AdvanceFinalizing, Poll, ProveWithdrawal, FinalizeWithdrawal,
              chainVars
<1> QED BY <1>1 DEF Next, ListenerStep, IngestUnsafe, IngestSafe, IngestSave, Deliver, SaveEvent,
                    AdvanceHead, DropHead, Restart, L1Step, vars, chainVars

LEMMA CoverStep == CoverInv /\ [Next]_vars => CoverInv'
<1> SUFFICES ASSUME CoverInv, [Next]_vars PROVE CoverInv'
  OBVIOUS
<1>0. PromptInv /\ PromptInv' /\ ProofsInv' /\ ProofsCover /\ MempoolWon /\ PortalWon
  BY PromptStep, ProofsStep DEF CoverInv, ProofsInv
<1>1. ASSUME NEW g, NEW w \in Withdrawals, ProofFor(g, w)' PROVE CoversEvents(g, w)'
  <2>1. g \in DOMAIN games /\ CoversEvents(g, w)
    <3>1. CASE ProofFor(g, w)
      <4>1. g \in DOMAIN games
        BY <1>0, <3>1 DEF ProofFor, MempoolWon, PortalWon, Won
      <4> QED BY <1>0, <3>1, <4>1 DEF ProofsCover
    <3> QED BY <1>1, <3>1, ProofsAdded
  <2> QED BY <1>0, <2>1, CoverStays, GamesChange
<1> QED BY <1>0, <1>1 DEF CoverInv, ProofsCover

\* Under prompt delivery every proof, in flight or on the portal, is against a game that
\* covers the block of its withdrawal, whatever became of event, intent and games since
\* (adapter.go:282-289, 453-456).
THEOREM ProofsAlwaysCover == PromptDelivery => (Spec => []ProofCoversWithdrawal)
<1>1. Init => ProofsInv /\ ProofsCover
  BY InitType DEF Init, ChainsInit, ProofsInv, MempoolWon, PortalWon, ProofsCover, ProofFor,
       Unproven
<1>2. PromptInv /\ ProofsInv /\ ProofsCover => CoverInv
  BY DEF CoverInv
<1>3. CoverInv => ProofCoversWithdrawal
  <2> SUFFICES ASSUME CoverInv PROVE ProofCoversWithdrawal
    OBVIOUS
  <2>1. \A g, w : w \in Withdrawals /\ ProofFor(g, w) => CoversEvents(g, w)
    BY DEF CoverInv, ProofsInv, ProofsCover, ProofFor, MempoolWon, PortalWon, Won
  <2>2. \A i \in DOMAIN mempool : mempool[i].w \in Withdrawals
    <3>1. mempool \in Seq(Tx)
      BY DEF CoverInv, PromptInv, TypeOK, ChainsTypeOK
    <3>2. \A i \in DOMAIN mempool : mempool[i] \in Tx
      BY <3>1
    <3> QED BY <3>2 DEF Tx
  <2> QED BY <2>1, <2>2 DEF ProofFor, CoversEvents, ProofCoversWithdrawal
<1> QED BY <1>1, <1>2, <1>3, PromptAlways, CoverStep, PTL DEF Spec
=============================================================================
