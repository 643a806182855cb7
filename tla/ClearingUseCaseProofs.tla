------------------------ MODULE ClearingUseCaseProofs ------------------------
(***************************************************************************)
(* Theorems of the clearing use case, for any number of events, withdrawals *)
(* and orchestrators and any value of the bounds.                          *)
(***************************************************************************)
EXTENDS ClearingProperties, TLAPS

-----------------------------------------------------------------------------
(* Types of the chains.                                                     *)

\* Taking the head of the mempool leaves transactions.
LEMMA MempoolHead ==
  ASSUME mempool \in Seq(Tx), mempool # <<>>
  PROVE  Head(mempool) \in Tx /\ Tail(mempool) \in Seq(Tx)
  OBVIOUS

\* The chains' own steps keep their type.
LEMMA ChainsType ==
  ASSUME ChainsTypeOK, L1Next
  PROVE  ChainsTypeOK'
<1> USE ChainsAssumption
<1>1. ASSUME NEW b \in 1 .. MaxHead, NEW r \in BOOLEAN, CreateGame(b, r)
      PROVE  ChainsTypeOK'
  <2>1. [l2Block |-> b, respected |-> r, status |-> "InProgress"] \in Game
    BY DEF Game, GameStatus
  <2>2. games' \in Seq(Game) /\ Len(games') <= MaxGames
    BY <1>1, <2>1 DEF CreateGame, ChainsTypeOK
  <2> QED BY <1>1, <2>2 DEF CreateGame, ChainsTypeOK
<1>2. ASSUME NEW g \in DOMAIN games, NEW s \in {"ChallengerWins", "DefenderWins"},
             ResolveGame(g, s)
      PROVE  ChainsTypeOK'
  <2>1. games[g] \in Game
    BY <1>2 DEF ChainsTypeOK
  <2>2. [games[g] EXCEPT !.status = s] \in Game
    BY <2>1 DEF Game, GameStatus
  <2>3. games' \in Seq(Game) /\ Len(games') = Len(games)
    BY <1>2, <2>2 DEF ResolveGame, ChainsTypeOK
  <2> QED BY <1>2, <2>3 DEF ResolveGame, ChainsTypeOK
<1>3. ASSUME IncludeProof PROVE ChainsTypeOK'
  <2>1. Head(mempool) \in Tx /\ Tail(mempool) \in Seq(Tx)
    BY <1>3, MempoolHead DEF IncludeProof, ChainsTypeOK
  <2>2. [proven |-> TRUE, game |-> Head(mempool).game, age |-> 0, finalized |-> FALSE] \in Record
    BY <2>1 DEF Tx, Record
  <2> QED BY <1>3, <2>1, <2>2 DEF IncludeProof, ChainsTypeOK, Tx
<1>4. ASSUME IncludeFinalize PROVE ChainsTypeOK'
  <2>1. Head(mempool) \in Tx /\ Tail(mempool) \in Seq(Tx)
    BY <1>4, MempoolHead DEF IncludeFinalize, ChainsTypeOK
  <2>2. [portal[Head(mempool).w] EXCEPT !.finalized = TRUE] \in Record
    BY <2>1 DEF Tx, Record, ChainsTypeOK
  <2> QED BY <1>4, <2>1, <2>2 DEF IncludeFinalize, ChainsTypeOK
<1>5. ASSUME LoseTx PROVE ChainsTypeOK'
  BY <1>5, MempoolHead DEF LoseTx, ChainsTypeOK
<1>6. ASSUME Elapse PROVE ChainsTypeOK'
  <2>1. ASSUME NEW w \in Withdrawals PROVE Older(w) \in Record
    <3>1. portal[w] \in Record
      BY <2>1 DEF ChainsTypeOK
    <3>2. portal[w].age < FinalizationPeriod => portal[w].age + 1 \in 0 .. FinalizationPeriod
      BY <3>1 DEF Record
    <3>3. portal[w].age < FinalizationPeriod =>
            [portal[w] EXCEPT !.age = portal[w].age + 1] \in Record
      BY <3>1, <3>2 DEF Record
    <3> QED BY <3>1, <3>3 DEF Older
  <2> QED BY <1>6, <2>1 DEF Elapse, ChainsTypeOK
<1>7. ASSUME NEW w \in Withdrawals, L1Reorg(w) PROVE ChainsTypeOK'
  <2>1. Unproven \in Record
    BY DEF Unproven, Record
  <2> QED BY <1>7, <2>1 DEF L1Reorg, ChainsTypeOK
<1> QED
  BY <1>1, <1>2, <1>3, <1>4, <1>5, <1>6, <1>7 DEF L1Next, ProcessTx

\* So do the adapter's two transactions.
LEMMA SendType ==
  ASSUME ChainsTypeOK, NEW w \in Withdrawals, NEW b, NEW ok \in BOOLEAN,
         ProveWithdrawal(w, b, ok) \/ FinalizeWithdrawal(w, ok)
  PROVE  ChainsTypeOK'
<1> USE ChainsAssumption
<1>1. ASSUME NEW reached, NEW g \in findSuitableGame(b, reached),
             sendL1Transaction("prove", w, g)
      PROVE  mempool' \in Seq(Tx)
  <2>1. g \in 0 .. MaxGames
    BY <1>1 DEF findSuitableGame, SearchWindow, ChainsTypeOK
  <2>2. [kind |-> "prove", w |-> w, game |-> g] \in Tx
    BY <2>1 DEF Tx
  <2> QED BY <1>1, <2>2 DEF sendL1Transaction, ChainsTypeOK
<1>2. ASSUME sendL1Transaction("finalize", w, 0)
      PROVE  mempool' \in Seq(Tx)
  <2>1. [kind |-> "finalize", w |-> w, game |-> 0] \in Tx
    BY DEF Tx
  <2> QED BY <1>2, <2>1 DEF sendL1Transaction, ChainsTypeOK
<1>3. mempool' \in Seq(Tx)
  BY <1>1, <1>2 DEF ProveWithdrawal, FinalizeWithdrawal, ChainsTypeOK
<1> QED
  BY <1>3 DEF ProveWithdrawal, FinalizeWithdrawal, ChainsTypeOK

-----------------------------------------------------------------------------
(* Types of the bridge.                                                     *)

\* The parts of TypeOK that a step of the bridge may change.
StoresOK == events \in [IDs -> Event] /\ intents \in [IDs -> Intent]

ListenerOK ==
  /\ lis \in [pc : {"idle", "check", "save"}, id : IDs \union {NoID}, block : 0 .. MaxBlock]
  /\ lis.pc # "idle" => lis.id \in IDs

WorkersOK ==
  /\ wrk \in [Workers -> Worker]
  /\ \A o \in Workers : wrk[o].pc \in {"create", "write"} => wrk[o].cur \in IDs

CountersOK ==
  /\ delivered \in [IDs -> 0 .. MaxDeliveries]
  /\ restarts \in 0 .. MaxRestarts
  /\ calls \in [IDs -> [prove : 0 .. 2, finalize : 0 .. 2]]

\* TypeOK in those parts.
LEMMA TypeParts ==
  TypeOK <=> ChainsTypeOK /\ StoresOK /\ ListenerOK /\ WorkersOK /\ CountersOK
  BY DEF TypeOK, StoresOK, ListenerOK, WorkersOK, CountersOK

LEMMA TypePartsNext ==
  ASSUME ChainsTypeOK', StoresOK', ListenerOK', WorkersOK', CountersOK'
  PROVE  TypeOK'
  BY DEF TypeOK, StoresOK, ListenerOK, WorkersOK, CountersOK

\* The values the actions build are of the types of the variables.
LEMMA ValueTypes ==
  /\ NoEvent \in Event /\ NoIntent \in Intent
  /\ \A b \in 0 .. MaxBlock : FreshIntent(b) \in Intent
  /\ IdleListener \in [pc : {"idle", "check", "save"}, id : IDs \union {NoID}, block : 0 .. MaxBlock]
  /\ IdleWorker \in Worker
<1> USE ClearingAssumption
<1>1. NoEvent \in Event
  BY DEF NoEvent, Event, EventStatus
<1>2. NoIntent \in Intent
  BY DEF NoIntent, Intent, IntentStatus
<1>3. \A b \in 0 .. MaxBlock : FreshIntent(b) \in Intent
  BY DEF FreshIntent, NoIntent, Intent, IntentStatus, ActiveStatus
<1>4. IdleListener \in [pc : {"idle", "check", "save"}, id : IDs \union {NoID}, block : 0 .. MaxBlock]
  BY DEF IdleListener
<1>5. IdleWorker \in Worker
  BY <1>2 DEF IdleWorker, Worker, IntentStatus
<1> QED BY <1>1, <1>2, <1>3, <1>4, <1>5

\* What advance writes is an intent.
LEMMA WrittenType ==
  ASSUME NEW stored \in Intent, NEW copy \in Intent, NEW s \in IntentStatus
  PROVE  Written(stored, copy, s) \in Intent /\ Written(stored, copy, s).status = s
<1>1. CASE s = "Proving"
  BY <1>1 DEF Written, Intent
<1>2. CASE s = "Finalizing"
  BY <1>2 DEF Written, Intent
<1>3. CASE s = "Failed"
  BY <1>3 DEF Written, Intent
<1>4. CASE s \notin {"Proving", "Finalizing", "Failed"}
  BY <1>4 DEF Written, Intent
<1> QED BY <1>1, <1>2, <1>3, <1>4

\* Saving an event keeps the types, whatever its block.
LEMMA SaveType ==
  ASSUME TypeOK, NEW id \in IDs, NEW b \in 0 .. MaxBlock, SaveEvent(id, b)
  PROVE  StoresOK' /\ ListenerOK'
<1>1. [status |-> "Pending", block |-> b] \in Event
  BY DEF Event, EventStatus
<1>2. StoresOK'
  BY <1>1, TypeParts DEF SaveEvent, StoresOK
<1>3. ListenerOK'
  BY DEF SaveEvent, ListenerOK
<1> QED BY <1>2, <1>3

\* Every step of the listener and of the deliveries keeps the types.
LEMMA ListenerType ==
  ASSUME TypeOK, ListenerStep \/ \E id \in IDs, b \in Blocks : Deliver(id, b)
  PROVE  TypeOK'
<1> USE ClearingAssumption, ValueTypes, TypeParts, TypePartsNext
<1>1. ASSUME NEW id \in IDs, NEW b \in Blocks, Deliver(id, b) PROVE TypeOK'
  <2>1. StoresOK' /\ ListenerOK'
    BY <1>1, SaveType DEF Deliver, Blocks
  <2>2. CountersOK'
    BY <1>1 DEF Deliver, SaveEvent, CountersOK
  <2> QED BY <1>1, <2>1, <2>2
          DEF Deliver, SaveEvent, ChainsTypeOK, chainVars, WorkersOK
<1>2. ASSUME IngestUnsafe PROVE TypeOK'
  BY <1>2 DEF IngestUnsafe, IdleListener, StoresOK, ListenerOK, WorkersOK, CountersOK,
              ChainsTypeOK, chainVars, storeVars, envVars
<1>3. ASSUME IngestSafe PROVE TypeOK'
  <2>1. [events[lis.id] EXCEPT !.status = "Safe"] \in Event /\ lis.id \in IDs
    BY <1>3 DEF IngestSafe, ListenerOK, StoresOK, Event, EventStatus
  <2>2. StoresOK'
    BY <1>3, <2>1 DEF IngestSafe, StoresOK
  <2>3. ListenerOK'
    BY <1>3 DEF IngestSafe, ListenerOK
  <2> QED BY <1>3, <2>2, <2>3
          DEF IngestSafe, ChainsTypeOK, chainVars, WorkersOK, CountersOK, envVars
<1>4. ASSUME IngestSave PROVE TypeOK'
  <2>1. FreshIntent(lis.block) \in Intent /\ lis.id \in IDs
    BY <1>4 DEF IngestSave, ListenerOK
  <2>2. StoresOK'
    BY <1>4, <2>1 DEF IngestSave, StoresOK
  <2>3. ListenerOK'
    BY <1>4 DEF IngestSave, ListenerOK, IdleListener
  <2> QED BY <1>4, <2>2, <2>3
          DEF IngestSave, ChainsTypeOK, chainVars, WorkersOK, CountersOK, envVars
<1> QED BY <1>1, <1>2, <1>3, <1>4 DEF ListenerStep

\* The parts that a step of an orchestrator leaves alone.
LEMMA WorkerFrame ==
  ASSUME TypeOK, ChainsTypeOK', StoresOK', WorkersOK', CountersOK', UNCHANGED lis
  PROVE  TypeOK'
  BY TypeParts, TypePartsNext DEF ListenerOK

\* Replacing one worker by another of the type keeps the workers' type.
LEMMA WorkerReplaced ==
  ASSUME WorkersOK, NEW o \in Workers, NEW k \in Worker,
         k.pc \in {"create", "write"} => k.cur \in IDs,
         wrk' = [wrk EXCEPT ![o] = k]
  PROVE  WorkersOK'
  BY DEF WorkersOK

\* advance leaves the stores alone and moves its worker to the write of a status.
LEMMA AdvanceType ==
  ASSUME TypeOK, NEW o \in Workers, NEW id \in IDs, Advance(o, id)
  PROVE  TypeOK'
<1> USE ClearingAssumption, ValueTypes, TypeParts, TypePartsNext
<1>w. wrk[o] \in Worker
  BY DEF WorkersOK
<1>1. ASSUME NEW s \in IntentStatus, Decide(o, id, s) PROVE WorkersOK'
  <2> DEFINE k == [wrk[o] EXCEPT !.pc = "write", !.cur = id, !.next = s]
  <2>1. k \in Worker /\ k.cur = id
    BY <1>w DEF Worker
  <2>2. wrk' = [wrk EXCEPT ![o] = k]
    BY <1>1 DEF Decide, WorkersOK
  <2> QED BY <2>1, <2>2, WorkerReplaced
<1>2. ASSUME Leave(o, id) PROVE WorkersOK'
  <2> DEFINE k == [wrk[o] EXCEPT !.snap[id] = NoIntent]
  <2>1. k \in Worker /\ k.pc = wrk[o].pc /\ k.cur = wrk[o].cur
    BY <1>w DEF Worker
  <2>2. wrk' = [wrk EXCEPT ![o] = k]
    BY <1>2 DEF Leave, WorkersOK
  <2> QED BY <2>1, <2>2, WorkerReplaced DEF WorkersOK
<1>3. ASSUME NEW answers, NEW s \in IntentStatus, Poll(o, id, answers, s) PROVE TypeOK'
  <2>1. WorkersOK'
    BY <1>1, <1>2, <1>3 DEF Poll, IntentStatus, Terminal
  <2> QED BY <1>3, <2>1, WorkerFrame
          DEF Poll, ChainsTypeOK, chainVars, StoresOK, storeVars, CountersOK, envVars
<1>4. CASE AdvanceSafe(o, id)
  <2>1. PICK ok \in BOOLEAN :
          /\ ProveWithdrawal(WithdrawalOf[id], wrk[o].snap[id].block, ok)
          /\ Decide(o, id, IF ok THEN "Proving" ELSE "Failed")
    BY <1>4 DEF AdvanceSafe
  <2>2. ChainsTypeOK'
    BY <2>1, SendType
  <2>3. WorkersOK'
    BY <2>1, <1>1 DEF IntentStatus, ActiveStatus, Terminal
  <2>4. CountersOK'
    BY <1>4 DEF AdvanceSafe, CountersOK, CountUpTo2, envVars
  <2> QED BY <1>4, <2>2, <2>3, <2>4, WorkerFrame DEF AdvanceSafe, StoresOK, storeVars
<1>5. CASE AdvanceFinalizable(o, id)
  <2>1. PICK ok \in BOOLEAN :
          /\ FinalizeWithdrawal(WithdrawalOf[id], ok)
          /\ Decide(o, id, IF ok THEN "Finalizing" ELSE "Failed")
    BY <1>5 DEF AdvanceFinalizable
  <2>2. ChainsTypeOK'
    BY <2>1, SendType
  <2>3. WorkersOK'
    BY <2>1, <1>1 DEF IntentStatus, ActiveStatus, Terminal
  <2>4. CountersOK'
    BY <1>5 DEF AdvanceFinalizable, CountersOK, CountUpTo2, envVars
  <2> QED BY <1>5, <2>2, <2>3, <2>4, WorkerFrame DEF AdvanceFinalizable, StoresOK, storeVars
<1>6. CASE AdvanceNoTimestamp(o, id)
  <2>1. WorkersOK'
    BY <1>6, <1>1 DEF AdvanceNoTimestamp, IntentStatus, Terminal
  <2> QED BY <1>6, <2>1, WorkerFrame
          DEF AdvanceNoTimestamp, ChainsTypeOK, chainVars, StoresOK, storeVars, CountersOK, envVars
<1>7. CASE AdvanceProving(o, id) \/ AdvanceProven(o, id) \/ AdvanceFinalizing(o, id)
  BY <1>7, <1>3 DEF AdvanceProving, AdvanceProven, AdvanceFinalizing, IntentStatus,
                    ActiveStatus, Terminal
<1> QED BY <1>4, <1>5, <1>6, <1>7 DEF Advance

\* Every step of an orchestrator keeps the types.
LEMMA WorkerType ==
  ASSUME TypeOK, NEW o \in Workers, WorkerStep(o)
  PROVE  TypeOK'
<1> USE ClearingAssumption, ValueTypes, TypeParts, TypePartsNext
<1>w. /\ wrk[o] \in Worker
      /\ wrk[o].pc \in {"create", "write"} => wrk[o].cur \in IDs
  BY DEF WorkersOK
<1>1. ASSUME Tick(o) PROVE TypeOK'
  <2>1. PendingEvents \in [IDs -> 0 .. MaxBlock]
    BY DEF PendingEvents, StoresOK, Event
  <2>2. [wrk[o] EXCEPT !.pc = "recheck", !.seen = PendingEvents] \in Worker
    BY <1>w, <2>1 DEF Worker
  <2>3. wrk' = [wrk EXCEPT ![o] = [wrk[o] EXCEPT !.pc = "recheck", !.seen = PendingEvents]]
    BY <1>1 DEF Tick, WorkersOK
  <2>4. WorkersOK'
    BY <2>2, <2>3, WorkerReplaced, <1>w DEF Worker
  <2> QED BY <1>1, <2>4, WorkerFrame
          DEF Tick, ChainsTypeOK, chainVars, StoresOK, storeVars, CountersOK, envVars
<1>2. ASSUME NEW id \in IDs, RecheckSkip(o, id) PROVE TypeOK'
  <2>1. [wrk[o] EXCEPT !.seen[id] = 0] \in Worker
    BY <1>w DEF Worker
  <2>2. wrk' = [wrk EXCEPT ![o] = [wrk[o] EXCEPT !.seen[id] = 0]]
    BY <1>2 DEF RecheckSkip, WorkersOK
  <2>3. [wrk[o] EXCEPT !.seen[id] = 0].pc = "recheck"
    BY <1>2, <1>w DEF RecheckSkip, Worker
  <2>4. WorkersOK'
    BY <2>1, <2>2, <2>3, WorkerReplaced
  <2> QED BY <1>2, <2>4, WorkerFrame
          DEF RecheckSkip, ChainsTypeOK, chainVars, StoresOK, storeVars, CountersOK, envVars
<1>3. ASSUME NEW id \in IDs, RecheckPromote(o, id) PROVE TypeOK'
  <2>1. [wrk[o] EXCEPT !.pc = "create", !.cur = id] \in Worker
    BY <1>w DEF Worker
  <2>2. wrk' = [wrk EXCEPT ![o] = [wrk[o] EXCEPT !.pc = "create", !.cur = id]]
    BY <1>3 DEF RecheckPromote, WorkersOK
  <2>3. [wrk[o] EXCEPT !.pc = "create", !.cur = id].cur = id
    BY <1>w DEF Worker
  <2>4. WorkersOK'
    BY <2>1, <2>2, <2>3, WorkerReplaced
  <2>5. [events[id] EXCEPT !.status = "Safe"] \in Event
    BY DEF StoresOK, Event, EventStatus
  <2>6. StoresOK'
    BY <1>3, <2>5 DEF RecheckPromote, StoresOK
  <2> QED BY <1>3, <2>4, <2>6, WorkerFrame
          DEF RecheckPromote, ChainsTypeOK, chainVars, CountersOK, envVars
<1>4. ASSUME RecheckSave(o) PROVE TypeOK'
  <2> DEFINE id == wrk[o].cur
             k == [wrk[o] EXCEPT !.pc = "recheck", !.seen[id] = 0, !.cur = NoID]
  <2>1. id \in IDs /\ wrk[o].seen[id] \in 0 .. MaxBlock
    BY <1>4, <1>w DEF RecheckSave, Worker
  <2>2. k \in Worker /\ k.pc = "recheck"
    <3>1. [wrk[o].seen EXCEPT ![id] = 0] \in [IDs -> 0 .. MaxBlock]
      BY <1>w, <2>1 DEF Worker
    <3> QED BY <1>w, <3>1 DEF Worker
  <2>3. wrk' = [wrk EXCEPT ![o] = k]
    BY <1>4 DEF RecheckSave, WorkersOK
  <2>4. WorkersOK'
    BY <2>2, <2>3, WorkerReplaced
  <2>5. StoresOK'
    BY <1>4, <2>1 DEF RecheckSave, StoresOK
  <2> QED BY <1>4, <2>4, <2>5, WorkerFrame
          DEF RecheckSave, ChainsTypeOK, chainVars, CountersOK, envVars
<1>5. ASSUME GetPending(o) PROVE TypeOK'
  <2> DEFINE k == [wrk[o] EXCEPT !.pc = "advance", !.snap = PendingIntents]
  <2>1. PendingIntents \in [IDs -> Intent]
    BY DEF PendingIntents, StoresOK
  <2>2. k \in Worker /\ k.pc = "advance"
    BY <1>w, <2>1 DEF Worker
  <2>3. wrk' = [wrk EXCEPT ![o] = k]
    BY <1>5 DEF GetPending, WorkersOK
  <2>4. WorkersOK'
    BY <2>2, <2>3, WorkerReplaced
  <2> QED BY <1>5, <2>4, WorkerFrame
          DEF GetPending, ChainsTypeOK, chainVars, StoresOK, storeVars, CountersOK, envVars
<1>6. ASSUME NEW id \in IDs, Advance(o, id) PROVE TypeOK'
  BY <1>6, <1>w, AdvanceType
<1>7. ASSUME Write(o) PROVE TypeOK'
  <2> DEFINE id == wrk[o].cur
             k == [wrk[o] EXCEPT !.pc = "advance", !.snap[id] = NoIntent,
                                 !.cur = NoID, !.next = "None"]
  <2>1. /\ id \in IDs /\ wrk[o].snap[id] \in Intent
        /\ wrk[o].next \in IntentStatus /\ intents[id] \in Intent
    BY <1>7, <1>w DEF Write, Worker, StoresOK
  <2>2. k \in Worker /\ k.pc = "advance"
    <3>1. [wrk[o].snap EXCEPT ![id] = NoIntent] \in [IDs -> Intent]
      BY <1>w, <2>1 DEF Worker
    <3> QED BY <1>w, <3>1 DEF Worker, IntentStatus
  <2>3. wrk' = [wrk EXCEPT ![o] = k]
    BY <1>7 DEF Write, WorkersOK
  <2>4. WorkersOK'
    BY <2>2, <2>3, WorkerReplaced
  <2>5. Written(intents[id], wrk[o].snap[id], wrk[o].next) \in Intent
    BY <2>1, WrittenType
  <2>6. StoresOK'
    BY <1>7, <2>1, <2>5 DEF Write, StoresOK
  <2> QED BY <1>7, <2>4, <2>6, WorkerFrame
          DEF Write, ChainsTypeOK, chainVars, CountersOK, envVars
<1>8. ASSUME EndTick(o) PROVE TypeOK'
  <2>1. WorkersOK'
    BY <1>8, WorkerReplaced DEF EndTick, IdleWorker
  <2> QED BY <1>8, <2>1, WorkerFrame
          DEF EndTick, ChainsTypeOK, chainVars, StoresOK, storeVars, CountersOK, envVars
<1> QED BY <1>1, <1>2, <1>3, <1>4, <1>5, <1>6, <1>7, <1>8 DEF WorkerStep

LEMMA InitType == Init => TypeOK
<1> SUFFICES ASSUME Init PROVE TypeOK
  OBVIOUS
<1> USE ChainsAssumption, ClearingAssumption, ValueTypes
<1>1. ChainsTypeOK
  <2>1. Unproven \in Record
    BY DEF Unproven, Record
  <2> QED BY <2>1 DEF Init, ChainsInit, ChainsTypeOK
<1>2. StoresOK /\ ListenerOK /\ WorkersOK /\ CountersOK
  BY DEF Init, StoresOK, ListenerOK, IdleListener, WorkersOK, IdleWorker, CountersOK
<1> QED BY <1>1, <1>2, TypeParts

LEMMA StepType == TypeOK /\ [Next]_vars => TypeOK'
<1> SUFFICES ASSUME TypeOK, [Next]_vars PROVE TypeOK'
  OBVIOUS
<1> USE ChainsAssumption, ClearingAssumption, ValueTypes, TypeParts, TypePartsNext
<1>1. CASE AdvanceHead \/ DropHead
  <2>1. head' \in 1 .. MaxHead /\ dropped' \in 0 .. MaxL2Reorgs
    <3>1. head \in 1 .. MaxHead /\ dropped \in 0 .. MaxL2Reorgs
      BY DEF ChainsTypeOK
    <3>2. CASE AdvanceHead
      BY <3>1, <3>2 DEF AdvanceHead
    <3>3. CASE DropHead
      BY <3>1, <3>3 DEF DropHead
    <3> QED BY <1>1, <3>2, <3>3
  <2>2. ChainsTypeOK'
    BY <1>1, <2>1 DEF AdvanceHead, DropHead, ChainsTypeOK
  <2> QED BY <1>1, <2>2
          DEF AdvanceHead, DropHead, StoresOK, storeVars, ListenerOK, WorkersOK, CountersOK, envVars
<1>2. CASE L1Step
  <2>1. ChainsTypeOK'
    BY <1>2, ChainsType DEF L1Step
  <2> QED BY <1>2, <2>1
          DEF L1Step, StoresOK, storeVars, ListenerOK, WorkersOK, CountersOK, envVars
<1>3. CASE Restart
  <2>1. StoresOK'
    BY <1>3 DEF Restart, StoresOK
  <2>2. ListenerOK'
    BY <1>3 DEF Restart, ListenerOK, IdleListener
  <2>3. WorkersOK'
    BY <1>3 DEF Restart, WorkersOK, IdleWorker
  <2>4. CountersOK'
    BY <1>3 DEF Restart, CountersOK
  <2>5. ChainsTypeOK'
    BY <1>3 DEF Restart, ChainsTypeOK, chainVars
  <2> QED BY <2>1, <2>2, <2>3, <2>4, <2>5
<1>4. CASE UNCHANGED vars
  BY <1>4 DEF vars, ChainsTypeOK, chainVars, StoresOK, storeVars, ListenerOK, WorkersOK,
              CountersOK, envVars
<1> QED BY <1>1, <1>2, <1>3, <1>4, ListenerType, WorkerType DEF Next

\* Every variable keeps its type: statuses, snapshots and program counters of the
\* goroutines, and every transaction and portal record on L1 (clearing.go, store.go).
THEOREM TypeCorrect == Spec => []TypeOK
  BY InitType, StepType, PTL DEF Spec

-----------------------------------------------------------------------------
(* Statuses are backed by L1.                                               *)
(* ProvenIsReal and FinalizeAfterWindow are not inductive: a goroutine      *)
(* holds a status it decided earlier, or a snapshot it will save, so these  *)
(* must be backed too; and the answers of the polls must be tied to the     *)
(* history of the portal.                                                   *)

\* Status s of intent id is backed by what L1 accepted and saw mature.
Backed(id, s, acc, mat) ==
  /\ s \in OnceProven => WithdrawalOf[id] \in acc
  /\ s \in OnceMature => WithdrawalOf[id] \in mat

\* The portal's records agree with its history.
ChainHistory ==
  \A w \in Withdrawals : portal[w].proven =>
    /\ w \in accepted
    /\ portal[w].age = FinalizationPeriod => w \in matured

IntentsBacked ==
  \A id \in IDs : /\ Backed(id, intents[id].status, accepted, matured)
                  /\ calls[id].finalize > 0 => WithdrawalOf[id] \in matured

WorkersBacked ==
  \A o \in Workers :
    /\ \A id \in IDs : Backed(id, wrk[o].snap[id].status, accepted, matured)
    /\ wrk[o].pc = "write" => Backed(wrk[o].cur, wrk[o].next, accepted, matured)

BackedInv == TypeOK /\ ChainHistory /\ IntentsBacked /\ WorkersBacked

\* What backs a status is never lost.
LEMMA BackedGrows ==
  ASSUME NEW id, NEW s, accepted \subseteq accepted', matured \subseteq matured',
         Backed(id, s, accepted, matured)
  PROVE  Backed(id, s, accepted', matured')
  BY DEF Backed

\* Steps of the chains keep the portal in agreement with its history.
LEMMA HistoryKept ==
  ASSUME ChainsTypeOK, ChainHistory, L1Next
  PROVE  ChainHistory' /\ accepted \subseteq accepted' /\ matured \subseteq matured'
<1> USE ChainsAssumption
<1>1. CASE IncludeProof
  <2>1. Head(mempool).w \in Withdrawals
    BY <1>1, MempoolHead DEF IncludeProof, ChainsTypeOK, Tx
  <2> QED BY <1>1, <2>1 DEF IncludeProof, ChainHistory, ChainsTypeOK
<1>2. CASE IncludeFinalize
  <2>1. \A w \in Withdrawals : /\ portal'[w].proven = portal[w].proven
                               /\ portal'[w].age = portal[w].age
    BY <1>2 DEF IncludeFinalize, ChainsTypeOK, Record
  <2> QED BY <1>2, <2>1 DEF IncludeFinalize, ChainHistory
<1>3. CASE Elapse
  <2>1. \A w \in Withdrawals : Older(w).proven = portal[w].proven
    BY DEF Older, ChainsTypeOK, Record
  <2> QED BY <1>3, <2>1 DEF Elapse, ChainHistory
<1>4. ASSUME NEW w \in Withdrawals, L1Reorg(w)
      PROVE  ChainHistory' /\ accepted \subseteq accepted' /\ matured \subseteq matured'
  BY <1>4 DEF L1Reorg, ChainHistory, ChainsTypeOK, Unproven
<1>5. CASE LoseTx \/ (\E b \in 1 .. MaxHead, r \in BOOLEAN : CreateGame(b, r))
             \/ (\E g \in DOMAIN games, s \in {"ChallengerWins", "DefenderWins"} : ResolveGame(g, s))
  BY <1>5 DEF LoseTx, CreateGame, ResolveGame, ChainHistory
<1> QED BY <1>1, <1>2, <1>3, <1>4, <1>5 DEF L1Next, ProcessTx

\* A poll says yes only of what the portal's history backs.
LEMMA AnswersBacked ==
  ASSUME ChainHistory, NEW id \in IDs
  PROVE  /\ "yes" \in IsProven(WithdrawalOf[id]) => Backed(id, "Proven", accepted, matured)
         /\ "yes" \in IsFinalized(WithdrawalOf[id]) =>
              \A s \in OnceProven : Backed(id, s, accepted, matured)
<1>1. WithdrawalOf[id] \in Withdrawals
  BY ClearingAssumption
<1>2. ASSUME "yes" \in IsProven(WithdrawalOf[id])
      PROVE  Backed(id, "Proven", accepted, matured)
  BY <1>1, <1>2 DEF IsProven, Answers, ChainHistory, Backed, OnceProven, OnceMature
<1>3. ASSUME "yes" \in IsFinalized(WithdrawalOf[id]), NEW s \in OnceProven
      PROVE  Backed(id, s, accepted, matured)
  BY <1>1, <1>3 DEF IsFinalized, Answers, ChainHistory, Backed, OnceProven, OnceMature
<1> QED BY <1>2, <1>3

\* A worker that decides on a backed status, or drops an intent, keeps all backed.
LEMMA DecideBacked ==
  ASSUME BackedInv, NEW o \in Workers, NEW id \in IDs, NEW s,
         Backed(id, s, accepted, matured), UNCHANGED <<accepted, matured>>,
         Decide(o, id, s) \/ Leave(o, id), wrk[o].pc = "advance"
  PROVE  WorkersBacked'
<1>0. wrk \in [Workers -> Worker]
  BY DEF BackedInv, TypeOK
<1>1. CASE Decide(o, id, s)
  <2>1. /\ \A p \in Workers : wrk'[p].snap = wrk[p].snap
        /\ \A p \in Workers \ {o} : wrk'[p] = wrk[p]
        /\ wrk'[o].cur = id /\ wrk'[o].next = s
    BY <1>0, <1>1 DEF Decide, Worker
  <2> QED BY <2>1 DEF WorkersBacked, BackedInv
<1>2. CASE Leave(o, id)
  <2>1. \A p \in Workers \ {o} : wrk'[p] = wrk[p]
    BY <1>0, <1>2 DEF Leave
  <2>2. /\ wrk'[o].pc = wrk[o].pc
        /\ wrk'[o].snap = [wrk[o].snap EXCEPT ![id] = NoIntent]
    BY <1>0, <1>2 DEF Leave, Worker
  <2>3. \A i \in IDs : wrk'[o].snap[i] \in {wrk[o].snap[i], NoIntent}
    BY <1>0, <2>2 DEF Worker
  <2>4. \A i \in IDs : Backed(i, NoIntent.status, accepted, matured)
    BY DEF NoIntent, Backed, OnceProven, OnceMature
  <2> QED BY <2>1, <2>2, <2>3, <2>4 DEF WorkersBacked, BackedInv
<1> QED BY <1>1, <1>2

\* advance decides only on backed statuses, and counts a finalize call only when the
\* intent it copied was Finalizable.
LEMMA AdvanceBacked ==
  ASSUME BackedInv, NEW o \in Workers, NEW id \in IDs, Advance(o, id)
  PROVE  ChainHistory' /\ IntentsBacked' /\ WorkersBacked'
<1> USE ClearingAssumption
<1>0. /\ ChainHistory /\ IntentsBacked /\ WorkersBacked
      /\ calls \in [IDs -> [prove : 0 .. 2, finalize : 0 .. 2]]
      /\ Backed(id, wrk[o].snap[id].status, accepted, matured)
  BY DEF BackedInv, TypeOK, WorkersBacked
<1>1. UNCHANGED <<portal, accepted, matured, intents>> /\ wrk[o].pc = "advance"
  BY DEF Advance, AdvanceSafe, AdvanceProving, AdvanceProven, AdvanceNoTimestamp,
         AdvanceFinalizable, AdvanceFinalizing, Advancing, Poll, ProveWithdrawal,
         FinalizeWithdrawal, chainVars, storeVars
<1>2. ChainHistory'
  BY <1>0, <1>1 DEF ChainHistory
<1>3. \A s \in {"Failed", "Proving"} : Backed(id, s, accepted, matured)
  BY DEF Backed, OnceProven, OnceMature
<1>4. CASE AdvanceSafe(o, id)
  <2>1. WorkersBacked'
    BY <1>1, <1>3, <1>4, DecideBacked DEF AdvanceSafe
  <2>2. \A i \in IDs : calls'[i].finalize = calls[i].finalize
    BY <1>0, <1>4 DEF AdvanceSafe
  <2> QED BY <1>0, <1>1, <1>2, <2>1, <2>2 DEF IntentsBacked
<1>5. CASE AdvanceFinalizable(o, id)
  <2>1. WithdrawalOf[id] \in matured /\ Backed(id, "Finalizing", accepted, matured)
    BY <1>0, <1>5 DEF AdvanceFinalizable, Advancing, Backed, OnceProven, OnceMature
  <2>2. WorkersBacked'
    BY <1>1, <1>3, <1>5, <2>1, DecideBacked DEF AdvanceFinalizable
  <2>3. \A i \in IDs \ {id} : calls'[i].finalize = calls[i].finalize
    BY <1>0, <1>5 DEF AdvanceFinalizable
  <2> QED BY <1>0, <1>1, <1>2, <2>1, <2>2, <2>3 DEF IntentsBacked
<1>6. ASSUME NEW answers, NEW s, Poll(o, id, answers, s),
             "yes" \in answers => Backed(id, s, accepted, matured)
      PROVE  WorkersBacked'
  BY <1>0, <1>1, <1>3, <1>6, DecideBacked DEF Poll
<1>7. CASE AdvanceProving(o, id) \/ AdvanceProven(o, id) \/ AdvanceFinalizing(o, id)
  <2>1. WorkersBacked'
    BY <1>0, <1>6, <1>7, AnswersBacked
       DEF AdvanceProving, AdvanceProven, AdvanceFinalizing, IsSettled, OnceProven
  <2>2. UNCHANGED calls
    BY <1>7 DEF AdvanceProving, AdvanceProven, AdvanceFinalizing, Poll
  <2> QED BY <1>0, <1>1, <1>2, <2>1, <2>2 DEF IntentsBacked
<1>8. CASE AdvanceNoTimestamp(o, id)
  <2>1. WorkersBacked'
    BY <1>1, <1>3, <1>8, DecideBacked DEF AdvanceNoTimestamp
  <2> QED BY <1>0, <1>1, <1>2, <1>8, <2>1 DEF AdvanceNoTimestamp, IntentsBacked
<1> QED BY <1>4, <1>5, <1>7, <1>8 DEF Advance

\* The other steps of an orchestrator: snapshots copy backed intents, and the write
\* stores the status the goroutine decided.
LEMMA WorkerBacked ==
  ASSUME BackedInv, NEW o \in Workers, WorkerStep(o)
  PROVE  ChainHistory' /\ IntentsBacked' /\ WorkersBacked'
<1> USE ClearingAssumption
<1>0. /\ ChainHistory /\ IntentsBacked /\ WorkersBacked /\ WorkersOK
      /\ intents \in [IDs -> Intent] /\ wrk \in [Workers -> Worker]
  BY DEF BackedInv, TypeOK, WorkersOK
<1>n. \A i \in IDs : Backed(i, NoIntent.status, accepted, matured)
  BY DEF NoIntent, Backed, OnceProven, OnceMature
<1>1. ASSUME NEW id \in IDs, RecheckSkip(o, id) \/ RecheckPromote(o, id)
      PROVE  ChainHistory' /\ IntentsBacked' /\ WorkersBacked'
  <2>1. UNCHANGED <<portal, accepted, matured, intents, calls>>
    BY <1>1 DEF RecheckSkip, RecheckPromote, chainVars, storeVars
  <2>2. \A p \in Workers : /\ wrk'[p].snap = wrk[p].snap
                           /\ wrk'[p].pc = "write" => wrk'[p] = wrk[p]
    BY <1>0, <1>1 DEF RecheckSkip, RecheckPromote, Worker
  <2> QED BY <1>0, <2>1, <2>2 DEF ChainHistory, IntentsBacked, WorkersBacked
<1>2. CASE Tick(o)
  <2>1. UNCHANGED <<portal, accepted, matured, intents, calls>>
    BY <1>2 DEF Tick, chainVars, storeVars
  <2>2. \A p \in Workers : /\ wrk'[p].snap = wrk[p].snap
                           /\ wrk'[p].pc = "write" => wrk'[p] = wrk[p]
    BY <1>0, <1>2 DEF Tick, Worker
  <2> QED BY <1>0, <2>1, <2>2 DEF ChainHistory, IntentsBacked, WorkersBacked
<1>3. CASE RecheckSave(o)
  <2>1. UNCHANGED <<portal, accepted, matured, calls>>
    BY <1>3 DEF RecheckSave, chainVars
  <2>2. \A i \in IDs : intents'[i].status \in {intents[i].status, "Safe"}
    BY <1>0, <1>3 DEF RecheckSave, FreshIntent, NoIntent
  <2>3. \A p \in Workers : /\ wrk'[p].snap = wrk[p].snap
                           /\ wrk'[p].pc = "write" => wrk'[p] = wrk[p]
    BY <1>0, <1>3 DEF RecheckSave, Worker
  <2>4. IntentsBacked'
    BY <1>0, <2>1, <2>2 DEF IntentsBacked, Backed, OnceProven, OnceMature
  <2> QED BY <1>0, <2>1, <2>3, <2>4 DEF ChainHistory, WorkersBacked
<1>4. CASE GetPending(o)
  <2>1. UNCHANGED <<portal, accepted, matured, intents, calls>>
    BY <1>4 DEF GetPending, chainVars, storeVars
  <2>2. /\ \A p \in Workers \ {o} : wrk'[p] = wrk[p]
        /\ wrk'[o].pc = "advance" /\ wrk'[o].snap = PendingIntents
    BY <1>0, <1>4 DEF GetPending, Worker
  <2>3. \A i \in IDs : Backed(i, PendingIntents[i].status, accepted, matured)
    BY <1>0, <1>n DEF PendingIntents, IntentsBacked
  <2> QED BY <1>0, <2>1, <2>2, <2>3 DEF ChainHistory, IntentsBacked, WorkersBacked
<1>5. ASSUME NEW id \in IDs, Advance(o, id)
      PROVE  ChainHistory' /\ IntentsBacked' /\ WorkersBacked'
  BY <1>5, AdvanceBacked
<1>6. CASE Write(o)
  <2> DEFINE id == wrk[o].cur
             k == [wrk[o] EXCEPT !.pc = "advance", !.snap[id] = NoIntent,
                                 !.cur = NoID, !.next = "None"]
  <2>1. UNCHANGED <<portal, accepted, matured, calls>>
    BY <1>6 DEF Write, chainVars
  <2>2. /\ id \in IDs /\ wrk[o].snap[id] \in Intent
        /\ wrk[o].next \in IntentStatus /\ intents[id] \in Intent
    BY <1>0, <1>6 DEF Write, WorkersOK, Worker
  <2>3. Written(intents[id], wrk[o].snap[id], wrk[o].next).status = wrk[o].next
    BY <2>2, WrittenType
  <2>4. /\ intents'[id].status = wrk[o].next
        /\ \A i \in IDs \ {id} : intents'[i] = intents[i]
    BY <1>0, <1>6, <2>2, <2>3 DEF Write
  <2>5. Backed(id, wrk[o].next, accepted, matured)
    BY <1>0, <1>6 DEF Write, WorkersBacked
  <2>6. IntentsBacked'
    BY <1>0, <2>1, <2>4, <2>5 DEF IntentsBacked
  <2>7. wrk' = [wrk EXCEPT ![o] = k]
    BY <1>6 DEF Write
  <2>8. k.pc = "advance" /\ k.snap = [wrk[o].snap EXCEPT ![id] = NoIntent]
    BY <1>0 DEF Worker
  <2>9. /\ wrk'[o].pc = "advance"
        /\ \A p \in Workers \ {o} : wrk'[p] = wrk[p]
        /\ \A i \in IDs : wrk'[o].snap[i] \in {wrk[o].snap[i], NoIntent}
    BY <1>0, <2>7, <2>8 DEF Worker
  <2> QED BY <1>0, <1>n, <2>1, <2>6, <2>9 DEF ChainHistory, WorkersBacked
<1>7. CASE EndTick(o)
  <2>1. UNCHANGED <<portal, accepted, matured, intents, calls>>
    BY <1>7 DEF EndTick, chainVars, storeVars
  <2>2. /\ \A p \in Workers \ {o} : wrk'[p] = wrk[p]
        /\ wrk'[o].pc = "idle" /\ \A i \in IDs : wrk'[o].snap[i] = NoIntent
    BY <1>0, <1>7 DEF EndTick, IdleWorker
  <2> QED BY <1>0, <1>n, <2>1, <2>2 DEF ChainHistory, IntentsBacked, WorkersBacked
<1> QED BY <1>1, <1>2, <1>3, <1>4, <1>5, <1>6, <1>7 DEF WorkerStep

LEMMA BackedStep == BackedInv /\ [Next]_vars => BackedInv'
<1> SUFFICES ASSUME BackedInv, [Next]_vars PROVE BackedInv'
  OBVIOUS
<1>0. /\ ChainHistory /\ IntentsBacked /\ WorkersBacked /\ TypeOK'
      /\ intents \in [IDs -> Intent] /\ wrk \in [Workers -> Worker]
  BY StepType DEF BackedInv, TypeOK
<1>1. CASE ListenerStep \/ \E id \in IDs, b \in Blocks : Deliver(id, b)
  <2>1. UNCHANGED <<portal, accepted, matured, calls, wrk>>
    BY <1>1 DEF ListenerStep, IngestUnsafe, IngestSafe, IngestSave, Deliver, SaveEvent, chainVars
  <2>2. \A i \in IDs : intents'[i].status \in {intents[i].status, "Safe"}
    BY <1>0, <1>1 DEF ListenerStep, IngestUnsafe, IngestSafe, IngestSave, Deliver, SaveEvent,
                      storeVars, FreshIntent, NoIntent
  <2>3. IntentsBacked'
    BY <1>0, <2>1, <2>2 DEF IntentsBacked, Backed, OnceProven, OnceMature
  <2> QED BY <1>0, <2>1, <2>3 DEF BackedInv, ChainHistory, WorkersBacked
<1>2. ASSUME NEW o \in Workers, WorkerStep(o) PROVE BackedInv'
  BY <1>0, <1>2, WorkerBacked DEF BackedInv
<1>3. CASE L1Step
  <2>1. ChainHistory' /\ accepted \subseteq accepted' /\ matured \subseteq matured'
    BY <1>3, HistoryKept DEF L1Step, BackedInv, TypeOK
  <2>2. UNCHANGED <<intents, wrk, calls>>
    BY <1>3 DEF L1Step, storeVars
  <2>3. IntentsBacked' /\ WorkersBacked'
    BY <1>0, <2>1, <2>2, BackedGrows DEF IntentsBacked, WorkersBacked
  <2> QED BY <1>0, <2>1, <2>3 DEF BackedInv
<1>4. CASE AdvanceHead \/ DropHead \/ UNCHANGED vars
  BY <1>0, <1>4 DEF AdvanceHead, DropHead, vars, chainVars, storeVars, BackedInv, ChainHistory,
                    IntentsBacked, WorkersBacked
<1>5. CASE Restart
  <2>1. UNCHANGED <<portal, accepted, matured, calls>>
    BY <1>5 DEF Restart, chainVars
  <2>2. /\ \A i \in IDs : intents'[i].status = "None"
        /\ \A p \in Workers : wrk'[p].pc = "idle"
        /\ \A p \in Workers, i \in IDs : wrk'[p].snap[i].status = "None"
    BY <1>5 DEF Restart, IdleWorker, NoIntent
  <2>3. IntentsBacked' /\ WorkersBacked'
    BY <1>0, <2>1, <2>2 DEF IntentsBacked, WorkersBacked, Backed, OnceProven, OnceMature
  <2> QED BY <1>0, <2>1, <2>3 DEF BackedInv, ChainHistory
<1> QED BY <1>1, <1>2, <1>3, <1>4, <1>5 DEF Next

LEMMA BackedAlways == Spec => []BackedInv
<1>1. Init => BackedInv
  BY InitType DEF Init, ChainsInit, BackedInv, ChainHistory, IntentsBacked, WorkersBacked,
       Unproven, NoIntent, IdleWorker, Backed, OnceProven, OnceMature
<1> QED BY <1>1, BackedStep, PTL DEF Spec

\* Whatever the interleaving, redelivery, re-proof, reorg or restart, no intent is
\* recorded as Proven or later without an accepted proof (clearing.go:168-180).
THEOREM ProvenIsAlwaysReal == Spec => []ProvenIsReal
<1>1. BackedInv => ProvenIsReal
  BY DEF BackedInv, IntentsBacked, Backed, ProvenIsReal
<1> QED BY <1>1, BackedAlways, PTL

\* No finalize call is made, and no intent is Finalizable or later, before a proof of
\* its withdrawal stood the whole window on L1 (clearing.go:183-213).
THEOREM FinalizeAlwaysAfterWindow == Spec => []FinalizeAfterWindow
<1>1. BackedInv => FinalizeAfterWindow
  BY DEF BackedInv, IntentsBacked, Backed, FinalizeAfterWindow
<1> QED BY <1>1, BackedAlways, PTL

-----------------------------------------------------------------------------
(* What the steps of the listener and of an orchestrator do to the stores   *)
(* and to the goroutine that takes them.                                    *)

OthersWait(o) == UNCHANGED <<head, dropped, lis>> /\ \A p \in Workers \ {o} : wrk'[p] = wrk[p]

\* Nothing is stored, and the snapshot only loses intents.
Passes(o) ==
  /\ UNCHANGED storeVars
  /\ wrk[o].pc # "create" /\ wrk'[o].pc \notin {"create", "write"}
  /\ \A id \in IDs : wrk'[o].snap[id] \in {wrk[o].snap[id], NoIntent}

\* An event of the pending ones becomes Safe.
Promotes(o) ==
  /\ UNCHANGED intents /\ wrk[o].pc = "recheck"
  /\ \A id \in IDs \ {wrk'[o].cur} : events'[id] = events[id]
  /\ events'[wrk'[o].cur].status = "Safe"
  /\ wrk'[o].pc = "create" /\ wrk'[o].cur \in IDs
  /\ wrk'[o].snap = wrk[o].snap /\ wrk'[o].seen = wrk[o].seen
  /\ IsSafe(wrk[o].seen[wrk'[o].cur])

\* Its intent is saved.
Creates(o) ==
  /\ UNCHANGED events /\ wrk[o].pc = "create" /\ wrk[o].cur \in IDs
  /\ intents'[wrk[o].cur].status = "Safe"
  /\ intents'[wrk[o].cur].block = wrk[o].seen[wrk[o].cur]
  /\ \A id \in IDs \ {wrk[o].cur} : intents'[id] = intents[id]
  /\ wrk'[o].pc = "recheck" /\ wrk'[o].snap = wrk[o].snap

\* The pending intents are read.
Snaps(o) ==
  /\ UNCHANGED storeVars
  /\ wrk[o].pc = "recheck" /\ wrk'[o].pc = "advance" /\ wrk'[o].snap = PendingIntents

\* A status is decided on for an intent of the snapshot.
Decides(o) ==
  /\ UNCHANGED storeVars
  /\ wrk[o].pc = "advance" /\ wrk'[o].pc = "write" /\ wrk'[o].snap = wrk[o].snap
  /\ wrk'[o].cur \in IDs /\ wrk[o].snap[wrk'[o].cur].status # "None" /\ wrk'[o].next # "None"

\* The status is written.
Writes(o) ==
  LET id == wrk[o].cur IN
  /\ UNCHANGED events /\ wrk[o].pc = "write" /\ id \in IDs
  /\ intents'[id] = Written(intents[id], wrk[o].snap[id], wrk[o].next)
  /\ \A i \in IDs \ {id} : intents'[i] = intents[i]
  /\ wrk'[o].pc = "advance"
  /\ \A i \in IDs : wrk'[o].snap[i] \in {wrk[o].snap[i], NoIntent}

LEMMA AdvanceEffect ==
  ASSUME TypeOK, NEW o \in Workers, NEW id \in IDs, Advance(o, id)
  PROVE  OthersWait(o) /\ (Passes(o) \/ Decides(o))
<1>0. wrk \in [Workers -> Worker]
  BY DEF TypeOK
<1>1. UNCHANGED <<head, dropped, storeVars, lis>> /\ wrk[o].pc = "advance"
  BY DEF Advance, AdvanceSafe, AdvanceProving, AdvanceProven, AdvanceNoTimestamp,
         AdvanceFinalizable, AdvanceFinalizing, Advancing, Poll, ProveWithdrawal,
         FinalizeWithdrawal, chainVars, storeVars
<1>2. /\ wrk[o].snap[id].status # "None"
      /\ Leave(o, id) \/ \E s \in ActiveStatus \union Terminal : Decide(o, id, s)
  BY DEF Advance, AdvanceSafe, AdvanceProving, AdvanceProven, AdvanceNoTimestamp,
         AdvanceFinalizable, AdvanceFinalizing, Advancing, Poll, ActiveStatus, Terminal
<1>3. CASE Leave(o, id)
  <2>1. /\ \A p \in Workers \ {o} : wrk'[p] = wrk[p]
        /\ wrk'[o].pc = "advance" /\ wrk'[o].snap = [wrk[o].snap EXCEPT ![id] = NoIntent]
    BY <1>0, <1>1, <1>3 DEF Leave, Worker
  <2>2. \A i \in IDs : wrk'[o].snap[i] \in {wrk[o].snap[i], NoIntent}
    BY <1>0, <2>1 DEF Worker
  <2> QED BY <1>1, <2>1, <2>2 DEF OthersWait, Passes
<1>4. ASSUME NEW s \in ActiveStatus \union Terminal, Decide(o, id, s)
      PROVE  OthersWait(o) /\ Decides(o)
  <2>1. /\ \A p \in Workers \ {o} : wrk'[p] = wrk[p]
        /\ wrk'[o].pc = "write" /\ wrk'[o].snap = wrk[o].snap
        /\ wrk'[o].cur = id /\ wrk'[o].next = s
    BY <1>0, <1>4 DEF Decide, Worker
  <2>2. s # "None"
    BY DEF ActiveStatus, Terminal
  <2> QED BY <1>1, <1>2, <2>1, <2>2 DEF OthersWait, Decides
<1> QED BY <1>2, <1>3, <1>4

LEMMA WorkerEffect ==
  ASSUME TypeOK, NEW o \in Workers, WorkerStep(o)
  PROVE  /\ OthersWait(o)
         /\ Passes(o) \/ Promotes(o) \/ Creates(o) \/ Snaps(o) \/ Decides(o) \/ Writes(o)
<1>0. StoresOK /\ WorkersOK /\ wrk \in [Workers -> Worker]
  BY TypeParts DEF WorkersOK
<1>1. ASSUME NEW id \in IDs, RecheckSkip(o, id) PROVE OthersWait(o) /\ Passes(o)
  BY <1>0, <1>1 DEF RecheckSkip, Worker, OthersWait, Passes, chainVars
<1>2. ASSUME NEW id \in IDs, RecheckPromote(o, id) PROVE OthersWait(o) /\ Promotes(o)
  <2>1. /\ UNCHANGED <<head, dropped, intents, lis>> /\ events'[id].status = "Safe"
        /\ \A i \in IDs \ {id} : events'[i] = events[i]
    BY <1>0, <1>2 DEF RecheckPromote, chainVars, StoresOK, Event
  <2>2. /\ \A p \in Workers \ {o} : wrk'[p] = wrk[p]
        /\ wrk[o].pc = "recheck" /\ wrk'[o].pc = "create" /\ wrk'[o].snap = wrk[o].snap
        /\ wrk'[o].cur = id /\ wrk'[o].seen = wrk[o].seen /\ IsSafe(wrk[o].seen[id])
    BY <1>0, <1>2 DEF RecheckPromote, Worker
  <2> QED BY <2>1, <2>2 DEF OthersWait, Promotes
<1>3. CASE Tick(o)
  BY <1>0, <1>3 DEF Tick, Worker, OthersWait, Passes, chainVars
<1>4. CASE RecheckSave(o)
  <2> DEFINE id == wrk[o].cur
  <2>1. /\ UNCHANGED <<head, dropped, events, lis>> /\ id \in IDs
        /\ wrk[o].pc = "create" /\ intents' = [intents EXCEPT ![id] = FreshIntent(wrk[o].seen[id])]
    BY <1>0, <1>4 DEF RecheckSave, chainVars, WorkersOK
  <2>2. /\ intents'[id].status = "Safe" /\ intents'[id].block = wrk[o].seen[id]
        /\ \A i \in IDs \ {id} : intents'[i] = intents[i]
    BY <1>0, <2>1 DEF StoresOK, FreshIntent, NoIntent
  <2>3. /\ \A p \in Workers \ {o} : wrk'[p] = wrk[p]
        /\ wrk'[o].pc = "recheck" /\ wrk'[o].snap = wrk[o].snap
    BY <1>0, <1>4 DEF RecheckSave, Worker
  <2> QED BY <2>1, <2>2, <2>3 DEF OthersWait, Creates
<1>5. CASE GetPending(o)
  BY <1>0, <1>5 DEF GetPending, Worker, OthersWait, Snaps, chainVars
<1>6. ASSUME NEW id \in IDs, Advance(o, id) PROVE OthersWait(o) /\ (Passes(o) \/ Decides(o))
  BY <1>6, AdvanceEffect
<1>7. CASE Write(o)
  <2> DEFINE id == wrk[o].cur
             k == [wrk[o] EXCEPT !.pc = "advance", !.snap[id] = NoIntent,
                                 !.cur = NoID, !.next = "None"]
  <2>1. /\ UNCHANGED <<head, dropped, events, lis>> /\ id \in IDs /\ wrk[o].pc = "write"
        /\ intents' = [intents EXCEPT ![id] =
                         Written(intents[id], wrk[o].snap[id], wrk[o].next)]
        /\ wrk' = [wrk EXCEPT ![o] = k]
    BY <1>0, <1>7 DEF Write, chainVars, WorkersOK
  <2>2. /\ intents'[id] = Written(intents[id], wrk[o].snap[id], wrk[o].next)
        /\ \A i \in IDs \ {id} : intents'[i] = intents[i]
    BY <1>0, <2>1 DEF StoresOK
  <2>3. k.pc = "advance" /\ k.snap = [wrk[o].snap EXCEPT ![id] = NoIntent]
    BY <1>0 DEF Worker
  <2>4. /\ \A p \in Workers \ {o} : wrk'[p] = wrk[p]
        /\ wrk'[o].pc = "advance"
        /\ \A i \in IDs : wrk'[o].snap[i] \in {wrk[o].snap[i], NoIntent}
    BY <1>0, <2>1, <2>3 DEF Worker
  <2> QED BY <2>1, <2>2, <2>4 DEF OthersWait, Writes
<1>8. CASE EndTick(o)
  <2>1. UNCHANGED <<head, dropped, events, intents, lis>>
    BY <1>8 DEF EndTick, chainVars, storeVars
  <2>2. /\ \A p \in Workers \ {o} : wrk'[p] = wrk[p]
        /\ wrk[o].pc = "advance" /\ wrk'[o].pc = "idle"
        /\ \A i \in IDs : wrk'[o].snap[i] = NoIntent
    BY <1>0, <1>8 DEF EndTick, IdleWorker
  <2> QED BY <2>1, <2>2 DEF OthersWait, Passes, storeVars
<1> QED BY <1>1, <1>2, <1>3, <1>4, <1>5, <1>6, <1>7, <1>8 DEF WorkerStep

-----------------------------------------------------------------------------
(* No event is lost: an intent, once stored, stays, so a status is only     *)
(* ever written over one that exists.  Nothing is asked of the head of the  *)
(* source chain, which may do what it likes.                                *)

\* A snapshot holds intents that exist, and a pending write is about one of them.
SnapshotsReal ==
  \A o \in Workers :
    /\ \A id \in IDs : wrk[o].snap[id].status # "None" => intents[id].status # "None"
    /\ wrk[o].pc = "write" =>
         wrk[o].next # "None" /\ wrk[o].snap[wrk[o].cur].status # "None"

KeptInv == TypeOK /\ NoLostEvent /\ SnapshotsReal

LEMMA ListenerKept ==
  ASSUME KeptInv, ListenerStep \/ \E id \in IDs, b \in 0 .. MaxBlock : SaveEvent(id, b)
  PROVE  NoLostEvent' /\ SnapshotsReal'
<1>0. NoLostEvent /\ SnapshotsReal /\ StoresOK /\ ListenerOK
  BY TypeParts DEF KeptInv
<1>1. UNCHANGED wrk
  BY DEF ListenerStep, IngestUnsafe, IngestSafe, IngestSave, SaveEvent
<1>2. CASE IngestSave
  <2>1. /\ intents'[lis.id].status = "Safe" /\ lis.id \in IDs
        /\ \A i \in IDs \ {lis.id} : intents'[i] = intents[i]
        /\ events' = events
    BY <1>0, <1>2 DEF IngestSave, StoresOK, ListenerOK, FreshIntent, NoIntent
  <2> QED BY <1>0, <1>1, <2>1 DEF NoLostEvent, SnapshotsReal
<1>3. CASE IngestSafe
  <2>1. /\ \A i \in IDs \ {lis.id} : events'[i] = events[i]
        /\ lis'.pc = "save" /\ lis'.id = lis.id /\ lis.pc = "check" /\ intents' = intents
    BY <1>0, <1>3 DEF IngestSafe, StoresOK, ListenerOK
  <2> QED BY <1>0, <1>1, <2>1 DEF NoLostEvent, SnapshotsReal
<1>4. CASE IngestUnsafe \/ \E id \in IDs, b \in 0 .. MaxBlock : SaveEvent(id, b)
  <2>1. /\ intents' = intents /\ lis.pc # "save"
        /\ \A i \in IDs : events'[i].status = "Safe" => events[i].status = "Safe"
    BY <1>0, <1>4 DEF IngestUnsafe, SaveEvent, storeVars, StoresOK
  <2> QED BY <1>0, <1>1, <2>1 DEF NoLostEvent, SnapshotsReal
<1> QED BY <1>2, <1>3, <1>4 DEF ListenerStep

LEMMA WorkerKept ==
  ASSUME KeptInv, NEW o \in Workers, WorkerStep(o)
  PROVE  NoLostEvent' /\ SnapshotsReal'
<1>0. /\ NoLostEvent /\ SnapshotsReal /\ StoresOK /\ wrk \in [Workers -> Worker]
      /\ OthersWait(o)
  BY TypeParts, WorkerEffect DEF KeptInv, WorkersOK
<1>1. CASE Passes(o)
  BY <1>0, <1>1 DEF NoLostEvent, SnapshotsReal, OthersWait, Passes, storeVars, NoIntent
<1>2. CASE Promotes(o)
  BY <1>0, <1>2 DEF NoLostEvent, SnapshotsReal, OthersWait, Promotes
<1>3. CASE Creates(o)
  BY <1>0, <1>3 DEF NoLostEvent, SnapshotsReal, OthersWait, Creates
<1>4. CASE Snaps(o)
  <2>1. \A i \in IDs : PendingIntents[i].status # "None" => intents[i].status # "None"
    BY DEF PendingIntents, NoIntent
  <2> QED BY <1>0, <1>4, <2>1 DEF NoLostEvent, SnapshotsReal, OthersWait, Snaps, storeVars
<1>5. CASE Decides(o)
  BY <1>0, <1>5 DEF NoLostEvent, SnapshotsReal, OthersWait, Decides, storeVars
<1>6. CASE Writes(o)
  <2> DEFINE id == wrk[o].cur
             new == Written(intents[id], wrk[o].snap[id], wrk[o].next)
  <2>1. /\ id \in IDs /\ wrk[o].snap[id] \in Intent /\ intents[id] \in Intent
        /\ wrk[o].next \in IntentStatus /\ wrk[o].next # "None"
    BY <1>0, <1>6 DEF StoresOK, Worker, SnapshotsReal, Writes
  <2>2. new.status # "None"
    BY <2>1, WrittenType
  <2> QED BY <1>0, <1>6, <2>1, <2>2 DEF NoLostEvent, SnapshotsReal, OthersWait, Writes, NoIntent
<1> QED BY <1>1, <1>2, <1>3, <1>4, <1>5, <1>6, WorkerEffect DEF KeptInv

\* No step but a restart takes an event out of the store.
LEMMA EventStays ==
  ASSUME TypeOK, ListenerStep \/ \E o \in Workers : WorkerStep(o)
  PROVE  \A id \in IDs : events[id].status # "None" => events'[id].status # "None"
<1>0. StoresOK /\ ListenerOK
  BY TypeParts
<1>1. CASE ListenerStep
  BY <1>0, <1>1 DEF ListenerStep, IngestUnsafe, IngestSafe, IngestSave, storeVars, StoresOK,
                    ListenerOK, Event
<1>2. ASSUME NEW o \in Workers, WorkerStep(o)
      PROVE  \A id \in IDs : events[id].status # "None" => events'[id].status # "None"
  BY <1>2, WorkerEffect DEF Passes, Promotes, Creates, Snaps, Decides, Writes, storeVars
<1> QED BY <1>1, <1>2

\* The stores start empty, and so do those of a restarted process.
LEMMA EmptyKept ==
  ASSUME events = [id \in IDs |-> NoEvent], wrk = [o \in Workers |-> IdleWorker]
  PROVE  NoLostEvent /\ SnapshotsReal
BY DEF NoLostEvent, SnapshotsReal, NoEvent, NoIntent, IdleWorker

LEMMA KeptStep == KeptInv /\ [Next]_vars => KeptInv'
<1> SUFFICES ASSUME KeptInv, [Next]_vars PROVE KeptInv'
  OBVIOUS
<1>0. NoLostEvent /\ SnapshotsReal /\ TypeOK'
  BY StepType DEF KeptInv
<1>1. CASE ListenerStep \/ \E id \in IDs, b \in Blocks : Deliver(id, b)
  <2>1. ListenerStep \/ \E id \in IDs, b \in 0 .. MaxBlock : SaveEvent(id, b)
    BY <1>1 DEF Deliver, Blocks
  <2> QED BY <1>0, <2>1, ListenerKept DEF KeptInv
<1>2. ASSUME NEW o \in Workers, WorkerStep(o) PROVE KeptInv'
  BY <1>0, <1>2, WorkerKept DEF KeptInv
<1>3. CASE L1Step \/ AdvanceHead \/ DropHead \/ UNCHANGED vars
  <2>1. UNCHANGED <<events, intents, lis, wrk>>
    BY <1>3 DEF L1Step, AdvanceHead, DropHead, storeVars, vars
  <2> QED BY <1>0, <2>1 DEF KeptInv, NoLostEvent, SnapshotsReal
<1>4. CASE Restart
  <2>1. /\ \A i \in IDs : events'[i].status = "None"
        /\ \A p \in Workers : wrk'[p].pc = "idle"
        /\ \A p \in Workers, i \in IDs : wrk'[p].snap[i].status = "None"
    BY <1>4 DEF Restart, NoEvent, NoIntent, IdleWorker
  <2> QED BY <1>0, <2>1 DEF KeptInv, NoLostEvent, SnapshotsReal
<1> QED BY <1>1, <1>2, <1>3, <1>4 DEF Next

LEMMA KeptAlways == Spec => []KeptInv
<1>1. Init => KeptInv
  BY InitType, EmptyKept DEF Init, KeptInv
<1> QED BY <1>1, KeptStep, PTL DEF Spec

\* An event that left the pending list always has its intent, or a goroutine between
\* the two store calls of createIntent (clearing.go:238-254).
THEOREM NoEventEverLost == Spec => []NoLostEvent
<1>1. KeptInv => NoLostEvent
  BY DEF KeptInv
<1> QED BY <1>1, KeptAlways, PTL

-----------------------------------------------------------------------------
(* No intent is early: the blocks the goroutines hold between a finality    *)
(* check and the save that follows it are deep, and lose no more of their   *)
(* depth than the L2 drops.                                                 *)

\* A goroutine about to save a fresh intent found its block safe.
CreatorsSafe ==
  /\ lis.pc = "save" => Deep(lis.block)
  /\ \A o \in Workers : wrk[o].pc = "create" => Deep(wrk[o].seen[wrk[o].cur])

\* The intents of a snapshot are of safe blocks.
SnapshotsSafe ==
  \A o \in Workers, id \in IDs :
    wrk[o].snap[id].status # "None" => Deep(wrk[o].snap[id].block)

SafeInv == KeptInv /\ IntentIsSafe /\ CreatorsSafe /\ SnapshotsSafe

\* What a check finds safe is deep.
LEMMA SafeIsDeep ==
  ASSUME TypeOK, NEW b \in 0 .. MaxBlock, IsSafe(b)
  PROVE  Deep(b)
<1>1. head \in Nat /\ dropped \in Nat /\ b \in Nat /\ SafeConfirmations \in Nat
  BY ClearingAssumption DEF TypeOK, ChainsTypeOK
<1> QED BY <1>1 DEF IsSafe, Deep

\* The L2 takes no more of a block's depth than it drops.
LEMMA DeepStays ==
  ASSUME TypeOK, NEW b \in 0 .. MaxBlock, Deep(b), AdvanceHead \/ DropHead
  PROVE  Deep(b)'
<1>1. head \in Nat /\ dropped \in Nat /\ b \in Nat /\ SafeConfirmations \in Nat
  BY ClearingAssumption DEF TypeOK, ChainsTypeOK
<1>2. CASE AdvanceHead
  <2>1. head' = head + 1 /\ dropped' = dropped
    BY <1>2 DEF AdvanceHead
  <2> QED BY <1>1, <2>1 DEF Deep
<1>3. CASE DropHead
  <2>1. head' = head - 1 /\ dropped' = dropped + 1
    BY <1>3 DEF DropHead
  <2>2. (head - 1) + (dropped + 1) = head + dropped
    BY <1>1
  <2> QED BY <1>1, <2>1, <2>2 DEF Deep
<1> QED BY <1>2, <1>3

\* A write keeps the stored block or puts back the snapshot's.
LEMMA WrittenBlock ==
  ASSUME NEW stored \in Intent, NEW copy \in Intent, NEW s \in IntentStatus
  PROVE  Written(stored, copy, s).block \in {stored.block, copy.block}
<1>1. CASE s \in {"Proving", "Finalizing", "Failed"}
  BY <1>1 DEF Written, Intent
<1>2. CASE s \notin {"Proving", "Finalizing", "Failed"}
  BY <1>2 DEF Written, Intent
<1> QED BY <1>1, <1>2

\* The listener's steps and the deliveries.
LEMMA ListenerSafe ==
  ASSUME SafeInv, ListenerStep \/ \E id \in IDs, b \in Blocks : Deliver(id, b)
  PROVE  IntentIsSafe' /\ CreatorsSafe' /\ SnapshotsSafe'
<1>0. IntentIsSafe /\ CreatorsSafe /\ SnapshotsSafe /\ TypeOK /\ StoresOK /\ ListenerOK
  BY TypeParts DEF SafeInv, KeptInv
<1>1. UNCHANGED <<head, dropped, wrk>>
  BY DEF ListenerStep, IngestUnsafe, IngestSafe, IngestSave, Deliver, SaveEvent, chainVars
<1>2. CASE IngestSave
  <2>1. /\ intents'[lis.id].status = "Safe" /\ intents'[lis.id].block = lis.block
        /\ \A i \in IDs \ {lis.id} : intents'[i] = intents[i]
        /\ lis.id \in IDs /\ lis'.pc = "idle"
    BY <1>0, <1>2 DEF IngestSave, StoresOK, ListenerOK, FreshIntent, NoIntent, IdleListener
  <2>2. IntentIsSafe'
    BY <1>0, <1>1, <1>2, <2>1 DEF IntentIsSafe, CreatorsSafe, Deep, IngestSave
  <2>3. CreatorsSafe' /\ SnapshotsSafe'
    BY <1>0, <1>1, <2>1 DEF CreatorsSafe, SnapshotsSafe, Deep
  <2> QED BY <2>2, <2>3
<1>3. CASE IngestSafe
  <2>1. lis'.block = lis.block /\ Deep(lis.block) /\ intents' = intents
    BY <1>0, <1>3, SafeIsDeep DEF IngestSafe, ListenerOK
  <2> QED BY <1>0, <1>1, <2>1 DEF IntentIsSafe, CreatorsSafe, SnapshotsSafe, Deep
<1>4. CASE IngestUnsafe \/ \E id \in IDs, b \in Blocks : Deliver(id, b)
  <2>1. intents' = intents /\ lis'.pc # "save"
    BY <1>4 DEF IngestUnsafe, Deliver, SaveEvent, IdleListener, storeVars
  <2> QED BY <1>0, <1>1, <2>1 DEF IntentIsSafe, CreatorsSafe, SnapshotsSafe, Deep
<1> QED BY <1>2, <1>3, <1>4 DEF ListenerStep

\* The steps of an orchestrator.
LEMMA WorkerSafe ==
  ASSUME SafeInv, NEW o \in Workers, WorkerStep(o)
  PROVE  IntentIsSafe' /\ CreatorsSafe' /\ SnapshotsSafe'
<1>0. /\ IntentIsSafe /\ CreatorsSafe /\ SnapshotsSafe /\ SnapshotsReal
      /\ TypeOK /\ StoresOK /\ wrk \in [Workers -> Worker] /\ OthersWait(o)
  BY TypeParts, WorkerEffect DEF SafeInv, KeptInv, WorkersOK
<1>1. CASE Passes(o)
  BY <1>0, <1>1 DEF IntentIsSafe, CreatorsSafe, SnapshotsSafe, Deep, OthersWait, Passes,
                    storeVars, NoIntent
<1>2. CASE Promotes(o)
  <2>1. /\ IsSafe(wrk[o].seen[wrk'[o].cur]) /\ wrk'[o].seen = wrk[o].seen
        /\ wrk'[o].seen[wrk'[o].cur] \in 0 .. MaxBlock
    BY <1>0, <1>2 DEF Promotes, Worker
  <2>2. Deep(wrk'[o].seen[wrk'[o].cur])
    BY <1>0, <2>1, SafeIsDeep
  <2> QED BY <1>0, <1>2, <2>2
          DEF IntentIsSafe, CreatorsSafe, SnapshotsSafe, Deep, OthersWait, Promotes
<1>3. CASE Creates(o)
  <2>1. IntentIsSafe'
    BY <1>0, <1>3 DEF IntentIsSafe, CreatorsSafe, Deep, OthersWait, Creates
  <2>2. CreatorsSafe' /\ SnapshotsSafe'
    BY <1>0, <1>3 DEF CreatorsSafe, SnapshotsSafe, Deep, OthersWait, Creates
  <2> QED BY <2>1, <2>2
<1>4. CASE Snaps(o)
  <2>1. \A i \in IDs : PendingIntents[i].status # "None" => Deep(PendingIntents[i].block)
    BY <1>0 DEF PendingIntents, IntentIsSafe, Deep, NoIntent
  <2> QED BY <1>0, <1>4, <2>1
          DEF IntentIsSafe, CreatorsSafe, SnapshotsSafe, Deep, OthersWait, Snaps, storeVars
<1>5. CASE Decides(o)
  BY <1>0, <1>5 DEF IntentIsSafe, CreatorsSafe, SnapshotsSafe, Deep, OthersWait, Decides,
                    storeVars
<1>6. CASE Writes(o)
  <2> DEFINE id == wrk[o].cur
             new == Written(intents[id], wrk[o].snap[id], wrk[o].next)
  <2>1. /\ id \in IDs /\ wrk[o].snap[id] \in Intent /\ intents[id] \in Intent
        /\ wrk[o].next \in IntentStatus /\ wrk[o].snap[id].status # "None"
    BY <1>0, <1>6 DEF StoresOK, Worker, SnapshotsReal, Writes
  <2>2. Deep(wrk[o].snap[id].block) /\ Deep(intents[id].block)
    BY <1>0, <2>1 DEF SnapshotsSafe, SnapshotsReal, IntentIsSafe, Deep
  <2>3. Deep(new.block)
    BY <2>1, <2>2, WrittenBlock
  <2>4. IntentIsSafe'
    BY <1>0, <1>6, <2>1, <2>3 DEF IntentIsSafe, Deep, OthersWait, Writes
  <2>5. CreatorsSafe' /\ SnapshotsSafe'
    BY <1>0, <1>6 DEF CreatorsSafe, SnapshotsSafe, Deep, OthersWait, Writes, NoIntent
  <2> QED BY <2>4, <2>5
<1> QED BY <1>1, <1>2, <1>3, <1>4, <1>5, <1>6, WorkerEffect DEF SafeInv, KeptInv

LEMMA SafeStep == SafeInv /\ [Next]_vars => SafeInv'
<1> SUFFICES ASSUME SafeInv, [Next]_vars PROVE SafeInv'
  OBVIOUS
<1>0. /\ IntentIsSafe /\ CreatorsSafe /\ SnapshotsSafe /\ TypeOK /\ KeptInv'
  BY KeptStep DEF SafeInv, KeptInv
<1>1. CASE ListenerStep \/ \E id \in IDs, b \in Blocks : Deliver(id, b)
  BY <1>0, <1>1, ListenerSafe DEF SafeInv
<1>2. ASSUME NEW o \in Workers, WorkerStep(o) PROVE SafeInv'
  BY <1>0, <1>2, WorkerSafe DEF SafeInv
<1>3. CASE L1Step \/ UNCHANGED vars
  <2>1. UNCHANGED <<head, dropped, events, intents, lis, wrk>>
    BY <1>3 DEF L1Step, storeVars, vars, chainVars, L1Next, CreateGame, ResolveGame, ProcessTx,
                IncludeProof, IncludeFinalize, LoseTx, Elapse, L1Reorg
  <2> QED BY <1>0, <2>1 DEF SafeInv, IntentIsSafe, CreatorsSafe, SnapshotsSafe, Deep
<1>4. CASE AdvanceHead \/ DropHead
  <2>1. UNCHANGED <<events, intents, lis, wrk>>
    BY <1>4 DEF AdvanceHead, DropHead, storeVars
  <2>3. ASSUME NEW b \in 0 .. MaxBlock, Deep(b) PROVE Deep(b)'
    BY <1>0, <1>4, <2>3, DeepStays
  <2>4. /\ lis.block \in 0 .. MaxBlock
        /\ \A i \in IDs : intents[i].block \in 0 .. MaxBlock
        /\ \A p \in Workers, i \in IDs :
             wrk[p].seen[i] \in 0 .. MaxBlock /\ wrk[p].snap[i].block \in 0 .. MaxBlock
        /\ \A p \in Workers : wrk[p].pc = "create" => wrk[p].cur \in IDs
    <3>1. \A p \in Workers : wrk[p] \in Worker
      BY <1>0 DEF TypeOK
    <3>2. \A p \in Workers, i \in IDs :
            wrk[p].seen[i] \in 0 .. MaxBlock /\ wrk[p].snap[i].block \in 0 .. MaxBlock
      BY <3>1 DEF Worker, Intent
    <3> QED BY <1>0, <3>2 DEF TypeOK, Intent
  <2>5. IntentIsSafe'
    BY <1>0, <2>1, <2>3, <2>4 DEF IntentIsSafe
  <2>6. CreatorsSafe'
    BY <1>0, <2>1, <2>3, <2>4 DEF CreatorsSafe
  <2>7. SnapshotsSafe'
    BY <1>0, <2>1, <2>3, <2>4 DEF SnapshotsSafe
  <2> QED BY <1>0, <2>5, <2>6, <2>7 DEF SafeInv
<1>5. CASE Restart
  <2>1. /\ \A i \in IDs : intents'[i].status = "None"
        /\ lis'.pc = "idle"
        /\ \A p \in Workers : wrk'[p].pc = "idle"
        /\ \A p \in Workers, i \in IDs : wrk'[p].snap[i].status = "None"
    BY <1>5 DEF Restart, NoIntent, IdleListener, IdleWorker
  <2> QED BY <1>0, <2>1 DEF SafeInv, IntentIsSafe, CreatorsSafe, SnapshotsSafe
<1> QED BY <1>1, <1>2, <1>3, <1>4, <1>5 DEF Next

LEMMA SafeAlways == Spec => []SafeInv
<1>1. Init => SafeInv
  BY InitType, EmptyKept DEF Init, SafeInv, KeptInv, IntentIsSafe, CreatorsSafe, SnapshotsSafe,
       NoEvent, NoIntent, IdleListener, IdleWorker
<1> QED BY <1>1, SafeStep, PTL DEF Spec

\* An intent's block lies SafeConfirmations below the head but for the blocks the L2
\* dropped, whichever goroutine created it, however stale its copy of the event, and
\* wherever the head went between the check and the save (clearing.go:61-98, 242-250).
THEOREM IntentAlwaysSafe == Spec => []IntentIsSafe
<1>1. SafeInv => IntentIsSafe
  BY DEF SafeInv
<1> QED BY <1>1, SafeAlways, PTL

-----------------------------------------------------------------------------
(* The games that proofs are made against.                                  *)

Won(g) == g \in DOMAIN games /\ games[g].respected /\ games[g].status = "DefenderWins"

MempoolWon == \A i \in DOMAIN mempool : mempool[i].kind = "prove" => Won(mempool[i].game)
PortalWon == \A w \in Withdrawals : portal[w].proven => Won(portal[w].game)

ProofsInv == TypeOK /\ MempoolWon /\ PortalWon

\* A game that was won stays won: games are only added, and resolve once.
LEMMA WonStays ==
  ASSUME ChainsTypeOK, L1Next, NEW g, Won(g)
  PROVE  Won(g)'
<1>1. ASSUME NEW b \in 1 .. MaxHead, NEW r \in BOOLEAN, CreateGame(b, r) PROVE Won(g)'
  <2>1. games \in Seq(Game) /\ games' = Append(games, [l2Block |-> b, respected |-> r,
                                                       status |-> "InProgress"])
    BY <1>1 DEF CreateGame, ChainsTypeOK
  <2>2. g \in DOMAIN games' /\ games'[g] = games[g]
    BY <2>1 DEF Won
  <2> QED BY <2>2 DEF Won
<1>2. ASSUME NEW h \in DOMAIN games, NEW s \in {"ChallengerWins", "DefenderWins"},
             ResolveGame(h, s)
      PROVE  Won(g)'
  <2>1. g # h
    BY <1>2 DEF ResolveGame, Won
  <2> QED BY <1>2, <2>1 DEF ResolveGame, Won, ChainsTypeOK
<1>3. CASE UNCHANGED games
  BY <1>3 DEF Won
<1> QED
  BY <1>1, <1>2, <1>3 DEF L1Next, ProcessTx, IncludeProof, IncludeFinalize, LoseTx, Elapse, L1Reorg

\* What is left of the mempool once its head is taken was in it before.
LEMMA TailWon ==
  ASSUME ChainsTypeOK, MempoolWon, mempool # <<>>
  PROVE  \A i \in DOMAIN Tail(mempool) :
           Tail(mempool)[i].kind = "prove" => Won(Tail(mempool)[i].game)
<1>1. mempool \in Seq(Tx)
  BY DEF ChainsTypeOK
<1>2. ASSUME NEW i \in DOMAIN Tail(mempool)
      PROVE  i + 1 \in DOMAIN mempool /\ Tail(mempool)[i] = mempool[i + 1]
  BY <1>1, <1>2
<1> QED BY <1>2 DEF MempoolWon

\* The chains' own steps leave every proof against a won game.
LEMMA ChainsWon ==
  ASSUME ChainsTypeOK, MempoolWon, PortalWon, L1Next
  PROVE  MempoolWon' /\ PortalWon'
<1>1. \A g : Won(g) => Won(g)'
  BY WonStays
<1>2. CASE ProcessTx
  <2>1. mempool # <<>> /\ mempool' = Tail(mempool)
    BY <1>2 DEF ProcessTx, IncludeProof, IncludeFinalize, LoseTx
  <2>2. MempoolWon'
    BY <1>1, <2>1, TailWon DEF MempoolWon
  <2>3. CASE IncludeProof
    <3>1. 1 \in DOMAIN mempool /\ Head(mempool) = mempool[1]
      BY <2>1 DEF ChainsTypeOK
    <3>2. Won(Head(mempool).game)
      BY <2>3, <3>1 DEF IncludeProof, ProofAcceptable, MempoolWon
    <3>3. \A w \in Withdrawals :
            portal'[w] = portal[w] \/ portal'[w].game = Head(mempool).game
      BY <2>3 DEF IncludeProof, ChainsTypeOK
    <3> QED BY <1>1, <2>2, <3>2, <3>3 DEF PortalWon
  <2>4. CASE IncludeFinalize
    <3>1. \A w \in Withdrawals : /\ portal'[w].proven = portal[w].proven
                                 /\ portal'[w].game = portal[w].game
      BY <2>4 DEF IncludeFinalize, ChainsTypeOK, Record
    <3> QED BY <1>1, <2>2, <3>1 DEF PortalWon
  <2>5. CASE LoseTx
    BY <1>1, <2>2, <2>5 DEF LoseTx, PortalWon
  <2> QED BY <1>2, <2>3, <2>4, <2>5 DEF ProcessTx
<1>3. CASE ~ProcessTx
  <2>1. mempool' = mempool
    BY <1>3 DEF L1Next, CreateGame, ResolveGame, Elapse, L1Reorg
  <2>2. MempoolWon'
    BY <1>1, <2>1 DEF MempoolWon
  <2>3. \A w \in Withdrawals :
          portal'[w].proven => portal[w].proven /\ portal'[w].game = portal[w].game
    <3>1. CASE Elapse
      <4>1. \A w \in Withdrawals : /\ Older(w).proven = portal[w].proven
                                   /\ Older(w).game = portal[w].game
        BY DEF Older, ChainsTypeOK, Record
      <4> QED BY <3>1, <4>1 DEF Elapse
    <3>2. CASE \E w \in Withdrawals : L1Reorg(w)
      BY <3>2 DEF L1Reorg, ChainsTypeOK, Unproven
    <3>3. CASE UNCHANGED portal
      BY <3>3
    <3> QED BY <1>3, <3>1, <3>2, <3>3 DEF L1Next, CreateGame, ResolveGame
  <2> QED BY <1>1, <2>2, <2>3 DEF PortalWon
<1> QED BY <1>2, <1>3

\* The adapter sends a proof only against a game it found won.
LEMMA SendWon ==
  ASSUME ChainsTypeOK, MempoolWon, NEW w \in Withdrawals, NEW b, NEW ok \in BOOLEAN,
         ProveWithdrawal(w, b, ok) \/ FinalizeWithdrawal(w, ok)
  PROVE  MempoolWon' /\ UNCHANGED <<games, portal>>
<1>1. ASSUME NEW tx, mempool' = Append(mempool, tx), tx.kind = "prove" => Won(tx.game),
             UNCHANGED games
      PROVE  MempoolWon'
  <2>1. ASSUME NEW i \in DOMAIN mempool'
        PROVE  (i \in DOMAIN mempool /\ mempool'[i] = mempool[i]) \/ mempool'[i] = tx
    BY <1>1, <2>1 DEF ChainsTypeOK
  <2>2. \A g : Won(g) => Won(g)'
    BY <1>1 DEF Won
  <2>3. \A i \in DOMAIN mempool' : mempool'[i].kind = "prove" => Won(mempool'[i].game)
    BY <1>1, <2>1 DEF MempoolWon
  <2> QED BY <2>2, <2>3 DEF MempoolWon
<1>2. ASSUME NEW reached, NEW g \in findSuitableGame(b, reached) PROVE Won(g)
  BY <1>2 DEF findSuitableGame, SearchWindow, Suitable, Won
<1>3. ASSUME UNCHANGED <<mempool, games>> PROVE MempoolWon'
  BY <1>3 DEF MempoolWon, Won
<1>4. UNCHANGED <<games, portal>>
  BY DEF ProveWithdrawal, FinalizeWithdrawal
<1>5. MempoolWon'
  <2>1. ASSUME NEW reached, NEW g \in findSuitableGame(b, reached),
               sendL1Transaction("prove", w, g)
        PROVE  MempoolWon'
    BY <1>1, <1>2, <1>4, <2>1 DEF sendL1Transaction
  <2>2. CASE sendL1Transaction("finalize", w, 0)
    BY <1>1, <1>4, <2>2 DEF sendL1Transaction
  <2> QED BY <1>3, <1>4, <2>1, <2>2 DEF ProveWithdrawal, FinalizeWithdrawal
<1> QED BY <1>4, <1>5

LEMMA ProofsStep == ProofsInv /\ [Next]_vars => ProofsInv'
<1> SUFFICES ASSUME ProofsInv, [Next]_vars PROVE ProofsInv'
  OBVIOUS
<1>0. TypeOK' /\ ChainsTypeOK /\ MempoolWon /\ PortalWon
  BY StepType DEF ProofsInv, TypeOK
<1>1. ASSUME UNCHANGED <<games, portal, mempool>> PROVE ProofsInv'
  BY <1>0, <1>1 DEF ProofsInv, MempoolWon, PortalWon, Won
<1>2. CASE ListenerStep \/ AdvanceHead \/ DropHead \/ Restart \/ UNCHANGED vars
             \/ \E id \in IDs, b \in Blocks : Deliver(id, b)
  BY <1>1, <1>2 DEF ListenerStep, IngestUnsafe, IngestSafe, IngestSave, Deliver, SaveEvent,
                    AdvanceHead, DropHead, Restart, vars, chainVars
<1>3. ASSUME NEW o \in Workers, WorkerStep(o) PROVE ProofsInv'
  <2>1. ASSUME NEW id \in IDs, AdvanceSafe(o, id) \/ AdvanceFinalizable(o, id)
        PROVE  ProofsInv'
    <3>1. WithdrawalOf[id] \in Withdrawals
      BY ClearingAssumption
    <3>2. MempoolWon' /\ UNCHANGED <<games, portal>>
      BY <1>0, <2>1, <3>1, SendWon DEF AdvanceSafe, AdvanceFinalizable
    <3> QED BY <1>0, <3>2 DEF ProofsInv, PortalWon, Won
  <2>2. ASSUME NEW id \in IDs, \/ AdvanceProving(o, id) \/ AdvanceProven(o, id)
                               \/ AdvanceNoTimestamp(o, id) \/ AdvanceFinalizing(o, id)
        PROVE  ProofsInv'
    BY <1>1, <2>2 DEF AdvanceProving, AdvanceProven, AdvanceNoTimestamp, AdvanceFinalizing,
                      Poll, chainVars
  <2>3. CASE \/ Tick(o) \/ RecheckSave(o) \/ GetPending(o) \/ Write(o) \/ EndTick(o)
             \/ \E id \in IDs : RecheckSkip(o, id) \/ RecheckPromote(o, id)
    BY <1>1, <2>3 DEF Tick, RecheckSave, GetPending, Write, EndTick, RecheckSkip,
                      RecheckPromote, chainVars
  <2> QED BY <1>3, <2>1, <2>2, <2>3 DEF WorkerStep, Advance
<1>4. CASE L1Step
  BY <1>0, <1>4, ChainsWon DEF L1Step, ProofsInv
<1> QED BY <1>2, <1>3, <1>4 DEF Next

\* No proof is ever on its way or on the portal against a game that is not respected,
\* not resolved or lost, whatever became of the games since it was sent
\* (findSuitableGame, adapter.go:444-463).
THEOREM ProofsAlwaysTargetWonGames == Spec => []ProofsTargetWonGames
<1>1. Init => ProofsInv
  BY InitType DEF Init, ChainsInit, ProofsInv, MempoolWon, PortalWon, Unproven
<1>2. ProofsInv => ProofsTargetWonGames
  BY DEF ProofsInv, MempoolWon, PortalWon, Won, ProofsTargetWonGames
<1> QED BY <1>1, <1>2, ProofsStep, PTL DEF Spec
=============================================================================
