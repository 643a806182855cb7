-------------------------- MODULE ClearingProperties --------------------------
(***************************************************************************)
(* What the clearing use case has to guarantee, in three groups: what      *)
(* holds however the goroutines race, events are redelivered and the       *)
(* process restarts; what holds when every event is delivered once and     *)
(* reaches its first check before it is safe; and what eventually happens. *)
(* The last section states what comments of the code say and it does not.  *)
(***************************************************************************)
EXTENDS ClearingUseCase

\* Statuses an intent reaches only with a proof on L1, and only after its window.
OnceProven == {"Proven", "Finalizable", "Finalizing", "Finalized"}
OnceMature == OnceProven \ {"Proven"}

\* An intent is recorded as Proven, or any status after it, only if the portal did
\* accept a proof of its withdrawal, even when a stale snapshot wrote that status
\* (advance, clearing.go:168-180; interfaces.go:38-40).
ProvenIsReal ==
  \A id \in IDs : intents[id].status \in OnceProven => WithdrawalOf[id] \in accepted

\* An intent becomes Finalizable, and a finalize call is made for it, only once a
\* proof of its withdrawal stood the whole challenge window on L1, whatever re-proofs
\* or reorgs happened since (advance, clearing.go:183-199; interfaces.go:42-44).
FinalizeAfterWindow ==
  \A id \in IDs :
    intents[id].status \in OnceMature \/ calls[id].finalize > 0
      => WithdrawalOf[id] \in matured

\* b is SafeConfirmations below the head, or was, but for the blocks the L2 dropped.
Deep(b) == head + dropped >= b + SafeConfirmations

\* An intent is for a block that lies SafeConfirmations below the head, but for the
\* blocks the L2 dropped, whichever goroutine created it, from whichever copy of the
\* event, and wherever a redelivery moved the event between the finality check and the
\* save, or the head between two checks (clearing.go:61-70, 85-93, 242-250).
IntentIsSafe == \A id \in IDs : intents[id].status # "None" => Deep(intents[id].block)

\* An event taken off the pending list by its Safe status has an intent, or a
\* goroutine is between the two store calls of createIntent for it: otherwise no
\* recheck would ever find it again (createIntent, clearing.go:238-254).
NoLostEvent ==
  \A id \in IDs : events[id].status = "Safe" =>
    \/ intents[id].status # "None"
    \/ lis.pc = "save" /\ lis.id = id
    \/ \E o \in Workers : wrk[o].pc = "create" /\ wrk[o].cur = id

\* Every proof in flight or on the portal is against a game of the respected type that
\* the defender won: a proof is not wasted on a game that may still be lost
\* (findSuitableGame, adapter.go:444-463).
ProofsTargetWonGames ==
  LET Won(g) == g \in DOMAIN games /\ games[g].respected /\ games[g].status = "DefenderWins"
  IN /\ \A i \in DOMAIN mempool : mempool[i].kind = "prove" => Won(mempool[i].game)
     /\ \A w \in Withdrawals : portal[w].proven => Won(portal[w].game)

-----------------------------------------------------------------------------
(* Prompt delivery: MaxDeliveries = 1, MaxRestarts = 0, one Worker, one     *)
(* event per withdrawal and MaxLag < SafeConfirmations.                     *)

L1Grant(w) ==
  IF w \in matured THEN "matured" ELSE IF w \in accepted THEN "accepted" ELSE "none"

Lifecycle == INSTANCE WithdrawalLifecycle WITH
  state <- [id \in IDs |-> intents[id].status],
  calls <- calls,
  l1    <- [id \in IDs |-> L1Grant(WithdrawalOf[id])]

\* The bridge implements the lifecycle: statuses move only along its arrows, with one
\* prove call and one finalize call per intent (clearing.go:15-17, interfaces.go:34-52).
LifecycleSpec == Lifecycle!Spec

\* The status of an intent and its transaction fields agree, although they are
\* written by different store calls: Save with the hash, UpdateStatus without
\* (clearing.go:158-176, 207-224).
RecordMatchesStatus ==
  \A id \in IDs :
    /\ intents[id].status \in {"Proving"} \union OnceProven => intents[id].proveTx
    /\ intents[id].status \in {"Finalizing", "Finalized"} => intents[id].finTx

\* A proof, in flight or on the portal, is against a game that covers the L2 block of
\* the withdrawal: the storage proof fetched at the game's block contains it
\* (adapter.go:282-289, 453-456).
ProofCoversWithdrawal ==
  LET Covers(g, w) == \A id \in IDs :
        WithdrawalOf[id] = w => games[g].l2Block >= events[id].block
  IN /\ \A i \in DOMAIN mempool : mempool[i].kind = "prove" => Covers(mempool[i].game, mempool[i].w)
     /\ \A w \in Withdrawals : portal[w].proven => Covers(portal[w].game, w)

-----------------------------------------------------------------------------
(* Liveness.  The goroutines run (the listener blocks only in its calls, the *)
(* ticker fires again), blocks and time go on, and a finality check that is  *)
(* asked at every tick does not fail for ever.  Nothing is assumed of        *)
(* delivery, of new games, of their outcome or of the fate of a transaction, *)
(* only that it does not stay in the mempool.                                *)

Fairness ==
  /\ WF_vars(ListenerStep)
  /\ WF_vars(AdvanceHead)
  /\ WF_vars(ProcessTx /\ UNCHANGED <<storeVars, lis, wrk, envVars, calls>>)
  /\ WF_vars(Elapse /\ UNCHANGED <<storeVars, lis, wrk, envVars, calls>>)
  /\ \A o \in Workers :
       /\ WF_vars(WorkerStep(o))
       /\ \A id \in IDs : SF_vars(RecheckPromote(o, id))

FairSpec == Spec /\ Fairness

\* Every stored event is eventually promoted to an intent, by the listener or by a
\* recheck, however often the checks said no or failed before (clearing.go:65-67, 73-98).
EventPromoted ==
  \A id \in IDs : events[id].status = "Pending" ~> events[id].status = "Safe"

\* No proof of the intent's withdrawal is on the portal and none is on its way.
Abandoned(id) ==
  /\ intents[id].status \in {"Proving", "Proven", "Finalizing"}
  /\ ~portal[WithdrawalOf[id]].proven
  /\ \A i \in DOMAIN mempool : mempool[i].kind = "finalize" \/ mempool[i].w # WithdrawalOf[id]

\* Every intent is eventually Finalized or Failed, except one whose proof L1 lost: it
\* waits for ever, since neither a timeout nor Deadline makes the bridge prove it again
\* (ProcessPending, clearing.go:102-139; Deadline, clearing.go:246).
IntentProgress ==
  \A id \in IDs :
    intents[id].status \in ActiveStatus ~> intents[id].status \in Terminal \/ Abandoned(id)

-----------------------------------------------------------------------------
(* What comments of the code say of it.                                     *)

\* types.go:44, StatusFailed is an "unrecoverable error": no game can still prove a
\* withdrawal that the bridge gave up.
FailedIsUnrecoverable ==
  \A id \in IDs : intents[id].status = "Failed" =>
    findSuitableGame(intents[id].block, DOMAIN games) = {}

\* interfaces.go:35, ProveWithdrawal is "Called once when the intent enters StatusSafe".
ProveCalledOnce == \A id \in IDs : calls[id].prove <= 1

\* clearing.go:231, "StatusFinalized and StatusFailed are terminal".
TerminalIsFinal ==
  [][\A id \in IDs : intents[id].status \in Terminal =>
       intents'[id].status = intents[id].status]_vars
=============================================================================
