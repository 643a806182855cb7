------------------------- MODULE WithdrawalLifecycle -------------------------
(***************************************************************************)
(* What the bridge promises about one withdrawal intent, with no           *)
(* goroutines, stores, snapshots or transactions: the state machine the    *)
(* comment of ClearingUseCase draws,                                       *)
(*   Safe -> Proving -> Proven -> Finalizable -> Finalizing -> Finalized   *)
(* with Failed reachable from every active state; at most one call of      *)
(* ProveWithdrawal and one of FinalizeWithdrawal per intent; Proven only   *)
(* after L1 took a proof and Finalizable only after one stood the window.  *)
(*                                                                         *)
(*   state   the status of each intent, None before it is created          *)
(*   calls   the prove and finalize calls made for it                      *)
(*   l1      what L1 has granted: none, accepted (a proof), matured        *)
(***************************************************************************)
EXTENDS Naturals

CONSTANT IDs

VARIABLES state, calls, l1

abstractVars == <<state, calls, l1>>

Active == {"Safe", "Proving", "Proven", "Finalizable", "Finalizing"}

Init ==
  /\ state = [id \in IDs |-> "None"]
  /\ calls = [id \in IDs |-> [prove |-> 0, finalize |-> 0]]
  /\ l1 = [id \in IDs |-> "none"]

Move(id, from, to) ==
  /\ state[id] = from
  /\ state' = [state EXCEPT ![id] = to]
  /\ UNCHANGED <<calls, l1>>

Create(id) == Move(id, "None", "Safe")

\* The one call of ProveWithdrawal, made while the intent is Safe.
CallProve(id) ==
  /\ state[id] = "Safe" /\ calls[id].prove = 0
  /\ calls' = [calls EXCEPT ![id].prove = 1]
  /\ UNCHANGED <<state, l1>>

Submitted(id) == calls[id].prove = 1 /\ Move(id, "Safe", "Proving")
Confirmed(id) == l1[id] # "none" /\ Move(id, "Proving", "Proven")
WindowOver(id) == l1[id] = "matured" /\ Move(id, "Proven", "Finalizable")

CallFinalize(id) ==
  /\ state[id] = "Finalizable" /\ calls[id].finalize = 0
  /\ calls' = [calls EXCEPT ![id].finalize = 1]
  /\ UNCHANGED <<state, l1>>

FinalizeSubmitted(id) == calls[id].finalize = 1 /\ Move(id, "Finalizable", "Finalizing")
Settled(id) == Move(id, "Finalizing", "Finalized")
Fail(id) == \E s \in Active : Move(id, s, "Failed")

\* L1 grants a proof only to an intent that asked for it, and time only adds to it.
Granted(id) ==
  CASE l1[id] = "none"     -> IF calls[id].prove = 1 THEN {"none", "accepted"} ELSE {"none"}
    [] l1[id] = "accepted" -> {"accepted", "matured"}
    [] l1[id] = "matured"  -> {"matured"}

L1Moves ==
  /\ DOMAIN l1' = IDs
  /\ \A id \in IDs : l1'[id] \in Granted(id)
  /\ UNCHANGED <<state, calls>>

Next ==
  \/ \E id \in IDs :
       \/ Create(id)
       \/ CallProve(id) \/ Submitted(id) \/ Confirmed(id) \/ WindowOver(id)
       \/ CallFinalize(id) \/ FinalizeSubmitted(id) \/ Settled(id)
       \/ Fail(id)
  \/ L1Moves

Spec == Init /\ [][Next]_abstractVars
=============================================================================
