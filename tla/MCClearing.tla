----------------------------- MODULE MCClearing -----------------------------
(***************************************************************************)
(* Instances of the clearing use case for TLC.                             *)
(***************************************************************************)
EXTENDS ClearingProperties, TLC

CONSTANTS e1, e2, w1, w2

\* One withdrawal per event.
OwnWithdrawal == e1 :> w1 @@ e2 :> w2

\* A single event.
OneWithdrawal == e1 :> w1
=============================================================================
