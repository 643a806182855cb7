------------------------------- MODULE MCHouse -------------------------------
(***************************************************************************)
(* Names for an instance of the registry and the paymaster.                *)
(***************************************************************************)
EXTENDS ClearingPaymaster

CONSTANTS h1, h2, admin, pm, alice, zero, none, base
=============================================================================
