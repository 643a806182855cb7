------------------------------ MODULE MCBridge ------------------------------
(***************************************************************************)
(* Instances of the composed process for TLC.                              *)
(***************************************************************************)
EXTENDS Bridge
CONSTANTS l1, l2
=============================================================================
