------------------------------ MODULE MCParsing ------------------------------
(***************************************************************************)
(* Instances of the parser and of the rebuilding of withdrawals for TLC.   *)
(***************************************************************************)
EXTENDS WithdrawalTx

\* Low parts on both sides of the point where int turns negative, up to the wrap.
EdgeHashes == {h \in 1 .. 2 * U :
                 h % U \in {18, 20, 21, 22, 23, 24, 30, 31, 32, 33, 54, 61, 62, 63}}
=============================================================================
