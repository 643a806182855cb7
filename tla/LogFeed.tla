------------------------------- MODULE LogFeed -------------------------------
(***************************************************************************)
(* What SubscribeLogs promises the handler it calls, with no cursor, no    *)
(* poll, no subscription and no fetches: within one run of the process,    *)
(* every log handed over was mined, none is handed over twice, and none    *)
(* after a log that was mined later.                                       *)
(*                                                                         *)
(* A log is known by its block, and a block by its height and the number   *)
(* of reorgs before it was mined.                                          *)
(*   mined   all logs the chain ever held, dropped ones included           *)
(*   handed  the logs handed to the handler since the process started      *)
(*   served  how often the handler was called                              *)
(***************************************************************************)
EXTENDS Naturals

CONSTANT Entry

VARIABLES mined, handed, served

feedVars == <<mined, handed, served>>

Earlier(x, y) == x.fork < y.fork \/ (x.fork = y.fork /\ x.block < y.block)

Init == mined = {} /\ handed = {} /\ served = 0

\* The chain gains the logs of a block later than any before it.
Extend ==
  /\ mined \subseteq mined' /\ mined' \subseteq Entry
  /\ \A x \in mined' \ mined, y \in mined : Earlier(y, x)
  /\ UNCHANGED <<handed, served>>

Hand(x) ==
  /\ x \in mined \ handed
  /\ \A y \in handed : ~Earlier(x, y)
  /\ handed' = handed \union {x} /\ served' = served + 1
  /\ UNCHANGED mined

StartOver == handed' = {} /\ served' = 0 /\ UNCHANGED mined

Next == Extend \/ (\E x \in Entry : Hand(x)) \/ StartOver

Spec == Init /\ [][Next]_feedVars
=============================================================================
