----------------------------- MODULE BridgeProofs -----------------------------
(***************************************************************************)
(* Proofs about the chain client, for every set of logs and all bounds:    *)
(* types, the promise that no log is skipped, and that the client          *)
(* implements the feed.  The composed process only adds steps the client   *)
(* does not see, so they hold of it too.                                   *)
(***************************************************************************)
EXTENDS Bridge, TLAPS

-----------------------------------------------------------------------------
(* Types.                                                                   *)

LEMMA EntryType ==
  ASSUME NEW e \in Entry
  PROVE  e.log \in Logs /\ e.block \in Heights /\ e.fork \in 0 .. MaxL2Reorgs
BY DEF Entry

\* The notices of a set of entries, and which they are.
LEMMA NoticeSet ==
  ASSUME NEW S, S \subseteq Entry, NEW r \in BOOLEAN
  PROVE  /\ Notices(S, r) \subseteq Notice
         /\ \A n \in Notices(S, r) : n.entry \in S /\ n.removed = r
         /\ \A e \in S : \E n \in Notices(S, r) : n.entry = e /\ n.removed = r
<1>1. ASSUME NEW n \in Notices(S, r)
      PROVE  n \in Notice /\ n.entry \in S /\ n.removed = r
  <2>1. PICK e \in S : n = [entry |-> e, removed |-> r]
    BY <1>1 DEF Notices
  <2>2. e \in Entry
    OBVIOUS
  <2>3. n.entry = e /\ n.removed = r
    BY <2>1
  <2>4. QED
    BY <2>1, <2>2, <2>3 DEF Notice
<1>2. ASSUME NEW e \in S
      PROVE  \E n \in Notices(S, r) : n.entry = e /\ n.removed = r
  <2>1. [entry |-> e, removed |-> r] \in Notices(S, r)
    BY DEF Notices
  <2>2. QED
    BY <2>1
<1>3. QED
  BY <1>1, <1>2

LEMMA EntriesInType == ASSUME NEW a, NEW b PROVE EntriesIn(a, b) \subseteq Entry
BY DEF EntriesIn

LEMMA ClientTypeInit == ASSUME Init PROVE TypeOK
<1>1. chain \in [Heights -> Block]
  BY BaseClientAssumption DEF Init, Block, NoBlock
<1>2. QED
  BY <1>1, BaseClientAssumption DEF Init, TypeOK, Heights, Running

LEMMA MineTypes ==
  ASSUME TypeOK, NEW B \in SUBSET Logs, Mine(B)
  PROVE  TypeOK'
<1> DEFINE new == {[log |-> l, block |-> tip + 1, fork |-> reorgs] : l \in B}
<1>1. tip + 1 \in Heights /\ [logs |-> B, fork |-> reorgs] \in Block
  BY BaseClientAssumption DEF TypeOK, Mine, Heights, Block
<1>2. new \subseteq Entry
  BY <1>1 DEF Entry, TypeOK
<1>3. Notices(new, FALSE) \subseteq Notice
  BY <1>2, NoticeSet
<1>4. inbox' \subseteq Notice
  BY <1>3 DEF Mine, Push, TypeOK
<1>5. chain' \in [Heights -> Block]
  BY <1>1 DEF Mine, TypeOK
<1>6. mined' \subseteq Entry /\ missed' \subseteq Entry
  BY <1>2 DEF Mine, TypeOK
<1>7. QED
  BY <1>1, <1>4, <1>5, <1>6 DEF Mine, TypeOK, runVars, Running

LEMMA ReorgTypes ==
  ASSUME TypeOK, Reorg
  PROVE  TypeOK'
<1>1. Notices(EntriesIn(tip, tip), TRUE) \subseteq Notice
  BY NoticeSet, EntriesInType
<1>2. inbox' \subseteq Notice
  BY <1>1 DEF Reorg, Push, TypeOK
<1>3. NoBlock \in Block /\ tip - 1 \in Heights /\ reorgs + 1 \in 0 .. MaxL2Reorgs
  BY BaseClientAssumption DEF NoBlock, Block, Reorg, TypeOK, Heights
<1>4. chain' \in [Heights -> Block]
  BY <1>3 DEF Reorg, TypeOK
<1>5. QED
  BY <1>2, <1>3, <1>4 DEF Reorg, TypeOK, runVars, Running

LEMMA GoroutineTypes ==
  ASSUME TypeOK, ClientStep \/ (\E n \in inbox : Handle(n)) \/ Restart
  PROVE  TypeOK'
<1> USE BaseClientAssumption DEF TypeOK, Heights, Running, l2Vars, runVars
<1>1. CASE StartPoll
  BY <1>1 DEF StartPoll
<1>2. CASE StartWS
  BY <1>2 DEF StartWS
<1>3. CASE StartFails
  BY <1>3 DEF StartFails
<1>4. CASE Tick
  BY <1>4 DEF Tick
<1>5. CASE Fetch
  <2>1. inbox' \subseteq Notice
    BY <1>5, NoticeSet, EntriesInType DEF Fetch
  <2>2. QED
    BY <1>5, <2>1 DEF Fetch
<1>6. CASE FetchFails
  BY <1>6 DEF FetchFails
<1>7. CASE \E n \in inbox : PassOver(n)
  BY <1>7 DEF PassOver
<1>8. CASE EndPoll
  BY <1>8 DEF EndPoll
<1>9. CASE SubscriptionEnds
  BY <1>9 DEF SubscriptionEnds
<1>10. ASSUME NEW n \in inbox, Handle(n) PROVE TypeOK'
  <2>1. n.entry \in Entry
    BY <1>10 DEF Notice
  <2>2. QED
    BY <1>10, <2>1 DEF Handle
<1>11. CASE Restart
  BY <1>11 DEF Restart
<1>12. QED
  BY <1>1, <1>2, <1>3, <1>4, <1>5, <1>6, <1>7, <1>8, <1>9, <1>10, <1>11 DEF ClientStep

LEMMA ClientTypeStep ==
  ASSUME TypeOK, [ClientNext]_clientVars
  PROVE  TypeOK'
<1>1. CASE ClientNext
  BY <1>1, MineTypes, ReorgTypes, GoroutineTypes DEF ClientNext, L2Step
<1>2. CASE UNCHANGED clientVars
  BY <1>2 DEF TypeOK, clientVars, l2Vars, runVars
<1>3. QED
  BY <1>1, <1>2

\* The variables of the client keep their types, the cursor stays at most one past
\* the highest block (pollLogs, client.go:170-229).
THEOREM ClientTypeCorrect == ClientSpec => []TypeOK
<1>1. QED
  BY ClientTypeInit, ClientTypeStep, PTL DEF ClientSpec
-----------------------------------------------------------------------------
(* The strengthening.  A log waiting was mined, was not handed over yet and *)
(* is not earlier than any that was; whatever stands on the chain beyond    *)
(* the frontier was mined after all that was asked for below it.            *)

\* What is known of the chain: forks only grow with height, and what was mined last
\* is on top.
ChainInv ==
  /\ \A e \in Entry : OnChain(e) => e \in mined
  /\ \A e \in mined : e.fork < reorgs \/ (e.fork = reorgs /\ e.block <= tip)
  /\ \A g, h \in Heights : g <= h /\ h <= tip => chain[g].fork <= chain[h].fork
  /\ \A h \in Heights : chain[h].fork <= reorgs

FeedInv ==
  /\ handed \subseteq mined /\ Waiting \subseteq mined
  /\ handed \intersect Waiting = {}
  /\ \A x \in Waiting, y \in handed : ~Earlier(x, y)

Polling == pc \in {"wait", "fetch", "handle"}

CursorInv ==
  /\ pc \in {"start", "wait", "fetch", "ended"} => inbox = {}
  /\ pc = "start" => handed = {}
  /\ pc \in {"fetch", "handle"} => cursor <= to
  /\ pc = "fetch" /\ reorgs = 0 => to <= tip
  /\ Polling /\ reorgs = 0 => Frontier <= tip + 1
  /\ Polling => \A y \in handed \union Waiting :
       /\ y.block < Frontier
       /\ \A e \in Entry : OnChain(e) /\ Frontier <= e.block => y.fork <= e.fork

ClientInv == TypeOK /\ ChainInv /\ FeedInv /\ CursorInv /\ NothingSkipped

-----------------------------------------------------------------------------
(* What the steps do to the logs waiting.                                   *)

LEMMA WaitingElements ==
  \A e : e \in Waiting <=> \E n \in inbox : ~n.removed /\ n.entry = e
BY DEF Waiting

LEMMA WaitingPrimed ==
  \A e : e \in Waiting' <=> \E n \in inbox' : ~n.removed /\ n.entry = e
BY DEF Waiting

LEMMA WaitingType == ASSUME TypeOK PROVE Waiting \subseteq Entry
BY WaitingElements DEF TypeOK, Notice

LEMMA WaitingNone == ASSUME inbox' = {} PROVE Waiting' = {}
BY WaitingPrimed

LEMMA WaitingSame == ASSUME UNCHANGED inbox PROVE Waiting' = Waiting
BY DEF Waiting

LEMMA WaitingAdd ==
  ASSUME NEW S, S \subseteq Entry, inbox' = inbox \union Notices(S, FALSE)
  PROVE  Waiting' = Waiting \union S
<1>1. /\ \A n \in Notices(S, FALSE) : n.entry \in S /\ n.removed = FALSE
      /\ \A e \in S : \E n \in Notices(S, FALSE) : n.entry = e /\ n.removed = FALSE
  BY NoticeSet
<1>2. ASSUME NEW e \in Waiting' PROVE e \in Waiting \union S
  <2>1. PICK n \in inbox' : ~n.removed /\ n.entry = e
    BY <1>2, WaitingPrimed
  <2>2. QED
    BY <1>1, <2>1, WaitingElements
<1>3. ASSUME NEW e \in Waiting PROVE e \in Waiting'
  BY <1>3, WaitingElements, WaitingPrimed
<1>4. ASSUME NEW e \in S PROVE e \in Waiting'
  BY <1>1, <1>4, WaitingPrimed
<1>5. QED
  BY <1>2, <1>3, <1>4

LEMMA WaitingRemovals ==
  ASSUME NEW S, S \subseteq Entry, inbox' = inbox \union Notices(S, TRUE)
  PROVE  Waiting' = Waiting
<1>1. \A n \in Notices(S, TRUE) : n.removed = TRUE
  BY NoticeSet
<1>2. ASSUME NEW e \in Waiting' PROVE e \in Waiting
  <2>1. PICK n \in inbox' : ~n.removed /\ n.entry = e
    BY <1>2, WaitingPrimed
  <2>2. QED
    BY <1>1, <2>1, WaitingElements
<1>3. ASSUME NEW e \in Waiting PROVE e \in Waiting'
  BY <1>3, WaitingElements, WaitingPrimed
<1>4. QED
  BY <1>2, <1>3

LEMMA WaitingTake ==
  ASSUME TypeOK, NEW n \in inbox, inbox' = inbox \ {n}
  PROVE  Waiting' = IF n.removed THEN Waiting ELSE Waiting \ {n.entry}
<1>1. ASSUME NEW m \in inbox, ~m.removed, ~n.removed, m.entry = n.entry
      PROVE  m = n
  <2>1. m \in Notice /\ n \in Notice
    BY DEF TypeOK
  <2>2. m.removed = n.removed
    BY <1>1, <2>1 DEF Notice
  <2>3. QED
    BY <1>1, <2>1, <2>2 DEF Notice
<1>2. CASE n.removed
  <2>1. \A e : e \in Waiting' <=> e \in Waiting
    BY <1>2, WaitingElements, WaitingPrimed
  <2>2. QED
    BY <1>2, <2>1
<1>3. CASE ~n.removed
  <2>1. n.entry \notin Waiting'
    BY <1>1, <1>3, WaitingPrimed
  <2>2. \A e : e # n.entry => (e \in Waiting' <=> e \in Waiting)
    BY WaitingElements, WaitingPrimed
  <2>3. QED
    BY <1>3, <2>1, <2>2
<1>4. QED
  BY <1>2, <1>3

-----------------------------------------------------------------------------
(* The strengthening holds at first and is kept by the L2.                  *)

LEMMA ClientInvInit == ASSUME Init PROVE ClientInv
<1>1. TypeOK
  BY ClientTypeInit
<1>2. Waiting = {}
  BY WaitingElements DEF Init
<1>3. \A e \in Entry : ~OnChain(e)
  BY DEF Init, OnChain, Entry, NoBlock
<1>4. ChainInv
  BY <1>3 DEF Init, ChainInv, NoBlock
<1>5. FeedInv /\ CursorInv /\ NothingSkipped
  BY <1>2 DEF Init, FeedInv, CursorInv, Polling, NothingSkipped, Running
<1>6. QED
  BY <1>1, <1>4, <1>5 DEF ClientInv

LEMMA MineKeeps ==
  ASSUME ClientInv, NEW B \in SUBSET Logs, Mine(B)
  PROVE  ClientInv'
<1> DEFINE new == {[log |-> l, block |-> tip + 1, fork |-> reorgs] : l \in B}
<1>1. TypeOK /\ ChainInv /\ FeedInv /\ CursorInv /\ NothingSkipped
  BY DEF ClientInv
<1>2. TypeOK'
  BY <1>1, MineTypes
<1>3. tip \in Nat /\ reorgs \in Nat /\ tip + 1 \in Heights
  BY <1>1, BaseClientAssumption DEF TypeOK, Mine, Heights
<1>4. \A e \in new : e.block = tip + 1 /\ e.fork = reorgs /\ e.log \in B
  OBVIOUS
<1>5. new \subseteq Entry
  BY <1>1, <1>3 DEF Entry, TypeOK
<1>6. /\ tip' = tip + 1 /\ reorgs' = reorgs /\ mined' = mined \union new
      /\ UNCHANGED <<mode, pc, cursor, to, from, handed>>
      /\ Frontier' = Frontier
  BY DEF Mine, runVars, Frontier
<1>7. /\ \A h \in Heights : h # tip + 1 => chain'[h] = chain[h]
      /\ chain'[tip + 1] = [logs |-> B, fork |-> reorgs]
  BY <1>1, <1>3 DEF Mine, TypeOK
<1>8. \A e \in Entry : OnChain(e)' => OnChain(e) \/ e \in new
  <2>1. SUFFICES ASSUME NEW e \in Entry, OnChain(e)', e.block = tip + 1
                 PROVE  e \in new
    BY <1>3, <1>6, <1>7, EntryType DEF OnChain, Heights
  <2>2. e.log \in B /\ e.fork = reorgs
    BY <1>7, <2>1 DEF OnChain
  <2>3. e = [log |-> e.log, block |-> tip + 1, fork |-> reorgs]
    BY <2>1, <2>2 DEF Entry
  <2>4. QED
    BY <2>2, <2>3
<1>9. \A y \in mined : y.fork \in Nat /\ y.block \in Nat
  BY <1>1, EntryType DEF TypeOK, Heights
<1>10. ChainInv'
  <2>1. (\A e \in Entry : OnChain(e) => e \in mined)'
    BY <1>1, <1>6, <1>8 DEF ChainInv
  <2>2. (\A e \in mined : e.fork < reorgs \/ (e.fork = reorgs /\ e.block <= tip))'
    BY <1>1, <1>3, <1>4, <1>6, <1>9 DEF ChainInv
  <2>3. (\A h \in Heights : chain[h].fork <= reorgs)'
    BY <1>1, <1>3, <1>6, <1>7 DEF ChainInv
  <2>4. (\A g, h \in Heights : g <= h /\ h <= tip => chain[g].fork <= chain[h].fork)'
    BY <1>1, <1>3, <1>6, <1>7, <2>3 DEF ChainInv, Heights
  <2>5. QED
    BY <2>1, <2>2, <2>3, <2>4 DEF ChainInv
<1>11. Waiting' = IF pc = "listen" THEN Waiting \union new ELSE Waiting
  <2>1. CASE pc = "listen"
    BY <1>5, <2>1, WaitingAdd DEF Mine, Push
  <2>2. CASE pc # "listen"
    BY <2>2, WaitingSame DEF Mine, Push
  <2>3. QED
    BY <2>1, <2>2
<1>12. FeedInv'
  <2>1. \A x \in new, y \in handed : x # y /\ ~Earlier(x, y)
    BY <1>1, <1>3, <1>4, <1>9 DEF FeedInv, ChainInv, Earlier
  <2>2. QED
    BY <1>1, <1>6, <1>11, <2>1 DEF FeedInv, Earlier
<1>13. CursorInv'
  <2>1. pc # "listen" => inbox' = inbox
    BY DEF Mine, Push
  <2>2. ASSUME Polling', NEW y \in (handed \union Waiting)'
        PROVE  /\ y \in handed \union Waiting
               /\ y.block < Frontier
               /\ \A e \in Entry : OnChain(e)' /\ Frontier <= e.block => y.fork <= e.fork
    <3>1. Polling /\ y \in handed \union Waiting
      BY <1>6, <1>11, <2>2 DEF Polling
    <3>2. y.fork <= reorgs
      BY <1>1, <1>3, <1>9, <3>1 DEF FeedInv, ChainInv
    <3>3. QED
      BY <1>1, <1>4, <1>8, <3>1, <3>2 DEF CursorInv
  <2>3. (Polling /\ reorgs = 0 => Frontier <= tip + 1)'
    <3>1. Frontier \in Nat
      BY <1>1, BaseClientAssumption DEF Frontier, TypeOK
    <3>2. QED
      BY <1>1, <1>3, <1>6, <3>1 DEF CursorInv, Polling
  <2>4. (pc = "fetch" /\ reorgs = 0 => to <= tip)'
    BY <1>1, <1>3, <1>6 DEF CursorInv, TypeOK
  <2>5. /\ (pc \in {"start", "wait", "fetch", "ended"} => inbox = {})'
        /\ (pc = "start" => handed = {})'
        /\ (pc \in {"fetch", "handle"} => cursor <= to)'
    BY <1>1, <1>6, <2>1 DEF CursorInv
  <2>6. QED
    BY <1>6, <2>2, <2>3, <2>4, <2>5 DEF CursorInv
<1>14. NothingSkipped'
  <2>1. missed' = IF mode = "poll" /\ pc \in Running /\ tip + 1 < Frontier
                  THEN missed \union new ELSE missed
    BY DEF Mine
  <2>2. ASSUME pc \in Running, NEW e \in Entry, OnChain(e)', from <= e.block,
               e.log \notin Malformed, mode = "poll" => e.block < Frontier
        PROVE  e \in handed \union Waiting' \union missed'
    <3>1. CASE OnChain(e)
      BY <1>1, <1>11, <2>1, <2>2, <3>1 DEF NothingSkipped
    <3>2. CASE e \in new
      <4>1. CASE mode = "poll"
        BY <1>4, <2>1, <2>2, <3>2, <4>1
      <4>2. CASE mode = "ws"
        BY <1>1, <1>11, <2>2, <3>2, <4>2 DEF TypeOK, Running
      <4>3. QED
        BY <1>1, <4>1, <4>2 DEF TypeOK
    <3>3. QED
      BY <1>8, <2>2, <3>1, <3>2
  <2>3. ASSUME missed' # {}, reorgs = 0 PROVE FALSE
    <3>1. mode = "poll" /\ pc \in Running /\ tip + 1 < Frontier
      BY <1>1, <2>1, <2>3 DEF NothingSkipped
    <3>2. Frontier <= tip + 1
      BY <1>1, <2>3, <3>1 DEF CursorInv, Polling, Running, TypeOK
    <3>3. Frontier \in Nat
      BY <1>1, BaseClientAssumption DEF Frontier, TypeOK
    <3>4. QED
      BY <1>3, <3>1, <3>2, <3>3
  <2>4. QED
    BY <1>3, <1>6, <2>2, <2>3 DEF NothingSkipped
<1>15. QED
  BY <1>2, <1>10, <1>12, <1>13, <1>14 DEF ClientInv

LEMMA ReorgKeeps ==
  ASSUME ClientInv, Reorg
  PROVE  ClientInv'
<1>1. TypeOK /\ ChainInv /\ FeedInv /\ CursorInv /\ NothingSkipped
  BY DEF ClientInv
<1>2. TypeOK'
  BY <1>1, ReorgTypes
<1>3. tip \in Nat /\ reorgs \in Nat /\ tip \in Heights /\ tip' = tip - 1 /\ reorgs' = reorgs + 1
  BY <1>1 DEF TypeOK, Reorg, Heights
<1>4. /\ UNCHANGED <<mode, pc, cursor, to, from, handed, mined, missed>>
      /\ Frontier' = Frontier
  BY DEF Reorg, runVars, Frontier
<1>5. /\ \A h \in Heights : h # tip => chain'[h] = chain[h]
      /\ chain'[tip] = NoBlock
  BY <1>1, <1>3 DEF Reorg, TypeOK
<1>6. \A e \in Entry : OnChain(e)' => OnChain(e)
  BY <1>3, <1>5, EntryType DEF OnChain, Heights
<1>7. Waiting' = Waiting
  <2>1. CASE pc = "listen"
    BY <2>1, WaitingRemovals, EntriesInType DEF Reorg, Push
  <2>2. CASE pc # "listen"
    BY <2>2, WaitingSame DEF Reorg, Push
  <2>3. QED
    BY <2>1, <2>2
<1>8. \A y \in mined : y.fork \in Nat /\ y.block \in Nat
  BY <1>1, EntryType DEF TypeOK, Heights
<1>9. ChainInv'
  <2>1. (\A e \in Entry : OnChain(e) => e \in mined)'
    BY <1>1, <1>4, <1>6 DEF ChainInv
  <2>2. (\A e \in mined : e.fork < reorgs \/ (e.fork = reorgs /\ e.block <= tip))'
    BY <1>1, <1>3, <1>4, <1>8 DEF ChainInv
  <2>3. \A h \in Heights : chain[h].fork \in Nat
    BY <1>1 DEF TypeOK, Block
  <2>4. (\A h \in Heights : chain[h].fork <= reorgs)'
    BY <1>1, <1>3, <1>5, <2>3 DEF ChainInv, NoBlock
  <2>5. (\A g, h \in Heights : g <= h /\ h <= tip => chain[g].fork <= chain[h].fork)'
    BY <1>1, <1>3, <1>5 DEF ChainInv, Heights
  <2>6. QED
    BY <2>1, <2>2, <2>4, <2>5 DEF ChainInv
<1>10. FeedInv'
  BY <1>1, <1>4, <1>7 DEF FeedInv, Earlier
<1>11. CursorInv'
  <2>1. pc # "listen" => inbox' = inbox
    BY DEF Reorg, Push
  <2>2. reorgs' # 0
    BY <1>3
  <2>3. (Polling => \A y \in handed \union Waiting :
           /\ y.block < Frontier
           /\ \A e \in Entry : OnChain(e) /\ Frontier <= e.block => y.fork <= e.fork)'
    BY <1>1, <1>4, <1>6, <1>7 DEF CursorInv, Polling
  <2>4. QED
    BY <1>1, <1>4, <2>1, <2>2, <2>3 DEF CursorInv
<1>12. NothingSkipped'
  BY <1>1, <1>3, <1>4, <1>6, <1>7 DEF NothingSkipped
<1>13. QED
  BY <1>2, <1>9, <1>10, <1>11, <1>12 DEF ClientInv

-----------------------------------------------------------------------------
(* ... and by the goroutine.                                                *)

\* A step that leaves the chain alone leaves what is known of it.
LEMMA ChainAlone ==
  ASSUME ChainInv, UNCHANGED l2Vars
  PROVE  ChainInv' /\ \A e \in Entry : OnChain(e)' <=> OnChain(e)
BY DEF ChainInv, OnChain, l2Vars

LEMMA StartKeeps ==
  ASSUME ClientInv, StartPoll \/ StartWS \/ StartFails
  PROVE  ClientInv'
<1>1. TypeOK /\ ChainInv /\ FeedInv /\ CursorInv /\ NothingSkipped
  BY DEF ClientInv
<1>2. UNCHANGED <<l2Vars, mode, to, inbox, handed, missed>> /\ pc = "start"
  BY DEF StartPoll, StartWS, StartFails, runVars
<1>3. TypeOK' /\ ChainInv'
  BY <1>1, <1>2, GoroutineTypes, ChainAlone DEF ClientStep
<1>4. inbox' = {} /\ handed' = {} /\ Waiting' = {}
  BY <1>1, <1>2, WaitingNone DEF CursorInv
<1>5. FeedInv'
  BY <1>4 DEF FeedInv
<1>6. tip \in Nat
  BY <1>1 DEF TypeOK, Heights
<1>7. CursorInv'
  BY <1>2, <1>4, <1>6 DEF CursorInv, StartPoll, StartWS, StartFails, Polling, Frontier, l2Vars
<1>8. \A e \in Entry : OnChain(e)' => e.block <= tip /\ e.block \in Nat
  BY <1>2, EntryType DEF OnChain, l2Vars, Heights
<1>9. NothingSkipped'
  <2>1. missed' # {} => reorgs' > 0
    BY <1>1, <1>2 DEF NothingSkipped, l2Vars
  <2>2. CASE StartPoll
    BY <1>6, <1>8, <2>1, <2>2 DEF StartPoll, NothingSkipped, Frontier
  <2>3. CASE StartWS
    BY <1>6, <1>8, <2>1, <2>3 DEF StartWS, NothingSkipped
  <2>4. CASE StartFails
    BY <2>1, <2>4 DEF StartFails, NothingSkipped, Running
  <2>5. QED
    BY <2>2, <2>3, <2>4
<1>10. QED
  BY <1>3, <1>5, <1>7, <1>9 DEF ClientInv

LEMMA PollKeeps ==
  ASSUME ClientInv, Tick \/ FetchFails \/ EndPoll
  PROVE  ClientInv'
<1>1. TypeOK /\ ChainInv /\ FeedInv /\ CursorInv /\ NothingSkipped
  BY DEF ClientInv
<1>2. /\ UNCHANGED <<l2Vars, mode, inbox, from, handed, missed>>
      /\ pc \in {"wait", "fetch", "handle"}
      /\ pc' \in {"wait", "fetch"}
  BY DEF Tick, FetchFails, EndPoll, runVars
<1>3. TypeOK' /\ ChainInv' /\ \A e \in Entry : OnChain(e)' <=> OnChain(e)
  BY <1>1, <1>2, GoroutineTypes, ChainAlone DEF ClientStep
<1>4. Frontier' = Frontier
  BY <1>2 DEF Tick, FetchFails, EndPoll, Frontier
<1>5. inbox = {} /\ Waiting' = Waiting
  BY <1>1, <1>2, WaitingSame DEF CursorInv, EndPoll, Tick, FetchFails
<1>6. FeedInv'
  BY <1>1, <1>2, <1>5 DEF FeedInv, Earlier, l2Vars
<1>7. CursorInv'
  BY <1>1, <1>2, <1>3, <1>4, <1>5
     DEF CursorInv, Polling, l2Vars, Tick, FetchFails, EndPoll, TypeOK, Heights
<1>8. NothingSkipped'
  BY <1>1, <1>2, <1>3, <1>4, <1>5 DEF NothingSkipped, Running, l2Vars
<1>9. QED
  BY <1>3, <1>6, <1>7, <1>8 DEF ClientInv

LEMMA FetchKeeps ==
  ASSUME ClientInv, Fetch
  PROVE  ClientInv'
<1>1. TypeOK /\ ChainInv /\ FeedInv /\ CursorInv /\ NothingSkipped
  BY DEF ClientInv
<1>2. /\ UNCHANGED <<l2Vars, mode, cursor, to, from, handed, missed>>
      /\ pc = "fetch" /\ pc' = "handle" /\ mode = "poll"
      /\ Frontier = cursor /\ Frontier' = to + 1
  BY <1>1 DEF Fetch, runVars, Frontier, TypeOK
<1>3. TypeOK' /\ ChainInv' /\ \A e \in Entry : OnChain(e)' <=> OnChain(e)
  BY <1>1, <1>2, GoroutineTypes, ChainAlone DEF ClientStep
<1>4. inbox = {}
  BY <1>1, <1>2 DEF CursorInv
<1>5. Waiting' = EntriesIn(cursor, to)
  <2>1. inbox' = inbox \union Notices(EntriesIn(cursor, to), FALSE)
    BY <1>4 DEF Fetch
  <2>2. Waiting = {}
    BY <1>4, WaitingElements
  <2>3. EntriesIn(cursor, to) \subseteq Entry
    BY EntriesInType
  <2>4. Waiting' = Waiting \union EntriesIn(cursor, to)
    BY <2>1, <2>3, WaitingAdd
  <2>5. QED
    BY <2>2, <2>4
<1>6. \A e \in EntriesIn(cursor, to) :
         e \in Entry /\ OnChain(e) /\ cursor <= e.block /\ e.block <= to
  BY DEF EntriesIn
<1>7. cursor \in Nat /\ to \in Nat /\ tip \in Nat /\ cursor <= to
  BY <1>1, <1>2, BaseClientAssumption DEF TypeOK, Heights, CursorInv
<1>8. \A y \in handed : y \in Entry /\ y.block < cursor
  BY <1>1, <1>2 DEF CursorInv, Polling, TypeOK
<1>9. \A e \in Entry : e.block \in Nat /\ e.fork \in Nat /\ e.block \in Heights
  BY EntryType DEF Heights
<1>10. FeedInv'
  <2>1. \A x \in EntriesIn(cursor, to), y \in handed : x # y /\ ~Earlier(x, y)
    <3>1. TAKE x \in EntriesIn(cursor, to), y \in handed
    <3>2. y.fork <= x.fork
      BY <1>1, <1>2, <1>6 DEF CursorInv, Polling
    <3>3. QED
      BY <1>6, <1>7, <1>8, <1>9, <3>2 DEF Earlier
  <2>2. EntriesIn(cursor, to) \subseteq mined
    BY <1>1, <1>6 DEF ChainInv
  <2>3. QED
    BY <1>1, <1>2, <1>5, <2>1, <2>2 DEF FeedInv, Earlier, l2Vars
<1>11. CursorInv'
  <2>1. ASSUME NEW y \in handed \union EntriesIn(cursor, to)
        PROVE  /\ y.block < to + 1
               /\ \A e \in Entry : OnChain(e) /\ to + 1 <= e.block => y.fork <= e.fork
    <3>1. CASE y \in handed
      BY <1>1, <1>2, <1>7, <1>8, <1>9, <3>1 DEF CursorInv, Polling
    <3>2. CASE y \in EntriesIn(cursor, to)
      <4>1. ASSUME NEW e \in Entry, OnChain(e), to + 1 <= e.block
            PROVE  y.fork <= e.fork
        <5>1. y.block <= e.block /\ e.block <= tip
          BY <1>6, <1>7, <1>9, <3>2, <4>1 DEF OnChain
        <5>2. chain[y.block].fork <= chain[e.block].fork
          BY <1>1, <1>6, <1>9, <3>2, <5>1 DEF ChainInv
        <5>3. QED
          BY <1>6, <3>2, <4>1, <5>2 DEF OnChain
      <4>2. y.block < to + 1
        BY <1>6, <1>7, <1>9, <3>2
      <4>3. QED
        BY <4>1, <4>2
    <3>3. QED
      BY <2>1, <3>1, <3>2
  <2>2. reorgs = 0 => to + 1 <= tip + 1
    BY <1>1, <1>2, <1>7 DEF CursorInv
  <2>3. QED
    BY <1>2, <1>3, <1>5, <1>7, <2>1, <2>2 DEF CursorInv, Polling, l2Vars
<1>12. NothingSkipped'
  <2>1. ASSUME NEW e \in Entry, OnChain(e), from <= e.block, e.log \notin Malformed,
               e.block < to + 1
        PROVE  e \in handed \union Waiting' \union missed
    <3>1. CASE e.block < cursor
      <4>1. Waiting = {}
        BY <1>4, WaitingElements
      <4>2. QED
        BY <1>1, <1>2, <2>1, <3>1, <4>1 DEF NothingSkipped, Running
    <3>2. CASE cursor <= e.block
      BY <1>5, <1>7, <1>9, <2>1, <3>2 DEF EntriesIn
    <3>3. QED
      BY <1>7, <1>9, <3>1, <3>2
  <2>2. QED
    BY <1>1, <1>2, <1>3, <2>1 DEF NothingSkipped, l2Vars
<1>13. QED
  BY <1>3, <1>10, <1>11, <1>12 DEF ClientInv

LEMMA TakeKeeps ==
  ASSUME ClientInv, NEW n \in inbox, PassOver(n) \/ Handle(n)
  PROVE  ClientInv'
<1>1. TypeOK /\ ChainInv /\ FeedInv /\ CursorInv /\ NothingSkipped
  BY DEF ClientInv
<1>2. /\ UNCHANGED <<l2Vars, mode, pc, cursor, to, from, missed>>
      /\ pc \in {"handle", "listen"}
      /\ inbox' = inbox \ {n}
      /\ Frontier' = Frontier
  BY DEF PassOver, Handle, NextNotice, runVars, Frontier
<1>3. TypeOK' /\ ChainInv' /\ \A e \in Entry : OnChain(e)' <=> OnChain(e)
  BY <1>1, <1>2, GoroutineTypes, ChainAlone DEF ClientStep
<1>4. Waiting' = IF n.removed THEN Waiting ELSE Waiting \ {n.entry}
  BY <1>1, <1>2, WaitingTake
<1>5. handed' = handed \/ (handed' = handed \union {n.entry} /\ ~n.removed)
  BY DEF PassOver, Handle, Ignored, runVars
<1>6. ~n.removed => n.entry \in Waiting
  BY WaitingElements
<1>7. FeedInv'
  <2>1. \A x \in Waiting : ~Earlier(x, n.entry)
    BY WaitingElements DEF PassOver, Handle, NextNotice
  <2>2. QED
    BY <1>1, <1>2, <1>4, <1>5, <1>6, <2>1 DEF FeedInv, Earlier, l2Vars
<1>8. (handed \union Waiting)' \subseteq handed \union Waiting
  BY <1>4, <1>5, <1>6
<1>9. CursorInv'
  BY <1>1, <1>2, <1>3, <1>8 DEF CursorInv, Polling, l2Vars
<1>10. NothingSkipped'
  <2>1. ASSUME NEW e \in Waiting, e.log \notin Malformed
        PROVE  e \in handed' \union Waiting'
    BY <1>4, <2>1 DEF PassOver, Handle, Ignored, runVars
  <2>2. handed \subseteq handed'
    BY <1>5
  <2>3. QED
    BY <1>1, <1>2, <1>3, <2>1, <2>2 DEF NothingSkipped, l2Vars
<1>11. QED
  BY <1>3, <1>7, <1>9, <1>10 DEF ClientInv

LEMMA StopKeeps ==
  ASSUME ClientInv, SubscriptionEnds \/ Restart
  PROVE  ClientInv'
<1>1. TypeOK /\ ChainInv /\ FeedInv /\ CursorInv /\ NothingSkipped
  BY DEF ClientInv
<1>2. TypeOK' /\ ChainInv'
  BY <1>1, GoroutineTypes, ChainAlone DEF ClientStep, SubscriptionEnds, Restart
<1>3. inbox' = {} /\ Waiting' = {} /\ handed' \subseteq handed /\ UNCHANGED l2Vars
  BY WaitingNone DEF SubscriptionEnds, Restart, runVars
<1>4. FeedInv'
  BY <1>1, <1>3 DEF FeedInv, l2Vars
<1>5. CursorInv' /\ NothingSkipped'
  BY <1>1, <1>3 DEF CursorInv, NothingSkipped, SubscriptionEnds, Restart, Polling, Running, l2Vars
<1>6. QED
  BY <1>2, <1>4, <1>5 DEF ClientInv

LEMMA ClientInvStep ==
  ASSUME ClientInv, [ClientNext]_clientVars
  PROVE  ClientInv'
<1>1. CASE ClientNext
  BY <1>1, MineKeeps, ReorgKeeps, StartKeeps, PollKeeps, FetchKeeps, TakeKeeps, StopKeeps
     DEF ClientNext, L2Step, ClientStep
<1>2. CASE UNCHANGED clientVars
  <2>1. /\ UNCHANGED <<l2Vars, mode, pc, cursor, to, inbox, from, handed, missed>>
        /\ Waiting' = Waiting /\ Frontier' = Frontier
    BY <1>2 DEF clientVars, runVars, Waiting, Frontier
  <2>2. TypeOK'
    BY <1>2, ClientTypeStep DEF ClientInv
  <2>3. ChainInv' /\ \A e \in Entry : OnChain(e)' <=> OnChain(e)
    BY <2>1, ChainAlone DEF ClientInv
  <2>4. FeedInv' /\ CursorInv' /\ NothingSkipped'
    BY <2>1, <2>3 DEF ClientInv, FeedInv, CursorInv, NothingSkipped, Earlier, Polling, l2Vars
  <2>5. QED
    BY <2>2, <2>3, <2>4 DEF ClientInv
<1>3. QED
  BY <1>1, <1>2

THEOREM ClientInvariant == ClientSpec => []ClientInv
<1>1. QED
  BY ClientInvInit, ClientInvStep, PTL DEF ClientSpec

\* No log between the start of the feed and the frontier is skipped, whatever fails
\* and whatever the head does between two calls (client.go:186-226).
THEOREM ClientSkipsNothing == ClientSpec => []NothingSkipped
<1>1. ClientInv => NothingSkipped
  BY DEF ClientInv
<1>2. QED
  BY <1>1, ClientInvariant, PTL

-----------------------------------------------------------------------------
(* The client implements the feed.                                          *)

LEMMA MineExtends ==
  ASSUME ClientInv, NEW B \in SUBSET Logs, Mine(B)
  PROVE  Feed!Extend
<1> DEFINE new == {[log |-> l, block |-> tip + 1, fork |-> reorgs] : l \in B}
<1>1. TypeOK /\ ChainInv /\ TypeOK'
  BY MineTypes DEF ClientInv
<1>2. mined' = mined \union new /\ UNCHANGED <<handed, served>>
  BY DEF Mine, runVars
<1>3. \A x \in new : x.fork = reorgs /\ x.block = tip + 1
  OBVIOUS
<1>4. tip \in Nat /\ reorgs \in Nat /\ \A y \in mined : y.block \in Nat /\ y.fork \in Nat
  <2>1. tip \in Nat /\ reorgs \in Nat
    BY <1>1, BaseClientAssumption DEF TypeOK, Heights
  <2>2. mined \subseteq Entry
    BY <1>1 DEF TypeOK
  <2>3. QED
    BY <2>1, <2>2, EntryType, BaseClientAssumption DEF Heights
<1>5. \A x \in new, y \in mined : Feed!Earlier(y, x)
  BY <1>1, <1>3, <1>4 DEF ChainInv, Feed!Earlier
<1>6. QED
  BY <1>1, <1>2, <1>5 DEF Feed!Extend, TypeOK

LEMMA FeedStep ==
  ASSUME ClientInv, [ClientNext]_clientVars
  PROVE  [Feed!Next]_(Feed!feedVars)
<1>1. ASSUME NEW B \in SUBSET Logs, Mine(B) PROVE Feed!Next
  BY <1>1, MineExtends DEF Feed!Next
<1>2. ASSUME NEW n \in inbox, Handle(n) PROVE Feed!Next
  <2>1. n.entry \in Entry /\ n.entry \in Waiting
    BY <1>2, WaitingElements DEF Handle, Ignored, ClientInv, TypeOK, Notice
  <2>2. Feed!Hand(n.entry)
    BY <1>2, <2>1 DEF Handle, l2Vars, ClientInv, FeedInv, Feed!Hand, Earlier, Feed!Earlier
  <2>3. QED
    BY <2>1, <2>2 DEF Feed!Next
<1>3. CASE Restart
  BY <1>3 DEF Restart, l2Vars, Feed!Next, Feed!StartOver
<1>4. CASE Reorg \/ ClientStep \/ UNCHANGED clientVars
  <2>1. ASSUME NEW n \in inbox, PassOver(n) PROVE UNCHANGED <<mined, handed, served>>
    BY <2>1 DEF PassOver, l2Vars, runVars
  <2>2. ASSUME Reorg \/ StartPoll \/ StartWS \/ StartFails
        PROVE  UNCHANGED <<mined, handed, served>>
    BY <2>2 DEF Reorg, StartPoll, StartWS, StartFails, l2Vars, runVars
  <2>3. ASSUME \/ Tick \/ Fetch \/ FetchFails \/ EndPoll
               \/ SubscriptionEnds \/ UNCHANGED clientVars
        PROVE  UNCHANGED <<mined, handed, served>>
    BY <2>3 DEF Tick, Fetch, FetchFails, EndPoll, SubscriptionEnds, clientVars, l2Vars, runVars
  <2>4. QED
    BY <1>4, <2>1, <2>2, <2>3 DEF ClientStep, Feed!feedVars
<1>5. QED
  BY <1>1, <1>2, <1>3, <1>4 DEF ClientNext, L2Step

\* The handler is called with logs that were mined, with none twice in a run of the
\* process, and with none after one that was mined later, by polling and by
\* subscription, across reorgs and failed calls (client.go:124-234).
THEOREM ClientImplementsFeed == ClientSpec => FeedSpec
<1>1. Init => Feed!Init
  BY DEF Init, Feed!Init
<1>2. ClientInv /\ [ClientNext]_clientVars => [Feed!Next]_(Feed!feedVars)
  BY FeedStep
<1>3. QED
  BY <1>1, <1>2, ClientInvariant, PTL DEF ClientSpec, FeedSpec, Feed!Spec

-----------------------------------------------------------------------------
(* The composed process only adds steps that the client does not see.       *)

LEMMA BridgeStep == ASSUME [Next]_vars PROVE [ClientNext]_clientVars
BY DEF Next, vars, Ingest, ClientRuns, UseCaseStep, L2Moves, ProcessRestart, ClientNext

\* The process of main.go, client, use case and orchestrator together, behaves as the
\* client does: IngestEvent runs inside it and changes nothing it reads.
THEOREM BridgeImplementsClient == Spec => ClientSpec
<1>1. BridgeInit => Init
  BY DEF BridgeInit
<1>2. QED
  BY <1>1, BridgeStep, PTL DEF Spec, ClientSpec

\* Types of the client, in the composed process.
THEOREM BridgeTypeCorrect == Spec => []TypeOK
<1>1. QED
  BY BridgeImplementsClient, ClientTypeCorrect, PTL

\* No log is skipped, in the composed process.
THEOREM BridgeSkipsNothing == Spec => []NothingSkipped
<1>1. QED
  BY BridgeImplementsClient, ClientSkipsNothing, PTL

\* The composed process feeds IngestEvent as the abstract feed does.
THEOREM BridgeImplementsFeed == Spec => FeedSpec
<1>1. QED
  BY BridgeImplementsClient, ClientImplementsFeed, PTL
=============================================================================
