------------------------------ MODULE BaseClient ------------------------------
(***************************************************************************)
(* The chain client of Base (internal/chain/base/client.go): SubscribeLogs *)
(* by polling, with a cursor of heights, or by a WebSocket subscription,   *)
(* in the goroutine the listener starts (internal/listener/listener.go),   *)
(* against an L2 that grows, drops blocks and fails to answer.             *)
(*                                                                         *)
(*   tip, chain, reorgs  the L2: its height, its blocks (each with the     *)
(*              bridge's logs, and the number of reorgs before it was      *)
(*              mined, which tells it from others of its height)           *)
(*   mode       poll, or ws when a WebSocket client was dialled            *)
(*   pc         where SubscribeLogs is                                     *)
(*   cursor     fromBlock;  to  toBlock of the poll under way              *)
(*   inbox      the logs of the answer being gone through, or in logCh     *)
(*   restarts   how often the process was restarted                        *)
(* History variables, read by properties only:                             *)
(*   from       the height where the feed of this run starts               *)
(*   mined      all logs the chain ever held                               *)
(*   handed     the logs the handler was called with in this run           *)
(*   served     how often it was called in this run                        *)
(*   missed     logs mined at a height the poll had already passed         *)
(*                                                                         *)
(* One node answers every call, from the chain as it is.  The order of the *)
(* logs within a block is arbitrary.  A notice of a removed log is ignored *)
(* wherever it stands in the channel, so its place is not kept.            *)
(***************************************************************************)
EXTENDS Naturals

CONSTANTS
  Logs,         \* logs of the bridge's contracts, one per withdrawal
  Malformed,    \* those parseLog rejects
  Faulty,       \* whether an RPC call or the subscription may fail
  MaxHead,      \* bound: the L2 stops growing here
  MaxL2Reorgs,  \* bound: blocks dropped from its tip
  MaxRestarts   \* bound: restarts of the process

ASSUME BaseClientAssumption ==
  /\ Malformed \subseteq Logs
  /\ Faulty \in BOOLEAN
  /\ MaxHead \in Nat \ {0}
  /\ MaxL2Reorgs \in Nat
  /\ MaxRestarts \in Nat

VARIABLES tip, chain, reorgs, mode, pc, cursor, to, inbox, restarts,
          from, mined, handed, served, missed

l2Vars == <<tip, chain, reorgs, mined>>
runVars == <<restarts, from, handed, served>>
clientVars == <<l2Vars, mode, pc, cursor, to, inbox, runVars, missed>>

Heights == 1 .. MaxHead
Block == [logs : SUBSET Logs, fork : 0 .. MaxL2Reorgs]
Entry == [log : Logs, block : Heights, fork : 0 .. MaxL2Reorgs]
Notice == [entry : Entry, removed : BOOLEAN]

NoBlock == [logs |-> {}, fork |-> 0]

\* The feed is up: polling, or listening to the subscription.
Running == {"wait", "fetch", "handle", "listen"}

TypeOK ==
  /\ tip \in Heights
  /\ chain \in [Heights -> Block]
  /\ reorgs \in 0 .. MaxL2Reorgs
  /\ mode \in {"poll", "ws"}
  /\ pc \in Running \union {"start", "ended"}
  /\ pc \in {"wait", "fetch", "handle"} => mode = "poll"
  /\ pc = "listen" => mode = "ws"
  /\ cursor \in 0 .. MaxHead + 1 /\ to \in 0 .. MaxHead /\ from \in 0 .. MaxHead + 1
  /\ inbox \subseteq Notice
  /\ restarts \in 0 .. MaxRestarts /\ served \in Nat
  /\ mined \subseteq Entry /\ handed \subseteq Entry /\ missed \subseteq Entry

Init ==
  /\ tip = 1 /\ chain = [h \in Heights |-> NoBlock] /\ reorgs = 0
  /\ mode \in {"poll", "ws"} /\ pc = "start"
  /\ cursor = 0 /\ to = 0 /\ inbox = {}
  /\ restarts = 0 /\ from = 0
  /\ mined = {} /\ handed = {} /\ served = 0 /\ missed = {}

-----------------------------------------------------------------------------
\* The L2.

OnChain(e) ==
  /\ e.block <= tip
  /\ e.log \in chain[e.block].logs
  /\ e.fork = chain[e.block].fork

EntriesIn(a, b) == {e \in Entry : OnChain(e) /\ a <= e.block /\ e.block <= b}

Earlier(x, y) == x.fork < y.fork \/ (x.fork = y.fork /\ x.block < y.block)

Notices(entries, removed) == {[entry |-> e, removed |-> removed] : e \in entries}

\* The first height the poll has not asked about.
Frontier == IF pc = "handle" THEN to + 1 ELSE cursor

\* What the node pushes into the channel of a subscription.
Push(notices) == inbox' = IF pc = "listen" THEN inbox \union notices ELSE inbox

\* A block with the logs B, each of which is in one block of the chain at most.
Mine(B) ==
  /\ tip < MaxHead
  /\ \A h \in 1 .. tip : B \intersect chain[h].logs = {}
  /\ tip' = tip + 1
  /\ chain' = [chain EXCEPT ![tip + 1] = [logs |-> B, fork |-> reorgs]]
  /\ LET new == {[log |-> l, block |-> tip + 1, fork |-> reorgs] : l \in B} IN
       /\ mined' = mined \union new
       /\ Push(Notices(new, FALSE))
       /\ missed' = IF mode = "poll" /\ pc \in Running /\ tip + 1 < Frontier
                    THEN missed \union new ELSE missed
  /\ UNCHANGED <<reorgs, mode, pc, cursor, to, runVars>>

\* A reorg drops the newest block; a subscription is told of its logs again.
Reorg ==
  /\ reorgs < MaxL2Reorgs
  /\ tip > 1
  /\ tip' = tip - 1
  /\ chain' = [chain EXCEPT ![tip] = NoBlock]
  /\ reorgs' = reorgs + 1
  /\ Push(Notices(EntriesIn(tip, tip), TRUE))
  /\ UNCHANGED <<mode, pc, cursor, to, runVars, mined, missed>>

L2Step == Reorg \/ \E B \in SUBSET Logs : Mine(B)

-----------------------------------------------------------------------------
\* SubscribeLogs.  An error of its first call ends it; the listener only logs that.

FaultyStartPoll ==
  /\ pc = "start" /\ mode = "poll"
  /\ pc' = "wait" /\ cursor' = tip + 1 /\ from' = tip
  /\ UNCHANGED <<l2Vars, mode, to, inbox, restarts, handed, served, missed>>

StartPoll ==
  /\ pc = "start" /\ mode = "poll"
  /\ pc' = "wait" /\ cursor' = tip /\ from' = tip
  /\ UNCHANGED <<l2Vars, mode, to, inbox, restarts, handed, served, missed>>

StartWS ==
  /\ pc = "start" /\ mode = "ws"
  /\ pc' = "listen" /\ from' = tip + 1
  /\ UNCHANGED <<l2Vars, mode, cursor, to, inbox, restarts, handed, served, missed>>

StartFails ==
  /\ pc = "start" /\ Faulty
  /\ pc' = "ended"
  /\ UNCHANGED <<l2Vars, mode, cursor, to, inbox, runVars, missed>>

\* The ticker fires and the head is read.  A failed read, or a head below the
\* cursor (no new block, or a reorg), leaves everything for the next tick.
Tick ==
  /\ pc = "wait"
  /\ tip >= cursor
  /\ pc' = "fetch" /\ to' = tip
  /\ UNCHANGED <<l2Vars, mode, cursor, inbox, runVars, missed>>

\* eth_getLogs of cursor .. to, on the chain of this later moment.
Fetch ==
  /\ pc = "fetch"
  /\ pc' = "handle" /\ inbox' = Notices(EntriesIn(cursor, to), FALSE)
  /\ UNCHANGED <<l2Vars, mode, cursor, to, runVars, missed>>

FaultyFetchFails ==
  /\ pc = "fetch" /\ Faulty
  /\ pc' = "wait" /\ cursor' = to + 1
  /\ UNCHANGED <<l2Vars, mode, to, inbox, runVars, missed>>

FetchFails ==
  /\ pc = "fetch" /\ Faulty
  /\ pc' = "wait"
  /\ UNCHANGED <<l2Vars, mode, cursor, to, inbox, runVars, missed>>

-----------------------------------------------------------------------------
\* The loop over the logs, of an answer or of the channel.

FaultyIgnored(n) == n.entry.log \in Malformed

\* A log that was removed, or that parseLog does not take, is passed over.
Ignored(n) == n.removed \/ n.entry.log \in Malformed

\* The oldest log waiting.
NextNotice(n) ==
  /\ pc \in {"handle", "listen"}
  /\ n \in inbox
  /\ \A m \in inbox : ~Earlier(m.entry, n.entry)

PassOver(n) ==
  /\ NextNotice(n) /\ Ignored(n)
  /\ inbox' = inbox \ {n}
  /\ UNCHANGED <<l2Vars, mode, pc, cursor, to, runVars, missed>>

\* The handler is called with the event of the log.
Handle(n) ==
  /\ NextNotice(n) /\ ~Ignored(n)
  /\ inbox' = inbox \ {n}
  /\ handed' = handed \union {n.entry} /\ served' = served + 1
  /\ UNCHANGED <<l2Vars, mode, pc, cursor, to, restarts, from, missed>>

FaultyEndPoll ==
  /\ pc = "handle" /\ inbox = {}
  /\ pc' = "wait" /\ cursor' = to + 2
  /\ UNCHANGED <<l2Vars, mode, to, inbox, runVars, missed>>

\* All logs of the answer are handled: the cursor moves past the range.
EndPoll ==
  /\ pc = "handle" /\ inbox = {}
  /\ pc' = "wait" /\ cursor' = to + 1
  /\ UNCHANGED <<l2Vars, mode, to, inbox, runVars, missed>>

\* The subscription fails, and with it SubscribeLogs, whatever is in the channel.
SubscriptionEnds ==
  /\ pc = "listen" /\ Faulty
  /\ pc' = "ended" /\ inbox' = {}
  /\ UNCHANGED <<l2Vars, mode, cursor, to, runVars, missed>>

\* The process stops anywhere, be it by a panic, and New dials again.
Restart ==
  /\ restarts < MaxRestarts
  /\ restarts' = restarts + 1
  /\ mode' \in {"poll", "ws"} /\ pc' = "start"
  /\ cursor' = 0 /\ to' = 0 /\ inbox' = {}
  /\ from' = 0 /\ handed' = {} /\ served' = 0 /\ missed' = {}
  /\ UNCHANGED l2Vars

\* What the goroutine does without calling the handler.
ClientStep ==
  \/ StartPoll \/ StartWS \/ StartFails
  \/ Tick \/ Fetch \/ FetchFails
  \/ \E n \in inbox : PassOver(n)
  \/ EndPoll
  \/ SubscriptionEnds

ClientNext ==
  \/ L2Step
  \/ ClientStep
  \/ \E n \in inbox : Handle(n)
  \/ Restart

ClientSpec == Init /\ [][ClientNext]_clientVars

-----------------------------------------------------------------------------
Waiting == {n.entry : n \in {m \in inbox : ~m.removed}}

\* While the feed is up, a log of a block that stands, at or after the height it
\* started from and behind what was asked for, was handed to the handler or is about
\* to be, unless it was mined below the cursor, which takes a reorg; the fetches that
\* failed and the head that moved between two calls lose none (client.go:186-226).
NothingSkipped ==
  /\ pc \in Running =>
       \A e \in Entry :
         /\ OnChain(e) /\ from <= e.block /\ e.log \notin Malformed
         /\ mode = "poll" => e.block < Frontier
         => e \in handed \union Waiting \union missed
  /\ missed # {} => reorgs > 0

Feed == INSTANCE LogFeed

\* The client implements the feed: only logs that were mined, none twice, none after
\* a later one, whatever the head did between two polls (client.go:170-171, 225-226).
FeedSpec == Feed!Spec
=============================================================================
