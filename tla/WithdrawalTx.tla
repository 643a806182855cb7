------------------------------ MODULE WithdrawalTx ------------------------------
(***************************************************************************)
(* From a transaction of the L2 to the withdrawal the bridge speaks about  *)
(* on L1: the logs of the transaction are parsed (EventParsing), and the   *)
(* adapter rebuilds the withdrawal from an event (buildWithdrawalTx and    *)
(* nonceFromReceipt of internal/bridge/base/adapter.go), to prove it under *)
(* the hash of what it rebuilt, and to poll it under the hash of the event *)
(* if that has one.                                                        *)
(*                                                                         *)
(*   sent     the withdrawals the transaction made, as the message passer  *)
(*            recorded them                                                *)
(*   receipt  its logs;  of  the withdrawal each log is about              *)
(*   cur      the log in hand, pc what was done with it                    *)
(*   event    what parseLog returned;  built  the withdrawal rebuilt       *)
(*                                                                         *)
(* keccak is abstracted: the hash of a rebuilt withdrawal is the recorded  *)
(* one if every field agrees, and no other withdrawal's otherwise.         *)
(***************************************************************************)
EXTENDS EventParsing

CONSTANTS
  Hashes,      \* hashes the message passer may have recorded
  MaxPayload   \* bound: bytes of a payload

\* A log is far shorter than half the range of a uint64, and the low 64 bits of a
\* real hash exceed the length of any log.
ASSUME HashesAssumption ==
  /\ MaxPayload \in Nat /\ 6 * W + MaxPayload < U \div 2
  /\ Hashes \subseteq Nat
  /\ \A h \in Hashes : Fits(h) /\ h % U > 6 * W + MaxPayload /\ Hashes # {h}

VARIABLES sent, receipt, of, cur, pc, event, built

vars == <<sent, receipt, of, cur, pc, event, built>>

\* Addresses: the user and the peer it withdraws to; the messengers of the bridge.
User == 1
Peer == 2
L2Messenger == 3
L1Messenger == 4

Payload(n) == [i \in 1 .. n |-> 1 + (i % (Base - 1))]

Withdrawal(k, from, target, n, h) ==
  [nonce |-> k, sender |-> from, target |-> target, value |-> 2 * k, gas |-> 2 * k + 1,
   payload |-> Payload(n), hash |-> h]

MessagePassed(w, layout) ==
  [kind |-> "MessagePassed", topics |-> 4, sender |-> w.sender, target |-> w.target,
   nonce |-> w.nonce, data |-> IF layout = "abi" THEN AbiEncoded(w) ELSE HashLast(w)]

\* The bridge's own log of a withdrawal it made for the user.
BridgeInitiated(w, kind) ==
  [kind |-> kind, topics |-> IF kind = "ETHBridgeInitiated" THEN 3 ELSE 4,
   sender |-> User, target |-> Peer, nonce |-> Nil,
   data |-> BridgeData(IF kind = "ETHBridgeInitiated" THEN <<>> ELSE WordBytes(Peer),
                       w.value, w.payload)]

\* A withdrawal made by the user, or through the bridge.
Direct(k, n, h) == Withdrawal(k, User, Peer, n, h)
Relayed(k, n, h) == Withdrawal(k, L2Messenger, L1Messenger, n + 1, h)

Other(h) == CHOOSE g \in Hashes : g # h

\* The node's answer may be cut short.
Cut(log, n) == [log EXCEPT !.data = SubSeq(@, 1, n)]

NoBuilt == [out |-> "none"]

Init ==
  /\ \E h \in Hashes, n \in 0 .. MaxPayload, layout \in {"hashLast", "abi"} :
       \/ /\ sent = <<Direct(1, n, h)>> /\ of = <<1>>
          /\ \E c \in 0 .. Len(MessagePassed(sent[1], layout).data) :
               receipt = <<Cut(MessagePassed(sent[1], layout), c)>>
       \/ \E kind \in {"ETHBridgeInitiated", "ERC20BridgeInitiated"} :
            /\ sent = <<Relayed(1, n, h), Direct(2, n, Other(h))>> /\ of = <<1, 1, 2>>
            /\ receipt = <<BridgeInitiated(sent[1], kind), MessagePassed(sent[1], layout),
                           MessagePassed(sent[2], layout)>>
  /\ cur \in DOMAIN receipt
  /\ pc = "logged" /\ event = ParseError /\ built = NoBuilt

-----------------------------------------------------------------------------
Parse ==
  /\ pc = "logged"
  /\ pc' = "parsed" /\ event' = parseLog(receipt[cur])
  /\ UNCHANGED <<sent, receipt, of, cur, built>>

\* The MessagePassed logs of the receipt; the first one counts.
FromReceipt == {i \in DOMAIN receipt : receipt[i].kind = "MessagePassed"}

NonceFromReceipt(i) == i \in FromReceipt /\ \A j \in FromReceipt : i <= j

Rebuilt(nonce, gas) ==
  [out |-> "tx", nonce |-> nonce, sender |-> event.sender, target |-> event.recipient,
   value |-> event.amount, gas |-> gas, payload |-> event.data]

\* An event of the message passer carries its nonce and gas limit.
BuildDirect ==
  /\ pc = "parsed" /\ event.out = "event" /\ event.nonce # Nil /\ event.gas # Nil
  /\ pc' = "built" /\ built' = Rebuilt(event.nonce, event.gas)
  /\ UNCHANGED <<sent, receipt, of, cur, event>>

\* Those of an event of the bridge are fetched with the receipt.
BuildFromReceipt ==
  /\ pc = "parsed" /\ event.out = "event" /\ (event.nonce = Nil \/ event.gas = Nil)
  /\ pc' = "built"
  /\ \E i \in DOMAIN receipt :
       /\ NonceFromReceipt(i)
       /\ built' = Rebuilt(receipt[i].nonce, WordAt(receipt[i].data, W))
  /\ UNCHANGED <<sent, receipt, of, cur, event>>

Next == Parse \/ BuildDirect \/ BuildFromReceipt

Spec == Init /\ [][Next]_vars

-----------------------------------------------------------------------------
\* The withdrawals of the transaction that a hash names: the hash of the rebuilt
\* withdrawal, under which it is proved ...
ProvedAs ==
  {k \in DOMAIN sent : \A f \in {"nonce", "sender", "target", "value", "gas", "payload"} :
                         built[f] = sent[k][f]}

FaultyPolledAs == {k \in DOMAIN sent : sent[k].hash = event.hash}

\* ... and the hash IsProven and IsFinalized ask the portal about.
PolledAs ==
  IF event.hash # 0 THEN {k \in DOMAIN sent : sent[k].hash = event.hash} ELSE ProvedAs

-----------------------------------------------------------------------------
Own == sent[of[cur]]

\* A log in the layout of the parser's test is decoded to what was sent, for every
\* length of the payload, a multiple of the word or not (events_test.go:230-236).
DecodedAsSent ==
  pc # "logged" /\ receipt[cur] = MessagePassed(Own, "hashLast") =>
    event = [out |-> "event", sender |-> Own.sender, recipient |-> Own.target,
             amount |-> Own.value, data |-> Own.payload, nonce |-> Own.nonce,
             gas |-> Own.gas, hash |-> Own.hash]

\* In either layout, cut short or not, an event of the message passer carries the hash
\* and the payload of its own withdrawal or none: no other word of the log is taken for
\* the one, no other bytes for the other (events.go:218-234).
NothingForeign ==
  event.out = "event" =>
    /\ event.hash \in {0, Own.hash}
    /\ receipt[cur].kind = "MessagePassed" => event.data \in {<<>>, Own.payload}

\* What an intent proves is what it polls, though the first hash is recomputed and the
\* second is the event's where it has one: whatever is cut off a log, no event keeps
\* its hash and loses its payload (adapter.go:214-223, 269-276).
SameWithdrawal ==
  pc = "built" => PolledAs = ProvedAs

\* The end of the hash, as the length word places it, is out of the range of an int.
BeyondInt(data) == ((dataLen(data) + W - 1) \div W) * W + 5 * W >= U \div 2

\* Nothing is read beyond the end of a log: wherever the answer is cut, and in either
\* layout, a log whose length word is read stays within its data as long as the sums
\* stay within an int (events.go:214-235).
ReadWithinLog ==
  (receipt[cur].kind = "MessagePassed" /\ Len(receipt[cur].data) >= 5 * W
     => ~BeyondInt(receipt[cur].data))
  => event.out # "panic"

\* events.go:54-56, parseLog returns "(_, false, err) on a decode failure": whatever the
\* log, it returns.
DecodeFailureIsError == event.out # "panic"
=============================================================================
