----------------------------- MODULE EventParsing -----------------------------
(***************************************************************************)
(* The decoding of the bridge's logs (internal/chain/base/events.go), at a *)
(* reduced width: a word has W bytes (32 in the code), a byte is below     *)
(* Base (256), and a uint64 is below U (2^64), an int being the same bits  *)
(* read as two's complement.  Offsets and lengths are computed as the code *)
(* computes them, wrapping where it wraps.                                 *)
(*                                                                         *)
(* The topics other than the signature are abstracted to the numbers and   *)
(* addresses they hold; the data is a sequence of bytes, since where a     *)
(* field is read from is the question.                                     *)
(***************************************************************************)
EXTENDS Integers, Sequences

CONSTANTS W, Base, U

ASSUME WidthAssumption ==
  /\ W \in Nat \ {0} /\ Base \in Nat \ {0, 1}
  /\ U \in Nat \ {0} /\ U % 2 = 0

\* A field that is nil, an address of none.
Nil == 0

ParseError == [out |-> "error"]
ParsePanic == [out |-> "panic"]

-----------------------------------------------------------------------------
\* Words and bytes.

\* n without its j low bytes, for j up to a word.
Shifted(n) == LET s[j \in 0 .. W] == IF j = 0 THEN n ELSE s[j - 1] \div Base IN s

\* n is below Base to the power W.
Fits(n) == Shifted(n)[W] = 0

WordBytes(n) == [i \in 1 .. W |-> Shifted(n)[W - i] % Base]

BytesValue(bytes) ==
  LET v[i \in 0 .. Len(bytes)] == IF i = 0 THEN 0 ELSE v[i - 1] * Base + bytes[i]
  IN  v[Len(bytes)]

\* data[a:b] of Go; the callers see to it that it is within the data.
Slice(data, a, b) == SubSeq(data, a + 1, b)
WordAt(data, a) == BytesValue(Slice(data, a, a + W))

Uint64(n) == n % U

ToInt(n) == IF n < U \div 2 THEN n ELSE n - U

FaultyPadded(n) == n
\* ((n + 31) / 32) * 32
Padded(n) == Uint64((Uint64(n + W - 1) \div W) * W)

-----------------------------------------------------------------------------
\* The part of a log's data after the fixed words, empty if there is none.
Rest(data, words) == IF Len(data) > words * W THEN Slice(data, words * W, Len(data)) ELSE <<>>

BridgeEvent(sender, recipient, amount, data) ==
  [out |-> "event", sender |-> sender, recipient |-> recipient, amount |-> amount,
   data |-> data, nonce |-> Nil, gas |-> Nil, hash |-> 0]

parseETHBridgeInitiated(log) ==
  IF log.topics < 3 \/ Len(log.data) < W THEN ParseError
  ELSE BridgeEvent(log.sender, log.target, WordAt(log.data, 0), Rest(log.data, 2))

\* The recipient is a word of the data here.
parseERC20BridgeInitiated(log) ==
  IF log.topics < 4 \/ Len(log.data) < 2 * W THEN ParseError
  ELSE BridgeEvent(log.sender, WordAt(log.data, 0), WordAt(log.data, W), Rest(log.data, 3))

-----------------------------------------------------------------------------
\* parseMessagePassed reads: value, gas limit, offset, length, payload, hash.

dataLen(data) == Uint64(WordAt(data, 3 * W))

\* dataLen > 0 && len(log.Data) >= int(128+dataLen)
TakesPayload(data) ==
  dataLen(data) > 0 /\ Len(data) >= ToInt(Uint64(4 * W + dataLen(data)))

FaultyHashOffset(data) == Uint64(4 * W + dataLen(data))
hashOffset(data) == Uint64(4 * W + Padded(dataLen(data)))

FaultyTakesHash(data) == Len(data) >= ToInt(hashOffset(data))
\* len(log.Data) >= int(hashOffset+32)
TakesHash(data) == Len(data) >= ToInt(Uint64(hashOffset(data) + W))

\* What lies beyond the data: make of such a length, or the slice, panics.
PayloadPanics(data) == TakesPayload(data) /\ dataLen(data) > Len(data)
HashPanics(data) == TakesHash(data) /\ hashOffset(data) + W > Len(data)

parseMessagePassed(log) ==
  LET data == log.data IN
  IF log.topics < 4 \/ Len(data) < 5 * W THEN ParseError
  ELSE IF PayloadPanics(data) \/ HashPanics(data) THEN ParsePanic
  ELSE [BridgeEvent(log.sender, log.target, WordAt(data, 0),
                    IF TakesPayload(data)
                    THEN Slice(data, 4 * W, 4 * W + dataLen(data)) ELSE <<>>)
          EXCEPT !.nonce = log.nonce, !.gas = WordAt(data, W),
                 !.hash = IF TakesHash(data) THEN WordAt(data, hashOffset(data)) ELSE 0]

parseLog(log) ==
  CASE log.kind = "MessagePassed"       -> parseMessagePassed(log)
    [] log.kind = "ETHBridgeInitiated"   -> parseETHBridgeInitiated(log)
    [] log.kind = "ERC20BridgeInitiated" -> parseERC20BridgeInitiated(log)

-----------------------------------------------------------------------------
(* How the L2 writes the data of a log.                                     *)

Zeros(n) == [i \in 1 .. n |-> 0]
PaddedBytes(bytes) ==
  bytes \o Zeros(((Len(bytes) + W - 1) \div W) * W - Len(bytes))

\* The layout the parser and its test take: the hash after the payload.
HashLast(w) ==
  WordBytes(w.value) \o WordBytes(w.gas) \o WordBytes(5 * W) \o WordBytes(Len(w.payload))
    \o PaddedBytes(w.payload) \o WordBytes(w.hash)

\* The ABI encoding of the event declared at events.go:181-191: the hash is the fourth
\* word, and the payload comes last.
AbiEncoded(w) ==
  WordBytes(w.value) \o WordBytes(w.gas) \o WordBytes(4 * W) \o WordBytes(w.hash)
    \o WordBytes(Len(w.payload)) \o PaddedBytes(w.payload)

\* (amount, extraData), and (to, amount, extraData) for a token.
BridgeData(head, amount, extra) ==
  head \o WordBytes(amount) \o WordBytes(Len(head) + 2 * W) \o WordBytes(Len(extra))
    \o PaddedBytes(extra)
=============================================================================
