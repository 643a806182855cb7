\* Words of two bytes, uint64 as 0..63: payloads of up to five bytes, so with and without
\* padding, and logs up to 16 bytes, where int turns negative at 32.
\* A log is parsed and rebuilt once.
SPECIFICATION Spec
CONSTANTS
  W = 2
  Base = 16
  U = 64
  Hashes <- EdgeHashes
  MaxPayload = 5
INVARIANTS DecodedAsSent NothingForeign SameWithdrawal ReadWithinLog
CHECK_DEADLOCK FALSE
