\* Polling or subscribed: one log that decodes and one that does not, together or
\* apart, a dropped block, a restart, and calls that fail.
SPECIFICATION FairSpec
CONSTANTS
  l1 = l1  l2 = l2  NoID = NoID
  Logs = {l1, l2}
  Malformed = {l2}
  Workers = {o1}
  SafeConfirmations = 1
  MaxHead = 3
  MaxL2Reorgs = 1
  MaxRestarts = 1
  Faulty = TRUE
INVARIANTS BridgeTypeOK NothingSkipped EveryLogKept
PROPERTIES FeedSpec EveryLogServed
