\* A reorg of one block, half of what makes a block safe.
SPECIFICATION Spec
CONSTANTS
  l1 = l1  l2 = l2  NoID = NoID
  Logs = {l1}
  Malformed = {}
  Workers = {o1}
  SafeConfirmations = 2
  MaxHead = 4
  MaxL2Reorgs = 1
  MaxRestarts = 0
  Faulty = FALSE
INVARIANTS IntentIsCanonical
