\* One delivery of one event, late enough for the listener to find it safe, and no
\* failing call.
SPECIFICATION Spec
CONSTANTS
  e1 = e1  e2 = e2  w1 = w1  w2 = w2  NoID = NoID
  IDs = {e1}
  Withdrawals = {w1}
  Passed = {w1}
  WithdrawalOf <- OneWithdrawal
  Workers = {o1}
  SafeConfirmations = 1
  MaxBlock = 1
  MaxHead = 2
  MaxLag = 1
  MaxDeliveries = 1
  MaxRestarts = 0
  FinalizationPeriod = 1
  MaxGames = 1
  MaxReorgs = 0
  MaxL2Reorgs = 0
  GameSearchDepth = 1
  Wired = TRUE
  Faulty = FALSE
  Decodes = FALSE
INVARIANT ProveCalledOnce
