\* One event, possibly late and redelivered, one orchestrator, RPC calls that fail,
\* transactions that are lost and an L1 reorg; fairness as in ClearingProperties.
SPECIFICATION FairSpec
CONSTANTS
  e1 = e1  e2 = e2  w1 = w1  w2 = w2  NoID = NoID
  IDs = {e1}
  Withdrawals = {w1}
  Passed = {w1}
  WithdrawalOf <- OneWithdrawal
  Workers = {o1}
  SafeConfirmations = 1
  MaxBlock = 1
  MaxHead = 2
  MaxLag = 1
  MaxDeliveries = 2
  MaxRestarts = 0
  FinalizationPeriod = 1
  MaxGames = 1
  MaxReorgs = 1
  MaxL2Reorgs = 1
  GameSearchDepth = 1
  Wired = TRUE
  Faulty = TRUE
  Decodes = TRUE
PROPERTIES EventPromoted IntentProgress
