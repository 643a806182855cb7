\* One orchestrator races the listener; the event may come late and twice, its
\* block may change, the process may restart, the L2 may drop a block and L1 a proof.
SPECIFICATION Spec
CONSTANTS
  e1 = e1  e2 = e2  w1 = w1  w2 = w2  NoID = NoID
  IDs = {e1}
  Withdrawals = {w1}
  Passed = {w1}
  WithdrawalOf <- OneWithdrawal
  Workers = {o1}
  SafeConfirmations = 1
  MaxBlock = 2
  MaxHead = 3
  MaxLag = 1
  MaxDeliveries = 2
  MaxRestarts = 1
  FinalizationPeriod = 1
  MaxGames = 1
  MaxReorgs = 1
  MaxL2Reorgs = 1
  GameSearchDepth = 1
  Wired = TRUE
  Faulty = TRUE
  Decodes = TRUE
INVARIANTS TypeOK ProvenIsReal FinalizeAfterWindow IntentIsSafe NoLostEvent
