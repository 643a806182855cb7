\* Every event is delivered once and checked before it is safe, one orchestrator,
\* no restart.  The second event rebuilds a withdrawal the L2 never recorded.
SPECIFICATION Spec
CONSTANTS
  e1 = e1  e2 = e2  w1 = w1  w2 = w2  NoID = NoID
  IDs = {e1, e2}
  Withdrawals = {w1, w2}
  Passed = {w1}
  WithdrawalOf <- OwnWithdrawal
  Workers = {o1}
  SafeConfirmations = 1
  MaxBlock = 2
  MaxHead = 3
  MaxLag = 0
  MaxDeliveries = 1
  MaxRestarts = 0
  FinalizationPeriod = 1
  MaxGames = 2
  MaxReorgs = 1
  MaxL2Reorgs = 0
  GameSearchDepth = 2
  Wired = TRUE
  Faulty = TRUE
  Decodes = TRUE
INVARIANTS ProofsTargetWonGames RecordMatchesStatus ProofCoversWithdrawal
PROPERTY LifecycleSpec
