\* Two withdrawals; the deployer, who is also the operator, and the paymaster.
SPECIFICATION Spec
CONSTANTS
  h1 = h1  h2 = h2  admin = admin  pm = pm  alice = alice  zero = zero  none = none
  base = base
  Hashes = {h1, h2}
  ChainIDs = {base}
  Accounts = {admin, pm}
  Recipients = {alice}
  ZeroAddress = zero
  Unregistered = none
  Deployer = admin
  InitialChains = {base}
  MaxDrops = 1
  Paymaster = pm
  MinBalance = 1
  InitialLimit = 2
  MaxLimit = 2
  MaxBalance = 1
  CallGas = {1, 2}
INVARIANTS TypeOK ProvenWasAccepted SponsoredWorkIsPaid
PROPERTIES SlotIsPermanent AllowanceIsHonoured
