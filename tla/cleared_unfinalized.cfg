\* One withdrawal, registered and proven by its operator.
SPECIFICATION Spec
CONSTANTS
  h1 = h1  h2 = h2  admin = admin  pm = pm  alice = alice  zero = zero  none = none
  base = base
  Hashes = {h1}
  ChainIDs = {base}
  Accounts = {admin, pm}
  Recipients = {alice}
  ZeroAddress = zero
  Unregistered = none
  Deployer = admin
  InitialChains = {base}
  MaxDrops = 0
  Paymaster = pm
  MinBalance = 1
  InitialLimit = 2
  MaxLimit = 2
  MaxBalance = 1
  CallGas = {1, 2}
INVARIANT ClearedMeansFinalized
