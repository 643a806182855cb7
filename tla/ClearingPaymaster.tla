-------------------------- MODULE ClearingPaymaster --------------------------
(***************************************************************************)
(* The contract that makes clearing calls in its own name for authorised   *)
(* operators (contracts/src/ClearingPaymaster.sol), composed with the      *)
(* registry and the portal it calls.  A sponsored call is one transaction: *)
(* the inner call, whose msg.sender is the paymaster, and the accounting   *)
(* happen together or not at all.                                          *)
(*                                                                         *)
(*   pmOwner, authorizedClearers, totalSponsored, maxSponsored, balance    *)
(*                          the contract's storage, and its ETH            *)
(*                                                                         *)
(* Gas and ETH are counted in small units.  An inner call of a contract    *)
(* outside the model leaves registry and portal alone and does not call    *)
(* back.  The paymaster is no clearer of its own and no owner of itself,   *)
(* so an inner call of itself reverts.                                     *)
(***************************************************************************)
EXTENDS L1ClearingHouse, FiniteSets, Functions

CONSTANTS
  Paymaster,     \* the contract's own address
  MinBalance,    \* MIN_BALANCE
  InitialLimit,  \* maxSponsoredPerClearer at deployment
  MaxLimit,      \* bound: allowances the owner sets
  MaxBalance,    \* bound: ETH the contract ever holds
  CallGas        \* the gas an inner call may take

\* Addresses and hashes have a fixed number of bytes.
ASSUME PaymasterAssumption ==
  /\ IsFiniteSet(Accounts) /\ IsFiniteSet(Hashes)
  /\ Paymaster \in Accounts /\ Paymaster # Deployer
  /\ MinBalance \in Nat
  /\ MaxLimit \in Nat /\ InitialLimit \in 0 .. MaxLimit
  /\ MaxBalance \in Nat
  /\ CallGas \subseteq Nat \ {0}

VARIABLES pmOwner, authorizedClearers, totalSponsored, maxSponsored, balance

pmAdminVars == <<pmOwner, authorizedClearers, maxSponsored, balance>>
pmVars == <<pmAdminVars, totalSponsored>>
vars == <<houseVars, pmVars>>

\* Accounts of people: everything but the contract itself.
Operators == Accounts \ {Paymaster}

TypeOK ==
  /\ HouseTypeOK
  /\ pmOwner \in Operators
  /\ authorizedClearers \subseteq Operators
  /\ totalSponsored \in [Operators -> 0 .. MaxLimit]
  /\ maxSponsored \in 0 .. MaxLimit
  /\ balance \in 0 .. MaxBalance

Init ==
  /\ HouseInit
  /\ pmOwner = Deployer
  /\ authorizedClearers = {}
  /\ totalSponsored = [c \in Operators |-> 0]
  /\ maxSponsored = InitialLimit
  /\ balance = 0

-----------------------------------------------------------------------------
receive(amount) ==
  /\ balance + amount <= MaxBalance
  /\ balance' = balance + amount
  /\ UNCHANGED <<pmOwner, authorizedClearers, maxSponsored, totalSponsored>>

authorizeClearer(s, c) ==
  /\ s = pmOwner
  /\ c # ZeroAddress
  /\ authorizedClearers' = authorizedClearers \union {c}
  /\ UNCHANGED <<pmOwner, maxSponsored, balance, totalSponsored>>

revokeClearer(s, c) ==
  /\ s = pmOwner
  /\ authorizedClearers' = authorizedClearers \ {c}
  /\ UNCHANGED <<pmOwner, maxSponsored, balance, totalSponsored>>

setMaxSponsoredPerClearer(s, limit) ==
  /\ s = pmOwner
  /\ maxSponsored' = limit
  /\ UNCHANGED <<pmOwner, authorizedClearers, balance, totalSponsored>>

withdraw(s, amount) ==
  /\ s = pmOwner
  /\ balance >= amount
  /\ balance' = balance - amount
  /\ UNCHANGED <<pmOwner, authorizedClearers, maxSponsored, totalSponsored>>

transferPaymasterOwnership(s, newOwner) ==
  /\ s = pmOwner
  /\ newOwner # ZeroAddress
  /\ pmOwner' = newOwner
  /\ UNCHANGED <<authorizedClearers, maxSponsored, balance, totalSponsored>>

PaymasterCall(s) ==
  \/ \E amount \in 1 .. MaxBalance : receive(amount) \/ withdraw(s, amount)
  \/ \E c \in Operators \union {ZeroAddress} :
       authorizeClearer(s, c) \/ revokeClearer(s, c) \/ transferPaymasterOwnership(s, c)
  \/ \E limit \in 0 .. MaxLimit : setMaxSponsoredPerClearer(s, limit)

-----------------------------------------------------------------------------
remainingAllowance(c) ==
  IF totalSponsored[c] >= maxSponsored THEN 0 ELSE maxSponsored - totalSponsored[c]

\* The limit looked at before the call instead of after it.
FaultyWithinLimit(used, gas) == used < maxSponsored /\ used + gas <= MaxLimit

WithinLimit(used, gas) == used + gas <= maxSponsored

\* The last call's gas instead of the sum.
FaultyCharge(s, gas) ==
  /\ WithinLimit(totalSponsored[s], gas)
  /\ totalSponsored' = [totalSponsored EXCEPT ![s] = gas]

Charge(s, gas) ==
  /\ WithinLimit(totalSponsored[s], gas)
  /\ totalSponsored' = [totalSponsored EXCEPT ![s] = @ + gas]

\* sponsorCall(h, target, data) by s.  The gate looks at h; the inner call is whatever
\* target and data say, of any hash, or of a contract outside the model.
sponsorCall(s, h, gas) ==
  /\ s \in authorizedClearers
  /\ balance >= MinBalance
  /\ \/ RegisterCall(Paymaster)
     \/ Registered(h) /\ OtherCall(Paymaster)
     \/ UNCHANGED houseVars
  /\ Charge(s, gas)
  /\ UNCHANGED pmAdminVars

Next ==
  \/ \E s \in Operators :
       \/ (RegisterCall(s) \/ OtherCall(s)) /\ UNCHANGED pmVars
       \/ PaymasterCall(s) /\ UNCHANGED houseVars
       \/ \E h \in Hashes, gas \in CallGas : sponsorCall(s, h, gas)
  \/ Reorg /\ UNCHANGED pmVars

Spec == Init /\ [][Next]_vars

-----------------------------------------------------------------------------
\* What the view promises is what sponsorCall grants: a clearer is never charged more
\* than remainingAllowance told before, also after the owner lowered the limit below
\* what was used (ClearingPaymaster.sol:159-162, 173-177).
AllowanceIsHonoured ==
  [][\A c \in Operators : totalSponsored'[c] # totalSponsored[c] =>
       totalSponsored'[c] <= totalSponsored[c] + remainingAllowance(c)]_vars

\* Every registration in the paymaster's name, and every marking of one, was paid out
\* of somebody's allowance, whoever asked for it, was revoked or had its limit lowered
\* since (sponsorCall, ClearingPaymaster.sol:135-165).
SponsoredWorkIsPaid ==
  LET mine == {h \in Hashes : Registered(h) /\ intents[h].prover = Paymaster}
      marked == {h \in mine : intents[h].provenAt}
  IN Cardinality(mine) + Cardinality(marked) <= SumFunction(totalSponsored)
=============================================================================
