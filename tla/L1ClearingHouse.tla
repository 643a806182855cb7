--------------------------- MODULE L1ClearingHouse ---------------------------
(***************************************************************************)
(* The clearing registry on L1 (contracts/src/L1ClearingHouse.sol) beside  *)
(* the portal it consults.  Every action is one transaction that does not  *)
(* revert, parameterised by its msg.sender s; a reverting transaction      *)
(* changes nothing and is no step.                                         *)
(*                                                                         *)
(*   owner            of the registry                                      *)
(*   supportedChains  source chains intents may be registered for          *)
(*   intents          the record of each withdrawal hash, or Unregistered  *)
(*   proofs           <<h, s>>: the portal holds a proof of h by s         *)
(*   finalized        hashes the portal finalized                          *)
(*   drops            how many proofs reorgs removed                       *)
(*   everProven       history: the proofs the portal ever accepted         *)
(*                                                                         *)
(* registeredAt is abstracted to the existence of the record and provenAt  *)
(* to whether it is set.                                                   *)
(***************************************************************************)
EXTENDS Naturals

CONSTANTS
  Hashes,         \* withdrawal hashes
  ChainIDs,       \* source chain IDs
  Accounts,       \* addresses that send transactions: operators, owners, paymaster
  Recipients,     \* L1 addresses withdrawals go to
  ZeroAddress,
  Unregistered,   \* the empty record
  Deployer,       \* the constructor's msg.sender
  InitialChains,  \* the constructor's chains
  MaxDrops        \* bound: proofs removed by reorgs

IntentStatus == {"Pending", "Proven", "Cleared", "Failed"}

ClearingIntent == [sourceChainId : ChainIDs, recipient : Recipients, prover : Accounts,
                   status : IntentStatus, provenAt : BOOLEAN]

ASSUME HouseAssumption ==
  /\ ZeroAddress \notin Accounts \union Recipients
  /\ Unregistered \notin ClearingIntent
  /\ Deployer \in Accounts
  /\ InitialChains \subseteq ChainIDs
  /\ MaxDrops \in Nat

VARIABLES owner, supportedChains, intents, proofs, finalized, drops, everProven

portalVars == <<proofs, finalized, drops, everProven>>
adminVars == <<owner, supportedChains>>
houseVars == <<adminVars, intents, portalVars>>

HouseTypeOK ==
  /\ owner \in Accounts
  /\ supportedChains \subseteq ChainIDs
  /\ intents \in [Hashes -> ClearingIntent \union {Unregistered}]
  /\ proofs \subseteq Hashes \X Accounts
  /\ finalized \subseteq Hashes
  /\ drops \in 0 .. MaxDrops
  /\ everProven \subseteq Hashes \X Accounts

\* The constructor, on a portal that has seen none of the withdrawals.
HouseInit ==
  /\ owner = Deployer
  /\ supportedChains = InitialChains
  /\ intents = [h \in Hashes |-> Unregistered]
  /\ proofs = {}
  /\ finalized = {}
  /\ drops = 0
  /\ everProven = {}

-----------------------------------------------------------------------------
addSupportedChain(s, c) ==
  /\ s = owner
  /\ supportedChains' = supportedChains \union {c}
  /\ UNCHANGED <<owner, intents, portalVars>>

removeSupportedChain(s, c) ==
  /\ s = owner
  /\ supportedChains' = supportedChains \ {c}
  /\ UNCHANGED <<owner, intents, portalVars>>

FaultyTransferOwnership(s, newOwner) ==
  /\ s = owner
  /\ owner' = newOwner
  /\ UNCHANGED <<supportedChains, intents, portalVars>>

transferOwnership(s, newOwner) ==
  /\ s = owner
  /\ newOwner # ZeroAddress
  /\ owner' = newOwner
  /\ UNCHANGED <<supportedChains, intents, portalVars>>

\* _requireIntent does not revert.
Registered(h) == intents[h] # Unregistered

markFailed(s, h) ==
  /\ s = owner
  /\ Registered(h)
  /\ intents' = [intents EXCEPT ![h].status = "Failed"]
  /\ UNCHANGED <<adminVars, portalVars>>

-----------------------------------------------------------------------------
Claim(s, c, r) == [sourceChainId |-> c, recipient |-> r, prover |-> s,
                   status |-> "Pending", provenAt |-> FALSE]

\* A registry that lets a failed intent be registered anew.
FaultyRegisterIntent(s, h, c, r) ==
  /\ c \in supportedChains
  /\ Registered(h) => intents[h].status = "Failed"
  /\ r # ZeroAddress
  /\ intents' = [intents EXCEPT ![h] = Claim(s, c, r)]
  /\ UNCHANGED <<adminVars, portalVars>>

registerIntent(s, h, c, r) ==
  /\ c \in supportedChains
  /\ ~Registered(h)
  /\ r # ZeroAddress
  /\ intents' = [intents EXCEPT ![h] = Claim(s, c, r)]
  /\ UNCHANGED <<adminVars, portalVars>>

\* The portal answers for anyone's proof of h.
FaultyProvenOnPortal(h, prover) == \E s \in Accounts : <<h, s>> \in proofs

\* provenWithdrawals(h, prover) has a timestamp.
ProvenOnPortal(h, prover) == <<h, prover>> \in proofs

markProven(s, h) ==
  /\ Registered(h)
  /\ s = intents[h].prover
  /\ intents[h].status = "Pending"
  /\ ProvenOnPortal(h, s)
  /\ intents' = [intents EXCEPT ![h].status = "Proven", ![h].provenAt = TRUE]
  /\ UNCHANGED <<adminVars, portalVars>>

clearIntent(h) ==
  /\ Registered(h)
  /\ intents[h].status = "Proven"
  /\ ProvenOnPortal(h, intents[h].prover)
  /\ intents' = [intents EXCEPT ![h].status = "Cleared"]
  /\ UNCHANGED <<adminVars, portalVars>>

-----------------------------------------------------------------------------
\* The portal: accepting a proof from s, finalizing a proven withdrawal at some later
\* time, and the reorg that MockPortal.clearProven stands for.
proveWithdrawalTransaction(s, h) ==
  /\ h \notin finalized
  /\ proofs' = proofs \union {<<h, s>>}
  /\ everProven' = everProven \union {<<h, s>>}
  /\ UNCHANGED <<adminVars, intents, finalized, drops>>

finalizeWithdrawalTransaction(h) ==
  /\ \E s \in Accounts : <<h, s>> \in proofs
  /\ finalized' = finalized \union {h}
  /\ UNCHANGED <<adminVars, intents, proofs, drops, everProven>>

clearProven(s, h) ==
  /\ drops < MaxDrops
  /\ h \notin finalized
  /\ <<h, s>> \in proofs
  /\ proofs' = proofs \ {<<h, s>>}
  /\ drops' = drops + 1
  /\ UNCHANGED <<adminVars, intents, finalized, everProven>>

-----------------------------------------------------------------------------
\* What s can do by one call: a registration, or any other call of the registry or
\* of the portal.
RegisterCall(s) ==
  \E h \in Hashes, c \in ChainIDs, r \in Recipients \union {ZeroAddress} :
    registerIntent(s, h, c, r)

OtherCall(s) ==
  \/ \E c \in ChainIDs : addSupportedChain(s, c) \/ removeSupportedChain(s, c)
  \/ \E a \in Accounts \union {ZeroAddress} : transferOwnership(s, a)
  \/ \E h \in Hashes :
       \/ markFailed(s, h)
       \/ markProven(s, h) \/ clearIntent(h)
       \/ proveWithdrawalTransaction(s, h) \/ finalizeWithdrawalTransaction(h)

Reorg == \E s \in Accounts, h \in Hashes : clearProven(s, h)

HouseNext ==
  \/ \E s \in Accounts : RegisterCall(s) \/ OtherCall(s)
  \/ Reorg

HouseSpec == HouseInit /\ [][HouseNext]_houseVars

-----------------------------------------------------------------------------
\* Only what the portal accepted from the very prover of the record is marked proven
\* or cleared, although the portal holds proofs of others and may drop one between
\* markProven and clearIntent (L1ClearingHouse.sol:161-198).
ProvenWasAccepted ==
  \A h \in Hashes :
    Registered(h) /\ (intents[h].status \in {"Proven", "Cleared"} \/ intents[h].provenAt)
      => <<h, intents[h].prover>> \in everProven

Successors(status) ==
  CASE status = "Pending" -> {"Pending", "Proven", "Failed"}
    [] status = "Proven"  -> {"Proven", "Cleared", "Failed"}
    [] status = "Cleared" -> {"Cleared", "Failed"}
    [] status = "Failed"  -> {"Failed"}

SameClaim(new, old) ==
  /\ new.prover = old.prover
  /\ new.recipient = old.recipient
  /\ new.sourceChainId = old.sourceChainId

\* A prover's slot is its own for good: a record is never removed or taken over, and
\* its status only moves Pending -> Proven -> Cleared or to Failed, where it stays
\* (IClearingHouse.sol:10-12, L1ClearingHouse.sol:33).
SlotIsPermanent ==
  [][\A h \in Hashes : Registered(h) =>
       /\ Registered(h)'
       /\ SameClaim(intents'[h], intents[h])
       /\ intents'[h].status \in Successors(intents[h].status)]_houseVars

\* L1ClearingHouse.sol:24-28: clearIntent is called after "the withdrawal has been
\* finalized on the portal", and IntentCleared is "the source of truth for settlement".
ClearedMeansFinalized ==
  \A h \in Hashes : Registered(h) /\ intents[h].status = "Cleared" => h \in finalized
=============================================================================
