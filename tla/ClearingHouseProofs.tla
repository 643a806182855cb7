------------------------- MODULE ClearingHouseProofs -------------------------
(***************************************************************************)
(* Proofs about the registry, alone and called through the paymaster.  The *)
(* registry's invariants are proved of HouseSpec, where every account may  *)
(* send any call.  The composition with the paymaster implements HouseSpec *)
(* (a sponsored call is at most one more call of the account Paymaster),   *)
(* and so inherits them.                                                   *)
(***************************************************************************)
EXTENDS ClearingPaymaster, TLAPS

-----------------------------------------------------------------------------
(* The registry.                                                           *)

\* Types survive each step; a claim is a record of the right type.
LEMMA HouseTypeStep == HouseTypeOK /\ [HouseNext]_houseVars => HouseTypeOK'
<1> SUFFICES ASSUME HouseTypeOK, [HouseNext]_houseVars
             PROVE  HouseTypeOK'
  OBVIOUS
<1> USE HouseAssumption DEF HouseTypeOK
<1>1. CASE UNCHANGED houseVars
  BY <1>1 DEF houseVars, adminVars, portalVars
<1>2. ASSUME NEW s \in Accounts, NEW c \in ChainIDs,
             addSupportedChain(s, c) \/ removeSupportedChain(s, c)
      PROVE  HouseTypeOK'
  BY <1>2 DEF addSupportedChain, removeSupportedChain, portalVars
<1>3. ASSUME NEW s \in Accounts, NEW a \in Accounts \union {ZeroAddress},
             transferOwnership(s, a)
      PROVE  HouseTypeOK'
  BY <1>3 DEF transferOwnership, portalVars
<1>4. ASSUME NEW s \in Accounts, NEW h \in Hashes, NEW c \in ChainIDs,
             NEW r \in Recipients \union {ZeroAddress}, registerIntent(s, h, c, r)
      PROVE  HouseTypeOK'
  <2>1. Claim(s, c, r) \in ClearingIntent
    BY <1>4 DEF registerIntent, Claim, ClearingIntent, IntentStatus
  <2>2. intents' \in [Hashes -> ClearingIntent \union {Unregistered}]
    BY <1>4, <2>1 DEF registerIntent
  <2> QED
    BY <1>4, <2>2 DEF registerIntent, adminVars, portalVars
<1>5. ASSUME NEW s \in Accounts, NEW h \in Hashes,
             markFailed(s, h) \/ markProven(s, h) \/ clearIntent(h)
      PROVE  HouseTypeOK'
  <2>1. intents[h] \in ClearingIntent
    BY <1>5 DEF markFailed, markProven, clearIntent, Registered
  <2>2. \E i \in ClearingIntent : intents' = [intents EXCEPT ![h] = i]
    <3>1. CASE markFailed(s, h)
      <4> DEFINE i == [intents[h] EXCEPT !.status = "Failed"]
      <4>1. i \in ClearingIntent
        BY <2>1 DEF ClearingIntent, IntentStatus
      <4> QED
        BY <3>1, <4>1 DEF markFailed
    <3>2. CASE markProven(s, h)
      <4> DEFINE i == [intents[h] EXCEPT !.status = "Proven", !.provenAt = TRUE]
      <4>1. i \in ClearingIntent
        BY <2>1 DEF ClearingIntent, IntentStatus
      <4>2. intents' = [intents EXCEPT ![h] = i]
        BY <3>2, <2>1 DEF markProven
      <4> QED
        BY <4>1, <4>2
    <3>3. CASE clearIntent(h)
      <4> DEFINE i == [intents[h] EXCEPT !.status = "Cleared"]
      <4>1. i \in ClearingIntent
        BY <2>1 DEF ClearingIntent, IntentStatus
      <4> QED
        BY <3>3, <4>1 DEF clearIntent
    <3> QED
      BY <1>5, <3>1, <3>2, <3>3
  <2>3. intents' \in [Hashes -> ClearingIntent \union {Unregistered}]
    BY <2>2
  <2> QED
    BY <1>5, <2>3 DEF markFailed, markProven, clearIntent, adminVars, portalVars
<1>6. ASSUME NEW s \in Accounts, NEW h \in Hashes,
             \/ proveWithdrawalTransaction(s, h)
             \/ finalizeWithdrawalTransaction(h)
             \/ clearProven(s, h)
      PROVE  HouseTypeOK'
  BY <1>6 DEF proveWithdrawalTransaction, finalizeWithdrawalTransaction, clearProven, adminVars
<1> QED
  BY <1>1, <1>2, <1>3, <1>4, <1>5, <1>6
     DEF HouseNext, RegisterCall, OtherCall, Reorg

\* Every variable of the registry and of the portal keeps its type.
THEOREM HouseTypeCorrect == HouseSpec => []HouseTypeOK
<1>1. HouseInit => HouseTypeOK
  BY HouseAssumption DEF HouseInit, HouseTypeOK
<1> QED
  BY <1>1, HouseTypeStep, PTL DEF HouseSpec

-----------------------------------------------------------------------------
\* The inductive invariant: a proof on the portal was accepted, and so was the proof
\* of whatever record is marked.
AcceptedInv == HouseTypeOK /\ proofs \subseteq everProven /\ ProvenWasAccepted

LEMMA AcceptedStep == AcceptedInv /\ [HouseNext]_houseVars => AcceptedInv'
<1> SUFFICES ASSUME AcceptedInv, [HouseNext]_houseVars
             PROVE  AcceptedInv'
  OBVIOUS
<1> USE DEF AcceptedInv
<1>1. HouseTypeOK'
  BY HouseTypeStep
<1>2. CASE UNCHANGED houseVars
  BY <1>1, <1>2 DEF houseVars, adminVars, portalVars, ProvenWasAccepted, Registered
<1>3. ASSUME NEW s \in Accounts, NEW c \in ChainIDs,
             addSupportedChain(s, c) \/ removeSupportedChain(s, c)
      PROVE  AcceptedInv'
  BY <1>1, <1>3 DEF addSupportedChain, removeSupportedChain, portalVars, ProvenWasAccepted,
                    Registered
<1>4. ASSUME NEW s \in Accounts, NEW a \in Accounts \union {ZeroAddress},
             transferOwnership(s, a)
      PROVE  AcceptedInv'
  BY <1>1, <1>4 DEF transferOwnership, portalVars, ProvenWasAccepted, Registered
<1>5. ASSUME NEW s \in Accounts, NEW h \in Hashes, NEW c, NEW r, registerIntent(s, h, c, r)
      PROVE  AcceptedInv'
  BY <1>1, <1>5 DEF registerIntent, Claim, portalVars, ProvenWasAccepted, Registered, HouseTypeOK
<1>6. ASSUME NEW s \in Accounts, NEW h \in Hashes, markFailed(s, h) \/ clearIntent(h)
      PROVE  AcceptedInv'
  BY <1>1, <1>6 DEF markFailed, clearIntent, portalVars, ProvenWasAccepted, Registered,
                    HouseTypeOK, ClearingIntent
<1>7. ASSUME NEW s \in Accounts, NEW h \in Hashes, markProven(s, h)
      PROVE  AcceptedInv'
  <2>1. <<h, intents[h].prover>> \in everProven
    BY <1>7 DEF markProven, ProvenOnPortal
  <2> QED
    BY <1>1, <1>7, <2>1 DEF markProven, portalVars, ProvenWasAccepted, Registered,
                            HouseTypeOK, ClearingIntent
<1>8. ASSUME NEW s \in Accounts, NEW h \in Hashes,
             \/ proveWithdrawalTransaction(s, h)
             \/ finalizeWithdrawalTransaction(h)
             \/ clearProven(s, h)
      PROVE  AcceptedInv'
  BY <1>1, <1>8 DEF proveWithdrawalTransaction, finalizeWithdrawalTransaction, clearProven,
                    ProvenWasAccepted, Registered
<1> QED
  BY <1>2, <1>3, <1>4, <1>5, <1>6, <1>7, <1>8
     DEF HouseNext, RegisterCall, OtherCall, Reorg

\* A record is marked proven or cleared only on the strength of a proof that the portal
\* accepted from its own prover.
THEOREM HouseProvenWasAccepted == HouseSpec => []ProvenWasAccepted
<1>1. HouseInit => AcceptedInv
  BY HouseAssumption DEF HouseInit, AcceptedInv, HouseTypeOK, ProvenWasAccepted, Registered
<1>2. AcceptedInv => ProvenWasAccepted
  BY DEF AcceptedInv
<1> QED
  BY <1>1, <1>2, AcceptedStep, PTL DEF HouseSpec

-----------------------------------------------------------------------------
\* What one step of the registry does to a record it already holds.
KeepsSlot(h) ==
  Registered(h) =>
    /\ Registered(h)'
    /\ SameClaim(intents'[h], intents[h])
    /\ intents'[h].status \in Successors(intents[h].status)

LEMMA SlotStep ==
  ASSUME HouseTypeOK, [HouseNext]_houseVars, NEW h \in Hashes
  PROVE  KeepsSlot(h)
<1> SUFFICES ASSUME Registered(h)
             PROVE  /\ Registered(h)'
                    /\ SameClaim(intents'[h], intents[h])
                    /\ intents'[h].status \in Successors(intents[h].status)
  BY DEF KeepsSlot
<1>0. intents[h] \in ClearingIntent /\ intents[h].status \in IntentStatus
  BY DEF HouseTypeOK, Registered, ClearingIntent
<1>1. CASE intents'[h] = intents[h]
  BY <1>0, <1>1 DEF Registered, SameClaim, Successors, IntentStatus
<1>2. ASSUME NEW s \in Accounts, NEW k \in Hashes, NEW c, NEW r, registerIntent(s, k, c, r)
      PROVE  intents'[h] = intents[h]
  BY <1>2 DEF registerIntent, Registered, HouseTypeOK
<1>3. ASSUME NEW s \in Accounts, NEW k \in Hashes,
             markFailed(s, k) \/ markProven(s, k) \/ clearIntent(k)
      PROVE  /\ Registered(h)'
             /\ SameClaim(intents'[h], intents[h])
             /\ intents'[h].status \in Successors(intents[h].status)
  <2>1. CASE k # h
    <3>1. intents'[h] = intents[h]
      BY <1>3, <2>1 DEF markFailed, markProven, clearIntent, HouseTypeOK
    <3> QED
      BY <3>1, <1>1
  <2>2. CASE k = h
    <3>1. /\ intents'[h] \in ClearingIntent
          /\ SameClaim(intents'[h], intents[h])
          /\ intents'[h].status \in Successors(intents[h].status)
      BY <1>0, <1>3, <2>2 DEF markFailed, markProven, clearIntent, HouseTypeOK,
         ClearingIntent, SameClaim, Successors, IntentStatus
    <3> QED
      BY <3>1, HouseAssumption DEF Registered
  <2> QED
    BY <2>1, <2>2
<1>4. CASE UNCHANGED intents
  BY <1>1, <1>4
<1> QED
  BY <1>1, <1>2, <1>3, <1>4
     DEF HouseNext, RegisterCall, OtherCall, Reorg, houseVars, adminVars, portalVars,
         addSupportedChain, removeSupportedChain, transferOwnership,
         proveWithdrawalTransaction, finalizeWithdrawalTransaction, clearProven

\* A claim on a withdrawal is for good, and its status follows the lifecycle.
THEOREM HouseSlotIsPermanent == HouseSpec => SlotIsPermanent
<1>1. HouseTypeOK /\ [HouseNext]_houseVars => [\A h \in Hashes : KeepsSlot(h)]_houseVars
  BY SlotStep
<1>2. HouseSpec => [][\A h \in Hashes : KeepsSlot(h)]_houseVars
  BY <1>1, HouseTypeCorrect, PTL DEF HouseSpec
<1> QED
  BY <1>2 DEF SlotIsPermanent, KeepsSlot

-----------------------------------------------------------------------------
(* The registry called through the paymaster.                              *)

\* A sponsored call is at most one more call by the account Paymaster.
LEMMA SponsoredIsACall == [Next]_vars => [HouseNext]_houseVars
<1> SUFFICES ASSUME [Next]_vars
             PROVE  [HouseNext]_houseVars
  OBVIOUS
<1>1. CASE UNCHANGED vars
  BY <1>1 DEF vars
<1>2. ASSUME NEW s \in Operators, RegisterCall(s) \/ OtherCall(s)
      PROVE  HouseNext
  BY <1>2 DEF HouseNext, Operators
<1>3. ASSUME NEW s \in Operators, NEW h \in Hashes, NEW gas \in CallGas,
             sponsorCall(s, h, gas)
      PROVE  [HouseNext]_houseVars
  BY <1>3, PaymasterAssumption DEF sponsorCall, HouseNext
<1>4. CASE Reorg
  BY <1>4 DEF HouseNext
<1> QED
  BY <1>1, <1>2, <1>3, <1>4 DEF Next

\* Whatever operators, owners and clearers do through the paymaster, the registry and
\* the portal see only what their own rules allow.
THEOREM PaymasterImplementsHouse == Spec => HouseSpec
<1>1. Init => HouseInit
  BY DEF Init
<1> QED
  BY <1>1, SponsoredIsACall, PTL DEF Spec, HouseSpec

\* The records made and marked in the paymaster's name obey the registry's rules too.
THEOREM ProvenWasAcceptedHolds == Spec => []ProvenWasAccepted
  BY PaymasterImplementsHouse, HouseProvenWasAccepted, PTL

\* Nor does a sponsored call take over or reopen a claim.
THEOREM SlotIsPermanentHolds == Spec => SlotIsPermanent
  BY PaymasterImplementsHouse, HouseSlotIsPermanent, PTL

-----------------------------------------------------------------------------
(* The paymaster's accounting.                                             *)

LEMMA LimitsAreNat ==
  /\ MaxLimit \in Nat
  /\ MaxBalance \in Nat
  /\ MinBalance \in Nat
  /\ InitialLimit \in 0 .. MaxLimit
  /\ \A gas \in CallGas : gas \in Nat
  BY PaymasterAssumption

\* The paymaster's own storage keeps its type, in particular no clearer is ever charged
\* beyond the largest limit that was set.
PaymasterTypeOK ==
  /\ pmOwner \in Operators
  /\ authorizedClearers \subseteq Operators
  /\ totalSponsored \in [Operators -> 0 .. MaxLimit]
  /\ maxSponsored \in 0 .. MaxLimit
  /\ balance \in 0 .. MaxBalance

LEMMA PaymasterTypeStep == PaymasterTypeOK /\ [Next]_vars => PaymasterTypeOK'
<1> SUFFICES ASSUME PaymasterTypeOK, [Next]_vars
             PROVE  PaymasterTypeOK'
  OBVIOUS
<1> USE LimitsAreNat DEF PaymasterTypeOK
<1>1. CASE UNCHANGED pmVars
  BY <1>1 DEF pmVars, pmAdminVars
<1>2. ASSUME NEW s \in Operators, NEW amount \in 1 .. MaxBalance,
             receive(amount) \/ withdraw(s, amount)
      PROVE  PaymasterTypeOK'
  BY <1>2 DEF receive, withdraw
<1>3. ASSUME NEW s \in Operators, NEW c \in Operators \union {ZeroAddress},
             \/ authorizeClearer(s, c)
             \/ revokeClearer(s, c)
             \/ transferPaymasterOwnership(s, c)
      PROVE  PaymasterTypeOK'
  BY <1>3 DEF authorizeClearer, revokeClearer, transferPaymasterOwnership
<1>4. ASSUME NEW s \in Operators, NEW limit \in 0 .. MaxLimit,
             setMaxSponsoredPerClearer(s, limit)
      PROVE  PaymasterTypeOK'
  BY <1>4 DEF setMaxSponsoredPerClearer
<1>5. ASSUME NEW s \in Operators, NEW h \in Hashes, NEW gas \in CallGas,
             sponsorCall(s, h, gas)
      PROVE  PaymasterTypeOK'
  <2>1. totalSponsored[s] + gas \in 0 .. MaxLimit
    BY <1>5 DEF sponsorCall, Charge, WithinLimit
  <2>2. totalSponsored' \in [Operators -> 0 .. MaxLimit]
    BY <1>5, <2>1 DEF sponsorCall, Charge
  <2> QED
    BY <1>5, <2>2 DEF sponsorCall, pmAdminVars
<1>6. CASE UNCHANGED vars
  BY <1>1, <1>6 DEF vars
<1> QED
  BY <1>1, <1>2, <1>3, <1>4, <1>5, <1>6 DEF Next, PaymasterCall

\* The types of the composition.
THEOREM TypeCorrect == Spec => []TypeOK
<1>1. Init => PaymasterTypeOK
  BY PaymasterAssumption, HouseAssumption
     DEF Init, HouseInit, PaymasterTypeOK, Operators
<1>2. Spec => []PaymasterTypeOK
  BY <1>1, PaymasterTypeStep, PTL DEF Spec
<1>3. HouseTypeOK /\ PaymasterTypeOK => TypeOK
  BY DEF TypeOK, PaymasterTypeOK
<1> QED
  BY <1>2, <1>3, PaymasterImplementsHouse, HouseTypeCorrect, PTL

\* What the view told a clearer bounds what one step charges it.
Honoured ==
  \A c \in Operators : totalSponsored'[c] # totalSponsored[c] =>
    totalSponsored'[c] <= totalSponsored[c] + remainingAllowance(c)

LEMMA HonouredStep == TypeOK /\ [Next]_vars => [Honoured]_vars
<1> SUFFICES ASSUME TypeOK, [Next]_vars, NEW c \in Operators,
                    totalSponsored'[c] # totalSponsored[c]
             PROVE  totalSponsored'[c] <= totalSponsored[c] + remainingAllowance(c)
  BY DEF Honoured
<1>1. PICK s \in Operators, h \in Hashes, gas \in CallGas : sponsorCall(s, h, gas)
  BY DEF Next, PaymasterCall, vars, pmVars, receive, withdraw, authorizeClearer,
         revokeClearer, transferPaymasterOwnership, setMaxSponsoredPerClearer
<1>2. /\ totalSponsored[s] + gas <= maxSponsored
      /\ totalSponsored' = [totalSponsored EXCEPT ![s] = @ + gas]
  BY <1>1 DEF sponsorCall, Charge, WithinLimit
<1>3. c = s /\ totalSponsored'[c] = totalSponsored[c] + gas
  BY <1>2 DEF TypeOK
<1>4. remainingAllowance(c) = maxSponsored - totalSponsored[c]
  BY <1>2, <1>3, LimitsAreNat DEF TypeOK, remainingAllowance
<1> QED
  BY <1>2, <1>3, <1>4, LimitsAreNat DEF TypeOK

\* sponsorCall grants what remainingAllowance promises, also after the owner lowered the
\* limit below what a clearer has used.
THEOREM AllowanceIsHonouredHolds == Spec => AllowanceIsHonoured
<1>1. Spec => [][Honoured]_vars
  BY HonouredStep, TypeCorrect, PTL DEF Spec
<1> QED
  BY <1>1 DEF AllowanceIsHonoured, Honoured
=============================================================================
