--------------------------- MODULE PaymasterProofs ---------------------------
(***************************************************************************)
(* Proof that the paymaster's work is paid for: what stands in its name on *)
(* the registry is at most the gas charged to all clearers together, for   *)
(* any number of accounts, hashes and calls.  The registry knows nothing   *)
(* of charges and the paymaster nothing of records; what ties them is that *)
(* only a sponsored call acts in the paymaster's name, does one piece of   *)
(* work at most, and is charged at least one unit.                         *)
(***************************************************************************)
EXTENDS ClearingHouseProofs, DataInduction

\* The records in the paymaster's name, and those of them it marked.
Mine == {h \in Hashes : Registered(h) /\ intents[h].prover = Paymaster}
Marked == {h \in Mine : intents[h].provenAt}

LEMMA WorkInWords ==
  SponsoredWorkIsPaid <=> Cardinality(Mine) + Cardinality(Marked) <= SumFunction(totalSponsored)
BY DEF SponsoredWorkIsPaid, Mine, Marked

LEMMA WorkInWordsNext ==
  ASSUME Cardinality(Mine') + Cardinality(Marked') <= SumFunction(totalSponsored')
  PROVE  SponsoredWorkIsPaid'
BY DEF SponsoredWorkIsPaid, Mine, Marked

LEMMA WorkIsFinite ==
  /\ IsFiniteSet(Mine) /\ IsFiniteSet(Marked)
  /\ Cardinality(Mine) \in Nat /\ Cardinality(Marked) \in Nat
<1>1. Mine \in SUBSET Hashes /\ Marked \in SUBSET Hashes
  BY DEF Mine, Marked
<1>2. IsFiniteSet(Mine) /\ IsFiniteSet(Marked)
  BY <1>1, PaymasterAssumption, FS_Subset
<1> QED BY <1>2, FS_CardinalityType

\* A set of which at most one element is new.
LEMMA AtMostOneMore ==
  ASSUME NEW S, IsFiniteSet(S), NEW x, NEW T, T \subseteq S \union {x}
  PROVE  Cardinality(T) \in Nat /\ Cardinality(T) <= Cardinality(S) + 1
<1>0. Cardinality(S) \in Nat
  BY FS_CardinalityType
<1>1. IsFiniteSet(S \union {x}) /\ Cardinality(S \union {x}) <= Cardinality(S) + 1
  <2>1. /\ IsFiniteSet(S \union {x})
        /\ Cardinality(S \union {x}) = IF x \in S THEN Cardinality(S) ELSE Cardinality(S) + 1
    BY FS_AddElement
  <2> QED BY <1>0, <2>1
<1>2. IsFiniteSet(T) /\ Cardinality(T) <= Cardinality(S \union {x})
  BY <1>1, FS_Subset
<1> QED BY <1>0, <1>1, <1>2, FS_CardinalityType

-----------------------------------------------------------------------------
(* What a call of the registry adds to the paymaster's work.                *)

\* Nothing, if the records stand as they were.
LEMMA SameRecords ==
  ASSUME UNCHANGED intents
  PROVE  Mine' = Mine /\ Marked' = Marked
BY DEF Mine, Marked, Registered

\* A registration by s, by how many it adds to the records.
LEMMA Registering ==
  ASSUME HouseTypeOK, NEW s \in Accounts, RegisterCall(s)
  PROVE  /\ \E h \in Hashes : Mine' \subseteq Mine \union {h}
         /\ s # Paymaster => Mine' = Mine
         /\ Marked' = Marked
<1>1. PICK h \in Hashes, c \in ChainIDs, r \in Recipients \union {ZeroAddress} :
        registerIntent(s, h, c, r)
  BY DEF RegisterCall
<1>2. /\ ~Registered(h)
      /\ intents'[h] = Claim(s, c, r)
      /\ \A k \in Hashes \ {h} : intents'[k] = intents[k]
  BY <1>1 DEF registerIntent, HouseTypeOK
<1>3. Claim(s, c, r).prover = s /\ ~Claim(s, c, r).provenAt
  BY DEF Claim
<1>4. \A k \in Hashes : k \in Mine' => k \in Mine \/ (k = h /\ s = Paymaster)
  BY <1>2, <1>3 DEF Mine, Registered
<1>5. \A k \in Mine : k \in Hashes \ {h} /\ k \in Mine'
  BY <1>2 DEF Mine, Registered
<1>6. \A k : k \in Marked' <=> k \in Marked
  BY <1>2, <1>3 DEF Mine, Marked, Registered
<1>7. Mine' \subseteq Hashes
  BY DEF Mine
<1> QED BY <1>4, <1>5, <1>6, <1>7

\* Any other call by s adds no record, and at most one mark.
LEMMA Marking ==
  ASSUME HouseTypeOK, NEW s \in Accounts, OtherCall(s)
  PROVE  /\ Mine' = Mine
         /\ \E h : Marked' \subseteq Marked \union {h}
         /\ s # Paymaster => Marked' = Marked
<1>1. CASE UNCHANGED intents
  BY <1>1, SameRecords
<1>2. ASSUME NEW h \in Hashes, markFailed(s, h) \/ markProven(s, h) \/ clearIntent(h)
      PROVE  /\ Mine' = Mine
             /\ \E k : Marked' \subseteq Marked \union {k}
             /\ s # Paymaster => Marked' = Marked
  <2>1. /\ Registered(h) /\ intents[h] \in ClearingIntent
        /\ \A k \in Hashes \ {h} : intents'[k] = intents[k]
    BY <1>2 DEF markFailed, markProven, clearIntent, HouseTypeOK, Registered
  <2>2. /\ intents'[h] \in ClearingIntent /\ intents'[h].prover = intents[h].prover
        /\ \/ intents'[h].provenAt = intents[h].provenAt
           \/ s = intents[h].prover
    <3>1. CASE markFailed(s, h)
      BY <2>1, <3>1 DEF markFailed, HouseTypeOK, ClearingIntent, IntentStatus
    <3>2. CASE markProven(s, h)
      <4>1. intents'[h] = [intents[h] EXCEPT !.status = "Proven", !.provenAt = TRUE]
        BY <3>2 DEF markProven, HouseTypeOK
      <4>2. intents'[h] \in ClearingIntent /\ intents'[h].prover = intents[h].prover
        BY <2>1, <4>1 DEF ClearingIntent, IntentStatus
      <4> QED BY <3>2, <4>2 DEF markProven
    <3>3. CASE clearIntent(h)
      BY <2>1, <3>3 DEF clearIntent, HouseTypeOK, ClearingIntent, IntentStatus
    <3> QED BY <1>2, <3>1, <3>2, <3>3
  <2>3. Registered(h)'
    BY <2>2, HouseAssumption DEF Registered
  <2>4. \A k \in Hashes : k \in Mine' <=> k \in Mine
    BY <2>1, <2>2, <2>3 DEF Mine, Registered
  <2>5. Mine' = Mine
    BY <2>4 DEF Mine
  <2>6. \A k \in Mine \ {h} : k \in Marked' <=> k \in Marked
    BY <2>1, <2>5 DEF Marked, Mine
  <2>7. s # Paymaster => (h \in Marked' <=> h \in Marked)
    BY <2>2, <2>5 DEF Marked, Mine
  <2>8. Marked \subseteq Mine /\ Marked' \subseteq Mine
    BY <2>5 DEF Marked
  <2>9. Marked' \subseteq Marked \union {h} /\ (s # Paymaster => Marked' = Marked)
    BY <2>6, <2>7, <2>8
  <2> QED BY <2>5, <2>9
<1> QED
  BY <1>1, <1>2 DEF OtherCall, addSupportedChain, removeSupportedChain, transferOwnership,
                    proveWithdrawalTransaction, finalizeWithdrawalTransaction

-----------------------------------------------------------------------------
(* The charge.                                                              *)

LEMMA ChargeRaisesSum ==
  ASSUME TypeOK, NEW s \in Operators, NEW gas \in CallGas, Charge(s, gas)
  PROVE  /\ SumFunction(totalSponsored) \in Nat
         /\ SumFunction(totalSponsored') = SumFunction(totalSponsored) + gas
<1>1. IsFiniteSet(Operators)
  BY PaymasterAssumption, FS_Subset DEF Operators
<1>2. totalSponsored \in [Operators -> Nat] /\ gas \in Nat
  BY LimitsAreNat DEF TypeOK
<1>3. Raised(totalSponsored', totalSponsored, s, gas)
  BY DEF Charge, Raised
<1> QED BY <1>1, <1>2, <1>3, SumRaised

PaidInv == TypeOK /\ SponsoredWorkIsPaid

LEMMA SponsoredStep ==
  ASSUME PaidInv, NEW s \in Operators, NEW h \in Hashes, NEW gas \in CallGas,
         sponsorCall(s, h, gas)
  PROVE  SponsoredWorkIsPaid'
<1>0. TypeOK /\ HouseTypeOK
  BY DEF PaidInv, TypeOK
<1>1. /\ Cardinality(Mine) \in Nat /\ Cardinality(Mine') \in Nat
      /\ Cardinality(Marked) \in Nat /\ Cardinality(Marked') \in Nat
      /\ Cardinality(Mine') + Cardinality(Marked') <= Cardinality(Mine) + Cardinality(Marked) + 1
  <2>1. CASE RegisterCall(Paymaster)
    <3>1. PICK k \in Hashes : Mine' \subseteq Mine \union {k}
      BY <1>0, <2>1, Registering, PaymasterAssumption
    <3>2. Cardinality(Mine') \in Nat /\ Cardinality(Mine') <= Cardinality(Mine) + 1
      BY <3>1, AtMostOneMore, WorkIsFinite
    <3>3. Marked' = Marked
      BY <1>0, <2>1, Registering, PaymasterAssumption
    <3> QED BY <3>2, <3>3, WorkIsFinite
  <2>2. CASE OtherCall(Paymaster)
    <3>1. PICK k : Mine' = Mine /\ Marked' \subseteq Marked \union {k}
      BY <1>0, <2>2, Marking, PaymasterAssumption
    <3>2. Cardinality(Marked') \in Nat /\ Cardinality(Marked') <= Cardinality(Marked) + 1
      BY <3>1, AtMostOneMore, WorkIsFinite
    <3> QED BY <3>1, <3>2, WorkIsFinite
  <2>3. CASE UNCHANGED houseVars
    BY <2>3, SameRecords, WorkIsFinite DEF houseVars
  <2> QED BY <2>1, <2>2, <2>3 DEF sponsorCall
<1>2. /\ SumFunction(totalSponsored) \in Nat
      /\ SumFunction(totalSponsored') = SumFunction(totalSponsored) + gas
  BY <1>0, ChargeRaisesSum DEF sponsorCall
<1>3. gas \in Nat /\ gas >= 1
  BY PaymasterAssumption
<1>4. Cardinality(Mine) + Cardinality(Marked) <= SumFunction(totalSponsored)
  BY WorkInWords DEF PaidInv
<1>5. Cardinality(Mine') + Cardinality(Marked') <= SumFunction(totalSponsored')
  BY <1>1, <1>2, <1>3, <1>4
<1> QED BY <1>5, WorkInWordsNext

LEMMA PaidStep == PaidInv /\ TypeOK' /\ [Next]_vars => PaidInv'
<1> SUFFICES ASSUME PaidInv, TypeOK', [Next]_vars PROVE SponsoredWorkIsPaid'
  BY DEF PaidInv
<1>0. HouseTypeOK
  BY DEF PaidInv, TypeOK
<1>1. ASSUME Mine' = Mine, Marked' = Marked, UNCHANGED totalSponsored
      PROVE  SponsoredWorkIsPaid'
  BY <1>1, WorkInWords, WorkInWordsNext DEF PaidInv
<1>2. ASSUME NEW s \in Operators, RegisterCall(s) \/ OtherCall(s), UNCHANGED pmVars
      PROVE  SponsoredWorkIsPaid'
  <2>1. s \in Accounts /\ s # Paymaster /\ UNCHANGED totalSponsored
    BY <1>2 DEF Operators, pmVars
  <2>2. CASE RegisterCall(s)
    BY <1>0, <1>1, <2>1, <2>2, Registering
  <2>3. CASE OtherCall(s)
    BY <1>0, <1>1, <2>1, <2>3, Marking
  <2> QED BY <1>2, <2>2, <2>3
<1>3. ASSUME NEW s \in Operators, PaymasterCall(s), UNCHANGED houseVars
      PROVE  SponsoredWorkIsPaid'
  <2>1. UNCHANGED totalSponsored
    BY <1>3 DEF PaymasterCall, receive, withdraw, authorizeClearer, revokeClearer,
                transferPaymasterOwnership, setMaxSponsoredPerClearer
  <2> QED BY <1>1, <1>3, <2>1, SameRecords DEF houseVars
<1>4. ASSUME NEW s \in Operators, NEW h \in Hashes, NEW gas \in CallGas, sponsorCall(s, h, gas)
      PROVE  SponsoredWorkIsPaid'
  BY <1>4, SponsoredStep
<1>5. CASE Reorg /\ UNCHANGED pmVars
  BY <1>1, <1>5, SameRecords DEF Reorg, clearProven, pmVars
<1>6. CASE UNCHANGED vars
  BY <1>1, <1>6, SameRecords DEF vars, houseVars, pmVars
<1> QED BY <1>2, <1>3, <1>4, <1>5, <1>6 DEF Next

\* Every record in the paymaster's name and every marking of one was charged to a
\* clearer, for any number of clearers, revoked or limited as they may be, and whatever
\* the calls they asked for (sponsorCall, ClearingPaymaster.sol:135-165).
THEOREM SponsoredWorkAlwaysPaid == Spec => []SponsoredWorkIsPaid
<1>1. Init => SponsoredWorkIsPaid
  <2> SUFFICES ASSUME Init PROVE SponsoredWorkIsPaid
    OBVIOUS
  <2>1. Mine = {} /\ Marked = {}
    BY DEF Init, HouseInit, Mine, Marked, Registered
  <2>2. SumFunction(totalSponsored) \in Nat
    <3>1. totalSponsored \in [Operators -> Nat] /\ Deployer \in Operators
      BY PaymasterAssumption, HouseAssumption DEF Init, Operators
    <3>2. Raised(totalSponsored, totalSponsored, Deployer, 0)
      BY <3>1 DEF Raised
    <3>3. IsFiniteSet(Operators)
      BY PaymasterAssumption, FS_Subset DEF Operators
    <3> QED BY <3>1, <3>2, <3>3, SumRaised
  <2> QED BY <2>1, <2>2, FS_EmptySet, WorkInWords
<1>2. Init => TypeOK
  BY PaymasterAssumption, HouseAssumption
     DEF Init, HouseInit, TypeOK, HouseTypeOK, Operators
<1>3. PaidInv => SponsoredWorkIsPaid
  BY DEF PaidInv
<1>4. TypeOK /\ SponsoredWorkIsPaid => PaidInv
  BY DEF PaidInv
<1> QED BY <1>1, <1>3, <1>4, PaidStep, TypeCorrect, PTL DEF Spec
=============================================================================
