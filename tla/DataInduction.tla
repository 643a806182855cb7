---------------------------- MODULE DataInduction ----------------------------
(***************************************************************************)
(* Induction over data, stated with sets: a set of numbers that holds zero *)
(* and is closed under successor holds them all, since the numbers outside *)
(* it would have a least one.  From it, that the sum of a function over a  *)
(* finite domain is a number, and grows by what one of its values grows.   *)
(***************************************************************************)
EXTENDS Integers, FiniteSets, Functions, FiniteSetTheorems, WellFoundedInduction, TLAPS

LEMMA LeastNatural ==
  ASSUME NEW T, T \subseteq Nat, T # {}
  PROVE  \E m \in T : \A k \in T : m <= k
<1>1. IsWellFoundedOn(OpToRel(<, Nat), Nat)
  BY NatLessThanWellFounded
<1>2. \E m \in T : \A k \in T : <<k, m>> \notin OpToRel(<, Nat)
  BY <1>1, WFMin
<1>3. PICK m \in T : \A k \in T : <<k, m>> \notin {p \in Nat \X Nat : p[1] < p[2]}
  BY <1>2 DEF OpToRel
<1>4. ASSUME NEW k \in T PROVE m <= k
  <2>1. m \in Nat /\ k \in Nat /\ <<k, m>> \in Nat \X Nat
    OBVIOUS
  <2>2. <<k, m>> \notin {p \in Nat \X Nat : p[1] < p[2]}
    BY <1>3
  <2>3. ~(<<k, m>>[1] < <<k, m>>[2])
    BY <2>1, <2>2
  <2> QED BY <2>1, <2>3
<1> QED BY <1>4

LEMMA SetInduction ==
  ASSUME NEW P, 0 \in P, \A n \in Nat : n \in P => n + 1 \in P
  PROVE  \A n \in Nat : n \in P
<1> SUFFICES ASSUME Nat \ P # {} PROVE FALSE
  OBVIOUS
<1>1. PICK m \in Nat \ P : \A k \in Nat \ P : m <= k
  BY LeastNatural
<1>2. m - 1 \in Nat /\ m - 1 \in P
  BY <1>1
<1> QED BY <1>2

-----------------------------------------------------------------------------
\* The equation that defines the iteration g of the step f, m times from x.
Iterates(g, f, x, m) == g = [j \in 0 .. m |-> IF j = 0 THEN x ELSE f[<<j, g[j - 1]>>]]

LEMMA IterationExists ==
  ASSUME NEW S, NEW x \in S, NEW m \in Nat, NEW f \in [(1 .. m) \X S -> S]
  PROVE  \E g \in [0 .. m -> S] : Iterates(g, f, x, m)
<1> DEFINE P == {n \in Nat : n <= m => \E g \in [0 .. n -> S] : Iterates(g, f, x, n)}
<1>1. 0 \in P
  <2> DEFINE g == [j \in 0 .. 0 |-> x]
  <2>1. g \in [0 .. 0 -> S] /\ Iterates(g, f, x, 0)
    BY DEF Iterates
  <2> QED BY <2>1
<1>2. ASSUME NEW n \in Nat, n \in P PROVE n + 1 \in P
  <2> SUFFICES ASSUME n + 1 <= m
               PROVE  \E g \in [0 .. n + 1 -> S] : Iterates(g, f, x, n + 1)
    OBVIOUS
  <2>1. PICK g \in [0 .. n -> S] : Iterates(g, f, x, n)
    BY <1>2
  <2> DEFINE h == [j \in 0 .. n + 1 |-> IF j = 0 THEN x ELSE f[<<j, g[j - 1]>>]]
  <2>2. ASSUME NEW j \in 0 .. n PROVE h[j] = g[j]
    BY <2>1 DEF Iterates
  <2>3. ASSUME NEW j \in 0 .. n + 1, j # 0 PROVE j - 1 \in 0 .. n /\ j \in 1 .. m
    BY <2>3
  <2>4. h \in [0 .. n + 1 -> S]
    BY <2>3
  <2>5. Iterates(h, f, x, n + 1)
    BY <2>2, <2>3 DEF Iterates
  <2> QED BY <2>4, <2>5
<1>3. m \in P
  <2> HIDE DEF P
  <2> QED BY <1>1, <1>2, SetInduction
<1> QED BY <1>3

-----------------------------------------------------------------------------
(* Sums of functions.  SumFunction takes the elements of the domain out in *)
(* an order of its own, the same for all functions on a domain.            *)

Pick(T) == CHOOSE x \in T : TRUE

\* The equation that defines the partial sums g of f, on the sets of D.
PartialSums(g, f, D) ==
  g = [T \in D |-> IF T = {} THEN 0 ELSE f[Pick(T)] + g[T \ {Pick(T)}]]

Small(S, n) == {T \in SUBSET S : Cardinality(T) <= n}

LEMMA Picked ==
  ASSUME NEW S, IsFiniteSet(S), NEW T \in SUBSET S, T # {}
  PROVE  /\ Pick(T) \in T /\ T \ {Pick(T)} \in SUBSET S
         /\ Cardinality(T) \in Nat \ {0}
         /\ Cardinality(T \ {Pick(T)}) = Cardinality(T) - 1
<1>1. Pick(T) \in T
  BY DEF Pick
<1>2. IsFiniteSet(T)
  BY FS_Subset
<1>3. Cardinality(T) \in Nat /\ Cardinality(T) # 0
  BY <1>2, FS_CardinalityType, FS_EmptySet
<1>4. Cardinality(T \ {Pick(T)}) = Cardinality(T) - 1
  BY <1>1, <1>2, FS_RemoveElement
<1> QED BY <1>1, <1>3, <1>4

LEMMA PartialSumsExist ==
  ASSUME NEW S, IsFiniteSet(S), NEW f
  PROVE  \E g : PartialSums(g, f, SUBSET S)
<1> DEFINE P == {n \in Nat : \E g : PartialSums(g, f, Small(S, n))}
<1>1. 0 \in P
  <2> DEFINE g == [T \in Small(S, 0) |-> 0]
  <2>1. ASSUME NEW T \in Small(S, 0) PROVE T = {}
    <3>1. T \in SUBSET S /\ Cardinality(T) <= 0
      BY DEF Small
    <3>2. T # {} => Cardinality(T) \in Nat \ {0}
      BY <3>1, Picked
    <3> QED BY <3>1, <3>2
  <2>2. PartialSums(g, f, Small(S, 0))
    BY <2>1 DEF PartialSums
  <2> QED BY <2>2
<1>2. ASSUME NEW n \in Nat, n \in P PROVE n + 1 \in P
  <2>1. PICK g : PartialSums(g, f, Small(S, n))
    BY <1>2
  <2> DEFINE h == [T \in Small(S, n + 1) |->
                     IF T = {} THEN 0 ELSE f[Pick(T)] + g[T \ {Pick(T)}]]
  <2>2. ASSUME NEW T \in Small(S, n) PROVE T \in Small(S, n + 1) /\ h[T] = g[T]
    <3>1. Cardinality(T) \in Nat /\ T \in Small(S, n + 1)
      BY FS_Subset, FS_CardinalityType DEF Small
    <3> QED BY <2>1, <3>1 DEF PartialSums
  <2>3. ASSUME NEW T \in Small(S, n + 1), T # {} PROVE T \ {Pick(T)} \in Small(S, n)
    BY <2>3, Picked DEF Small
  <2>4. PartialSums(h, f, Small(S, n + 1))
    BY <2>2, <2>3 DEF PartialSums
  <2> QED BY <2>4
<1>3. Cardinality(S) \in Nat /\ Cardinality(S) \in P
  <2> HIDE DEF P
  <2> QED BY <1>1, <1>2, SetInduction, FS_CardinalityType
<1>4. Small(S, Cardinality(S)) = SUBSET S
  BY FS_Subset DEF Small
<1> QED BY <1>3, <1>4

\* The sum is the last of the partial sums.
LEMMA SumIsPartialSum ==
  ASSUME NEW S, IsFiniteSet(S), NEW f, DOMAIN f = S
  PROVE  \E g : PartialSums(g, f, SUBSET S) /\ SumFunction(f) = g[S]
<1> DEFINE g == CHOOSE g : PartialSums(g, f, SUBSET S)
<1>1. PartialSums(g, f, SUBSET S)
  BY PartialSumsExist
<1>2. SumFunction(f) = g[S]
  BY DEF SumFunction, SumFunctionOnSet, FoldFunctionOnSet, MapThenFoldSet, PartialSums, Pick
<1> QED BY <1>1, <1>2

\* e is f with the value of s raised by k.
Raised(e, f, s, k) == e = [f EXCEPT ![s] = f[s] + k]

\* Raising one summand by k raises by k the sums it is part of.
LEMMA PartialSumsRaised ==
  ASSUME NEW S, IsFiniteSet(S), NEW f \in [S -> Nat], NEW s \in S, NEW k \in Nat,
         NEW e, Raised(e, f, s, k),
         NEW g, PartialSums(g, f, SUBSET S), NEW h, PartialSums(h, e, SUBSET S)
  PROVE  g[S] \in Nat /\ h[S] = g[S] + k
<1> DEFINE P == {n \in Nat : \A T \in SUBSET S : Cardinality(T) = n =>
                   g[T] \in Nat /\ h[T] = g[T] + IF s \in T THEN k ELSE 0}
<1>1. 0 \in P
  <2>1. ASSUME NEW T \in SUBSET S, Cardinality(T) = 0 PROVE T = {}
    BY <2>1, Picked
  <2>2. g[{}] = 0 /\ h[{}] = 0
    BY DEF PartialSums
  <2>3. s \notin {} /\ 0 \in Nat /\ 0 = 0 + 0
    OBVIOUS
  <2>4. \A T \in SUBSET S : Cardinality(T) = 0 =>
          g[T] \in Nat /\ h[T] = g[T] + IF s \in T THEN k ELSE 0
    BY <2>1, <2>2, <2>3
  <2> QED BY <2>4
<1>2. ASSUME NEW n \in Nat, n \in P PROVE n + 1 \in P
  <2> SUFFICES ASSUME NEW T \in SUBSET S, Cardinality(T) = n + 1
               PROVE  g[T] \in Nat /\ h[T] = g[T] + IF s \in T THEN k ELSE 0
    OBVIOUS
  <2> DEFINE x == Pick(T)
             U == T \ {x}
  <2>1. T # {}
    <3>1. Cardinality({}) = 0 /\ n + 1 # 0
      BY FS_EmptySet
    <3> QED BY <3>1
  <2>2. x \in T /\ U \in SUBSET S /\ Cardinality(U) = n
    BY <2>1, Picked
  <2>3. g[U] \in Nat /\ h[U] = g[U] + IF s \in U THEN k ELSE 0
    BY <1>2, <2>2
  <2>4. g[T] = f[x] + g[U] /\ h[T] = e[x] + h[U]
    BY <2>1 DEF PartialSums
  <2>5. f[x] \in Nat /\ e[x] = IF x = s THEN f[x] + k ELSE f[x]
    BY <2>2 DEF Raised
  <2> HIDE DEF x
  <2> QED BY <2>2, <2>3, <2>4, <2>5
<1>3. Cardinality(S) \in Nat /\ Cardinality(S) \in P
  <2> HIDE DEF P
  <2> QED BY <1>1, <1>2, SetInduction, FS_CardinalityType
<1> QED BY <1>3

\* The sum is a number, and grows by what one of the values grows by.
LEMMA SumRaised ==
  ASSUME NEW S, IsFiniteSet(S), NEW f \in [S -> Nat], NEW s \in S, NEW k \in Nat,
         NEW e, Raised(e, f, s, k)
  PROVE  SumFunction(f) \in Nat /\ SumFunction(e) = SumFunction(f) + k
<1>0. DOMAIN f = S /\ DOMAIN e = S
  BY DEF Raised
<1>1. PICK g : PartialSums(g, f, SUBSET S) /\ SumFunction(f) = g[S]
  BY <1>0, SumIsPartialSum
<1>2. PICK h : PartialSums(h, e, SUBSET S) /\ SumFunction(e) = h[S]
  BY <1>0, SumIsPartialSum
<1>3. g[S] \in Nat /\ h[S] = g[S] + k
  BY <1>1, <1>2, PartialSumsRaised
<1> QED BY <1>1, <1>2, <1>3
=============================================================================
