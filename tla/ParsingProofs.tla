---------------------------- MODULE ParsingProofs ----------------------------
(***************************************************************************)
(* Proofs about the parser of the bridge's logs and the withdrawals that   *)
(* are rebuilt from its events (WithdrawalTx), for every width of a word,  *)
(* size of a byte, range of int and length of a payload.                   *)
(*                                                                         *)
(* From the bottom up: a number that fits into a word is the value of its  *)
(* bytes (WordRead, by induction over the bytes); the parts of a log's     *)
(* data are where the layout puts them, and stay there when the data is    *)
(* cut behind them (Parts, HeldCut); the bounds checks of the parser       *)
(* compare what they mean to below a boundary of the length word, and let  *)
(* a slice beyond the data pass from it on (BoundsChecked, BoundsMissed);  *)
(* so what is taken of a log is its own (HashLastRead, AbiRead).           *)
(***************************************************************************)
EXTENDS WithdrawalTx, DataInduction, SequenceTheorems

-----------------------------------------------------------------------------
(* Numbers.                                                                 *)

LEMMA Division ==
  ASSUME NEW n \in Nat, NEW d \in Nat \ {0}
  PROVE  /\ n \div d \in Nat /\ n % d \in Nat /\ n % d < d
         /\ n = (n \div d) * d + (n % d)
<1>1. n \div d \in Nat
  OBVIOUS
<1>2. n % d \in Nat /\ n % d < d
  OBVIOUS
<1>3. n = (n \div d) * d + (n % d)
  OBVIOUS
<1> QED BY <1>1, <1>2, <1>3

LEMMA Remainder ==
  ASSUME NEW n \in Nat, NEW d \in Nat \ {0}, n < d
  PROVE  n % d = n /\ n \div d = 0
OBVIOUS

LEMMA RemainderOnce ==
  ASSUME NEW n \in Nat, NEW d \in Nat \ {0}, d <= n, n < 2 * d
  PROVE  n % d = n - d
OBVIOUS

LEMMA DivisionMonotone ==
  ASSUME NEW m \in Nat, NEW n \in Nat, m <= n, NEW d \in Nat \ {0}
  PROVE  m \div d <= n \div d
OBVIOUS

LEMMA Half == U \div 2 \in Nat /\ U = 2 * (U \div 2) /\ U \div 2 > 0
BY WidthAssumption

\* Rounding up to whole words.
WholeWords(n) == ((n + W - 1) \div W) * W

LEMMA Rounding ==
  ASSUME NEW n \in Nat
  PROVE  WholeWords(n) \in Nat /\ n <= WholeWords(n) /\ WholeWords(n) <= n + W - 1
<1>1. W \in Nat \ {0} /\ n + W - 1 \in Nat
  BY WidthAssumption
<1> DEFINE q == (n + W - 1) \div W
           r == (n + W - 1) % W
<1>2. q \in Nat /\ r \in Nat /\ n + W - 1 = q * W + r /\ r < W
  BY <1>1, Division
<1>3. q * W \in Nat
  BY <1>1, <1>2
<1> HIDE DEF q, r
<1>4. q * W \in Nat /\ n <= q * W /\ q * W <= n + W - 1
  BY <1>1, <1>2, <1>3
<1> QED BY <1>4 DEF WholeWords, q

-----------------------------------------------------------------------------
(* Words and the bytes of a word.                                           *)

LEMMA ShiftedDef ==
  ASSUME NEW n \in Nat
  PROVE  /\ Shifted(n) \in [0 .. W -> Nat] /\ Shifted(n)[0] = n
         /\ \A j \in 1 .. W : Shifted(n)[j] = Shifted(n)[j - 1] \div Base
<1> DEFINE f == [p \in (1 .. W) \X Nat |-> p[2] \div Base]
<1>1. f \in [(1 .. W) \X Nat -> Nat] /\ W \in Nat
  <2>1. W \in Nat /\ Base \in Nat \ {0}
    BY WidthAssumption
  <2>2. \A k \in Nat : k \div Base \in Nat
    BY <2>1, Division
  <2> QED BY <2>1, <2>2
<1>2. PICK g \in [0 .. W -> Nat] : Iterates(g, f, n, W)
  <2> HIDE DEF f
  <2> QED BY <1>1, IterationExists
<1>3. \A j \in 0 .. W : j # 0 => j \in 1 .. W /\ g[j - 1] \in Nat
  BY <1>1
<1>4. \A j \in 0 .. W : j # 0 => f[<<j, g[j - 1]>>] = g[j - 1] \div Base
  BY <1>3
<1> HIDE DEF f
<1>5. g = [j \in 0 .. W |-> IF j = 0 THEN n ELSE g[j - 1] \div Base]
  BY <1>2, <1>4 DEF Iterates
<1> DEFINE s == CHOOSE s : s = [j \in 0 .. W |-> IF j = 0 THEN n ELSE s[j - 1] \div Base]
<1>6. s = [j \in 0 .. W |-> IF j = 0 THEN n ELSE s[j - 1] \div Base]
  BY <1>5
<1>7. Shifted(n) = s
  BY DEF Shifted
<1> HIDE DEF s
<1>8. s[0] = n /\ \A j \in 1 .. W : s[j] = s[j - 1] \div Base
  <2>1. 0 \in 0 .. W /\ \A j \in 1 .. W : j \in 0 .. W /\ j # 0
    BY WidthAssumption
  <2> QED BY <1>6, <2>1
<1>9. \A j \in 0 .. W : s[j] \in Nat
  <2> DEFINE P == {j \in Nat : j <= W => s[j] \in Nat}
  <2>1. 0 \in P
    BY <1>8
  <2>2. ASSUME NEW j \in Nat, j \in P PROVE j + 1 \in P
    <3> SUFFICES ASSUME j + 1 <= W PROVE s[j + 1] \in Nat
      OBVIOUS
    <3>1. s[j] \in Nat /\ j + 1 \in 1 .. W /\ (j + 1) - 1 = j
      BY <2>2, WidthAssumption
    <3>2. s[j + 1] = s[j] \div Base
      BY <1>8, <3>1
    <3> QED BY <3>1, <3>2, Division, WidthAssumption
  <2>3. \A j \in Nat : j \in P
    <3> HIDE DEF P
    <3> QED BY <2>1, <2>2, SetInduction
  <2> QED BY <2>3, WidthAssumption
<1>10. s \in [0 .. W -> Nat]
  BY <1>6, <1>9
<1> QED BY <1>7, <1>8, <1>10

\* What is less than what fits into a word fits.
LEMMA FitsBelow ==
  ASSUME NEW m \in Nat, NEW n \in Nat, m <= n, Fits(n)
  PROVE  Fits(m)
<1> DEFINE P == {j \in Nat : j <= W => Shifted(m)[j] <= Shifted(n)[j]}
<1>1. 0 \in P
  BY ShiftedDef
<1>2. ASSUME NEW j \in Nat, j \in P PROVE j + 1 \in P
  <2> SUFFICES ASSUME j + 1 <= W PROVE Shifted(m)[j + 1] <= Shifted(n)[j + 1]
    OBVIOUS
  <2>1. /\ j + 1 \in 1 .. W /\ j \in 0 .. W /\ (j + 1) - 1 = j
        /\ Shifted(m)[j] <= Shifted(n)[j]
    BY <1>2, WidthAssumption
  <2>2. Shifted(m)[j] \in Nat /\ Shifted(n)[j] \in Nat
    BY <2>1, ShiftedDef
  <2>3. /\ Shifted(m)[j + 1] = Shifted(m)[j] \div Base
        /\ Shifted(n)[j + 1] = Shifted(n)[j] \div Base
    BY <2>1, ShiftedDef
  <2> QED BY <2>1, <2>2, <2>3, DivisionMonotone, WidthAssumption
<1>3. W \in Nat /\ W \in P
  <2> HIDE DEF P
  <2> QED BY <1>1, <1>2, SetInduction, WidthAssumption
<1>4. Shifted(m)[W] <= Shifted(n)[W] /\ Shifted(m)[W] \in Nat /\ Shifted(n)[W] = 0
  <2>1. W \in 0 .. W /\ Shifted(m)[W] <= Shifted(n)[W]
    BY <1>3
  <2>2. Shifted(m) \in [0 .. W -> Nat]
    BY ShiftedDef
  <2>3. Shifted(n)[W] = 0
    BY DEF Fits
  <2> QED BY <2>1, <2>2, <2>3
<1> QED BY <1>4 DEF Fits

\* The value of a sequence of bytes is that of its prefixes, byte by byte.
LEMMA BytesValueDef ==
  ASSUME NEW bytes \in Seq(Nat)
  PROVE  \E v \in [0 .. Len(bytes) -> Nat] :
           /\ BytesValue(bytes) = v[Len(bytes)] /\ v[0] = 0
           /\ \A i \in 1 .. Len(bytes) : v[i] = v[i - 1] * Base + bytes[i]
<1> DEFINE m == Len(bytes)
           f == [p \in (1 .. m) \X Nat |-> p[2] * Base + bytes[p[1]]]
<1>1. m \in Nat /\ \A i \in 1 .. m : bytes[i] \in Nat
  OBVIOUS
<1>2. f \in [(1 .. m) \X Nat -> Nat]
  <2>1. Base \in Nat
    BY WidthAssumption
  <2> HIDE DEF m
  <2>2. \A p \in (1 .. m) \X Nat : p[2] * Base + bytes[p[1]] \in Nat
    <3> TAKE p \in (1 .. m) \X Nat
    <3>1. p[2] \in Nat /\ bytes[p[1]] \in Nat
      BY <1>1
    <3>2. p[2] * Base \in Nat
      BY <2>1, <3>1
    <3> QED BY <3>1, <3>2
  <2> QED BY <2>2
<1>3. PICK g \in [0 .. m -> Nat] : Iterates(g, f, 0, m)
  <2> HIDE DEF f, m
  <2> QED BY <1>1, <1>2, IterationExists
<1>4. \A i \in 0 .. m : i # 0 => i \in 1 .. m /\ g[i - 1] \in Nat
  <2> HIDE DEF f, m
  <2> SUFFICES ASSUME NEW i \in 0 .. m, i # 0 PROVE i \in 1 .. m /\ g[i - 1] \in Nat
    OBVIOUS
  <2>1. i \in 1 .. m /\ i - 1 \in 0 .. m
    BY <1>1
  <2> QED BY <2>1
<1>5. \A i \in 0 .. m : i # 0 => f[<<i, g[i - 1]>>] = g[i - 1] * Base + bytes[i]
  BY <1>4
<1> HIDE DEF f
<1>6. g = [i \in 0 .. m |-> IF i = 0 THEN 0 ELSE g[i - 1] * Base + bytes[i]]
  BY <1>3, <1>5 DEF Iterates
<1> DEFINE v == CHOOSE v : v = [i \in 0 .. Len(bytes) |->
                                  IF i = 0 THEN 0 ELSE v[i - 1] * Base + bytes[i]]
<1>7. v = [i \in 0 .. m |-> IF i = 0 THEN 0 ELSE v[i - 1] * Base + bytes[i]]
  BY <1>6
<1>8. BytesValue(bytes) = v[m]
  BY DEF BytesValue
<1> HIDE DEF v, m
<1>9. v[0] = 0 /\ \A i \in 1 .. m : v[i] = v[i - 1] * Base + bytes[i]
  <2>1. 0 \in 0 .. m /\ \A i \in 1 .. m : i \in 0 .. m /\ i # 0
    BY <1>1
  <2> QED BY <1>7, <2>1
<1>10. \A i \in 0 .. m : v[i] \in Nat
  <2> DEFINE P == {i \in Nat : i <= m => v[i] \in Nat}
  <2>1. 0 \in P
    BY <1>9
  <2>2. ASSUME NEW i \in Nat, i \in P PROVE i + 1 \in P
    <3> SUFFICES ASSUME i + 1 <= m PROVE v[i + 1] \in Nat
      OBVIOUS
    <3>1. v[i] \in Nat /\ i + 1 \in 1 .. m /\ (i + 1) - 1 = i
      BY <2>2, <1>1
    <3>2. v[i + 1] = v[i] * Base + bytes[i + 1] /\ bytes[i + 1] \in Nat
      BY <1>1, <1>9, <3>1
    <3>3. v[i] * Base \in Nat
      BY <3>1, WidthAssumption
    <3> QED BY <3>2, <3>3
  <2>3. \A i \in Nat : i \in P
    <3> HIDE DEF P
    <3> QED BY <2>1, <2>2, SetInduction
  <2> QED BY <2>3, <1>1
<1>11. v \in [0 .. m -> Nat]
  BY <1>7, <1>10
<1> QED BY <1>8, <1>9, <1>11 DEF m

\* A number that fits into a word is the value of its bytes.
LEMMA WordRead ==
  ASSUME NEW n \in Nat
  PROVE  /\ WordBytes(n) \in Seq(Nat) /\ Len(WordBytes(n)) = W
         /\ Fits(n) => BytesValue(WordBytes(n)) = n
<1>1. W \in Nat /\ Base \in Nat \ {0}
  BY WidthAssumption
<1>2. \A i \in 1 .. W : W - i \in 0 .. W /\ Shifted(n)[W - i] \in Nat
  BY <1>1, ShiftedDef
<1>3. \A i \in 1 .. W : Shifted(n)[W - i] % Base \in Nat
  BY <1>1, <1>2, Division
<1>4. WordBytes(n) \in Seq(Nat) /\ Len(WordBytes(n)) = W
  BY <1>1, <1>3, IsASeq DEF WordBytes
<1>5. ASSUME Fits(n) PROVE BytesValue(WordBytes(n)) = n
  <2>1. PICK v \in [0 .. W -> Nat] :
           /\ BytesValue(WordBytes(n)) = v[W] /\ v[0] = 0
           /\ \A i \in 1 .. W : v[i] = v[i - 1] * Base + WordBytes(n)[i]
    BY <1>4, BytesValueDef
  <2> DEFINE P == {i \in Nat : i <= W => v[i] = Shifted(n)[W - i]}
  <2>2. 0 \in P
    BY <1>1, <1>5, <2>1 DEF Fits
  <2>3. ASSUME NEW i \in Nat, i \in P PROVE i + 1 \in P
    <3> SUFFICES ASSUME i + 1 <= W PROVE v[i + 1] = Shifted(n)[W - (i + 1)]
      OBVIOUS
    <3> DEFINE y == Shifted(n)[W - (i + 1)]
    <3>1. /\ i + 1 \in 1 .. W /\ (i + 1) - 1 = i /\ v[i] = Shifted(n)[W - i]
          /\ W - i \in 1 .. W /\ (W - i) - 1 = W - (i + 1)
      BY <1>1, <2>3
    <3>2. y \in Nat
      BY <1>2, <3>1
    <3>3. v[i] = y \div Base
      BY <3>1, ShiftedDef
    <3>4. WordBytes(n)[i + 1] = y % Base
      BY <3>1 DEF WordBytes
    <3>5. v[i + 1] = (y \div Base) * Base + (y % Base)
      BY <2>1, <3>1, <3>3, <3>4
    <3> HIDE DEF y
    <3>6. v[i + 1] = y
      BY <1>1, <3>2, <3>5, Division
    <3> QED BY <3>6 DEF y
  <2>4. W \in P
    <3> HIDE DEF P
    <3> QED BY <1>1, <2>2, <2>3, SetInduction
  <2>5. v[W] = n
    <3>1. W - W = 0 /\ v[W] = Shifted(n)[W - W]
      BY <1>1, <2>4
    <3> QED BY <3>1, ShiftedDef
  <2> QED BY <2>1, <2>5
<1> QED BY <1>4, <1>5

-----------------------------------------------------------------------------
(* Parts of a sequence of bytes.                                            *)

\* data holds s from the offset a on.
Holds(data, a, s) == a + Len(s) <= Len(data) /\ \A i \in 1 .. Len(s) : data[a + i] = s[i]

LEMMA HeldSlice ==
  ASSUME NEW data \in Seq(Nat), NEW s \in Seq(Nat), NEW a \in Nat, Holds(data, a, s)
  PROVE  Slice(data, a, a + Len(s)) = s
<1>1. Len(s) \in Nat /\ Len(data) \in Nat /\ a + Len(s) <= Len(data)
  BY DEF Holds
<1>2. \A i \in (a + 1) .. (a + Len(s)) : data[i] \in Nat
  BY <1>1
<1>3. /\ Slice(data, a, a + Len(s)) \in Seq(Nat)
      /\ Len(Slice(data, a, a + Len(s))) =
           IF a + 1 <= a + Len(s) THEN a + Len(s) - (a + 1) + 1 ELSE 0
      /\ \A i \in 1 .. a + Len(s) - (a + 1) + 1 :
           Slice(data, a, a + Len(s))[i] = data[(a + 1) + i - 1]
  BY <1>1, <1>2, SubSeqProperties DEF Slice
<1>4. Len(Slice(data, a, a + Len(s))) = Len(s)
  BY <1>1, <1>3
<1>5. ASSUME NEW i \in 1 .. Len(s) PROVE Slice(data, a, a + Len(s))[i] = s[i]
  <2>1. i \in 1 .. a + Len(s) - (a + 1) + 1 /\ (a + 1) + i - 1 = a + i
    BY <1>1
  <2> QED BY <1>3, <2>1 DEF Holds
<1> QED BY <1>3, <1>4, <1>5, SeqEqual

LEMMA HeldLeft ==
  ASSUME NEW s \in Seq(Nat), NEW t \in Seq(Nat), NEW u \in Seq(Nat), NEW a \in Nat,
         Holds(s, a, u)
  PROVE  Holds(s \o t, a, u)
<1>1. Len(s) \in Nat /\ Len(t) \in Nat /\ Len(u) \in Nat
  OBVIOUS
<1>2. /\ Len(s \o t) = Len(s) + Len(t)
      /\ \A i \in 1 .. Len(s) + Len(t) :
           (s \o t)[i] = IF i <= Len(s) THEN s[i] ELSE t[i - Len(s)]
  BY ConcatProperties
<1>3. a + Len(u) <= Len(s) /\ \A i \in 1 .. Len(u) : s[a + i] = u[i]
  BY DEF Holds
<1>4. ASSUME NEW i \in 1 .. Len(u)
      PROVE  a + i \in 1 .. Len(s) + Len(t) /\ a + i <= Len(s)
  <2>1. i \in Nat /\ 1 <= i /\ i <= Len(u)
    BY <1>1
  <2>2. a + i <= Len(s)
    BY <1>1, <1>3, <2>1
  <2> QED BY <1>1, <2>1, <2>2
<1> QED BY <1>1, <1>2, <1>3, <1>4 DEF Holds

LEMMA HeldRight ==
  ASSUME NEW s \in Seq(Nat), NEW t \in Seq(Nat)
  PROVE  Holds(s \o t, Len(s), t)
<1>1. Len(s) \in Nat /\ Len(t) \in Nat
  OBVIOUS
<1>2. /\ Len(s \o t) = Len(s) + Len(t)
      /\ \A i \in 1 .. Len(s) + Len(t) :
           (s \o t)[i] = IF i <= Len(s) THEN s[i] ELSE t[i - Len(s)]
  BY ConcatProperties
<1>3. \A i \in 1 .. Len(t) : /\ Len(s) + i \in 1 .. Len(s) + Len(t)
                            /\ ~(Len(s) + i <= Len(s)) /\ (Len(s) + i) - Len(s) = i
  BY <1>1
<1> QED BY <1>1, <1>2, <1>3 DEF Holds

\* What is cut off after a part leaves the part.
LEMMA HeldCut ==
  ASSUME NEW data \in Seq(Nat), NEW s \in Seq(Nat), NEW a \in Nat, Holds(data, a, s),
         NEW c \in 0 .. Len(data), a + Len(s) <= c
  PROVE  Holds(SubSeq(data, 1, c), a, s)
<1>1. Len(data) \in Nat /\ Len(s) \in Nat /\ c \in Nat /\ c <= Len(data)
  OBVIOUS
<1>2. \A i \in 1 .. c : data[i] \in Nat
  BY <1>1
<1>3. /\ Len(SubSeq(data, 1, c)) = IF 1 <= c THEN c - 1 + 1 ELSE 0
      /\ \A i \in 1 .. c - 1 + 1 : SubSeq(data, 1, c)[i] = data[1 + i - 1]
  BY <1>1, <1>2, SubSeqProperties
<1>4. Len(SubSeq(data, 1, c)) = c /\ \A i \in 1 .. c : SubSeq(data, 1, c)[i] = data[i]
  BY <1>1, <1>3
<1>5. \A i \in 1 .. Len(s) : a + i \in 1 .. c
  BY <1>1
<1>6. \A i \in 1 .. Len(s) : data[a + i] = s[i]
  BY DEF Holds
<1> QED BY <1>4, <1>5, <1>6 DEF Holds

LEMMA CutType ==
  ASSUME NEW data \in Seq(Nat), NEW c \in 0 .. Len(data)
  PROVE  SubSeq(data, 1, c) \in Seq(Nat) /\ Len(SubSeq(data, 1, c)) = c
<1>1. Len(data) \in Nat /\ c \in Nat /\ c <= Len(data)
  OBVIOUS
<1>2. \A i \in 1 .. c : data[i] \in Nat
  BY <1>1
<1>3. /\ SubSeq(data, 1, c) \in Seq(Nat)
      /\ Len(SubSeq(data, 1, c)) = IF 1 <= c THEN c - 1 + 1 ELSE 0
  BY <1>1, <1>2, SubSeqProperties
<1> QED BY <1>1, <1>3

\* A word of the data that holds a number is read as that number.
LEMMA HeldWord ==
  ASSUME NEW data \in Seq(Nat), NEW n \in Nat, Fits(n), NEW a \in Nat,
         Holds(data, a, WordBytes(n))
  PROVE  WordAt(data, a) = n
<1>1. WordBytes(n) \in Seq(Nat) /\ Len(WordBytes(n)) = W /\ BytesValue(WordBytes(n)) = n
  BY WordRead
<1>2. Slice(data, a, a + W) = WordBytes(n)
  BY <1>1, HeldSlice
<1> QED BY <1>1, <1>2 DEF WordAt

LEMMA WordType ==
  ASSUME NEW data \in Seq(Nat), NEW a \in Nat, a + W <= Len(data)
  PROVE  WordAt(data, a) \in Nat
<1>1. W \in Nat /\ Len(data) \in Nat
  BY WidthAssumption
<1>2. \A i \in (a + 1) .. (a + W) : data[i] \in Nat
  BY <1>1
<1>3. Slice(data, a, a + W) \in Seq(Nat)
  BY <1>1, <1>2, SubSeqProperties DEF Slice
<1>4. PICK v \in [0 .. Len(Slice(data, a, a + W)) -> Nat] :
         BytesValue(Slice(data, a, a + W)) = v[Len(Slice(data, a, a + W))]
  BY <1>3, BytesValueDef
<1>5. Len(Slice(data, a, a + W)) \in 0 .. Len(Slice(data, a, a + W))
  BY <1>3
<1> QED BY <1>4, <1>5 DEF WordAt

LEMMA PaddedPart ==
  ASSUME NEW p \in Seq(Nat)
  PROVE  /\ PaddedBytes(p) \in Seq(Nat) /\ Len(PaddedBytes(p)) = WholeWords(Len(p))
         /\ Holds(PaddedBytes(p), 0, p)
<1> DEFINE k == WholeWords(Len(p)) - Len(p)
<1>1. Len(p) \in Nat /\ WholeWords(Len(p)) \in Nat /\ k \in Nat
  <2>1. Len(p) \in Nat
    OBVIOUS
  <2>2. WholeWords(Len(p)) \in Nat /\ Len(p) <= WholeWords(Len(p))
    BY <2>1, Rounding
  <2> QED BY <2>1, <2>2
<1>2. Zeros(k) \in Seq(Nat) /\ Len(Zeros(k)) = k
  BY <1>1, IsASeq DEF Zeros
<1>3. PaddedBytes(p) = p \o Zeros(k)
  BY DEF PaddedBytes, WholeWords
<1>4. p \o Zeros(k) \in Seq(Nat) /\ Len(p \o Zeros(k)) = Len(p) + k
  BY <1>2, ConcatProperties
<1>5. Holds(p, 0, p)
  BY <1>1 DEF Holds
<1>6. Holds(p \o Zeros(k), 0, p)
  BY <1>2, <1>5, HeldLeft
<1> QED BY <1>1, <1>3, <1>4, <1>6

LEMMA Joined ==
  ASSUME NEW s \in Seq(Nat), NEW t \in Seq(Nat)
  PROVE  s \o t \in Seq(Nat) /\ Len(s \o t) = Len(s) + Len(t)
BY ConcatProperties

\* The data of a log: four words and two more parts.
Joins(data, a, b, c, d, p, q) ==
  /\ {a, b, c, d, p, q} \subseteq Seq(Nat) /\ {Len(a), Len(b), Len(c), Len(d)} = {W}
  /\ data = a \o b \o c \o d \o p \o q

LEMMA Parts ==
  ASSUME NEW a, NEW b, NEW c, NEW d, NEW p, NEW q, NEW data, Joins(data, a, b, c, d, p, q)
  PROVE  /\ data \in Seq(Nat) /\ Len(data) = 4 * W + Len(p) + Len(q)
         /\ Holds(data, 0, a) /\ Holds(data, W, b) /\ Holds(data, 3 * W, d)
         /\ Holds(data, 4 * W, p) /\ Holds(data, 4 * W + Len(p), q)
<1> DEFINE s2 == a \o b
           s3 == s2 \o c
           s4 == s3 \o d
           s5 == s4 \o p
           s6 == s5 \o q
<1>0. W \in Nat /\ Len(p) \in Nat /\ Len(q) \in Nat
  BY WidthAssumption DEF Joins
<1>1. /\ a \in Seq(Nat) /\ b \in Seq(Nat) /\ c \in Seq(Nat) /\ d \in Seq(Nat)
      /\ p \in Seq(Nat) /\ q \in Seq(Nat)
      /\ Len(a) = W /\ Len(b) = W /\ Len(c) = W /\ Len(d) = W
  BY DEF Joins
<1>2. s2 \in Seq(Nat) /\ Len(s2) = 2 * W
  <2>1. s2 \in Seq(Nat) /\ Len(s2) = Len(a) + Len(b)
    BY <1>1, Joined
  <2> QED BY <1>0, <1>1, <1>1, <2>1
<1> HIDE DEF s2
<1>3. s3 \in Seq(Nat) /\ Len(s3) = 3 * W
  <2>1. s3 \in Seq(Nat) /\ Len(s3) = Len(s2) + Len(c)
    BY <1>1, <1>2, Joined
  <2> QED BY <1>0, <1>1, <1>2, <2>1
<1> HIDE DEF s3
<1>4. s4 \in Seq(Nat) /\ Len(s4) = 4 * W
  <2>1. s4 \in Seq(Nat) /\ Len(s4) = Len(s3) + Len(d)
    BY <1>3, <1>1, Joined
  <2> QED BY <1>0, <1>1, <1>3, <2>1
<1> HIDE DEF s4
<1>5. s5 \in Seq(Nat) /\ Len(s5) = 4 * W + Len(p)
  <2>1. s5 \in Seq(Nat) /\ Len(s5) = Len(s4) + Len(p)
    BY <1>4, <1>1, Joined
  <2> QED BY <1>0, <1>1, <1>4, <2>1
<1> HIDE DEF s5
<1>6. s6 \in Seq(Nat) /\ Len(s6) = 4 * W + Len(p) + Len(q)
  <2>1. s6 \in Seq(Nat) /\ Len(s6) = Len(s5) + Len(q)
    BY <1>5, <1>1, Joined
  <2> QED BY <1>0, <1>1, <1>5, <2>1
<1>7. Holds(s6, 4 * W + Len(p), q)
  BY <1>5, <1>1, HeldRight
<1> HIDE DEF s6
<1>8. Holds(s6, 4 * W, p)
  <2>1. Holds(s5, 4 * W, p)
    BY <1>4, <1>1, HeldRight DEF s5
  <2> QED BY <1>0, <1>5, <2>1, <1>1, HeldLeft DEF s6
<1>9. Holds(s6, 3 * W, d)
  <2>1. Holds(s4, 3 * W, d)
    BY <1>3, <1>1, HeldRight DEF s4
  <2>2. Holds(s5, 3 * W, d)
    BY <1>0, <1>4, <2>1, <1>1, HeldLeft DEF s5
  <2> QED BY <1>0, <1>5, <2>2, <1>1, HeldLeft DEF s6
<1>10. ASSUME NEW i \in Nat, NEW u \in Seq(Nat), Holds(s2, i, u) PROVE Holds(s6, i, u)
  <2>1. Holds(s3, i, u)
    BY <1>2, <1>10, <1>1, HeldLeft DEF s3
  <2>2. Holds(s4, i, u)
    BY <1>3, <2>1, <1>1, HeldLeft DEF s4
  <2>3. Holds(s5, i, u)
    BY <1>4, <2>2, <1>1, HeldLeft DEF s5
  <2> QED BY <1>5, <2>3, <1>1, HeldLeft DEF s6
<1>11. Holds(s6, W, b)
  <2>1. Holds(s2, W, b)
    BY <1>1, HeldRight DEF s2
  <2> QED BY <1>0, <2>1, <1>1, <1>10
<1>12. Holds(s6, 0, a)
  <2>1. Holds(a, 0, a)
    BY <1>0, <1>1 DEF Holds
  <2>2. Holds(s2, 0, a)
    BY <2>1, <1>1, HeldLeft DEF s2
  <2> QED BY <2>2, <1>1, <1>10
<1>13. data = s6
  BY DEF Joins, s2, s3, s4, s5, s6
<1> QED BY <1>6, <1>7, <1>8, <1>9, <1>11, <1>12, <1>13

-----------------------------------------------------------------------------
(* The bounds checks of parseMessagePassed.                                 *)

LEMMA Widths ==
  /\ W \in Nat \ {0} /\ U \in Nat \ {0} /\ U \div 2 \in Nat /\ U = 2 * (U \div 2)
  /\ MaxPayload \in Nat /\ 6 * W + MaxPayload < U \div 2
BY Half, WidthAssumption, HashesAssumption

LEMMA Wrapped ==
  ASSUME NEW n \in Nat
  PROVE  /\ Uint64(n) \in Nat /\ Uint64(n) < U
         /\ n < U => Uint64(n) = n
<1>1. Uint64(n) \in Nat /\ Uint64(n) < U
  BY Division, Widths DEF Uint64
<1>2. n < U => Uint64(n) = n
  BY Remainder, Widths DEF Uint64
<1> QED BY <1>1, <1>2

LEMMA WrappedOnce ==
  ASSUME NEW n \in Nat, U <= n, n < 2 * U
  PROVE  Uint64(n) = n - U
BY RemainderOnce, Widths DEF Uint64

\* The padding of a length is exact unless adding to it wraps, and none at all then.
LEMMA PaddedValue ==
  ASSUME NEW n \in Nat, n < U
  PROVE  /\ n + W - 1 < U => Padded(n) = WholeWords(n)
         /\ U <= n + W - 1 => Padded(n) = 0
<1>1. WholeWords(n) \in Nat /\ n <= WholeWords(n) /\ WholeWords(n) <= n + W - 1
  BY Rounding
<1>2. n + W - 1 \in Nat
  BY Widths
<1>3. ASSUME n + W - 1 < U PROVE Padded(n) = WholeWords(n)
  <2>1. Uint64(n + W - 1) = n + W - 1
    BY <1>2, <1>3, Wrapped
  <2>2. Padded(n) = Uint64(WholeWords(n))
    BY <2>1 DEF Padded, WholeWords
  <2>3. WholeWords(n) < U
    BY <1>1, <1>2, <1>3, Widths
  <2> QED BY <1>1, <2>2, <2>3, Wrapped
<1>4. ASSUME U <= n + W - 1 PROVE Padded(n) = 0
  <2>1. n + W - 1 < 2 * U /\ n + W - 1 - U \in Nat /\ n + W - 1 - U < W
    BY <1>2, <1>4, Widths
  <2>2. Uint64(n + W - 1) = n + W - 1 - U
    BY <1>2, <1>4, <2>1, WrappedOnce, Widths
  <2>3. Uint64(n + W - 1) \div W = 0
    BY <2>1, <2>2, Remainder, Widths
  <2>4. 0 * W = 0 /\ Uint64(0) = 0
    BY Wrapped, Widths
  <2> QED BY <2>3, <2>4 DEF Padded
<1> QED BY <1>3, <1>4

\* Below the boundary the checks compare what they mean to.
LEMMA BoundsChecked ==
  ASSUME NEW data \in Seq(Nat), dataLen(data) \in Nat,
         WholeWords(dataLen(data)) + 5 * W < U \div 2
  PROVE  /\ hashOffset(data) = 4 * W + WholeWords(dataLen(data))
         /\ TakesPayload(data) <=> dataLen(data) > 0 /\ Len(data) >= 4 * W + dataLen(data)
         /\ TakesHash(data) <=> Len(data) >= 5 * W + WholeWords(dataLen(data))
         /\ ~PayloadPanics(data) /\ ~HashPanics(data)
<1> DEFINE l == dataLen(data)
           p == WholeWords(dataLen(data))
<1>1. l \in Nat /\ p \in Nat /\ l <= p /\ p <= l + W - 1 /\ Len(data) \in Nat
  BY Rounding
<1>2. /\ l < U /\ l + W - 1 < U
      /\ 4 * W + p \in Nat /\ 4 * W + p < U /\ 4 * W + p < U \div 2
      /\ 5 * W + p \in Nat /\ 5 * W + p < U /\ 5 * W + p < U \div 2
      /\ 4 * W + l \in Nat /\ 4 * W + l < U /\ 4 * W + l < U \div 2
  BY <1>1, Widths
<1>3. hashOffset(data) = 4 * W + p
  <2>1. Padded(dataLen(data)) = p
    BY <1>1, <1>2, PaddedValue
  <2> QED BY <1>2, <2>1, Wrapped DEF hashOffset
<1>4. TakesPayload(data) <=> l > 0 /\ Len(data) >= 4 * W + l
  <2>1. Uint64(4 * W + l) = 4 * W + l
    BY <1>2, Wrapped
  <2>2. ToInt(Uint64(4 * W + l)) = 4 * W + l
    BY <1>2, <2>1 DEF ToInt
  <2> QED BY <2>2 DEF TakesPayload
<1>5. TakesHash(data) <=> Len(data) >= 5 * W + p
  <2>1. hashOffset(data) + W = 5 * W + p
    BY <1>1, <1>3, Widths
  <2>2. Uint64(hashOffset(data) + W) = 5 * W + p
    BY <1>2, <2>1, Wrapped
  <2>3. ToInt(Uint64(hashOffset(data) + W)) = 5 * W + p
    BY <1>2, <2>2 DEF ToInt
  <2> QED BY <2>3 DEF TakesHash
<1>6. ~PayloadPanics(data)
  BY <1>1, <1>4, Widths DEF PayloadPanics
<1>7. ~HashPanics(data)
  <2>1. hashOffset(data) + W = 5 * W + p
    BY <1>1, <1>3, Widths
  <2> QED BY <1>1, <1>2, <1>5, <2>1 DEF HashPanics
<1> QED BY <1>3, <1>4, <1>5, <1>6, <1>7

\* Beyond it one of them passes that should not.
LEMMA BoundsMissed ==
  ASSUME NEW data \in Seq(Nat), 5 * W <= Len(data), Len(data) < U \div 2,
         dataLen(data) \in Nat, dataLen(data) < U,
         WholeWords(dataLen(data)) + 5 * W >= U \div 2
  PROVE  PayloadPanics(data) \/ HashPanics(data)
<1> DEFINE l == dataLen(data)
           p == WholeWords(dataLen(data))
           h == U \div 2
<1>1. l \in Nat /\ p \in Nat /\ l <= p /\ p <= l + W - 1 /\ Len(data) \in Nat
  BY Rounding
<1>2. /\ W \in Nat /\ W > 0 /\ h \in Nat /\ U = 2 * h /\ 6 * W < h
      /\ 5 * W <= Len(data) /\ Len(data) < h /\ l < U /\ p + 5 * W >= h
  <2>1. 6 * W < h
    BY Widths
  <2> QED BY <2>1, Widths
<1> HIDE DEF l, p, h
<1>3. \A n \in Nat : ToInt(n) = IF n < h THEN n ELSE n - U
  BY DEF ToInt, h
<1>4. ASSUME U <= l + 4 * W PROVE PayloadPanics(data)
  <2>1. /\ 4 * W + l \in Nat /\ U <= 4 * W + l /\ 4 * W + l < 2 * U
        /\ (4 * W + l) - U \in Nat /\ (4 * W + l) - U < h
    BY <1>1, <1>2, <1>4
  <2>2. Uint64(4 * W + l) = (4 * W + l) - U
    BY <2>1, WrappedOnce
  <2>3. ToInt(Uint64(4 * W + l)) = (4 * W + l) - U
    BY <1>3, <2>1, <2>2
  <2>4. l > 0 /\ Len(data) >= (4 * W + l) - U /\ l > Len(data)
    BY <1>1, <1>2, <1>4
  <2> QED BY <2>3, <2>4 DEF PayloadPanics, TakesPayload, l
<1>5. ASSUME l + 4 * W < U, U <= 4 * W + p PROVE PayloadPanics(data)
  <2>1. 4 * W + l \in Nat /\ 4 * W + l < U /\ ~(4 * W + l < h)
    BY <1>1, <1>2, <1>5
  <2>2. Uint64(4 * W + l) = 4 * W + l
    BY <2>1, Wrapped
  <2>3. ToInt(Uint64(4 * W + l)) = (4 * W + l) - U
    BY <1>3, <2>1, <2>2
  <2>4. l > 0 /\ Len(data) >= (4 * W + l) - U /\ l > Len(data)
    BY <1>1, <1>2, <1>5
  <2> QED BY <2>3, <2>4 DEF PayloadPanics, TakesPayload, l
<1>6. ASSUME l + 4 * W < U, 4 * W + p < U PROVE HashPanics(data)
  <2>1. /\ l + W - 1 < U /\ 4 * W + p \in Nat /\ 5 * W + p \in Nat
        /\ 5 * W + p < 2 * U /\ 5 * W + p >= h /\ 5 * W + p > Len(data)
    BY <1>1, <1>2, <1>6
  <2>2. hashOffset(data) = 4 * W + p
    <3>1. Padded(dataLen(data)) = p
      BY <1>1, <1>2, <2>1, PaddedValue DEF l, p
    <3> QED BY <1>6, <2>1, <3>1, Wrapped DEF hashOffset
  <2>3. hashOffset(data) + W = 5 * W + p
    BY <1>1, <1>2, <2>2
  <2>4. ToInt(Uint64(5 * W + p)) <= Len(data)
    <3>1. CASE 5 * W + p < U
      <4>1. Uint64(5 * W + p) = 5 * W + p
        BY <2>1, <3>1, Wrapped
      <4>2. ToInt(5 * W + p) = (5 * W + p) - U
        BY <1>1, <1>2, <1>3, <2>1
      <4>3. (5 * W + p) - U <= Len(data)
        BY <1>1, <1>2, <3>1
      <4> QED BY <4>1, <4>2, <4>3
    <3>2. CASE U <= 5 * W + p
      <4>1. Uint64(5 * W + p) = (5 * W + p) - U
        BY <2>1, <3>2, WrappedOnce
      <4>2. (5 * W + p) - U \in Nat /\ (5 * W + p) - U < h /\ (5 * W + p) - U <= Len(data)
        BY <1>1, <1>2, <1>6, <3>2
      <4>3. ToInt(Uint64(5 * W + p)) = (5 * W + p) - U
        BY <1>3, <4>1, <4>2
      <4> QED BY <4>2, <4>3
    <3> QED BY <1>1, <1>2, <3>1, <3>2
  <2>5. TakesHash(data)
    BY <2>3, <2>4 DEF TakesHash
  <2> QED BY <2>1, <2>3, <2>5 DEF HashPanics
<1> QED BY <1>1, <1>2, <1>4, <1>5, <1>6

LEMMA LengthType ==
  ASSUME NEW data \in Seq(Nat), 5 * W <= Len(data)
  PROVE  dataLen(data) \in Nat /\ dataLen(data) < U
<1>1. 3 * W \in Nat /\ 3 * W + W <= Len(data) /\ Len(data) \in Nat
  BY Widths
<1>2. WordAt(data, 3 * W) \in Nat
  BY <1>1, WordType
<1> QED BY <1>2, Wrapped DEF dataLen

\* The parser of MessagePassed logs panics from the boundary on.
LEMMA PanicIff ==
  ASSUME NEW data \in Seq(Nat), 5 * W <= Len(data), Len(data) < U \div 2
  PROVE  PayloadPanics(data) \/ HashPanics(data) <=>
           WholeWords(dataLen(data)) + 5 * W >= U \div 2
<1>1. dataLen(data) \in Nat /\ dataLen(data) < U /\ WholeWords(dataLen(data)) \in Nat
  BY LengthType, Rounding
<1>2. CASE WholeWords(dataLen(data)) + 5 * W < U \div 2
  BY <1>1, <1>2, BoundsChecked, Widths
<1>3. CASE WholeWords(dataLen(data)) + 5 * W >= U \div 2
  BY <1>1, <1>3, BoundsMissed
<1> QED BY <1>1, <1>2, <1>3, Widths

-----------------------------------------------------------------------------
(* The logs of a withdrawal.                                                *)

\* A withdrawal the message passer may have recorded.
Sent(w) ==
  \E k \in {1, 2}, from \in {User, L2Messenger}, target \in {Peer, L1Messenger},
     n \in 0 .. MaxPayload + 1, h \in Hashes : w = Withdrawal(k, from, target, n, h)

\* Its numbers fit into a word, the length of its payload is small and its hash large.
LEMMA SentFields ==
  ASSUME NEW w, Sent(w)
  PROVE  /\ w.nonce \in {1, 2} /\ w.value \in Nat /\ Fits(w.value)
         /\ w.gas \in Nat /\ w.gas # 0 /\ Fits(w.gas)
         /\ w.payload \in Seq(Nat) /\ Len(w.payload) <= MaxPayload + 1 /\ Fits(Len(w.payload))
         /\ w.hash \in Nat /\ w.hash # 0 /\ Fits(w.hash) /\ w.hash % U > 6 * W + MaxPayload
<1>1. PICK k \in {1, 2}, from \in {User, L2Messenger}, target \in {Peer, L1Messenger},
           n \in 0 .. MaxPayload + 1, h \in Hashes : w = Withdrawal(k, from, target, n, h)
  BY DEF Sent
<1>2. /\ w.nonce = k /\ w.value = 2 * k /\ w.gas = 2 * k + 1
      /\ w.payload = Payload(n) /\ w.hash = h
  BY <1>1 DEF Withdrawal
<1>3. h \in Nat /\ Fits(h) /\ h % U > 6 * W + MaxPayload
  BY HashesAssumption
<1>4. h % U \in Nat /\ h % U <= h
  <2>1. h \div U \in Nat /\ h % U \in Nat /\ h = (h \div U) * U + (h % U)
    BY <1>3, Widths, Division
  <2>2. (h \div U) * U \in Nat
    BY <2>1, Widths
  <2> QED BY <2>1, <2>2
<1>5. h # 0 /\ n \in Nat /\ n <= h /\ 2 * k \in Nat /\ 2 * k <= h
      /\ 2 * k + 1 \in Nat /\ 2 * k + 1 <= h
  BY <1>3, <1>4, Widths
<1>6. Fits(n) /\ Fits(2 * k) /\ Fits(2 * k + 1)
  BY <1>3, <1>5, FitsBelow
<1>7. Payload(n) \in Seq(Nat) /\ Len(Payload(n)) = n
  <2> DEFINE b == Base - 1
  <2>1. b \in Nat \ {0}
    BY WidthAssumption
  <2> HIDE DEF b
  <2>2. \A i \in 1 .. n : i % b \in Nat
    BY <1>5, <2>1, Division
  <2>3. \A i \in 1 .. n : 1 + (i % b) \in Nat
    BY <2>2
  <2> QED BY <1>5, <2>3, IsASeq DEF Payload, b
<1> QED BY <1>2, <1>3, <1>5, <1>6, <1>7

LEMMA HashLastParts ==
  ASSUME NEW w, Sent(w), NEW data, data = HashLast(w)
  PROVE  /\ data \in Seq(Nat) /\ Len(data) = 5 * W + WholeWords(Len(w.payload))
         /\ Holds(data, 0, WordBytes(w.value)) /\ Holds(data, W, WordBytes(w.gas))
         /\ Holds(data, 3 * W, WordBytes(Len(w.payload)))
         /\ Holds(data, 4 * W, PaddedBytes(w.payload))
         /\ Holds(data, 4 * W + WholeWords(Len(w.payload)), WordBytes(w.hash))
<1>1. /\ w.value \in Nat /\ w.gas \in Nat /\ w.hash \in Nat /\ 5 * W \in Nat
      /\ w.payload \in Seq(Nat) /\ Len(w.payload) \in Nat
  BY SentFields, Widths
<1>2. \A n \in {w.value, w.gas, w.hash, 5 * W, Len(w.payload)} :
        WordBytes(n) \in Seq(Nat) /\ Len(WordBytes(n)) = W
  BY <1>1, WordRead
<1>3. PaddedBytes(w.payload) \in Seq(Nat)
      /\ Len(PaddedBytes(w.payload)) = WholeWords(Len(w.payload))
  BY <1>1, PaddedPart
<1>4. Joins(data, WordBytes(w.value), WordBytes(w.gas), WordBytes(5 * W),
            WordBytes(Len(w.payload)), PaddedBytes(w.payload), WordBytes(w.hash))
  BY <1>1, <1>2, <1>3 DEF HashLast, Joins
<1>5. /\ data \in Seq(Nat)
      /\ Len(data) = 4 * W + Len(PaddedBytes(w.payload)) + Len(WordBytes(w.hash))
      /\ Holds(data, 0, WordBytes(w.value)) /\ Holds(data, W, WordBytes(w.gas))
      /\ Holds(data, 3 * W, WordBytes(Len(w.payload)))
      /\ Holds(data, 4 * W, PaddedBytes(w.payload))
      /\ Holds(data, 4 * W + Len(PaddedBytes(w.payload)), WordBytes(w.hash))
  BY <1>4, Parts
<1>6. WholeWords(Len(w.payload)) \in Nat
  BY <1>1, Rounding
<1>7. Len(PaddedBytes(w.payload)) = WholeWords(Len(w.payload)) /\ Len(WordBytes(w.hash)) = W
  BY <1>2, <1>3
<1>8. Len(data) = 5 * W + WholeWords(Len(w.payload))
  BY <1>5, <1>6, <1>7, Widths
<1> QED BY <1>3, <1>5, <1>8

LEMMA AbiParts ==
  ASSUME NEW w, Sent(w), NEW data, data = AbiEncoded(w)
  PROVE  /\ data \in Seq(Nat) /\ Len(data) = 5 * W + WholeWords(Len(w.payload))
         /\ Holds(data, 3 * W, WordBytes(w.hash))
<1>1. /\ w.value \in Nat /\ w.gas \in Nat /\ w.hash \in Nat /\ 4 * W \in Nat
      /\ w.payload \in Seq(Nat) /\ Len(w.payload) \in Nat
  BY SentFields, Widths
<1>2. \A n \in {w.value, w.gas, w.hash, 4 * W, Len(w.payload)} :
        WordBytes(n) \in Seq(Nat) /\ Len(WordBytes(n)) = W
  BY <1>1, WordRead
<1>3. PaddedBytes(w.payload) \in Seq(Nat)
      /\ Len(PaddedBytes(w.payload)) = WholeWords(Len(w.payload))
  BY <1>1, PaddedPart
<1>4. Joins(data, WordBytes(w.value), WordBytes(w.gas), WordBytes(4 * W),
            WordBytes(w.hash), WordBytes(Len(w.payload)), PaddedBytes(w.payload))
  BY <1>1, <1>2, <1>3 DEF AbiEncoded, Joins
<1>5. /\ data \in Seq(Nat)
      /\ Len(data) = 4 * W + Len(WordBytes(Len(w.payload))) + Len(PaddedBytes(w.payload))
      /\ Holds(data, 3 * W, WordBytes(w.hash))
  BY <1>4, Parts
<1>6. WholeWords(Len(w.payload)) \in Nat
  BY <1>1, Rounding
<1>7. Len(WordBytes(Len(w.payload))) = W /\ Len(PaddedBytes(w.payload)) = WholeWords(Len(w.payload))
  BY <1>2, <1>3
<1>8. Len(data) = 5 * W + WholeWords(Len(w.payload))
  BY <1>5, <1>6, <1>7, Widths
<1> QED BY <1>3, <1>5, <1>8

\* A log is far shorter than the range of int, and so is what it says of its payload.
LEMMA LogLengths ==
  ASSUME NEW w, Sent(w)
  PROVE  /\ Len(w.payload) \in Nat /\ WholeWords(Len(w.payload)) \in Nat
         /\ Len(w.payload) <= WholeWords(Len(w.payload))
         /\ 5 * W + WholeWords(Len(w.payload)) <= 6 * W + MaxPayload
         /\ 5 * W + WholeWords(Len(w.payload)) < U \div 2
         /\ Len(w.payload) < U
<1>1. Len(w.payload) \in Nat /\ Len(w.payload) <= MaxPayload + 1
  BY SentFields
<1>2. /\ WholeWords(Len(w.payload)) \in Nat
      /\ Len(w.payload) <= WholeWords(Len(w.payload))
      /\ WholeWords(Len(w.payload)) <= Len(w.payload) + W - 1
  BY <1>1, Rounding
<1> QED BY <1>1, <1>2, Widths

\* With the hash last, what is taken of a log is its own, and the whole of it if the
\* hash is.
LEMMA HashLastRead ==
  ASSUME NEW w, Sent(w), NEW c \in 0 .. Len(HashLast(w)), 5 * W <= c,
         NEW data, data = SubSeq(HashLast(w), 1, c)
  PROVE  /\ data \in Seq(Nat) /\ Len(data) = c
         /\ ~PayloadPanics(data) /\ ~HashPanics(data)
         /\ TakesPayload(data) => Slice(data, 4 * W, 4 * W + dataLen(data)) = w.payload
         /\ TakesHash(data) <=> c = Len(HashLast(w))
         /\ TakesHash(data) =>
              /\ WordAt(data, 0) = w.value /\ WordAt(data, W) = w.gas
              /\ WordAt(data, hashOffset(data)) = w.hash
              /\ ~TakesPayload(data) => w.payload = <<>>
<1> DEFINE l == Len(w.payload)
           p == WholeWords(Len(w.payload))
           full == HashLast(w)
<1>1. /\ full \in Seq(Nat) /\ Len(full) = 5 * W + p
      /\ Holds(full, 0, WordBytes(w.value)) /\ Holds(full, W, WordBytes(w.gas))
      /\ Holds(full, 3 * W, WordBytes(l)) /\ Holds(full, 4 * W, PaddedBytes(w.payload))
      /\ Holds(full, 4 * W + p, WordBytes(w.hash))
  BY HashLastParts
<1>2. /\ l \in Nat /\ p \in Nat /\ l <= p /\ 5 * W + p < U \div 2 /\ l < U
  BY LogLengths
<1>3. /\ w.value \in Nat /\ w.gas \in Nat /\ w.hash \in Nat /\ w.payload \in Seq(Nat)
      /\ Fits(w.value) /\ Fits(w.gas) /\ Fits(w.hash) /\ Fits(l)
  BY SentFields
<1>4. \A n \in Nat : WordBytes(n) \in Seq(Nat) /\ Len(WordBytes(n)) = W
  BY WordRead
<1>5. c \in 0 .. Len(full) /\ data = SubSeq(full, 1, c)
  OBVIOUS
<1> HIDE DEF full, l, p
<1>13. c \in Nat /\ c <= 5 * W + p
  BY <1>1, <1>2, <1>5, Widths
<1>6. data \in Seq(Nat) /\ Len(data) = c
  BY <1>1, <1>5, CutType
<1>7. ASSUME NEW a \in Nat, NEW n \in Nat, Fits(n), Holds(full, a, WordBytes(n)), a + W <= c
      PROVE  WordAt(data, a) = n
  <2>1. Holds(data, a, WordBytes(n))
    BY <1>1, <1>4, <1>5, <1>7, HeldCut
  <2> QED BY <1>6, <1>7, <2>1, HeldWord
<1>8. dataLen(data) = l
  <2>1. 3 * W \in Nat /\ 3 * W + W <= c
    BY <1>13, Widths
  <2>2. WordAt(data, 3 * W) = l
    BY <1>1, <1>2, <1>3, <1>7, <2>1
  <2> QED BY <1>2, <2>2, Wrapped DEF dataLen
<1>9. /\ hashOffset(data) = 4 * W + p
      /\ TakesPayload(data) <=> l > 0 /\ c >= 4 * W + l
      /\ TakesHash(data) <=> c >= 5 * W + p
      /\ ~PayloadPanics(data) /\ ~HashPanics(data)
  <2>1. WholeWords(dataLen(data)) + 5 * W < U \div 2 /\ dataLen(data) \in Nat
    BY <1>2, <1>8, Widths DEF p, l
  <2> QED BY <1>6, <1>8, <2>1, BoundsChecked DEF p, l
<1>10. ASSUME TakesPayload(data)
       PROVE  Slice(data, 4 * W, 4 * W + dataLen(data)) = w.payload
  <2>1. Holds(PaddedBytes(w.payload), 0, w.payload) /\ PaddedBytes(w.payload) \in Seq(Nat)
    BY <1>3, PaddedPart
  <2>2. Holds(full, 4 * W, w.payload) /\ Len(w.payload) = l
    <3>1. /\ l <= Len(PaddedBytes(w.payload))
          /\ \A i \in 1 .. l : PaddedBytes(w.payload)[0 + i] = w.payload[i]
      BY <1>2, <2>1 DEF Holds, l
    <3>2. /\ 4 * W + Len(PaddedBytes(w.payload)) <= Len(full)
          /\ \A i \in 1 .. Len(PaddedBytes(w.payload)) :
                full[4 * W + i] = PaddedBytes(w.payload)[i]
      BY <1>1 DEF Holds
    <3>3. Len(PaddedBytes(w.payload)) \in Nat /\ Len(full) \in Nat
      BY <1>1, <2>1
    <3>4. \A i \in 1 .. l : 0 + i = i /\ i \in 1 .. Len(PaddedBytes(w.payload))
      BY <1>2, <3>1, <3>3
    <3>5. 4 * W + l <= Len(full)
      BY <1>2, <3>1, <3>2, <3>3, Widths
    <3> QED BY <3>1, <3>2, <3>4, <3>5 DEF Holds, l
  <2>3. 4 * W \in Nat /\ 4 * W + l <= c
    BY <1>2, <1>13, <1>9, <1>10, Widths
  <2>4. Holds(data, 4 * W, w.payload)
    BY <1>1, <1>3, <1>5, <2>2, <2>3, HeldCut
  <2> QED BY <1>3, <1>6, <1>8, <2>2, <2>3, <2>4, HeldSlice
<1>11. TakesHash(data) <=> c = Len(full)
  <2>1. Len(full) = 5 * W + p
    BY <1>1
  <2>2. 5 * W + p \in Nat
    BY <1>2, Widths
  <2> QED BY <1>9, <1>13, <2>1, <2>2
<1>12. ASSUME TakesHash(data)
       PROVE  /\ WordAt(data, 0) = w.value /\ WordAt(data, W) = w.gas
              /\ WordAt(data, hashOffset(data)) = w.hash
              /\ ~TakesPayload(data) => w.payload = <<>>
  <2>1. /\ c >= 5 * W + p /\ W \in Nat /\ 4 * W + p \in Nat
        /\ 0 + W <= c /\ W + W <= c /\ (4 * W + p) + W <= c /\ c >= 4 * W + l
    BY <1>2, <1>13, <1>9, <1>12, Widths
  <2>2. WordAt(data, 0) = w.value
    BY <1>1, <1>3, <1>7, <2>1
  <2>3. WordAt(data, W) = w.gas
    BY <1>1, <1>3, <1>7, <2>1
  <2>4. WordAt(data, 4 * W + p) = w.hash
    BY <1>1, <1>3, <1>7, <2>1
  <2>5. ~TakesPayload(data) => l = 0
    BY <1>2, <1>9, <2>1
  <2>6. l = 0 => w.payload = <<>>
    BY <1>3 DEF l
  <2> QED BY <1>9, <2>2, <2>3, <2>4, <2>5, <2>6
<1> QED BY <1>6, <1>9, <1>10, <1>11, <1>12 DEF full

\* In the ABI's layout the length is read from the hash: without a panic nothing of the
\* payload or the hash is taken.
LEMMA AbiRead ==
  ASSUME NEW w, Sent(w), NEW c \in 0 .. Len(AbiEncoded(w)), 5 * W <= c,
         NEW data, data = SubSeq(AbiEncoded(w), 1, c)
  PROVE  /\ data \in Seq(Nat) /\ Len(data) = c /\ c < U \div 2
         /\ ~PayloadPanics(data) /\ ~HashPanics(data) => ~TakesPayload(data) /\ ~TakesHash(data)
<1> DEFINE full == AbiEncoded(w)
           l == dataLen(data)
<1>1. /\ full \in Seq(Nat) /\ Len(full) = 5 * W + WholeWords(Len(w.payload))
      /\ Holds(full, 3 * W, WordBytes(w.hash))
  BY AbiParts
<1>2. Len(full) <= 6 * W + MaxPayload /\ Len(full) < U \div 2 /\ Len(full) \in Nat
  BY <1>1, LogLengths, Widths
<1> HIDE DEF full
<1>3. /\ c \in 0 .. Len(full) /\ data = SubSeq(full, 1, c)
      /\ c \in Nat /\ c <= 6 * W + MaxPayload /\ c < U \div 2
  BY <1>2, Widths DEF full
<1>4. data \in Seq(Nat) /\ Len(data) = c
  BY <1>1, <1>3, CutType
<1>5. w.hash \in Nat /\ Fits(w.hash) /\ w.hash % U > 6 * W + MaxPayload
  BY SentFields
<1>6. 3 * W \in Nat /\ 3 * W + W <= c
  BY <1>3, Widths
<1>7. WordBytes(w.hash) \in Seq(Nat) /\ Len(WordBytes(w.hash)) = W
  BY <1>5, WordRead
<1>8. Holds(data, 3 * W, WordBytes(w.hash))
  BY <1>1, <1>3, <1>6, <1>7, HeldCut
<1>9. l = w.hash % U
  <2>1. WordAt(data, 3 * W) = w.hash
    BY <1>4, <1>5, <1>6, <1>8, HeldWord
  <2> QED BY <2>1 DEF dataLen, Uint64
<1>10. l \in Nat /\ l < U /\ l > c /\ WholeWords(l) \in Nat /\ l <= WholeWords(l)
  <2>1. l \in Nat /\ l < U
    BY <1>3, <1>4, LengthType
  <2>2. l > c
    BY <1>3, <1>5, <1>9, <2>1, Widths
  <2> QED BY <2>1, <2>2, Rounding
<1>11. ASSUME ~PayloadPanics(data), ~HashPanics(data)
       PROVE  ~TakesPayload(data) /\ ~TakesHash(data)
  <2>1. ~(WholeWords(l) + 5 * W >= U \div 2)
    BY <1>3, <1>4, <1>11, PanicIff
  <2>2. WholeWords(l) + 5 * W < U \div 2
    BY <1>10, <2>1, Widths
  <2>3. /\ TakesPayload(data) <=> l > 0 /\ c >= 4 * W + l
        /\ TakesHash(data) <=> c >= 5 * W + WholeWords(l)
    BY <1>4, <1>10, <2>2, BoundsChecked
  <2> QED BY <1>3, <1>10, <2>3, Widths
<1> QED BY <1>3, <1>4, <1>11

-----------------------------------------------------------------------------
(* What parseLog returns for the logs of a withdrawal.                      *)

\* The event that carries a withdrawal as it was sent.
AsSent(w) ==
  [out |-> "event", sender |-> w.sender, recipient |-> w.target, amount |-> w.value,
   data |-> w.payload, nonce |-> w.nonce, gas |-> w.gas, hash |-> w.hash]

Layouts == {"hashLast", "abi"}
BridgeKinds == {"ETHBridgeInitiated", "ERC20BridgeInitiated"}

\* A log of the message passer that is not too short.
LongLog(log) ==
  /\ log.kind = "MessagePassed" /\ log.topics = 4
  /\ log.data \in Seq(Nat) /\ 5 * W <= Len(log.data)

LEMMA ParsedMessage ==
  ASSUME NEW log, LongLog(log)
  PROVE  parseLog(log) =
           IF PayloadPanics(log.data) \/ HashPanics(log.data) THEN ParsePanic
           ELSE [out |-> "event", sender |-> log.sender, recipient |-> log.target,
                 amount |-> WordAt(log.data, 0),
                 data |-> IF TakesPayload(log.data)
                          THEN Slice(log.data, 4 * W, 4 * W + dataLen(log.data)) ELSE <<>>,
                 nonce |-> log.nonce, gas |-> WordAt(log.data, W),
                 hash |-> IF TakesHash(log.data)
                          THEN WordAt(log.data, hashOffset(log.data)) ELSE 0]
<1>1. ~(log.topics < 4 \/ Len(log.data) < 5 * W)
  BY Widths DEF LongLog
<1>2. parseLog(log) = parseMessagePassed(log)
  BY DEF parseLog, LongLog
<1>3. CASE PayloadPanics(log.data) \/ HashPanics(log.data)
  BY <1>1, <1>2, <1>3 DEF parseMessagePassed
<1>4. CASE ~(PayloadPanics(log.data) \/ HashPanics(log.data))
  BY <1>1, <1>2, <1>4 DEF parseMessagePassed, BridgeEvent
<1> QED BY <1>3, <1>4

\* A log of the message passer that is too short, and the logs of the bridge.
LEMMA ParsedShort ==
  ASSUME NEW log, log.kind = "MessagePassed", log.data \in Seq(Nat), Len(log.data) < 5 * W
  PROVE  parseLog(log) = ParseError
BY DEF parseLog, parseMessagePassed

LEMMA ParsedBridge ==
  ASSUME NEW log, log.kind \in BridgeKinds
  PROVE  \/ parseLog(log) = ParseError
         \/ parseLog(log).out = "event" /\ parseLog(log).hash = 0
<1>1. CASE log.kind = "ETHBridgeInitiated"
  <2>1. parseLog(log) = parseETHBridgeInitiated(log)
    BY <1>1 DEF parseLog
  <2> QED BY <2>1 DEF parseETHBridgeInitiated, BridgeEvent
<1>2. CASE log.kind = "ERC20BridgeInitiated"
  <2>1. parseLog(log) = parseERC20BridgeInitiated(log)
    BY <1>2 DEF parseLog
  <2> QED BY <2>1 DEF parseERC20BridgeInitiated, BridgeEvent
<1> QED BY <1>1, <1>2 DEF BridgeKinds

\* What the parser does with the log of a withdrawal, cut short after c bytes.
Reads(log, w) ==
  /\ log.data \in Seq(Nat) /\ Len(log.data) < U \div 2
  /\ parseLog(log).out = "event" =>
       /\ parseLog(log).hash \in {0, w.hash} /\ parseLog(log).data \in {<<>>, w.payload}
       /\ parseLog(log).hash # 0 => parseLog(log) = AsSent(w)

LEMMA ReadsHashLast ==
  ASSUME NEW w, Sent(w), NEW c \in 0 .. Len(HashLast(w)),
         NEW log, log = Cut(MessagePassed(w, "hashLast"), c)
  PROVE  Reads(log, w) /\ (c = Len(HashLast(w)) => parseLog(log) = AsSent(w))
<1>1. /\ log.kind = "MessagePassed" /\ log.topics = 4 /\ log.nonce = w.nonce
      /\ log.sender = w.sender /\ log.target = w.target
      /\ log.data = SubSeq(HashLast(w), 1, c)
  BY DEF Cut, MessagePassed
<1>2. HashLast(w) \in Seq(Nat) /\ Len(HashLast(w)) = 5 * W + WholeWords(Len(w.payload))
  BY HashLastParts
<1>3. /\ WholeWords(Len(w.payload)) \in Nat
      /\ 5 * W + WholeWords(Len(w.payload)) < U \div 2
  BY LogLengths
<1>4. log.data \in Seq(Nat) /\ Len(log.data) = c /\ c < U \div 2 /\ c \in Nat
  <2>1. log.data \in Seq(Nat) /\ Len(log.data) = c
    BY <1>1, <1>2, CutType
  <2> QED BY <1>2, <1>3, <2>1, Widths
<1>5. CASE c < 5 * W
  <2>1. parseLog(log) = ParseError
    BY <1>1, <1>4, <1>5, ParsedShort
  <2>2. parseLog(log).out # "event"
    BY <2>1 DEF ParseError
  <2>3. c # Len(HashLast(w))
    BY <1>2, <1>3, <1>4, <1>5, Widths
  <2> QED BY <1>4, <2>2, <2>3 DEF Reads
<1>6. CASE 5 * W <= c
  <2> DEFINE e == parseLog(log)
             data == log.data
  <2>1. /\ ~PayloadPanics(data) /\ ~HashPanics(data)
        /\ TakesPayload(data) => Slice(data, 4 * W, 4 * W + dataLen(data)) = w.payload
        /\ TakesHash(data) <=> c = Len(HashLast(w))
        /\ TakesHash(data) =>
             /\ WordAt(data, 0) = w.value /\ WordAt(data, W) = w.gas
             /\ WordAt(data, hashOffset(data)) = w.hash
             /\ ~TakesPayload(data) => w.payload = <<>>
    BY <1>1, <1>6, HashLastRead
  <2>2. e = [out |-> "event", sender |-> w.sender, recipient |-> w.target,
             amount |-> WordAt(data, 0),
             data |-> IF TakesPayload(data)
                      THEN Slice(data, 4 * W, 4 * W + dataLen(data)) ELSE <<>>,
             nonce |-> w.nonce, gas |-> WordAt(data, W),
             hash |-> IF TakesHash(data) THEN WordAt(data, hashOffset(data)) ELSE 0]
    <3>1. LongLog(log)
      BY <1>1, <1>4, <1>6 DEF LongLog
    <3> QED BY <1>1, <2>1, <3>1, ParsedMessage
  <2>3. e.data = IF TakesPayload(data) THEN w.payload ELSE <<>>
    BY <2>1, <2>2
  <2>4. e.hash = IF TakesHash(data) THEN w.hash ELSE 0
    BY <2>1, <2>2
  <2>5. ASSUME TakesHash(data) PROVE e = AsSent(w)
    <3>1. e.data = w.payload /\ e.hash = w.hash
      BY <2>1, <2>3, <2>4, <2>5
    <3> QED BY <2>1, <2>2, <2>5, <3>1 DEF AsSent
  <2> HIDE DEF e
  <2>6. e.hash # 0 => TakesHash(data)
    BY <2>4
  <2> QED BY <1>4, <2>1, <2>3, <2>4, <2>5, <2>6 DEF Reads, e
<1> QED BY <1>4, <1>5, <1>6, Widths

LEMMA ReadsAbi ==
  ASSUME NEW w, Sent(w), NEW c \in 0 .. Len(AbiEncoded(w)),
         NEW log, log = Cut(MessagePassed(w, "abi"), c)
  PROVE  Reads(log, w)
<1>1. /\ log.kind = "MessagePassed" /\ log.topics = 4 /\ log.nonce = w.nonce
      /\ log.data = SubSeq(AbiEncoded(w), 1, c)
  BY DEF Cut, MessagePassed
<1>2. AbiEncoded(w) \in Seq(Nat) /\ Len(AbiEncoded(w)) = 5 * W + WholeWords(Len(w.payload))
  BY AbiParts
<1>3. /\ WholeWords(Len(w.payload)) \in Nat
      /\ 5 * W + WholeWords(Len(w.payload)) < U \div 2
  BY LogLengths
<1>4. log.data \in Seq(Nat) /\ Len(log.data) = c /\ c < U \div 2 /\ c \in Nat
  <2>1. log.data \in Seq(Nat) /\ Len(log.data) = c
    BY <1>1, <1>2, CutType
  <2> QED BY <1>2, <1>3, <2>1, Widths
<1>5. CASE c < 5 * W
  <2>1. parseLog(log) = ParseError
    BY <1>1, <1>4, <1>5, ParsedShort
  <2>2. parseLog(log).out # "event"
    BY <2>1 DEF ParseError
  <2> QED BY <1>4, <2>2 DEF Reads
<1>6. CASE 5 * W <= c
  <2> DEFINE e == parseLog(log)
             data == log.data
  <2>1. ~PayloadPanics(data) /\ ~HashPanics(data) => ~TakesPayload(data) /\ ~TakesHash(data)
    BY <1>1, <1>6, AbiRead
  <2>2. LongLog(log)
    BY <1>1, <1>4, <1>6 DEF LongLog
  <2>3. CASE PayloadPanics(data) \/ HashPanics(data)
    <3>1. parseLog(log) = ParsePanic
      BY <2>2, <2>3, ParsedMessage
    <3>2. parseLog(log).out # "event"
      BY <3>1 DEF ParsePanic
    <3> QED BY <1>4, <3>2 DEF Reads
  <2>4. CASE ~(PayloadPanics(data) \/ HashPanics(data))
    <3>1. e.data = <<>> /\ e.hash = 0
      BY <2>1, <2>2, <2>4, ParsedMessage
    <3> HIDE DEF e
    <3> QED BY <1>4, <3>1 DEF Reads, e
  <2> QED BY <2>3, <2>4
<1> QED BY <1>4, <1>5, <1>6, Widths

-----------------------------------------------------------------------------
(* The invariant.                                                           *)

\* The log is one about the withdrawal.
About(log, w) ==
  \/ \E layout \in Layouts : \E c \in 0 .. Len(MessagePassed(w, layout).data) :
       log = Cut(MessagePassed(w, layout), c)
  \/ \E kind \in BridgeKinds : log = BridgeInitiated(w, kind)

\* The transaction: withdrawals of different nonces and hashes, and a log of one of them.
Logged ==
  /\ cur \in DOMAIN receipt /\ of[cur] \in DOMAIN sent
  /\ \A k \in DOMAIN sent : Sent(sent[k])
  /\ \A j, k \in DOMAIN sent :
       j # k => sent[j].nonce # sent[k].nonce /\ sent[j].hash # sent[k].hash
  /\ About(receipt[cur], Own)

ParsingInv ==
  /\ Logged
  /\ pc \in {"logged", "parsed", "built"}
  /\ event = IF pc = "logged" THEN ParseError ELSE parseLog(receipt[cur])
  /\ pc = "built" =>
       /\ event.out = "event"
       /\ event.nonce # Nil /\ event.gas # Nil => built = Rebuilt(event.nonce, event.gas)

\* A log of the message passer is one that is not cut short.
LEMMA FullLog ==
  ASSUME NEW w, Sent(w), NEW layout \in Layouts
  PROVE  /\ MessagePassed(w, layout) =
              Cut(MessagePassed(w, layout), Len(MessagePassed(w, layout).data))
         /\ Len(MessagePassed(w, layout).data) \in 0 .. Len(MessagePassed(w, layout).data)
<1> DEFINE data == MessagePassed(w, layout).data
<1>1. data \in Seq(Nat)
  <2>1. layout = "abi" => data = AbiEncoded(w)
    BY DEF MessagePassed
  <2>2. layout = "hashLast" => data = HashLast(w)
    BY DEF MessagePassed
  <2> QED BY <2>1, <2>2, AbiParts, HashLastParts DEF Layouts
<1>2. SubSeq(data, 1, Len(data)) = data /\ Len(data) \in Nat
  BY <1>1, SubSeqFull
<1>3. Cut(MessagePassed(w, layout), Len(data)) =
        [MessagePassed(w, layout) EXCEPT !.data = data]
  BY <1>2 DEF Cut
<1>4. [MessagePassed(w, layout) EXCEPT !.data = data] = MessagePassed(w, layout)
  BY DEF MessagePassed
<1>5. Len(data) \in 0 .. Len(data)
  BY <1>2
<1> QED BY <1>3, <1>4, <1>5

LEMMA AboutReads ==
  ASSUME NEW w, Sent(w), NEW log, About(log, w)
  PROVE  /\ \/ log.kind \in BridgeKinds
            \/ log.kind = "MessagePassed" /\ Reads(log, w)
         /\ log.kind = "MessagePassed" => log.topics = 4
<1>1. ASSUME NEW kind \in BridgeKinds, log = BridgeInitiated(w, kind)
      PROVE  log.kind \in BridgeKinds /\ log.kind # "MessagePassed"
  BY <1>1 DEF BridgeInitiated, BridgeKinds
<1>2. ASSUME NEW layout \in Layouts, NEW c \in 0 .. Len(MessagePassed(w, layout).data),
             log = Cut(MessagePassed(w, layout), c)
      PROVE  log.kind = "MessagePassed" /\ log.topics = 4 /\ Reads(log, w)
  <2>1. log.kind = "MessagePassed" /\ log.topics = 4
    BY <1>2 DEF Cut, MessagePassed
  <2>2. CASE layout = "hashLast"
    <3>1. c \in 0 .. Len(HashLast(w)) /\ log = Cut(MessagePassed(w, "hashLast"), c)
      BY <1>2, <2>2 DEF MessagePassed
    <3> QED BY <2>1, <3>1, ReadsHashLast
  <2>3. CASE layout = "abi"
    <3>1. c \in 0 .. Len(AbiEncoded(w)) /\ log = Cut(MessagePassed(w, "abi"), c)
      BY <1>2, <2>3 DEF MessagePassed
    <3> QED BY <2>1, <3>1, ReadsAbi
  <2> QED BY <2>2, <2>3 DEF Layouts
<1>3. CASE \E kind \in BridgeKinds : log = BridgeInitiated(w, kind)
  BY <1>1, <1>3
<1>4. CASE \E layout \in Layouts : \E c \in 0 .. Len(MessagePassed(w, layout).data) :
             log = Cut(MessagePassed(w, layout), c)
  BY <1>2, <1>4
<1> QED BY <1>3, <1>4 DEF About

LEMMA InitLogged == Init => Logged
<1> SUFFICES ASSUME Init PROVE Logged
  OBVIOUS
<1>1. PICK h \in Hashes, n \in 0 .. MaxPayload, layout \in Layouts :
         \/ /\ sent = <<Direct(1, n, h)>> /\ of = <<1>>
            /\ \E c \in 0 .. Len(MessagePassed(sent[1], layout).data) :
                 receipt = <<Cut(MessagePassed(sent[1], layout), c)>>
         \/ \E kind \in BridgeKinds :
              /\ sent = <<Relayed(1, n, h), Direct(2, n, Other(h))>> /\ of = <<1, 1, 2>>
              /\ receipt = <<BridgeInitiated(sent[1], kind), MessagePassed(sent[1], layout),
                             MessagePassed(sent[2], layout)>>
  BY DEF Init, Layouts, BridgeKinds
<1>2. /\ n \in 0 .. MaxPayload + 1 /\ n + 1 \in 0 .. MaxPayload + 1
      /\ Other(h) \in Hashes /\ Other(h) # h
  <2>1. Other(h) \in Hashes /\ Other(h) # h
    BY HashesAssumption DEF Other
  <2> QED BY <2>1, Widths
<1>3. /\ Sent(Direct(1, n, h)) /\ Sent(Relayed(1, n, h)) /\ Sent(Direct(2, n, Other(h)))
  BY <1>2 DEF Sent, Direct, Relayed
<1>4. CASE /\ sent = <<Direct(1, n, h)>> /\ of = <<1>>
           /\ \E c \in 0 .. Len(MessagePassed(sent[1], layout).data) :
                receipt = <<Cut(MessagePassed(sent[1], layout), c)>>
  <2>1. DOMAIN sent = {1} /\ sent[1] = Direct(1, n, h) /\ of[1] = 1
    BY <1>4
  <2>2. cur = 1
    BY <1>4 DEF Init
  <2>3. \E c \in 0 .. Len(MessagePassed(sent[1], layout).data) :
          receipt[1] = Cut(MessagePassed(sent[1], layout), c)
    BY <1>4
  <2>4. About(receipt[1], sent[1])
    BY <2>3 DEF About
  <2> QED BY <1>3, <2>1, <2>2, <2>4 DEF Logged, Own, Init
<1>5. ASSUME NEW kind \in BridgeKinds,
             sent = <<Relayed(1, n, h), Direct(2, n, Other(h))>>, of = <<1, 1, 2>>,
             receipt = <<BridgeInitiated(sent[1], kind), MessagePassed(sent[1], layout),
                         MessagePassed(sent[2], layout)>>
      PROVE  Logged
  <2>1. /\ DOMAIN sent = {1, 2} /\ sent[1] = Relayed(1, n, h)
        /\ sent[2] = Direct(2, n, Other(h))
    BY <1>5
  <2>2. DOMAIN receipt = {1, 2, 3} /\ of[1] = 1 /\ of[2] = 1 /\ of[3] = 2
    BY <1>5
  <2>3. cur \in {1, 2, 3}
    BY <2>2 DEF Init
  <2>4. \A k \in DOMAIN sent : Sent(sent[k])
    BY <1>3, <2>1
  <2>5. /\ sent[1].nonce = 1 /\ sent[2].nonce = 2
        /\ sent[1].hash = h /\ sent[2].hash = Other(h)
    BY <2>1 DEF Relayed, Direct, Withdrawal
  <2>6. \A j, k \in DOMAIN sent :
          j # k => sent[j].nonce # sent[k].nonce /\ sent[j].hash # sent[k].hash
    BY <1>2, <2>1, <2>5
  <2>7. About(BridgeInitiated(sent[1], kind), sent[1])
    BY DEF About
  <2>8. ASSUME NEW k \in {1, 2} PROVE About(MessagePassed(sent[k], layout), sent[k])
    <3>1. Sent(sent[k])
      BY <2>1, <2>4
    <3> QED BY <3>1, FullLog DEF About
  <2>9. About(receipt[cur], Own)
    <3>1. CASE cur = 1
      BY <1>5, <2>2, <2>7, <3>1 DEF Own
    <3>2. CASE cur = 2
      BY <1>5, <2>2, <2>8, <3>2 DEF Own
    <3>3. CASE cur = 3
      BY <1>5, <2>2, <2>8, <3>3 DEF Own
    <3> QED BY <2>3, <3>1, <3>2, <3>3
  <2> QED BY <2>1, <2>2, <2>3, <2>4, <2>6, <2>9 DEF Logged
<1> QED BY <1>1, <1>4, <1>5

LEMMA ParsingStep == ParsingInv /\ [Next]_vars => ParsingInv'
<1> SUFFICES ASSUME ParsingInv, [Next]_vars PROVE ParsingInv'
  OBVIOUS
<1>1. ASSUME UNCHANGED <<sent, receipt, of, cur>> PROVE Logged'
  <2>1. Own' = Own
    BY <1>1 DEF Own
  <2> QED BY <1>1, <2>1 DEF ParsingInv, Logged, About
<1>2. CASE Parse
  BY <1>1, <1>2 DEF Parse, ParsingInv
<1>3. CASE BuildDirect
  <2>1. built' = Rebuilt(event.nonce, event.gas)
    BY <1>3 DEF BuildDirect
  <2>2. Rebuilt(event.nonce, event.gas)' = Rebuilt(event.nonce, event.gas)
    BY <1>3 DEF BuildDirect, Rebuilt
  <2> QED BY <1>1, <1>3, <2>1, <2>2 DEF BuildDirect, ParsingInv
<1>4. CASE BuildFromReceipt
  BY <1>1, <1>4 DEF BuildFromReceipt, ParsingInv
<1>5. CASE UNCHANGED vars
  <2>1. Rebuilt(event.nonce, event.gas)' = Rebuilt(event.nonce, event.gas)
    BY <1>5 DEF vars, Rebuilt
  <2> QED BY <1>1, <1>5, <2>1 DEF vars, ParsingInv
<1> QED BY <1>2, <1>3, <1>4, <1>5 DEF Next

LEMMA ParsingInvariance == Spec => []ParsingInv
<1>1. Init => ParsingInv
  BY InitLogged DEF Init, ParsingInv
<1> QED BY <1>1, ParsingStep, PTL DEF Spec

-----------------------------------------------------------------------------
LEMMA OwnReads ==
  ASSUME ParsingInv
  PROVE  /\ Sent(Own)
         /\ \/ receipt[cur].kind \in BridgeKinds
            \/ receipt[cur].kind = "MessagePassed" /\ Reads(receipt[cur], Own)
         /\ receipt[cur].kind = "MessagePassed" => receipt[cur].topics = 4
<1>1. Sent(Own) /\ About(receipt[cur], Own)
  BY DEF ParsingInv, Logged, Own
<1> QED BY <1>1, AboutReads

\* What is decoded of a log in the parser's layout is what was sent, for every width of
\* a word and every length of the payload.
THEOREM DecodedAsSentAlways == Spec => []DecodedAsSent
<1>1. ParsingInv => DecodedAsSent
  <2> SUFFICES ASSUME ParsingInv, pc # "logged", receipt[cur] = MessagePassed(Own, "hashLast")
               PROVE  event = AsSent(Own)
    BY DEF DecodedAsSent, AsSent
  <2>1. Sent(Own) /\ event = parseLog(receipt[cur])
    BY OwnReads DEF ParsingInv
  <2>2. MessagePassed(Own, "hashLast").data = HashLast(Own)
    BY DEF MessagePassed
  <2>3. /\ Len(HashLast(Own)) \in 0 .. Len(HashLast(Own))
        /\ MessagePassed(Own, "hashLast") =
             Cut(MessagePassed(Own, "hashLast"), Len(HashLast(Own)))
    BY <2>1, <2>2, FullLog DEF Layouts
  <2>4. receipt[cur] = Cut(MessagePassed(Own, "hashLast"), Len(HashLast(Own)))
    BY <2>3
  <2> QED BY <2>1, <2>3, <2>4, ReadsHashLast
<1> QED BY <1>1, ParsingInvariance, PTL

\* No event of the message passer carries another word than its withdrawal's hash as
\* the hash, or other bytes than its payload as the data, whatever is cut off its log.
THEOREM NothingForeignAlways == Spec => []NothingForeign
<1>1. ParsingInv => NothingForeign
  <2> SUFFICES ASSUME ParsingInv, event.out = "event"
               PROVE  /\ event.hash \in {0, Own.hash}
                      /\ receipt[cur].kind = "MessagePassed" => event.data \in {<<>>, Own.payload}
    BY DEF NothingForeign
  <2>1. event = parseLog(receipt[cur])
    BY DEF ParsingInv, ParseError
  <2>2. CASE receipt[cur].kind \in BridgeKinds
    <3>1. parseLog(receipt[cur]) # ParseError
      BY <2>1 DEF ParseError
    <3>2. event.hash = 0
      BY <2>1, <2>2, <3>1, ParsedBridge
    <3> QED BY <2>2, <3>2 DEF BridgeKinds
  <2>3. CASE receipt[cur].kind = "MessagePassed" /\ Reads(receipt[cur], Own)
    BY <2>1, <2>3 DEF Reads
  <2> QED BY <2>2, <2>3, OwnReads
<1> QED BY <1>1, ParsingInvariance, PTL

\* The withdrawal an event is proved as is the one it is polled as.
THEOREM SameWithdrawalAlways == Spec => []SameWithdrawal
<1>1. ParsingInv => SameWithdrawal
  <2> SUFFICES ASSUME ParsingInv, pc = "built", event.hash # 0
               PROVE  {k \in DOMAIN sent : sent[k].hash = event.hash} = ProvedAs
    BY DEF SameWithdrawal, PolledAs
  <2>1. event.out = "event" /\ event = parseLog(receipt[cur])
    BY DEF ParsingInv
  <2>2. receipt[cur].kind = "MessagePassed" /\ Reads(receipt[cur], Own)
    <3>1. parseLog(receipt[cur]) # ParseError
      BY <2>1 DEF ParseError
    <3>2. receipt[cur].kind \notin BridgeKinds
      BY <2>1, <3>1, ParsedBridge
    <3> QED BY <3>2, OwnReads
  <2>3. event = AsSent(Own)
    BY <2>1, <2>2 DEF Reads
  <2>4. event.nonce # Nil /\ event.gas # Nil
    BY <2>3, OwnReads, SentFields DEF AsSent, Nil
  <2>5. built = Rebuilt(event.nonce, event.gas)
    BY <2>4 DEF ParsingInv
  <2>6. /\ built.nonce = Own.nonce /\ built.sender = Own.sender /\ built.target = Own.target
        /\ built.value = Own.value /\ built.gas = Own.gas /\ built.payload = Own.payload
        /\ event.hash = Own.hash
    BY <2>3, <2>5 DEF Rebuilt, AsSent
  <2>7. /\ of[cur] \in DOMAIN sent
        /\ \A k \in DOMAIN sent : k # of[cur] =>
             sent[k].nonce # Own.nonce /\ sent[k].hash # Own.hash
    BY DEF ParsingInv, Logged, Own
  <2>8. {k \in DOMAIN sent : sent[k].hash = event.hash} = {of[cur]}
    BY <2>6, <2>7 DEF Own
  <2>9. ProvedAs = {of[cur]}
    <3>1. of[cur] \in ProvedAs
      BY <2>6, <2>7 DEF ProvedAs, Own
    <3>2. ASSUME NEW k \in ProvedAs PROVE k = of[cur]
      <4>1. k \in DOMAIN sent /\ built.nonce = sent[k].nonce
        BY <3>2 DEF ProvedAs
      <4> QED BY <2>6, <2>7, <4>1
    <3> QED BY <3>1, <3>2
  <2> QED BY <2>8, <2>9
<1> QED BY <1>1, ParsingInvariance, PTL

\* The parser panics on exactly the logs whose length word takes the end of the hash out
\* of the range of an int (events.go:214-235).
LEMMA PanicsExactly ==
  ASSUME ParsingInv, pc # "logged"
  PROVE  event.out = "panic" <=>
           /\ receipt[cur].kind = "MessagePassed" /\ Len(receipt[cur].data) >= 5 * W
           /\ WholeWords(dataLen(receipt[cur].data)) + 5 * W >= U \div 2
<1> DEFINE log == receipt[cur]
<1>1. event = parseLog(log)
  BY DEF ParsingInv
<1>2. CASE log.kind \in BridgeKinds
  <2>1. parseLog(log).out # "panic"
    BY <1>2, ParsedBridge DEF ParseError
  <2> QED BY <1>1, <1>2, <2>1 DEF BridgeKinds
<1>3. CASE log.kind = "MessagePassed" /\ Reads(log, Own)
  <2>1. log.data \in Seq(Nat) /\ Len(log.data) < U \div 2 /\ log.topics = 4
    BY <1>3, OwnReads DEF Reads
  <2>2. CASE Len(log.data) < 5 * W
    <3>1. parseLog(log).out # "panic"
      BY <1>3, <2>1, <2>2, ParsedShort DEF ParseError
    <3>2. ~(Len(log.data) >= 5 * W)
      <4>1. W \in Nat /\ Len(log.data) \in Nat
        BY <2>1, Widths
      <4> QED BY <2>2, <4>1
    <3> QED BY <1>1, <3>1, <3>2
  <2>3. CASE 5 * W <= Len(log.data)
    <3>1. parseLog(log).out = "panic" <=> PayloadPanics(log.data) \/ HashPanics(log.data)
      <4>1. LongLog(log)
        BY <1>3, <2>1, <2>3 DEF LongLog
      <4> QED BY <4>1, ParsedMessage DEF ParsePanic
    <3>2. PayloadPanics(log.data) \/ HashPanics(log.data) <=>
            WholeWords(dataLen(log.data)) + 5 * W >= U \div 2
      BY <2>1, <2>3, PanicIff
    <3>3. Len(log.data) >= 5 * W
      BY <2>1, <2>3, Widths
    <3> QED BY <1>1, <1>3, <3>1, <3>2, <3>3
  <2> QED BY <2>1, <2>2, <2>3, Widths
<1> QED BY <1>2, <1>3, OwnReads

\* Below that range nothing is read beyond the end of a log, wherever it is cut: for
\* every width, range and payload, parseMessagePassed returns (events.go:214-235).
THEOREM ReadWithinLogAlways == Spec => []ReadWithinLog
<1>1. ParsingInv => ReadWithinLog
  <2> SUFFICES ASSUME ParsingInv, event.out = "panic"
               PROVE  /\ receipt[cur].kind = "MessagePassed" /\ Len(receipt[cur].data) >= 5 * W
                      /\ BeyondInt(receipt[cur].data)
    BY DEF ReadWithinLog
  <2>1. pc # "logged" /\ event = parseLog(receipt[cur])
    BY DEF ParsingInv, ParseError
  <2>2. /\ receipt[cur].kind = "MessagePassed" /\ Len(receipt[cur].data) >= 5 * W
        /\ WholeWords(dataLen(receipt[cur].data)) + 5 * W >= U \div 2
    BY <2>1, PanicsExactly
  <2>3. BeyondInt(receipt[cur].data)
    BY <2>2 DEF BeyondInt, WholeWords
  <2> QED BY <2>2, <2>3
<1> QED BY <1>1, ParsingInvariance, PTL
=============================================================================
