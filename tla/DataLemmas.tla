------------------------------ MODULE DataLemmas ------------------------------
(***************************************************************************)
(* Facts about data that several components' proofs need: induction over   *)
(* the natural numbers, functions defined by recursion, the largest of     *)
(* finitely many numbers, sequences, and arithmetic modulo a length.       *)
(*                                                                         *)
(* Induction is stated for a set instead of a predicate, because the       *)
(* provers do not instantiate a theorem with an operator as its parameter. *)
(***************************************************************************)
EXTENDS Integers, Sequences, FiniteSetTheorems, TLAPS

(* Induction.                                                              *)
LEMMA LeastNumber ==
    ASSUME NEW T, T \subseteq Nat, T # {}
    PROVE  \E x \in T : \A y \in T : x <= y
<1>. DEFINE R == OpToRel(<, Nat)
<1>1. IsWellFoundedOn(R, Nat)
  BY NatLessThanWellFounded
<1>2. \A x, y \in Nat : x < y => <<x, y>> \in R
  <2>1. \A x, y \in Nat : x < y => <<x, y>> \in {ss \in Nat \X Nat : ss[1] < ss[2]}
    OBVIOUS
  <2>. QED  BY <2>1 DEF OpToRel
<1>. HIDE DEF R
<1>3. PICK x \in T : \A y \in T : ~ (<<y, x>> \in R)
  BY <1>1, WFMin
<1>4. \A y \in T : ~(y < x)
  BY <1>2, <1>3
<1>. QED  BY <1>3, <1>4

LEMMA SetInduction ==
    ASSUME NEW S, 0 \in S, \A n \in Nat : n \in S => n + 1 \in S
    PROVE  Nat \subseteq S
<1>. DEFINE T == Nat \ S
<1>. SUFFICES ASSUME T # {} PROVE FALSE
  OBVIOUS
<1>1. PICK x \in T : \A y \in T : x <= y
  <2>1. T \subseteq Nat
    OBVIOUS
  <2>. HIDE DEF T
  <2>. QED  BY <2>1, LeastNumber
<1>2. x # 0 /\ x - 1 \in Nat
  OBVIOUS
<1>3. x - 1 \in S
  BY <1>1, <1>2
<1>. QED  BY <1>2, <1>3

LEMMA IntervalInduction ==
    ASSUME NEW S, NEW lo \in Int, NEW hi \in Int, lo \in S,
           \A n \in lo..(hi - 1) : n \in S => n + 1 \in S
    PROVE  lo..hi \subseteq S
<1>. DEFINE T == {k \in Nat : lo + k <= hi => lo + k \in S}
<1>1. 0 \in T
  OBVIOUS
<1>2. ASSUME NEW k \in Nat, k \in T
      PROVE  k + 1 \in T
  <2>1. SUFFICES ASSUME lo + (k + 1) <= hi PROVE lo + (k + 1) \in S
    OBVIOUS
  <2>2. lo + k \in lo..(hi - 1) /\ lo + k \in S
    BY <1>2, <2>1
  <2>3. (lo + k) + 1 \in S
    BY <2>2
  <2>. QED  BY <2>3
<1>3. Nat \subseteq T
  <2>. HIDE DEF T
  <2>. QED  BY <1>1, <1>2, SetInduction
<1>. SUFFICES ASSUME NEW n \in lo..hi PROVE n \in S
  OBVIOUS
<1>4. n - lo \in T
  BY <1>3
<1>. QED  BY <1>4

(* A function that is defined by recursion over an interval exists.          *)
Recursive(f, lo, hi, base, F) ==
    \A n \in lo..hi : f[n] = IF n = lo THEN base ELSE F[<<n, f[n - 1]>>]

LEMMA RecursiveFunction ==
    ASSUME NEW T, NEW base \in T, NEW lo \in Int, NEW hi \in Int, lo <= hi,
           NEW F \in [(lo..hi) \X T -> T]
    PROVE  \E f \in [lo..hi -> T] : Recursive(f, lo, hi, base, F)
<1>. DEFINE Fits(f, m) == \A n \in lo..m : f[n] = IF n = lo THEN base ELSE F[<<n, f[n - 1]>>]
            S == {m \in lo..hi : \E f \in [lo..m -> T] : Fits(f, m)}
<1>1. lo \in S
  <2>1. [n \in lo..lo |-> base] \in [lo..lo -> T] /\ Fits([n \in lo..lo |-> base], lo)
    OBVIOUS
  <2>2. lo \in lo..hi
    OBVIOUS
  <2>. HIDE DEF Fits
  <2>. QED  BY <2>1, <2>2
<1>2. ASSUME NEW m \in lo..(hi - 1), m \in S
      PROVE  m + 1 \in S
  <2>1. PICK f \in [lo..m -> T] : Fits(f, m)
    BY <1>2
  <2>. DEFINE v == F[<<m + 1, f[m]>>]
              g == [n \in lo..(m + 1) |-> IF n = m + 1 THEN v ELSE f[n]]
  <2>2. v \in T
    OBVIOUS
  <2>. HIDE DEF v
  <2>3. g \in [lo..(m + 1) -> T]
    BY <2>2
  <2>4. ASSUME NEW n \in lo..(m + 1)
        PROVE  g[n] = IF n = lo THEN base ELSE F[<<n, g[n - 1]>>]
    <3>1. CASE n = m + 1
      <4>1. g[n] = v /\ g[n - 1] = f[m] /\ n # lo
        BY <3>1
      <4>. QED  BY <4>1, <3>1 DEF v
    <3>2. CASE n = lo
      <4>1. g[n] = f[n] /\ n \in lo..m
        BY <3>2
      <4>. QED  BY <4>1, <3>2, <2>1
    <3>3. CASE n # m + 1 /\ n # lo
      <4>1. g[n] = f[n] /\ g[n - 1] = f[n - 1] /\ n \in lo..m
        BY <3>3
      <4>. QED  BY <4>1, <3>3, <2>1
    <3>. QED  BY <3>1, <3>2, <3>3
  <2>5. Fits(g, m + 1)
    BY <2>4
  <2>6. m + 1 \in lo..hi
    OBVIOUS
  <2>. HIDE DEF Fits, g
  <2>. QED  BY <2>3, <2>5, <2>6
<1>3. lo..hi \subseteq S
  <2>. HIDE DEF S
  <2>. QED  BY <1>1, <1>2, IntervalInduction
<1>4. hi \in lo..hi
  OBVIOUS
<1>5. PICK f \in [lo..hi -> T] : Fits(f, hi)
  <2>1. hi \in S
    <3>. HIDE DEF S
    <3>. QED  BY <1>3, <1>4
  <2>. HIDE DEF Fits
  <2>. QED  BY <2>1
<1>. QED  BY <1>5 DEF Recursive

(* Of finitely many numbers one is the largest.                              *)
LEMMA LargestNumber ==
    ASSUME NEW n \in Nat \ {0}, NEW f \in [1..n -> Int]
    PROVE  \E i \in 1..n : \A j \in 1..n : f[j] <= f[i]
<1>. DEFINE S == {m \in 1..n : \E i \in 1..m : \A j \in 1..m : f[j] <= f[i]}
<1>1. 1 \in S
  OBVIOUS
<1>2. ASSUME NEW m \in 1..(n - 1), m \in S
      PROVE  m + 1 \in S
  <2>1. PICK i \in 1..m : \A j \in 1..m : f[j] <= f[i]
    BY <1>2
  <2>2. CASE f[m + 1] <= f[i]
    <3>1. \A j \in 1..(m + 1) : f[j] <= f[i]
      BY <2>1, <2>2
    <3>. QED  BY <3>1
  <2>3. CASE ~(f[m + 1] <= f[i])
    <3>1. \A j \in 1..(m + 1) : f[j] <= f[m + 1]
      BY <2>1, <2>3
    <3>. QED  BY <3>1
  <2>. QED  BY <2>2, <2>3
<1>3. n \in Int /\ n \in 1..n
  OBVIOUS
<1>4. n \in S
  <2>1. 1 \in Int
    OBVIOUS
  <2>. HIDE DEF S
  <2>2. 1..n \subseteq S
    BY <1>1, <1>2, <1>3, <2>1, IntervalInduction
  <2>. QED  BY <1>3, <2>2
<1>. QED  BY <1>4

-----------------------------------------------------------------------------
(* Sequences.                                                              *)
LEMMA TailFacts ==
    ASSUME NEW S, NEW q \in Seq(S), q # <<>>
    PROVE  /\ Len(q) \in Nat /\ Len(q) >= 1
           /\ Head(q) = q[1] /\ Head(q) \in S
           /\ Tail(q) \in Seq(S) /\ Len(Tail(q)) = Len(q) - 1
           /\ \A i \in 1..Len(q) - 1 : Tail(q)[i] = q[i + 1]
<1>1. Len(q) \in Nat /\ Len(q) >= 1
  OBVIOUS
<1>2. Head(q) = q[1] /\ Head(q) \in S
  BY <1>1
<1>3. Tail(q) \in Seq(S) /\ Len(Tail(q)) = Len(q) - 1
  BY <1>1
<1>4. \A i \in 1..Len(q) - 1 : Tail(q)[i] = q[i + 1]
  BY <1>1
<1>. QED  BY <1>1, <1>2, <1>3, <1>4

LEMMA AppendFacts ==
    ASSUME NEW S, NEW q \in Seq(S), NEW e \in S
    PROVE  /\ Append(q, e) \in Seq(S) /\ Len(Append(q, e)) = Len(q) + 1
           /\ \A i \in 1..Len(q) : Append(q, e)[i] = q[i]
           /\ Append(q, e)[Len(q) + 1] = e
OBVIOUS

LEMMA EmptyFacts ==
    ASSUME NEW S
    PROVE  <<>> \in Seq(S) /\ Len(<<>>) = 0 /\ 1..Len(<<>>) = {}
OBVIOUS

(* Arithmetic modulo the length of a ring, a list or a counter.            *)
LEMMA ModType == ASSUME NEW m \in Nat \ {0}, NEW x \in Int PROVE x % m \in 0..m - 1 /\ x % m \in Int
OBVIOUS

LEMMA ModDiv ==
    ASSUME NEW m \in Nat \ {0}, NEW x \in Int
    PROVE  x \div m \in Int /\ x = (m * (x \div m)) + (x % m)
OBVIOUS

LEMMA ModUnique ==
    ASSUME NEW m \in Nat \ {0}, NEW x \in Int, NEW q \in Int, NEW r \in 0..m - 1, x = (m * q) + r
    PROVE  x % m = r
OBVIOUS

LEMMA ModAdd ==
    ASSUME NEW m \in Nat \ {0}, NEW x \in Int, NEW y \in Int, x % m = 0, y % m = 0
    PROVE  (x + y) % m = 0 /\ (x - y) % m = 0
<1>1. PICK k \in Int : x = (m * k) + 0
  BY ModDiv
<1>2. PICK j \in Int : y = (m * j) + 0
  BY ModDiv
<1>3. (m * k) + (m * j) = m * (k + j)
  OBVIOUS
<1>4. (m * k) - (m * j) = m * (k - j)
  OBVIOUS
<1>5. x + y = (m * (k + j)) + 0 /\ k + j \in Int /\ 0 \in 0..m - 1 /\ x + y \in Int
  BY <1>1, <1>2, <1>3
<1>6. x - y = (m * (k - j)) + 0 /\ k - j \in Int /\ 0 \in 0..m - 1 /\ x - y \in Int
  BY <1>1, <1>2, <1>4
<1>7. (x + y) % m = 0
  BY <1>5, ModUnique
<1>8. (x - y) % m = 0
  BY <1>6, ModUnique
<1>. QED  BY <1>7, <1>8

LEMMA ModRest ==
    ASSUME NEW m \in Nat \ {0}, NEW x \in Int
    PROVE  (x - (x % m)) % m = 0
<1>1. x % m \in Int
  BY ModType
<1>2. PICK k \in Int : x = (m * k) + (x % m)
  BY ModDiv
<1>3. m * k \in Int
  OBVIOUS
<1>4. x - (x % m) = (m * k) + 0 /\ 0 \in 0..m - 1 /\ x - (x % m) \in Int
  BY <1>1, <1>2, <1>3
<1>. QED  BY <1>4, ModUnique

LEMMA ModSmall ==
    ASSUME NEW m \in Nat \ {0}, NEW x \in Int, x % m = 0, x < m, -m < x
    PROVE  x = 0
<1>1. CASE x >= 0
  BY <1>1, x \in 0..m - 1, x = (m * 0) + x, ModUnique
<1>2. CASE x < 0
  <2>1. x + m \in 0..m - 1 /\ x = (m * (-1)) + (x + m)
    BY <1>2
  <2>2. x % m = x + m
    BY <2>1, ModUnique
  <2>. QED  BY <2>2, <1>2
<1>. QED  BY <1>1, <1>2

=============================================================================
