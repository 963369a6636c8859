-------------------------- MODULE ShareJourneyProofs ---------------------------
(***************************************************************************)
(* Proofs about ShareJourney: that the long division yields the target,    *)
(* that the tests of a hash agree, that the five ways to hash agree, and   *)
(* that the pool rebuilds the header a share was found in.                 *)
(*                                                                         *)
(* The lemmas come first: induction, the order of numbers and digits,      *)
(* quotients, sequences, the blocks of SHA-256, the merkle tree.  The      *)
(* library's induction theorems take an operator and cannot be cited, so   *)
(* an induction is over a set of the numbers the claim holds for, and what *)
(* a recursive function computes is described by a predicate on a function *)
(* (ValueSteps, RootSteps, LevelSteps and the like).                       *)
(***************************************************************************)
EXTENDS ShareJourney, SequenceTheorems, WellFoundedInduction, TLAPS

-----------------------------------------------------------------------------
(* Induction.  The library's principles take an operator, those of sets    *)
(* used here follow from the order of the natural numbers being            *)
(* well-founded.                                                           *)

LEMMA LeastNumber ==
  ASSUME NEW T \in SUBSET Nat, T # {}
  PROVE  \E m \in T : \A k \in T : m <= k
<1> DEFINE R == OpToRel(<, Nat)
<1>1. IsWellFoundedOn(R, Nat)
  BY NatLessThanWellFounded
<1>2. \A x, y \in Nat : <<y, x>> \in R <=> y < x
  BY DEF OpToRel
<1> HIDE DEF R
<1>3. PICK x \in T : \A y \in T : ~(<<y, x>> \in R)
  BY <1>1, WFMin
<1>4. \A y \in T : ~(y < x) /\ y \in Nat /\ x \in Nat
  BY <1>2, <1>3
<1> QED
  BY <1>4

LEMMA Induction ==
  ASSUME NEW S, 0 \in S, \A n \in Nat : n \in S => n + 1 \in S
  PROVE  \A n \in Nat : n \in S
<1> DEFINE T == Nat \ S
<1> SUFFICES ASSUME T # {} PROVE FALSE
  OBVIOUS
<1>1. PICK m \in T : \A k \in T : m <= k
  BY LeastNumber
<1>2. m # 0 /\ m - 1 \in Nat /\ m - 1 \notin T
  BY <1>1
<1> QED
  BY <1>2

(* Up to a bound, and back from it.                                        *)
LEMMA InductionUpTo ==
  ASSUME NEW N \in Nat, NEW S, 0 \in S, \A i \in 1 .. N : i - 1 \in S => i \in S
  PROVE  \A i \in 0 .. N : i \in S
<1> DEFINE T == {n \in Nat : n <= N => n \in S}
<1>1. 0 \in T
  OBVIOUS
<1>2. ASSUME NEW n \in Nat, n \in T PROVE n + 1 \in T
  <2> SUFFICES ASSUME n + 1 <= N PROVE n + 1 \in S
    OBVIOUS
  <2>1. n + 1 \in 1 .. N /\ (n + 1) - 1 = n /\ n \in S
    BY <1>2
  <2> QED
    BY <2>1
<1> HIDE DEF T
<1>3. \A n \in Nat : n \in T
  BY <1>1, <1>2, Induction
<1> QED
  BY <1>3 DEF T

LEMMA InductionDownFrom ==
  ASSUME NEW N \in Nat, NEW S, N \in S, \A i \in 1 .. N : i \in S => i - 1 \in S
  PROVE  \A i \in 0 .. N : i \in S
<1> DEFINE T == {j \in 0 .. N : N - j \in S}
<1>1. 0 \in T
  OBVIOUS
<1>2. ASSUME NEW j \in 1 .. N, j - 1 \in T PROVE j \in T
  <2>1. N - (j - 1) \in 1 .. N /\ N - (j - 1) \in S
    BY <1>2
  <2>2. (N - (j - 1)) - 1 \in S
    BY <2>1
  <2> QED
    BY <2>2
<1> HIDE DEF T
<1>3. \A j \in 0 .. N : j \in T
  BY <1>1, <1>2, InductionUpTo
<1>4. ASSUME NEW i \in 0 .. N PROVE i \in S
  <2>1. N - i \in 0 .. N /\ N - (N - i) = i
    OBVIOUS
  <2> QED
    BY <1>3, <2>1 DEF T
<1> QED
  BY <1>4

(* A function defined step by step, from its value at one end, exists.     *)
StepsUp(f, N, V, a, G) ==
  f \in [0 .. N -> V] /\ f[0] = a /\ \A i \in 1 .. N : f[i] = G[<<i, f[i - 1]>>]

StepsDown(f, N, V, a, G) ==
  f \in [0 .. N -> V] /\ f[N] = a /\ \A i \in 1 .. N : f[i - 1] = G[<<i - 1, f[i]>>]

LEMMA OneMoreStep ==
  ASSUME NEW n \in Nat \ {0}, NEW V, NEW a, NEW G, NEW f, StepsUp(f, n - 1, V, a, G),
         G[<<n, f[n - 1]>>] \in V
  PROVE  \E g : StepsUp(g, n, V, a, G)
<1> DEFINE v == G[<<n, f[n - 1]>>]
           g == [i \in 0 .. n |-> IF i = n THEN v ELSE f[i]]
<1>1. v \in V
  OBVIOUS
<1>2. f \in [0 .. n - 1 -> V] /\ f[0] = a /\ \A i \in 1 .. n - 1 : f[i] = G[<<i, f[i - 1]>>]
  BY DEF StepsUp
<1>3. g[n] = v /\ \A i \in 0 .. n - 1 : g[i] = f[i]
  OBVIOUS
<1>4. g \in [0 .. n -> V]
  <2> HIDE DEF v
  <2> QED
    BY <1>1, <1>2
<1> HIDE DEF g
<1>5. g[0] = a
  BY <1>2, <1>3
<1>6. ASSUME NEW i \in 1 .. n PROVE g[i] = G[<<i, g[i - 1]>>]
  <2>1. g[i - 1] = f[i - 1]
    BY <1>3
  <2>2. CASE i = n
    BY <1>3, <2>1, <2>2
  <2>3. CASE i # n
    BY <1>2, <1>3, <2>1, <2>3
  <2> QED
    BY <2>2, <2>3
<1> QED
  BY <1>4, <1>5, <1>6 DEF StepsUp

LEMMA StepByStep ==
  ASSUME NEW N \in Nat, NEW V, NEW a \in V, NEW G \in [(1 .. N) \X V -> V]
  PROVE  \E f : StepsUp(f, N, V, a, G)
<1> DEFINE S == {n \in 0 .. N : \E f : StepsUp(f, n, V, a, G)}
<1>1. 0 \in S
  <2> DEFINE f == [i \in 0 .. 0 |-> a]
  <2>1. f \in [0 .. 0 -> V] /\ f[0] = a /\ 1 .. 0 = {}
    OBVIOUS
  <2>2. StepsUp(f, 0, V, a, G)
    BY <2>1 DEF StepsUp
  <2> QED
    BY <2>2
<1>2. ASSUME NEW n \in 1 .. N, n - 1 \in S PROVE n \in S
  <2>1. PICK f : StepsUp(f, n - 1, V, a, G)
    BY <1>2
  <2>2. <<n, f[n - 1]>> \in (1 .. N) \X V
    BY <2>1 DEF StepsUp
  <2>3. G[<<n, f[n - 1]>>] \in V
    BY <2>2
  <2> QED
    BY <2>1, <2>3, OneMoreStep
<1> HIDE DEF S
<1>3. N \in S
  BY <1>1, <1>2, InductionUpTo
<1> QED
  BY <1>3 DEF S

LEMMA StepByStepDown ==
  ASSUME NEW N \in Nat, NEW V, NEW a \in V, NEW G \in [(0 .. N) \X V -> V]
  PROVE  \E f : StepsDown(f, N, V, a, G)
<1> DEFINE H == [p \in (1 .. N) \X V |-> G[<<N - p[1], p[2]>>]]
<1>1. H \in [(1 .. N) \X V -> V]
  OBVIOUS
<1>2. \A i \in 1 .. N, v \in V : H[<<i, v>>] = G[<<N - i, v>>]
  OBVIOUS
<1> HIDE DEF H
<1>3. PICK g : StepsUp(g, N, V, a, H)
  BY <1>1, StepByStep
<1>4. g \in [0 .. N -> V] /\ g[0] = a /\ \A i \in 1 .. N : g[i] = H[<<i, g[i - 1]>>]
  BY <1>3 DEF StepsUp
<1> DEFINE f == [i \in 0 .. N |-> g[N - i]]
<1>5. f \in [0 .. N -> V] /\ f[N] = a
  BY <1>4
<1>6. ASSUME NEW i \in 1 .. N PROVE f[i - 1] = G[<<i - 1, f[i]>>]
  <2> DEFINE k == N - (i - 1)
  <2>1. k \in 1 .. N /\ k - 1 = N - i /\ N - k = i - 1
    OBVIOUS
  <2>2. f[i - 1] = g[k] /\ f[i] = g[k - 1] /\ g[k - 1] \in V
    BY <1>4, <2>1
  <2> HIDE DEF k
  <2>3. g[k] = H[<<k, g[k - 1]>>]
    BY <1>4, <2>1
  <2>4. H[<<k, g[k - 1]>>] = G[<<i - 1, g[k - 1]>>]
    BY <1>2, <2>1, <2>2
  <2> HIDE DEF f
  <2> QED
    BY <2>2, <2>3, <2>4
<1> QED
  BY <1>5, <1>6 DEF StepsDown

-----------------------------------------------------------------------------
(* The number that a sequence of digits stands for, prefix by prefix.      *)
ValueSteps(f, n, x) ==
  f \in [0 .. n -> Nat] /\ f[0] = 0 /\ \A i \in 1 .. n : f[i] = f[i - 1] * Base + x[i]

LEMMA ValueStepsExist ==
  ASSUME NEW n \in Nat, NEW x \in [1 .. n -> Nat]
  PROVE  \E f : ValueSteps(f, n, x)
<1> DEFINE G == [p \in (1 .. n) \X Nat |-> p[2] * Base + x[p[1]]]
<1>1. G \in [(1 .. n) \X Nat -> Nat]
  <2>1. ASSUME NEW p \in (1 .. n) \X Nat PROVE p[2] * Base + x[p[1]] \in Nat
    <3> DEFINE v == p[2]
               y == x[p[1]]
    <3>1. v \in Nat /\ y \in Nat /\ Base \in Nat
      BY BlockHashAssumption
    <3> HIDE DEF v, y
    <3>2. v * Base \in Nat
      BY <3>1
    <3>3. v * Base + y \in Nat
      BY <3>1, <3>2
    <3> QED
      BY <3>3 DEF v, y
  <2> QED
    BY <2>1
<1>2. \A i \in 1 .. n, v \in Nat : G[<<i, v>>] = v * Base + x[i]
  OBVIOUS
<1> HIDE DEF G
<1>3. PICK f : StepsUp(f, n, Nat, 0, G)
  BY <1>1, StepByStep
<1>4. f \in [0 .. n -> Nat] /\ f[0] = 0 /\ \A i \in 1 .. n : f[i] = G[<<i, f[i - 1]>>]
  BY <1>3 DEF StepsUp
<1>5. ASSUME NEW i \in 1 .. n PROVE f[i] = f[i - 1] * Base + x[i]
  <2>1. f[i - 1] \in Nat
    BY <1>4
  <2> QED
    BY <1>2, <1>4, <2>1
<1>6. ValueSteps(f, n, x)
  BY <1>4, <1>5 DEF ValueSteps
<1> QED
  BY <1>6

LEMMA ValueIsLast ==
  ASSUME NEW n \in Nat, NEW x \in [1 .. n -> Nat]
  PROVE  \E f : ValueSteps(f, n, x) /\ Value(x) = f[n]
<1> DEFINE Steps(f) == f = [i \in 0 .. n |-> IF i = 0 THEN 0 ELSE f[i - 1] * Base + x[i]]
           up == CHOOSE f : Steps(f)
<1>1. x \in Seq(Nat) /\ Len(x) = n
  OBVIOUS
<1>2. PICK g : ValueSteps(g, n, x)
  BY ValueStepsExist
<1>3. Steps(g)
  BY <1>2 DEF ValueSteps
<1>4. Steps(up)
  BY <1>3
<1>5. Value(x) = up[n]
  BY <1>1 DEF Value
<1> HIDE DEF up
<1>6. DOMAIN up = 0 .. n /\ up[0] = 0 /\ \A i \in 1 .. n : up[i] = up[i - 1] * Base + x[i]
  BY <1>4
<1> HIDE DEF Steps
<1> DEFINE S == {i \in 0 .. n : up[i] \in Nat}
<1>7. 0 \in S /\ \A i \in 1 .. n : i - 1 \in S => i \in S
  BY <1>6, BlockHashAssumption
<1> HIDE DEF S
<1>8. \A i \in 0 .. n : i \in S
  BY <1>7, InductionUpTo
<1>9. up \in [0 .. n -> Nat]
  <2>1. up = [i \in 0 .. n |-> up[i]]
    BY <1>4 DEF Steps
  <2> QED
    BY <1>8, <2>1 DEF S
<1> QED
  BY <1>5, <1>6, <1>9 DEF ValueSteps

-----------------------------------------------------------------------------
(* The order of numbers is the order of their digits, the first of which   *)
(* count most.                                                             *)
LEMMA DigitsAreNumbers ==
  /\ Base \in Nat /\ Base > 1
  /\ \A d \in Digits : d \in Nat /\ d + 1 <= Base
BY BlockHashAssumption DEF Digits

LEMMA ProductIsNat ==
  ASSUME NEW a \in Nat, NEW b \in Nat
  PROVE  a * b \in Nat
OBVIOUS

LEMMA OneMoreBase ==
  ASSUME NEW a \in Nat, NEW b \in Nat, NEW B \in Nat, a + 1 <= b
  PROVE  a * B + B <= b * B
<1>1. PICK c \in Nat : b = a + 1 + c
  <2> WITNESS b - (a + 1) \in Nat
  <2> QED
    OBVIOUS
<1>2. b * B = a * B + B + c * B /\ c * B \in Nat /\ a * B \in Nat
  BY <1>1
<1> QED
  BY <1>2

\* x is below y from digit i on.
LowerAt(x, y, i) == x[i] < y[i] /\ \A j \in 1 .. i - 1 : x[j] = y[j]

LEMMA LowerDigitLowerValue ==
  ASSUME NEW n \in Nat, NEW x \in [1 .. n -> Digits], NEW y \in [1 .. n -> Digits],
         NEW i \in 1 .. n, LowerAt(x, y, i)
  PROVE  Value(x) < Value(y) /\ Value(x) \in Nat /\ Value(y) \in Nat
<1>1. x \in [1 .. n -> Nat] /\ y \in [1 .. n -> Nat]
  BY DigitsAreNumbers
<1>2. PICK f : ValueSteps(f, n, x) /\ Value(x) = f[n]
  BY <1>1, ValueIsLast
<1>3. PICK g : ValueSteps(g, n, y) /\ Value(y) = g[n]
  BY <1>1, ValueIsLast
<1>4. \A k \in 0 .. n : f[k] \in Nat /\ g[k] \in Nat
  BY <1>2, <1>3 DEF ValueSteps
<1>5. f[0] = 0 /\ g[0] = 0
  BY <1>2, <1>3 DEF ValueSteps
<1>6. \A k \in 1 .. n : f[k] = f[k - 1] * Base + x[k] /\ g[k] = g[k - 1] * Base + y[k]
  BY <1>2, <1>3 DEF ValueSteps
<1> DEFINE S == {k \in 0 .. n : /\ k < i => f[k] = g[k]
                                /\ k >= i => f[k] + 1 <= g[k]}
<1>7. 0 \in S
  BY <1>5
<1>8. ASSUME NEW k \in 1 .. n, k - 1 \in S PROVE k \in S
  <2>1. f[k - 1] \in Nat /\ g[k - 1] \in Nat /\ f[k] \in Nat /\ g[k] \in Nat
    BY <1>4
  <2>2. x[k] \in Nat /\ y[k] \in Nat /\ x[k] + 1 <= Base
    BY DigitsAreNumbers
  <2>3. CASE k < i
    <3>1. f[k - 1] = g[k - 1]
      BY <1>8, <2>3
    <3>2. x[k] = y[k]
      BY <2>3 DEF LowerAt
    <3>3. f[k] = g[k]
      BY <1>6, <3>1, <3>2
    <3> QED
      BY <2>3, <3>3
  <2>4. CASE k = i
    <3>1. f[k - 1] = g[k - 1]
      BY <1>8, <2>4
    <3>2. x[k] < y[k]
      BY <2>4 DEF LowerAt
    <3>3. f[k] = f[k - 1] * Base + x[k] /\ g[k] = f[k - 1] * Base + y[k]
      BY <1>6, <3>1
    <3>4. f[k - 1] * Base \in Nat
      BY <2>1, ProductIsNat, DigitsAreNumbers
    <3>5. f[k] + 1 <= g[k]
      BY <2>1, <2>2, <3>2, <3>3, <3>4
    <3> QED
      BY <2>4, <3>5
  <2>5. CASE k > i
    <3>1. f[k - 1] + 1 <= g[k - 1]
      BY <1>8, <2>5
    <3>2. f[k - 1] * Base + Base <= g[k - 1] * Base
      BY <2>1, <3>1, OneMoreBase, DigitsAreNumbers
    <3>3. f[k - 1] * Base \in Nat /\ g[k - 1] * Base \in Nat
      BY <2>1, ProductIsNat, DigitsAreNumbers
    <3>4. f[k] = f[k - 1] * Base + x[k] /\ g[k] = g[k - 1] * Base + y[k]
      BY <1>6
    <3> DEFINE P == f[k - 1] * Base
               Q == g[k - 1] * Base
    <3>5. P \in Nat /\ Q \in Nat /\ P + Base <= Q /\ f[k] = P + x[k] /\ g[k] = Q + y[k]
      BY <3>2, <3>3, <3>4
    <3> HIDE DEF P, Q
    <3>6. f[k] + 1 <= g[k]
      BY <2>2, <3>5, DigitsAreNumbers
    <3> QED
      BY <2>5, <3>6
  <2> QED
    BY <2>3, <2>4, <2>5
<1> HIDE DEF S
<1>9. \A k \in 0 .. n : k \in S
  BY <1>7, <1>8, InductionUpTo
<1>10. f[n] + 1 <= g[n]
  BY <1>9 DEF S
<1> QED
  BY <1>2, <1>3, <1>4, <1>10

LEMMA FirstDifference ==
  ASSUME NEW n \in Nat, NEW x \in [1 .. n -> Digits], NEW y \in [1 .. n -> Digits], x # y
  PROVE  \E i \in 1 .. n : LowerAt(x, y, i) \/ LowerAt(y, x, i)
<1> DEFINE T == {i \in 1 .. n : x[i] # y[i]}
<1>1. T # {} /\ T \in SUBSET Nat
  OBVIOUS
<1>2. PICK i \in T : \A k \in T : i <= k
  BY <1>1, LeastNumber
<1>3. \A j \in 1 .. i - 1 : x[j] = y[j]
  BY <1>2
<1>4. x[i] \in Nat /\ y[i] \in Nat /\ x[i] # y[i]
  BY <1>2, DigitsAreNumbers
<1>5. x[i] < y[i] \/ y[i] < x[i]
  BY <1>4
<1> QED
  BY <1>2, <1>3, <1>5 DEF LowerAt

LEMMA ValueOrder ==
  ASSUME NEW n \in Nat, NEW x \in [1 .. n -> Digits], NEW y \in [1 .. n -> Digits]
  PROVE  /\ Value(x) \in Nat /\ Value(y) \in Nat
         /\ Value(x) <= Value(y) <=> x = y \/ \E i \in 1 .. n : LowerAt(x, y, i)
<1>0. Value(x) \in Nat /\ Value(y) \in Nat
  <2>1. x \in [1 .. n -> Nat] /\ y \in [1 .. n -> Nat]
    BY DigitsAreNumbers
  <2>2. \E f : f \in [0 .. n -> Nat] /\ Value(x) = f[n]
    BY <2>1, ValueIsLast DEF ValueSteps
  <2>3. \E f : f \in [0 .. n -> Nat] /\ Value(y) = f[n]
    BY <2>1, ValueIsLast DEF ValueSteps
  <2> QED
    BY <2>2, <2>3
<1>1. CASE x = y
  BY <1>0, <1>1
<1>2. CASE x # y
  <2>1. PICK i \in 1 .. n : LowerAt(x, y, i) \/ LowerAt(y, x, i)
    BY <1>2, FirstDifference
  <2>2. CASE LowerAt(x, y, i)
    BY <1>0, <2>2, LowerDigitLowerValue
  <2>3. CASE LowerAt(y, x, i)
    <3>1. Value(y) < Value(x)
      BY <2>3, LowerDigitLowerValue
    <3>2. ASSUME NEW j \in 1 .. n, LowerAt(x, y, j) PROVE FALSE
      <4>1. Value(x) < Value(y)
        BY <3>2, LowerDigitLowerValue
      <4> QED
        BY <1>0, <3>1, <4>1
    <3> QED
      BY <1>0, <1>2, <3>1, <3>2
  <2> QED
    BY <2>1, <2>2, <2>3
<1> QED
  BY <1>1, <1>2

-----------------------------------------------------------------------------
(* The three tests of a hash against a target.                             *)
LEMMA Lengths ==
  /\ WordLen \in Nat /\ WordLen >= 1 /\ DigestWords \in Nat /\ CounterLen \in Nat
  /\ DigestLen \in Nat /\ DigestLen >= WordLen
<1>1. WordLen \in Nat /\ WordLen >= 1 /\ DigestWords \in Nat /\ CounterLen \in Nat
  BY BlockHashAssumption
<1>2. 2 * DigestWords * WordLen >= 4 * WordLen + 2
  BY BlockHashAssumption
<1>3. 2 * DigestWords * WordLen = 2 * DigestLen /\ DigestLen \in Nat
  BY <1>1 DEF DigestLen
<1> QED
  BY <1>1, <1>2, <1>3

LEMMA FunctionIsSequence ==
  ASSUME NEW n \in Nat, NEW D, NEW x \in [1 .. n -> D]
  PROVE  x \in Seq(D) /\ Len(x) = n
OBVIOUS

LEMMA PartOf ==
  ASSUME NEW n \in Nat, NEW D, NEW x \in [1 .. n -> D], NEW a \in Nat, NEW m \in Nat, a + m <= n
  PROVE  /\ SubSeq(x, a + 1, a + m) \in [1 .. m -> D]
         /\ \A k \in 1 .. m : SubSeq(x, a + 1, a + m)[k] = x[a + k]
<1> DEFINE s == SubSeq(x, a + 1, a + m)
<1>1. \A i \in a + 1 .. a + m : x[i] \in D
  OBVIOUS
<1>2. a + 1 \in Int /\ a + m \in Int
  OBVIOUS
<1>3. /\ s \in Seq(D)
      /\ Len(s) = IF a + 1 <= a + m THEN (a + m) - (a + 1) + 1 ELSE 0
      /\ \A i \in 1 .. (a + m) - (a + 1) + 1 : s[i] = x[(a + 1) + i - 1]
  BY <1>1, <1>2, SubSeqProperties
<1> HIDE DEF s
<1>4. Len(s) = m
  BY <1>3
<1>5. s \in [1 .. m -> D]
  BY <1>3, <1>4
<1>6. ASSUME NEW k \in 1 .. m PROVE s[k] = x[a + k]
  <2>1. k \in 1 .. (a + m) - (a + 1) + 1 /\ (a + 1) + k - 1 = a + k
    OBVIOUS
  <2> QED
    BY <1>3, <2>1
<1> QED
  BY <1>5, <1>6 DEF s

LEMMA FirstPart ==
  ASSUME NEW n \in Nat, NEW D, NEW x \in [1 .. n -> D], NEW m \in Nat, m <= n
  PROVE  /\ SubSeq(x, 1, m) \in [1 .. m -> D]
         /\ \A k \in 1 .. m : SubSeq(x, 1, m)[k] = x[k]
<1> DEFINE a == 0
<1>1. a \in Nat /\ a + m <= n
  OBVIOUS
<1>3. a + 1 = 1 /\ a + m = m /\ \A k \in 1 .. m : a + k = k
  OBVIOUS
<1> HIDE DEF a
<1>2. /\ SubSeq(x, a + 1, a + m) \in [1 .. m -> D]
      /\ \A k \in 1 .. m : SubSeq(x, a + 1, a + m)[k] = x[a + k]
  BY <1>1, PartOf
<1> QED
  BY <1>2, <1>3

LEMMA BytesTestIsOrder ==
  ASSUME NEW hash \in Targets, NEW target \in Targets
  PROVE  MeetsTargetBE(hash, target) <=> Value(hash) <= Value(target)
<1>1. Value(hash) <= Value(target)
        <=> hash = target \/ \E i \in 1 .. DigestLen : LowerAt(hash, target, i)
  BY Lengths, ValueOrder DEF Targets
<1> QED
  BY <1>1 DEF MeetsTargetBE, LowerAt

LEMMA CpuTestIsOrder ==
  ASSUME NEW hash \in Targets, NEW target \in Targets
  PROVE  CpuAccepts(hash, target) <=> Value(hash) <= Value(target)
<1> DEFINE h == SubSeq(hash, 1, WordLen)
           t == SubSeq(target, 1, WordLen)
<1>1. hash \in [1 .. DigestLen -> Digits] /\ target \in [1 .. DigestLen -> Digits]
  BY DEF Targets
<1>2. hash \in Seq(Digits) /\ Len(hash) = DigestLen /\ target \in Seq(Digits) /\ Len(target) = DigestLen
  BY <1>1, Lengths
<1>3. /\ h \in [1 .. WordLen -> Digits] /\ t \in [1 .. WordLen -> Digits]
      /\ \A k \in 1 .. WordLen : h[k] = hash[k] /\ t[k] = target[k]
  <2>1. /\ SubSeq(hash, 1, WordLen) \in [1 .. WordLen -> Digits]
        /\ \A k \in 1 .. WordLen : SubSeq(hash, 1, WordLen)[k] = hash[k]
    BY <1>1, Lengths, FirstPart
  <2>2. /\ SubSeq(target, 1, WordLen) \in [1 .. WordLen -> Digits]
        /\ \A k \in 1 .. WordLen : SubSeq(target, 1, WordLen)[k] = target[k]
    BY <1>1, Lengths, FirstPart
  <2> QED
    BY <2>1, <2>2
<1> HIDE DEF h, t
<1>4. FirstWord(hash) = Value(h) /\ FirstWord(target) = Value(t)
  BY DEF FirstWord, h, t
<1>5. /\ Value(h) \in Nat /\ Value(t) \in Nat
      /\ Value(h) <= Value(t) <=> h = t \/ \E i \in 1 .. WordLen : LowerAt(h, t, i)
  BY <1>3, Lengths, ValueOrder
<1>6. ASSUME MeetsTargetBE(hash, target) PROVE Value(h) <= Value(t)
  <2>1. CASE hash = target
    <3>1. h = t
      BY <2>1 DEF h, t
    <3> QED
      BY <1>5, <3>1
  <2>2. ASSUME NEW i \in 1 .. DigestLen, LowerAt(hash, target, i)
        PROVE  Value(h) <= Value(t)
    <3>1. CASE i <= WordLen
      <4>1. i \in 1 .. WordLen /\ LowerAt(h, t, i)
        BY <1>3, <2>2, <3>1, Lengths DEF LowerAt
      <4> QED
        BY <1>5, <4>1
    <3>2. CASE i > WordLen
      <4>1. \A k \in 1 .. WordLen : h[k] = t[k]
        BY <1>3, <2>2, <3>2, Lengths DEF LowerAt
      <4>2. h = t
        <5>1. h = [k \in 1 .. WordLen |-> h[k]] /\ t = [k \in 1 .. WordLen |-> t[k]]
          BY <1>3
        <5> QED
          BY <4>1, <5>1
      <4> QED
        BY <1>5, <4>2
    <3> QED
      BY <3>1, <3>2, Lengths
  <2> QED
    BY <1>6, <2>1, <2>2 DEF MeetsTargetBE, LowerAt
<1>7. CpuAccepts(hash, target) <=> MeetsTargetBE(hash, target)
  BY <1>4, <1>6 DEF CpuAccepts
<1> QED
  BY <1>7, BytesTestIsOrder

\* Digit k of word i is digit (i - 1) * WordLen + k.
LEMMA PlacesOf ==
  ASSUME NEW n \in Nat
  PROVE  /\ \A i \in 1 .. n : /\ (i - 1) * WordLen \in Nat
                              /\ i * WordLen = (i - 1) * WordLen + WordLen
                              /\ i * WordLen <= n * WordLen
         /\ \A i, j \in Nat : i < j => i * WordLen + WordLen <= j * WordLen
         /\ \A p \in 1 .. n * WordLen : \E i \in 1 .. n, k \in 1 .. WordLen :
              p = (i - 1) * WordLen + k
<1>1. \A i, j \in Nat : i < j => i * WordLen + WordLen <= j * WordLen
  BY OneMoreBase, Lengths
<1>2. \A i \in Nat : i * WordLen \in Nat
  BY ProductIsNat, Lengths
<1>3. ASSUME NEW i \in 1 .. n
      PROVE  /\ (i - 1) * WordLen \in Nat
             /\ i * WordLen = (i - 1) * WordLen + WordLen
             /\ i * WordLen <= n * WordLen
  <2>1. (i - 1) * WordLen \in Nat
    BY <1>2, Lengths
  <2>2. i * WordLen = (i - 1) * WordLen + WordLen
    BY Lengths
  <2>3. i * WordLen <= n * WordLen
    <3>1. i = n \/ i < n
      BY Lengths
    <3>2. CASE i = n
      BY <3>2, Lengths
    <3>3. CASE i < n
      <4>1. i * WordLen + WordLen <= n * WordLen
        BY <1>1, <3>3, Lengths
      <4>2. i * WordLen \in Nat /\ n * WordLen \in Nat
        BY <1>2, Lengths
      <4> QED
        BY <4>1, <4>2, Lengths
    <3> QED
      BY <3>1, <3>2, <3>3
  <2> QED
    BY <2>1, <2>2, <2>3
<1>4. ASSUME NEW p \in 1 .. n * WordLen
      PROVE  \E i \in 1 .. n, k \in 1 .. WordLen : p = (i - 1) * WordLen + k
  <2> DEFINE T == {i \in Nat : p <= i * WordLen}
  <2>1. n \in T
    BY Lengths
  <2>2. PICK i \in T : \A j \in T : i <= j
    BY <2>1, LeastNumber
  <2>3. 0 \notin T
    BY Lengths
  <2>4. i \in 1 .. n
    BY <2>1, <2>2, <2>3, Lengths
  <2>5. i - 1 \in Nat /\ i - 1 \notin T
    BY <2>2, <2>4
  <2>6. p > (i - 1) * WordLen /\ p <= i * WordLen
    BY <1>2, <2>2, <2>5
  <2>7. p - (i - 1) * WordLen \in 1 .. WordLen
    BY <1>3, <2>4, <2>6, Lengths
  <2>8. p = (i - 1) * WordLen + (p - (i - 1) * WordLen)
    BY <1>3, <2>4
  <2> QED
    BY <2>4, <2>7, <2>8
<1> QED
  BY <1>1, <1>3, <1>4

LEMMA WordPlaces ==
  /\ \A i \in 1 .. DigestWords : /\ (i - 1) * WordLen \in Nat
                                 /\ i * WordLen = (i - 1) * WordLen + WordLen
                                 /\ i * WordLen <= DigestLen
  /\ \A i, j \in Nat : i < j => i * WordLen + WordLen <= j * WordLen
  /\ \A p \in 1 .. DigestLen : \E i \in 1 .. DigestWords, k \in 1 .. WordLen :
       p = (i - 1) * WordLen + k
BY Lengths, PlacesOf DEF DigestLen

LEMMA WordsOf ==
  ASSUME NEW D, NEW x \in [1 .. DigestLen -> D]
  PROVE  /\ Words(x) \in [1 .. DigestWords -> [1 .. WordLen -> D]]
         /\ \A i \in 1 .. DigestWords, k \in 1 .. WordLen :
              Words(x)[i][k] = x[(i - 1) * WordLen + k]
<1>1. x \in Seq(D) /\ Len(x) = DigestLen
  BY Lengths
<1>2. DigestLen \div WordLen = DigestWords
  BY Lengths DEF DigestLen
<1>3. Words(x) = [i \in 1 .. DigestWords |-> SubSeq(x, (i - 1) * WordLen + 1, i * WordLen)]
  BY <1>1, <1>2 DEF Words
<1>4. ASSUME NEW i \in 1 .. DigestWords
      PROVE  /\ SubSeq(x, (i - 1) * WordLen + 1, i * WordLen) \in [1 .. WordLen -> D]
             /\ \A k \in 1 .. WordLen :
                  SubSeq(x, (i - 1) * WordLen + 1, i * WordLen)[k] = x[(i - 1) * WordLen + k]
  <2> DEFINE a == (i - 1) * WordLen
             b == i * WordLen
  <2>1. a \in Nat /\ b = a + WordLen /\ b <= DigestLen
    BY WordPlaces
  <2> HIDE DEF a, b
  <2>2. /\ SubSeq(x, a + 1, a + WordLen) \in [1 .. WordLen -> D]
        /\ \A k \in 1 .. WordLen : SubSeq(x, a + 1, a + WordLen)[k] = x[a + k]
    BY <2>1, PartOf, Lengths
  <2>3. /\ SubSeq(x, a + 1, b) \in [1 .. WordLen -> D]
        /\ \A k \in 1 .. WordLen : SubSeq(x, a + 1, b)[k] = x[a + k]
    BY <2>1, <2>2
  <2> QED
    BY <2>3 DEF a, b
<1> QED
  BY <1>3, <1>4

LEMMA GpuTestIsOrder ==
  ASSUME NEW hash \in Targets, NEW target \in Targets
  PROVE  GpuAccepts(hash, target) <=> Value(hash) <= Value(target)
<1> DEFINE h == Words(hash)
           t == Words(target)
           place(i, k) == (i - 1) * WordLen + k
<1>1. hash \in [1 .. DigestLen -> Digits] /\ target \in [1 .. DigestLen -> Digits]
  BY DEF Targets
<1>2. /\ h \in [1 .. DigestWords -> [1 .. WordLen -> Digits]]
      /\ t \in [1 .. DigestWords -> [1 .. WordLen -> Digits]]
  BY <1>1, WordsOf
<1>3. \A i \in 1 .. DigestWords, k \in 1 .. WordLen :
        h[i][k] = hash[place(i, k)] /\ t[i][k] = target[place(i, k)]
  BY <1>1, WordsOf
<1> HIDE DEF h, t
<1>4. GpuAccepts(hash, target) <=>
        \/ \A i \in 1 .. DigestWords : h[i] = t[i]
        \/ \E i \in 1 .. DigestWords :
             /\ Value(h[i]) < Value(t[i])
             /\ \A j \in 1 .. i - 1 : h[j] = t[j]
  BY DEF GpuAccepts, h, t
<1>5. \A i \in 1 .. DigestWords, k \in 1 .. WordLen : place(i, k) \in 1 .. DigestLen
  <2> SUFFICES ASSUME NEW i \in 1 .. DigestWords, NEW k \in 1 .. WordLen
               PROVE  place(i, k) \in 1 .. DigestLen
    OBVIOUS
  <2>1. (i - 1) * WordLen \in Nat /\ i * WordLen = (i - 1) * WordLen + WordLen
          /\ i * WordLen <= DigestLen
    BY WordPlaces
  <2> QED
    BY <2>1, Lengths
<1>6. \A i, j \in 1 .. DigestWords, k, l \in 1 .. WordLen :
        place(i, k) < place(j, l) <=> i < j \/ (i = j /\ k < l)
  <2> SUFFICES ASSUME NEW i \in 1 .. DigestWords, NEW j \in 1 .. DigestWords,
                      NEW k \in 1 .. WordLen, NEW l \in 1 .. WordLen
               PROVE  place(i, k) < place(j, l) <=> i < j \/ (i = j /\ k < l)
    OBVIOUS
  <2> DEFINE a == (i - 1) * WordLen
             b == (j - 1) * WordLen
  <2>1. a \in Nat /\ b \in Nat
    BY WordPlaces
  <2>2. i < j => a + WordLen <= b
    BY WordPlaces, Lengths
  <2>3. j < i => b + WordLen <= a
    BY WordPlaces, Lengths
  <2>4. i = j => a = b
    OBVIOUS
  <2>5. place(i, k) = a + k /\ place(j, l) = b + l
    OBVIOUS
  <2> HIDE DEF a, b, place
  <2> QED
    BY <2>1, <2>2, <2>3, <2>4, <2>5, Lengths
<1>7. \A p \in 1 .. DigestLen : \E i \in 1 .. DigestWords, k \in 1 .. WordLen : p = place(i, k)
  BY WordPlaces
<1> HIDE DEF place
\* Words agree when their digits do.
<1>8. \A i \in 1 .. DigestWords :
        h[i] = t[i] <=> \A k \in 1 .. WordLen : hash[place(i, k)] = target[place(i, k)]
  <2> SUFFICES ASSUME NEW i \in 1 .. DigestWords,
                      \A k \in 1 .. WordLen : hash[place(i, k)] = target[place(i, k)]
               PROVE  h[i] = t[i]
    BY <1>3
  <2>1. h[i] = [k \in 1 .. WordLen |-> h[i][k]] /\ t[i] = [k \in 1 .. WordLen |-> t[i][k]]
    BY <1>2
  <2> QED
    BY <1>3, <2>1
<1>9. ASSUME NEW i \in 1 .. DigestWords, NEW k \in 1 .. WordLen
      PROVE  LowerAt(hash, target, place(i, k))
               <=> LowerAt(h[i], t[i], k) /\ \A j \in 1 .. i - 1 : h[j] = t[j]
  <2>1. place(i, k) \in 1 .. DigestLen
    BY <1>5
  <2>2. ASSUME LowerAt(hash, target, place(i, k)), NEW j \in 1 .. i - 1 PROVE h[j] = t[j]
    <3>1. j \in 1 .. DigestWords
      BY Lengths
    <3>2. ASSUME NEW l \in 1 .. WordLen
          PROVE  hash[place(j, l)] = target[place(j, l)]
      <4>1. place(j, l) \in 1 .. DigestLen /\ place(j, l) < place(i, k)
        BY <1>5, <1>6, <3>1
      <4>2. place(j, l) \in 1 .. place(i, k) - 1
        BY <2>1, <4>1
      <4> QED
        BY <2>2, <4>2 DEF LowerAt
    <3> QED
      BY <1>8, <3>1, <3>2
  <2>3. ASSUME LowerAt(hash, target, place(i, k)) PROVE LowerAt(h[i], t[i], k)
    <3>1. h[i][k] < t[i][k]
      BY <1>3, <2>3 DEF LowerAt
    <3>2. ASSUME NEW l \in 1 .. k - 1 PROVE h[i][l] = t[i][l]
      <4>1. l \in 1 .. WordLen
        BY Lengths
      <4>2. place(i, l) \in 1 .. DigestLen /\ place(i, l) < place(i, k)
        BY <1>5, <1>6, <4>1
      <4>3. place(i, l) \in 1 .. place(i, k) - 1
        BY <2>1, <4>2
      <4> QED
        BY <1>3, <2>3, <4>1, <4>3 DEF LowerAt
    <3> QED
      BY <3>1, <3>2 DEF LowerAt
  <2>4. ASSUME LowerAt(h[i], t[i], k), \A j \in 1 .. i - 1 : h[j] = t[j]
        PROVE  LowerAt(hash, target, place(i, k))
    <3>1. hash[place(i, k)] < target[place(i, k)]
      BY <1>3, <2>4 DEF LowerAt
    <3>2. ASSUME NEW p \in 1 .. place(i, k) - 1 PROVE hash[p] = target[p]
      <4>1. p \in 1 .. DigestLen /\ p < place(i, k)
        BY <2>1, Lengths
      <4>2. PICK j \in 1 .. DigestWords, l \in 1 .. WordLen : p = place(j, l)
        BY <1>7, <4>1
      <4>3. j < i \/ (j = i /\ l < k)
        BY <1>6, <4>1, <4>2
      <4>4. CASE j < i
        <5>1. j \in 1 .. i - 1
          BY <4>4
        <5>2. h[j] = t[j]
          BY <2>4, <5>1
        <5> QED
          BY <1>8, <4>2, <5>2
      <4>5. CASE j = i /\ l < k
        <5>1. l \in 1 .. k - 1
          BY <4>5
        <5>2. h[i][l] = t[i][l]
          BY <2>4, <5>1 DEF LowerAt
        <5> QED
          BY <1>3, <4>2, <4>5, <5>2
      <4> QED
        BY <4>3, <4>4, <4>5
    <3> QED
      BY <3>1, <3>2 DEF LowerAt
  <2> QED
    BY <2>2, <2>3, <2>4
<1>10. Value(hash) <= Value(target)
         <=> hash = target \/ \E p \in 1 .. DigestLen : LowerAt(hash, target, p)
  BY <1>1, Lengths, ValueOrder
<1>11. hash = target <=> \A i \in 1 .. DigestWords : h[i] = t[i]
  <2> SUFFICES ASSUME \A i \in 1 .. DigestWords : h[i] = t[i] PROVE hash = target
    BY DEF h, t
  <2>1. \A p \in 1 .. DigestLen : hash[p] = target[p]
    BY <1>7, <1>8
  <2>2. /\ hash = [p \in 1 .. DigestLen |-> hash[p]]
        /\ target = [p \in 1 .. DigestLen |-> target[p]]
    BY <1>1
  <2> QED
    BY <2>1, <2>2
<1>12. ASSUME NEW i \in 1 .. DigestWords
       PROVE  /\ Value(h[i]) < Value(t[i]) => \E k \in 1 .. WordLen : LowerAt(h[i], t[i], k)
              /\ \A k \in 1 .. WordLen : LowerAt(h[i], t[i], k) => Value(h[i]) < Value(t[i])
  <2>1. h[i] \in [1 .. WordLen -> Digits] /\ t[i] \in [1 .. WordLen -> Digits]
    BY <1>2
  <2>2. /\ Value(h[i]) \in Nat /\ Value(t[i]) \in Nat
        /\ Value(h[i]) <= Value(t[i])
             <=> h[i] = t[i] \/ \E k \in 1 .. WordLen : LowerAt(h[i], t[i], k)
    BY <2>1, Lengths, ValueOrder
  <2>3. ASSUME Value(h[i]) < Value(t[i])
        PROVE  \E k \in 1 .. WordLen : LowerAt(h[i], t[i], k)
    <3>1. h[i] # t[i] /\ Value(h[i]) <= Value(t[i])
      BY <2>2, <2>3
    <3> QED
      BY <2>2, <3>1
  <2>4. \A k \in 1 .. WordLen : LowerAt(h[i], t[i], k) => Value(h[i]) < Value(t[i])
    BY <2>1, Lengths, LowerDigitLowerValue
  <2> QED
    BY <2>3, <2>4
<1>13. (\E p \in 1 .. DigestLen : LowerAt(hash, target, p))
         <=> \E i \in 1 .. DigestWords : /\ Value(h[i]) < Value(t[i])
                                         /\ \A j \in 1 .. i - 1 : h[j] = t[j]
  <2>1. ASSUME NEW p \in 1 .. DigestLen, LowerAt(hash, target, p)
        PROVE  \E i \in 1 .. DigestWords : /\ Value(h[i]) < Value(t[i])
                                           /\ \A j \in 1 .. i - 1 : h[j] = t[j]
    <3>1. PICK i \in 1 .. DigestWords, k \in 1 .. WordLen : p = place(i, k)
      BY <1>7
    <3>2. LowerAt(h[i], t[i], k) /\ \A j \in 1 .. i - 1 : h[j] = t[j]
      BY <1>9, <2>1, <3>1
    <3>3. Value(h[i]) < Value(t[i])
      BY <1>12, <3>2
    <3> QED
      BY <3>2, <3>3
  <2>2. ASSUME NEW i \in 1 .. DigestWords, Value(h[i]) < Value(t[i]),
               \A j \in 1 .. i - 1 : h[j] = t[j]
        PROVE  \E p \in 1 .. DigestLen : LowerAt(hash, target, p)
    <3>1. PICK k \in 1 .. WordLen : LowerAt(h[i], t[i], k)
      BY <1>12, <2>2
    <3>2. LowerAt(hash, target, place(i, k)) /\ place(i, k) \in 1 .. DigestLen
      BY <1>5, <1>9, <2>2, <3>1
    <3> QED
      BY <3>2
  <2> QED
    BY <2>1, <2>2
<1> QED
  BY <1>4, <1>10, <1>11, <1>13

-----------------------------------------------------------------------------
(* Powers, quotients and remainders.                                       *)
MaxPower == DigestLen + CounterLen + 1

LEMMA PowersArePositive ==
  /\ Base ^ 0 = 1
  /\ \A k \in 0 .. MaxPower : Base ^ k \in Nat /\ Base ^ k > 0
  /\ \A k \in 1 .. MaxPower : Base ^ k = Base * Base ^ (k - 1)
<1> DEFINE S == {k \in 0 .. MaxPower : Base ^ k \in Nat /\ Base ^ k > 0}
<1>0. MaxPower \in Nat
  BY Lengths DEF MaxPower
<1>1. Base ^ 0 = 1
  BY PowersOfBase
<1>2. 0 \in S
  BY <1>0, <1>1
<1>3. \A k \in 1 .. MaxPower : Base ^ k = Base * Base ^ (k - 1)
  <2> SUFFICES ASSUME NEW k \in 1 .. MaxPower PROVE Base ^ k = Base * Base ^ (k - 1)
    OBVIOUS
  <2> DEFINE j == k - 1
  <2>1. j \in 0 .. DigestWords * WordLen + CounterLen /\ j + 1 = k
    BY Lengths DEF DigestLen, MaxPower
  <2> HIDE DEF j
  <2>2. Base ^ (j + 1) = Base * Base ^ j
    BY <2>1, PowersOfBase
  <2> QED
    BY <2>1, <2>2 DEF j
<1>4. ASSUME NEW k \in 1 .. MaxPower, k - 1 \in S PROVE k \in S
  <2> DEFINE P == Base ^ (k - 1)
  <2>1. P \in Nat /\ P > 0 /\ Base ^ k = Base * P
    BY <1>3, <1>4
  <2> HIDE DEF P
  <2>2. Base * P \in Nat /\ Base * P > 0
    BY <2>1, DigitsAreNumbers
  <2> QED
    BY <1>0, <2>1, <2>2
<1> HIDE DEF S
<1>5. \A k \in 0 .. MaxPower : k \in S
  BY <1>0, <1>2, <1>4, InductionUpTo
<1> QED
  BY <1>1, <1>3, <1>5 DEF S

LEMMA QuotientAndRemainder ==
  ASSUME NEW a \in Nat, NEW b \in Nat, b > 0
  PROVE  /\ a \div b \in Nat /\ a % b \in Nat /\ a % b < b /\ a % b <= a /\ a \div b <= a
         /\ a = (a \div b) * b + (a % b)
<1>1. a \div b \in Nat
  OBVIOUS
<1>2. a % b \in Nat /\ a % b < b
  OBVIOUS
<1>3. a = (a \div b) * b + (a % b)
  OBVIOUS
<1>4. a % b <= a
  <2>1. (a \div b) * b \in Nat
    BY <1>1, ProductIsNat
  <2> QED
    BY <1>2, <1>3, <2>1
<1>5. a \div b <= a
  <2> DEFINE s == a \div b
  <2>1. s \in Nat /\ s * b <= a
    BY <1>1, <1>2, <1>3
  <2> HIDE DEF s
  <2>2. s * b >= s
    BY <2>1
  <2> QED
    BY <2>1, <2>2 DEF s
<1> QED
  BY <1>1, <1>2, <1>3, <1>4, <1>5

LEMMA QuotientIsUnique ==
  ASSUME NEW a \in Nat, NEW b \in Nat, b > 0, NEW q \in Nat, NEW r \in Nat, r < b, a = q * b + r
  PROVE  a \div b = q /\ a % b = r
<1> DEFINE s == a \div b
           t == a % b
<1>1. s \in Nat /\ t \in Nat /\ t < b /\ a = s * b + t
  BY QuotientAndRemainder
<1> HIDE DEF s, t
<1>2. ~(s < q)
  <2> SUFFICES ASSUME s + 1 <= q PROVE FALSE
    BY <1>1
  <2>1. s * b + b <= q * b
    BY <1>1, OneMoreBase
  <2>2. s * b \in Nat /\ q * b \in Nat
    BY <1>1, ProductIsNat
  <2> QED
    BY <1>1, <2>1, <2>2
<1>3. ~(q < s)
  <2> SUFFICES ASSUME q + 1 <= s PROVE FALSE
    BY <1>1
  <2>1. q * b + b <= s * b
    BY <1>1, OneMoreBase
  <2>2. s * b \in Nat /\ q * b \in Nat
    BY <1>1, ProductIsNat
  <2> QED
    BY <1>1, <2>1, <2>2
<1>4. s = q
  BY <1>1, <1>2, <1>3
<1>5. t = r
  <2>1. q * b \in Nat
    BY ProductIsNat
  <2> QED
    BY <1>1, <1>4, <2>1
<1> QED
  BY <1>4, <1>5 DEF s, t

-----------------------------------------------------------------------------
(* The target of difficulty 1.                                             *)
LEMMA DigitOf ==
  ASSUME NEW a \in Nat, NEW k \in 0 .. MaxPower
  PROVE  /\ (a \div Base ^ k) % Base \in Digits
         /\ a < Base ^ k => (a \div Base ^ k) % Base = 0
<1> DEFINE b == Base ^ k
           s == a \div b
<1>1. b \in Nat /\ b > 0
  BY PowersArePositive
<1> HIDE DEF b
<1>2. s \in Nat
  BY <1>1, QuotientAndRemainder
<1>3. s % Base \in Nat /\ s % Base < Base
  <2> HIDE DEF s
  <2> QED
    BY <1>2, QuotientAndRemainder, DigitsAreNumbers
<1>4. s % Base \in Digits
  <2> HIDE DEF s
  <2> QED
    BY <1>3, DigitsAreNumbers DEF Digits
<1>5. ASSUME a < b PROVE s % Base = 0
  <2>1. 0 * b = 0 /\ a = 0 * b + a
    BY <1>1
  <2>2. s = 0
    BY <1>1, <1>5, <2>1, QuotientIsUnique
  <2>3. 0 < Base /\ 0 * Base = 0 /\ 0 = 0 * Base + 0
    BY DigitsAreNumbers
  <2>4. 0 % Base = 0
    BY <2>3, DigitsAreNumbers
  <2> HIDE DEF s
  <2> QED
    BY <2>2, <2>4
<1> QED
  BY <1>4, <1>5 DEF b

LEMMA Diff1Digits ==
  Diff1Target \in Targets /\ \A i \in 1 .. WordLen : Diff1Target[i] = 0
<1> DEFINE H == Base ^ 3 \div 2
           m == (Base ^ 2 - 1) % H
           digit(k) == (m \div Base ^ k) % Base
           offset == Diff1Exponent - 3
<1>1. MaxPower \in Nat /\ MaxPower >= 3
  BY Lengths, BlockHashAssumption DEF MaxPower
<1>2. Base ^ 2 \in Nat /\ Base ^ 2 > 0 /\ Base ^ 3 = Base * Base ^ 2
  <2>1. 2 \in 0 .. MaxPower /\ 3 \in 1 .. MaxPower /\ 3 - 1 = 2
    BY <1>1
  <2> QED
    BY <2>1, PowersArePositive
<1>3. Base ^ 3 \in Nat /\ Base ^ 3 >= 2
  <2> DEFINE P == Base ^ 2
  <2>1. P \in Nat /\ P > 0 /\ Base ^ 3 = Base * P
    BY <1>2
  <2> HIDE DEF P
  <2>2. Base * P \in Nat /\ Base * P >= 2
    BY <2>1, DigitsAreNumbers
  <2> QED
    BY <2>1, <2>2
<1>4. H \in Nat /\ H > 0
  <2> DEFINE P == Base ^ 3
  <2>1. P \in Nat /\ P >= 2
    BY <1>3
  <2> HIDE DEF P
  <2>2. P \div 2 \in Nat /\ P \div 2 > 0
    BY <2>1
  <2> QED
    BY <2>2 DEF P
<1> HIDE DEF H
<1>5. m \in Nat /\ m < Base ^ 2
  <2> DEFINE n == Base ^ 2 - 1
  <2>1. n \in Nat /\ n < Base ^ 2
    BY <1>2
  <2> HIDE DEF n
  <2>2. n % H \in Nat /\ n % H <= n
    BY <1>4, <2>1, QuotientAndRemainder
  <2> QED
    BY <1>2, <2>1, <2>2 DEF n
<1> HIDE DEF m
<1>6. \A k \in 0 .. 2 : digit(k) \in Digits
  BY <1>1, <1>5, DigitOf
<1>7. digit(2) = 0
  BY <1>1, <1>5, DigitOf
<1> HIDE DEF digit
<1>8. Diff1Target = [i \in 1 .. DigestLen |->
         IF Diff1Exponent >= 3 /\ DigestLen - i - offset \in 0 .. 2
           THEN digit(DigestLen - i - offset)
           ELSE 0]
  BY DEF Diff1Target, NbitsToTarget, digit, m, H
<1>9. 0 \in Digits
  BY DigitsAreNumbers DEF Digits
<1>10. Diff1Target \in Targets
  BY <1>6, <1>8, <1>9 DEF Targets
<1>11. ASSUME NEW i \in 1 .. WordLen PROVE Diff1Target[i] = 0
  <2>1. i \in 1 .. DigestLen
    BY Lengths
  <2>2. DigestLen - i - offset >= 2
    BY Lengths, ShareTargetAssumption
  <2>3. DigestLen - i - offset \in 0 .. 2 => DigestLen - i - offset = 2
    BY <2>2, Lengths, ShareTargetAssumption
  <2> QED
    BY <1>7, <1>8, <2>1, <2>3
<1> QED
  BY <1>10, <1>11

-----------------------------------------------------------------------------
(* Floats: a quotient of integers with few bits is not rounded.            *)
LEMMA PowersOfTwoArePositive ==
  \A k \in 0 .. MaxExponent : 2 ^ k \in Nat /\ 2 ^ k > 0
<1> DEFINE S == {k \in 0 .. MaxExponent : 2 ^ k \in Nat /\ 2 ^ k > 0}
<1>0. MaxExponent \in Nat
  BY ShareTargetAssumption
<1>1. 0 \in S
  BY <1>0, PowersOfTwo
<1>2. ASSUME NEW k \in 1 .. MaxExponent, k - 1 \in S PROVE k \in S
  <2> DEFINE j == k - 1
  <2>1. j \in 0 .. MaxExponent - 1 /\ j + 1 = k
    BY <1>0
  <2>2. 2 ^ j \in Nat /\ 2 ^ j > 0
    BY <1>2
  <2> HIDE DEF j
  <2>3. 2 ^ (j + 1) = 2 * 2 ^ j
    BY <2>1, PowersOfTwo
  <2> DEFINE P == 2 ^ j
  <2>4. P \in Nat /\ P > 0 /\ 2 ^ k = 2 * P
    BY <2>1, <2>2, <2>3
  <2> HIDE DEF P
  <2> QED
    BY <1>0, <2>4
<1> HIDE DEF S
<1>3. \A k \in 0 .. MaxExponent : k \in S
  BY <1>0, <1>1, <1>2, InductionUpTo
<1> QED
  BY <1>3 DEF S

LEMMA MantissasIsNat ==
  Mantissas \in Nat /\ Mantissas > 0
BY PowersOfTwoArePositive, ShareTargetAssumption DEF Mantissas

\* There is a power of two by which a number is scaled to fill a mantissa.
LEMMA ScaleExists ==
  ASSUME NEW a \in Nat, a > 0, NEW b \in Nat, b > 0, a < Mantissas * b,
         Mantissas * b <= 2 ^ MaxExponent
  PROVE  \E k \in 0 .. MaxExponent : Full(a * 2 ^ k, b)
<1> DEFINE M == Mantissas * b
           T == {k \in 0 .. MaxExponent : M <= 2 * (a * 2 ^ k)}
<1>0. MaxExponent \in Nat /\ M \in Nat
  BY MantissasIsNat, ProductIsNat, ShareTargetAssumption
<1>1. \A k \in 0 .. MaxExponent : 2 ^ k \in Nat /\ a * 2 ^ k \in Nat
  BY PowersOfTwoArePositive, ProductIsNat
<1>2. MaxExponent \in T
  <2> DEFINE P == 2 ^ MaxExponent
  <2>1. P \in Nat /\ M <= P
    BY <1>0, <1>1
  <2> HIDE DEF P, M
  <2>2. PICK c \in Nat : a = 1 + c
    <3> WITNESS a - 1 \in Nat
    <3> QED
      OBVIOUS
  <2>3. a * P = P + c * P /\ c * P \in Nat
    BY <2>1, <2>2
  <2>4. M <= 2 * (a * P)
    BY <1>0, <2>1, <2>3
  <2> QED
    BY <1>0, <2>4 DEF P
<1>3. PICK k \in T : \A j \in T : k <= j
  <2>1. T \in SUBSET Nat /\ T # {}
    BY <1>0, <1>2
  <2> HIDE DEF T
  <2> QED
    BY <2>1, LeastNumber
<1>4. k \in 0 .. MaxExponent /\ M <= 2 * (a * 2 ^ k)
  OBVIOUS
<1>5. a * 2 ^ k < M
  <2>1. CASE k = 0
    <3>1. a * 1 = a
      OBVIOUS
    <3> QED
      BY <2>1, <3>1, PowersOfTwo
  <2>2. CASE k # 0
    <3> DEFINE j == k - 1
    <3>1. j \in 0 .. MaxExponent - 1 /\ j \in 0 .. MaxExponent /\ j + 1 = k /\ ~(k <= j)
      BY <1>0, <1>4, <2>2
    <3>2. ~(M <= 2 * (a * 2 ^ j))
      BY <1>3, <3>1
    <3> HIDE DEF j
    <3>3. 2 ^ (j + 1) = 2 * 2 ^ j /\ 2 ^ j \in Nat
      BY <1>1, <3>1, PowersOfTwo
    <3> DEFINE P == 2 ^ j
    <3>4. P \in Nat /\ 2 ^ k = 2 * P /\ ~(M <= 2 * (a * P))
      BY <3>1, <3>2, <3>3
    <3> HIDE DEF P, M
    <3>5. a * (2 * P) = 2 * (a * P) /\ a * P \in Nat
      BY <3>4
    <3> QED
      BY <1>0, <3>4, <3>5
  <2> QED
    BY <2>1, <2>2
<1>6. Full(a * 2 ^ k, b)
  <2> DEFINE x == a * 2 ^ k
  <2>1. x \in Nat /\ x < M /\ M <= 2 * x
    BY <1>1, <1>4, <1>5
  <2> HIDE DEF x
  <2> QED
    BY <2>1 DEF Full, Magnitude, x
<1> QED
  BY <1>4, <1>6

LEMMA FloorIsExact ==
  ASSUME NEW a \in Nat, a < Mantissas, NEW b \in Nat, b > 0, Mantissas * b <= 2 ^ MaxExponent
  PROVE  FloorOfFloat(a, b) = a \div b
<1> DEFINE f == a \div b
           r == a % b
           M == Mantissas
<1>0. M \in Nat /\ f \in Nat /\ r \in Nat /\ r < b /\ a = f * b + r
  BY MantissasIsNat, QuotientAndRemainder
<1>1. CASE a = 0
  <2>1. 0 = 0 * b + 0 /\ 0 < b
    OBVIOUS
  <2>2. a \div b = 0
    BY <1>1, <2>1, QuotientIsUnique
  <2> QED
    BY <1>1, <2>2 DEF FloorOfFloat
<1>2. CASE a > 0
  <2> HIDE DEF M, f, r
  <2>1. a < M * b
    <3>1. PICK c \in Nat : b = 1 + c
      <4> WITNESS b - 1 \in Nat
      <4> QED
        OBVIOUS
    <3>2. M * b = M + M * c /\ M * c \in Nat
      BY <1>0, <3>1
    <3> QED
      BY <1>0, <3>2 DEF M
  <2> DEFINE k == CHOOSE k \in 0 .. MaxExponent : Full(a * 2 ^ k, b)
             s == 2 ^ k
             x == a * s
  <2>2. k \in 0 .. MaxExponent /\ Full(a * 2 ^ k, b)
    BY <1>2, <2>1, ScaleExists DEF M
  <2>3. s \in Nat /\ s > 0
    <3> HIDE DEF k
    <3> QED
      BY <2>2, PowersOfTwoArePositive
  <2>4. FloorOfFloat(a, b) = Nearest(x, b) \div s
    BY <1>2, <2>1 DEF FloorOfFloat, Magnitude, M
  <2>5. Full(x, b)
    BY <2>2
  <2> HIDE DEF k, s
  <2>6. x \in Nat /\ M * b <= 2 * x
    <3>1. x \in Nat
      BY <2>3, ProductIsNat
    <3> HIDE DEF x
    <3> QED
      BY <2>5, <3>1 DEF Full, Magnitude, M
  (* So fine a scale that the next integer is more than half a unit away.  *)
  <2>7. b + 1 <= 2 * s
    <3> SUFFICES ASSUME 2 * s <= b PROVE FALSE
      BY <2>3
    <3>1. a * (2 * s) <= a * b
      <4>1. PICK c \in Nat : b = 2 * s + c
        <5>1. b - 2 * s \in Nat /\ b = 2 * s + (b - 2 * s)
          BY <2>3
        <5> QED
          BY <5>1
      <4>2. a * b = a * (2 * s) + a * c /\ a * c \in Nat /\ a * (2 * s) \in Nat
        BY <2>3, <4>1
      <4> QED
        BY <4>2
    <3>2. a * b + b <= M * b
      BY <1>0, OneMoreBase DEF M
    <3>3. a * (2 * s) = 2 * x
      BY <2>3
    <3> DEFINE A == a * b
               B == M * b
    <3>4. A \in Nat /\ B \in Nat /\ 2 * x <= A /\ A + b <= B /\ B <= 2 * x
      BY <1>0, <2>6, <3>1, <3>2, <3>3, ProductIsNat
    <3> HIDE DEF A, B, x
    <3> QED
      BY <2>6, <3>4
  <2> DEFINE n == x \div b
             m == x % b
  <2>8. n \in Nat /\ m \in Nat /\ m < b /\ x = n * b + m
    <3> HIDE DEF x
    <3> QED
      BY <2>6, QuotientAndRemainder
  <2>9. x = (f * s) * b + r * s
    <3>1. (f * b + r) * s = (f * s) * b + r * s
      BY <1>0, <2>3
    <3> QED
      BY <1>0, <3>1
  <2>10. f * s \in Nat /\ r * s \in Nat /\ f * s + s = (f + 1) * s
    BY <1>0, <2>3
  <2>11. Nearest(x, b) = IF 2 * m > b \/ (2 * m = b /\ n % 2 = 1) THEN n + 1 ELSE n
    BY DEF Nearest
  <2> HIDE DEF n, m, x
  <2>12. f * s <= n
    <3> SUFFICES ASSUME n + 1 <= f * s PROVE FALSE
      BY <2>8, <2>10
    <3>1. n * b + b <= (f * s) * b
      BY <2>8, <2>10, OneMoreBase
    <3>2. n * b \in Nat /\ (f * s) * b \in Nat
      BY <2>8, <2>10, ProductIsNat
    <3> QED
      BY <2>8, <2>9, <2>10, <3>1, <3>2
  <2>13. x + s <= (f * s + s) * b
    <3>1. r * s + s <= b * s
      BY <1>0, <2>3, OneMoreBase
    <3>2. (f * s + s) * b = (f * s) * b + b * s
      BY <2>3, <2>10
    <3>3. (f * s) * b \in Nat /\ b * s \in Nat
      BY <2>3, <2>10, ProductIsNat
    <3> QED
      BY <2>3, <2>9, <2>10, <3>1, <3>2, <3>3
  <2> DEFINE e == f * s
  <2>14. e \in Nat
    BY <2>10
  <2>15. n < e + s
    <3> SUFFICES ASSUME e + s <= n PROVE FALSE
      BY <2>3, <2>8, <2>14
    <3> DEFINE g == e + s
    <3>1. g \in Nat /\ g <= n
      BY <2>3, <2>14
    <3>2. x + s <= g * b
      BY <2>13
    <3> HIDE DEF g, e
    <3>3. PICK c \in Nat : n = g + c
      <4>1. n - g \in Nat /\ n = g + (n - g)
        BY <2>8, <3>1
      <4> QED
        BY <4>1
    <3>4. n * b = g * b + c * b /\ c * b \in Nat /\ g * b \in Nat
      BY <3>1, <3>3
    <3> QED
      BY <2>3, <2>6, <2>8, <3>2, <3>4
  <2>16. Nearest(x, b) < e + s
    <3>1. CASE n + 1 < e + s
      <4> HIDE DEF e
      <4> QED
        BY <2>3, <2>8, <2>11, <2>14, <3>1
    <3>2. CASE n + 1 = e + s
      <4>1. (n + 1) * b = n * b + b /\ n * b \in Nat
        BY <2>8
      <4>2. x + s <= n * b + b
        BY <2>13, <3>2, <4>1
      <4>3. m + s <= b
        <5> DEFINE z == n * b
        <5>1. z \in Nat /\ x = z + m /\ x + s <= z + b
          BY <2>8, <4>1, <4>2
        <5> HIDE DEF z
        <5> QED
          BY <2>3, <2>8, <5>1
      <4>4. 2 * m < b
        BY <2>3, <2>7, <2>8, <4>3
      <4>5. Nearest(x, b) = n
        BY <2>8, <2>11, <4>4
      <4> QED
        BY <2>15, <4>5
    <3> HIDE DEF e
    <3> QED
      BY <2>3, <2>8, <2>14, <2>15, <3>1, <3>2
  <2>17. Nearest(x, b) \in Nat /\ e <= Nearest(x, b)
    <3> HIDE DEF e
    <3> QED
      BY <2>8, <2>11, <2>12, <2>14 DEF e
  <2> DEFINE y == Nearest(x, b)
             t == y - e
  <2>18. t \in Nat /\ t < s /\ y = f * s + t /\ y \in Nat
    <3>1. y \in Nat /\ e <= y /\ y < e + s
      BY <2>16, <2>17
    <3>2. y = e + t /\ t \in Nat /\ t < s
      <4> HIDE DEF e, y
      <4> QED
        BY <2>3, <2>14, <3>1
    <3> QED
      BY <3>1, <3>2
  <2> HIDE DEF y, t
  <2>19. y \div s = f
    BY <1>0, <2>3, <2>18, QuotientIsUnique
  <2> QED
    BY <2>4, <2>19 DEF y, f
<1> QED
  BY <1>1, <1>2

LEMMA RoundedIsExact ==
  ASSUME NEW a \in Nat, a < Mantissas, Mantissas <= 2 ^ MaxExponent
  PROVE  Rounded(a) = a
<1>1. Mantissas * 1 = Mantissas
  BY MantissasIsNat
<1>2. FloorOfFloat(a, 1) = a \div 1
  BY <1>1, FloorIsExact
<1>3. a = a * 1 + 0 /\ 0 < 1
  OBVIOUS
<1>4. a \div 1 = a
  BY <1>3, QuotientIsUnique
<1> QED
  BY <1>2, <1>4 DEF Rounded

-----------------------------------------------------------------------------
(* The long division and the carries.                                      *)
DivisionSteps(p, q, rem, quo) ==
  /\ rem \in [0 .. DigestLen -> Nat] /\ quo \in [1 .. DigestLen -> Nat]
  /\ rem[0] = 0
  /\ \A i \in 1 .. DigestLen : /\ rem[i] < p
                               /\ rem[i - 1] * Base + Diff1Target[i] * q = quo[i] * p + rem[i]

LEMMA DividendIsNat ==
  ASSUME NEW q \in Nat, NEW i \in 1 .. DigestLen, NEW r \in Nat
  PROVE  r * Base + Diff1Target[i] * q \in Nat
<1>1. Diff1Target[i] \in Nat
  BY Diff1Digits, DigitsAreNumbers DEF Targets
<1>2. r * Base \in Nat /\ Diff1Target[i] * q \in Nat
  BY <1>1, ProductIsNat, DigitsAreNumbers
<1> QED
  BY <1>2

LEMMA MaxU32IsNat ==
  MaxU32 \in Nat /\ MaxU32 + 1 = Base ^ WordLen
<1>1. WordLen \in 0 .. MaxPower
  BY Lengths DEF MaxPower
<1>2. Base ^ WordLen \in Nat /\ Base ^ WordLen > 0
  BY <1>1, PowersArePositive
<1> QED
  BY <1>2 DEF MaxU32

\* Every value of an exact division fits a mantissa.
LEMMA DividendFits ==
  ASSUME NEW p \in Nat, p > 0, NEW q \in Nat, Exact(<<p, q>>),
         NEW i \in 1 .. DigestLen, NEW r \in Nat, r < p
  PROVE  r * Base + Diff1Target[i] * q < Mantissas
<1> DEFINE d == Diff1Target[i]
<1>1. d \in Nat /\ d + 1 <= Base /\ Base \in Nat
  BY Diff1Digits, DigitsAreNumbers DEF Targets
<1> HIDE DEF d
<1>2. d * q <= (Base - 1) * q
  <2>1. PICK c \in Nat : Base - 1 = d + c
    <3>1. (Base - 1) - d \in Nat /\ Base - 1 = d + ((Base - 1) - d)
      BY <1>1
    <3> QED
      BY <3>1
  <2>2. (d + c) * q = d * q + c * q /\ c * q \in Nat /\ d * q \in Nat
    BY <1>1
  <2> QED
    BY <2>1, <2>2
<1>3. r * Base <= Base * (p - 1)
  <2>1. PICK c \in Nat : p - 1 = r + c
    <3>1. (p - 1) - r \in Nat /\ p - 1 = r + ((p - 1) - r)
      OBVIOUS
    <3> QED
      BY <3>1
  <2>2. Base * (r + c) = r * Base + c * Base /\ c * Base \in Nat /\ r * Base \in Nat
    BY <1>1
  <2> QED
    BY <2>1, <2>2
<1>4. Base * (p - 1) + (Base - 1) * q < Mantissas
  BY DEF Exact
<1>5. /\ r * Base \in Nat /\ d * q \in Nat /\ Base * (p - 1) \in Nat
      /\ (Base - 1) * q \in Nat
  <2>1. Base - 1 \in Nat /\ p - 1 \in Nat
    BY <1>1
  <2> QED
    BY <1>1, <2>1, ProductIsNat
<1> DEFINE A == r * Base
           B == d * q
           C == Base * (p - 1)
           D == (Base - 1) * q
<1>6. /\ A \in Nat /\ B \in Nat /\ C \in Nat /\ D \in Nat
      /\ A <= C /\ B <= D /\ C + D < Mantissas
  BY <1>2, <1>3, <1>4, <1>5
<1> HIDE DEF A, B, C, D
<1>7. A + B < Mantissas
  BY <1>6, MantissasIsNat
<1> QED
  BY <1>7 DEF A, B, d

LEMMA ScalesSuffice ==
  ASSUME NEW p \in Nat, p > 0, NEW q, Exact(<<p, q>>)
  PROVE  Mantissas <= 2 ^ MaxExponent /\ Mantissas * p <= 2 ^ MaxExponent
<1> DEFINE P == 2 ^ MaxExponent
<1>1. P \in Nat /\ Mantissas * p <= P
  BY PowersOfTwoArePositive, ShareTargetAssumption DEF Exact
<1>2. PICK c \in Nat : p = 1 + c
  <2>1. p - 1 \in Nat /\ p = 1 + (p - 1)
    OBVIOUS
  <2> QED
    BY <2>1
<1> HIDE DEF P
<1>3. Mantissas * p = Mantissas + Mantissas * c /\ Mantissas * c \in Nat
  BY <1>2, MantissasIsNat
<1> QED
  BY <1>1, <1>3, MantissasIsNat DEF P

LEMMA LongDivision ==
  ASSUME NEW p \in Nat, p > 0, NEW q \in Nat, Exact(<<p, q>>)
  PROVE  \E rem, quo :
           /\ DivisionSteps(p, q, rem, quo)
           /\ WideDigits(p, q) =
                [i \in 1 .. DigestLen |-> IF quo[i] > MaxU32 THEN MaxU32 ELSE quo[i]]
<1> DEFINE x(i, r) == r * Base + Diff1Target[i] * q
           val(r, i) == Rounded(x(i, r))
           left(v) == Rounded(v - Rounded(FloorOfFloat(v, p) * p))
           Steps(f) == f = [i \in 0 .. DigestLen |-> IF i = 0 THEN 0 ELSE left(val(f[i - 1], i))]
           rem == CHOOSE f : Steps(f)
           quo == [i \in 1 .. DigestLen |-> FloorOfFloat(val(rem[i - 1], i), p)]
<1>1. ASSUME NEW i \in 1 .. DigestLen, NEW r \in Nat, r < p
      PROVE  /\ FloorOfFloat(val(r, i), p) = x(i, r) \div p
             /\ left(val(r, i)) = x(i, r) % p
  <2> DEFINE v == x(i, r)
             f == v \div p
             m == v % p
  <2>1. v \in Nat
    BY DividendIsNat
  <2>2. v < Mantissas
    BY <1>1, DividendFits
  <2>3. Mantissas <= 2 ^ MaxExponent /\ Mantissas * p <= 2 ^ MaxExponent
    BY ScalesSuffice
  <2> HIDE DEF v
  <2>4. f \in Nat /\ m \in Nat /\ v = f * p + m
    BY <2>1, QuotientAndRemainder
  <2>5. Rounded(v) = v /\ FloorOfFloat(v, p) = f
    BY <2>1, <2>2, <2>3, RoundedIsExact, FloorIsExact
  <2> HIDE DEF f, m
  <2> DEFINE y == f * p
  <2>6. y \in Nat /\ v = y + m /\ y < Mantissas /\ m < Mantissas /\ v - y = m
    <3>1. y \in Nat
      BY <2>4, ProductIsNat
    <3> QED
      BY <2>1, <2>2, <2>4, <3>1, MantissasIsNat
  <2> HIDE DEF y
  <2>7. Rounded(y) = y /\ Rounded(m) = m
    BY <2>3, <2>4, <2>6, RoundedIsExact
  <2>8. Rounded(v - Rounded(FloorOfFloat(v, p) * p)) = m
    BY <2>5, <2>6, <2>7 DEF y
  <2> QED
    BY <2>5, <2>8 DEF v, f, m
<1> HIDE DEF x
<1>2. \A i \in 1 .. DigestLen, r \in Nat : x(i, r) \in Nat
  BY DividendIsNat DEF x
<1> DEFINE G == [e \in (1 .. DigestLen) \X (0 .. p - 1) |-> left(val(e[2], e[1]))]
           R == 0 .. p - 1
<1>3. \A i \in 1 .. DigestLen, r \in R : left(val(r, i)) \in R
  <2> SUFFICES ASSUME NEW i \in 1 .. DigestLen, NEW r \in R PROVE left(val(r, i)) \in R
    OBVIOUS
  <2>1. r \in Nat /\ r < p
    OBVIOUS
  <2>2. left(val(r, i)) = x(i, r) % p /\ x(i, r) \in Nat
    BY <1>1, <1>2, <2>1
  <2> DEFINE v == x(i, r)
  <2> HIDE DEF left, val, v
  <2>3. v % p \in Nat /\ v % p < p
    BY <2>2, QuotientAndRemainder DEF v
  <2> QED
    BY <2>2, <2>3 DEF v
<1> HIDE DEF left, val
<1>4. G \in [(1 .. DigestLen) \X R -> R]
  BY <1>3
<1>5. \A i \in 1 .. DigestLen, r \in R : G[<<i, r>>] = left(val(r, i))
  OBVIOUS
<1>6. 0 \in R
  OBVIOUS
<1> HIDE DEF G, R
<1>7. PICK g : StepsUp(g, DigestLen, R, 0, G)
  BY <1>4, <1>6, StepByStep, Lengths
<1>8. /\ g \in [0 .. DigestLen -> R] /\ g[0] = 0
      /\ \A i \in 1 .. DigestLen : g[i] = G[<<i, g[i - 1]>>]
  BY <1>7 DEF StepsUp
<1>9. \A i \in 1 .. DigestLen : g[i] = left(val(g[i - 1], i))
  <2> SUFFICES ASSUME NEW i \in 1 .. DigestLen PROVE g[i] = left(val(g[i - 1], i))
    OBVIOUS
  <2>1. i - 1 \in 0 .. DigestLen
    BY Lengths
  <2>2. g[i - 1] \in R
    BY <1>8, <2>1
  <2> QED
    BY <1>5, <1>8, <2>2
<1>10. Steps(g)
  BY <1>8, <1>9
<1>11. Steps(rem)
  BY <1>10
<1> HIDE DEF rem
<1>12. /\ rem = [i \in 0 .. DigestLen |-> rem[i]]
       /\ rem[0] = 0
       /\ \A i \in 1 .. DigestLen : rem[i] = left(val(rem[i - 1], i))
  <2>1. rem = [i \in 0 .. DigestLen |-> IF i = 0 THEN 0 ELSE left(val(rem[i - 1], i))]
    BY <1>11
  <2> DEFINE up(i, r) == left(val(r, i))
  <2>2. rem = [i \in 0 .. DigestLen |-> IF i = 0 THEN 0 ELSE up(i, rem[i - 1])]
    BY <2>1
  <2> HIDE DEF up
  <2>3. rem = [i \in 0 .. DigestLen |-> rem[i]] /\ rem[0] = 0
    BY <2>2, Lengths
  <2>4. ASSUME NEW i \in 1 .. DigestLen PROVE rem[i] = up(i, rem[i - 1])
    <3>1. i \in 0 .. DigestLen /\ i # 0
      OBVIOUS
    <3> QED
      BY <2>2, <3>1
  <2> QED
    BY <2>3, <2>4 DEF up
<1> DEFINE S == {i \in 0 .. DigestLen : rem[i] \in R}
<1>13. 0 \in S
  BY <1>6, <1>12, Lengths
<1>14. ASSUME NEW i \in 1 .. DigestLen, i - 1 \in S PROVE i \in S
  <2>1. rem[i - 1] \in R
    BY <1>14
  <2>2. rem[i] \in R
    BY <1>3, <1>12, <2>1
  <2> QED
    BY <2>2
<1> HIDE DEF S
<1>15. \A i \in 0 .. DigestLen : i \in S
  BY <1>13, <1>14, InductionUpTo, Lengths
<1>16. \A i \in 0 .. DigestLen : rem[i] \in Nat /\ rem[i] < p
  BY <1>15 DEF S, R
<1>17. rem \in [0 .. DigestLen -> Nat]
  BY <1>12, <1>16
<1>18. ASSUME NEW i \in 1 .. DigestLen
       PROVE  /\ quo[i] \in Nat
              /\ x(i, rem[i - 1]) = quo[i] * p + rem[i]
  <2>0. i - 1 \in 0 .. DigestLen
    BY Lengths
  <2> DEFINE r == rem[i - 1]
             y == x(i, r)
  <2>1. r \in Nat /\ r < p /\ y \in Nat
    BY <1>2, <1>16, <2>0
  <2>2. rem[i] = left(val(r, i))
    BY <1>12
  <2>3. quo[i] = FloorOfFloat(val(r, i), p)
    OBVIOUS
  <2> HIDE DEF r
  <2>4. quo[i] = y \div p /\ rem[i] = y % p
    BY <1>1, <2>1, <2>2, <2>3
  <2> HIDE DEF y, quo
  <2>5. y \div p \in Nat /\ y = (y \div p) * p + (y % p)
    BY <2>1, QuotientAndRemainder
  <2> QED
    BY <2>4, <2>5 DEF y, r
<1>19. quo \in [1 .. DigestLen -> Nat]
  BY <1>18
<1>20. WideDigits(p, q) = [i \in 1 .. DigestLen |-> AsU32(quo[i])]
  BY DEF WideDigits, quo, rem, x, val, left
<1> HIDE DEF quo
<1>21. \A i \in 1 .. DigestLen : AsU32(quo[i]) = IF quo[i] > MaxU32 THEN MaxU32 ELSE quo[i]
  BY <1>19, MaxU32IsNat DEF AsU32
<1>22. DivisionSteps(p, q, rem, quo)
  <2>1. rem[0] = 0
    BY <1>12
  <2>2. \A i \in 1 .. DigestLen : /\ rem[i] < p
                                  /\ rem[i - 1] * Base + Diff1Target[i] * q = quo[i] * p + rem[i]
    BY <1>16, <1>18 DEF x
  <2> QED
    BY <1>17, <1>19, <2>1, <2>2 DEF DivisionSteps
<1> QED
  BY <1>20, <1>21, <1>22

CarrySteps(wide, carry) ==
  /\ carry \in [1 .. DigestLen -> Nat]
  /\ carry[DigestLen] = 0
  /\ \A i \in 1 .. DigestLen - 1 :
       carry[i] = ((wide[i + 1] + carry[i + 1]) % (MaxU32 + 1)) \div Base

LEMMA Carries ==
  ASSUME NEW wide \in [1 .. DigestLen -> Nat]
  PROVE  \E carry : /\ CarrySteps(wide, carry)
                    /\ Carried(wide) =
                         [i \in 1 .. DigestLen |-> (wide[i] + carry[i]) % Base]
<1> DEFINE M == MaxU32 + 1
           Steps(f) == f = [i \in 1 .. DigestLen |->
                              IF i = DigestLen THEN 0
                              ELSE ((wide[i + 1] + f[i + 1]) % (MaxU32 + 1)) \div Base]
           carry == CHOOSE f : Steps(f)
           next(i, c) == ((wide[i + 1] + c) % M) \div Base
<1>1. \A i \in 0 .. DigestLen - 1, c \in Nat : next(i, c) \in Nat
  <2> SUFFICES ASSUME NEW i \in 0 .. DigestLen - 1, NEW c \in Nat PROVE next(i, c) \in Nat
    OBVIOUS
  <2> DEFINE s == wide[i + 1] + c
  <2>1. s \in Nat /\ M \in Nat /\ M > 0
    BY Lengths, MaxU32IsNat
  <2> HIDE DEF s, M
  <2>2. s % M \in Nat
    BY <2>1, QuotientAndRemainder
  <2> DEFINE t == s % M
  <2> HIDE DEF t
  <2>3. t \div Base \in Nat
    BY <2>2, QuotientAndRemainder, DigitsAreNumbers DEF t
  <2> QED
    BY <2>3 DEF s, t
<1> DEFINE G == [e \in (0 .. DigestLen) \X Nat |->
                   IF e[1] = DigestLen THEN 0 ELSE next(e[1], e[2])]
<1>2. G \in [(0 .. DigestLen) \X Nat -> Nat]
  <2> HIDE DEF next
  <2>1. ASSUME NEW e \in (0 .. DigestLen) \X Nat
        PROVE  (IF e[1] = DigestLen THEN 0 ELSE next(e[1], e[2])) \in Nat
    <3>1. e[1] \in 0 .. DigestLen /\ e[2] \in Nat
      OBVIOUS
    <3>2. e[1] # DigestLen => e[1] \in 0 .. DigestLen - 1
      BY <3>1, Lengths
    <3> QED
      BY <1>1, <3>1, <3>2
  <2> QED
    BY <2>1
<1>3. \A i \in 0 .. DigestLen - 1, c \in Nat : G[<<i, c>>] = next(i, c)
  <2> HIDE DEF next
  <2> QED
    BY Lengths
<1> HIDE DEF G
<1>4. PICK g : StepsDown(g, DigestLen, Nat, 0, G)
  BY <1>2, StepByStepDown, Lengths
<1>5. /\ g \in [0 .. DigestLen -> Nat] /\ g[DigestLen] = 0
      /\ \A i \in 1 .. DigestLen : g[i - 1] = G[<<i - 1, g[i]>>]
  BY <1>4 DEF StepsDown
<1>6. ASSUME NEW i \in 1 .. DigestLen - 1 PROVE g[i] = next(i, g[i + 1])
  <2> DEFINE j == i + 1
  <2>1. j \in 1 .. DigestLen /\ j - 1 = i /\ i \in 0 .. DigestLen - 1
    BY Lengths
  <2> HIDE DEF j, next
  <2>2. g[j - 1] = G[<<j - 1, g[j]>>] /\ g[j] \in Nat
    BY <1>5, <2>1
  <2>3. g[i] = next(i, g[j])
    BY <1>3, <2>1, <2>2
  <2> QED
    BY <2>3 DEF j
<1> DEFINE c == [i \in 1 .. DigestLen |-> g[i]]
<1>7. Steps(c)
  <2>1. c[DigestLen] = 0
    BY <1>5, Lengths
  <2>2. ASSUME NEW i \in 1 .. DigestLen, i # DigestLen PROVE c[i] = next(i, c[i + 1])
    <3>1. i \in 1 .. DigestLen - 1 /\ i + 1 \in 1 .. DigestLen
      BY <2>2, Lengths
    <3> HIDE DEF next
    <3> QED
      BY <1>6, <3>1
  <2>3. c = [i \in 1 .. DigestLen |-> IF i = DigestLen THEN 0 ELSE next(i, c[i + 1])]
    <3> HIDE DEF next
    <3>1. c = [i \in 1 .. DigestLen |-> c[i]]
      OBVIOUS
    <3> HIDE DEF c
    <3> QED
      BY <2>1, <2>2, <3>1
  <2> QED
    BY <2>3
<1>8. Steps(carry)
  <2> HIDE DEF c, Steps
  <2> QED
    BY <1>7
<1> HIDE DEF carry
<1>9. /\ carry = [i \in 1 .. DigestLen |-> carry[i]]
      /\ carry[DigestLen] = 0
      /\ \A i \in 1 .. DigestLen - 1 : carry[i] = next(i, carry[i + 1])
  <2>1. carry = [i \in 1 .. DigestLen |-> IF i = DigestLen THEN 0 ELSE next(i, carry[i + 1])]
    BY <1>8
  <2> HIDE DEF next
  <2>2. carry = [i \in 1 .. DigestLen |-> carry[i]]
    BY <2>1
  <2>3. DigestLen \in 1 .. DigestLen
          /\ \A i \in 1 .. DigestLen - 1 : i \in 1 .. DigestLen /\ i # DigestLen
    BY Lengths
  <2>4. carry[DigestLen] = 0
    BY <2>1, <2>3
  <2>5. ASSUME NEW i \in 1 .. DigestLen - 1 PROVE carry[i] = next(i, carry[i + 1])
    BY <2>1, <2>3
  <2> QED
    BY <2>2, <2>4, <2>5
<1> HIDE DEF next
<1> DEFINE S == {i \in 0 .. DigestLen : i > 0 => carry[i] \in Nat}
<1>10. DigestLen \in S
  BY <1>9, Lengths
<1>11. ASSUME NEW i \in 1 .. DigestLen, i \in S PROVE i - 1 \in S
  <2> SUFFICES ASSUME i - 1 > 0 PROVE carry[i - 1] \in Nat
    BY Lengths
  <2> DEFINE j == i - 1
  <2>1. j \in 1 .. DigestLen - 1 /\ j + 1 = i
    BY Lengths
  <2> HIDE DEF j
  <2>2. i > 0 => carry[i] \in Nat
    BY <1>11
  <2>4. carry[i] \in Nat
    BY <2>2
  <2>5. carry[j] = next(j, carry[j + 1])
    BY <1>9, <2>1
  <2>6. j \in 0 .. DigestLen - 1
    BY <2>1
  <2>3. carry[j] \in Nat
    BY <1>1, <2>1, <2>4, <2>5, <2>6
  <2> QED
    BY <2>3 DEF j
<1> HIDE DEF S
<1>12. \A i \in 0 .. DigestLen : i \in S
  BY <1>10, <1>11, InductionDownFrom, Lengths
<1>13. \A i \in 1 .. DigestLen : carry[i] \in Nat
  BY <1>12, Lengths DEF S
<1>14. carry \in [1 .. DigestLen -> Nat]
  BY <1>9, <1>13
<1>15. CarrySteps(wide, carry)
  BY <1>9, <1>14 DEF CarrySteps, next
<1>16. Carried(wide) = [i \in 1 .. DigestLen |-> (wide[i] + carry[i]) % Base]
  BY DEF Carried, carry
<1> QED
  BY <1>15, <1>16

LEMMA TargetsAreTyped ==
  ASSUME NEW p \in Nat, p > 0, NEW q \in Nat
  PROVE  Carried(WideDigits(p, q)) \in Targets
<1> DEFINE wide == WideDigits(p, q)
<1>1. \A n : AsU32(n) \in Nat
  BY MaxU32IsNat DEF AsU32
<1>2. wide \in [1 .. DigestLen -> Nat]
  BY <1>1 DEF WideDigits
<1> HIDE DEF wide
<1>3. PICK carry : /\ CarrySteps(wide, carry)
                   /\ Carried(wide) = [i \in 1 .. DigestLen |-> (wide[i] + carry[i]) % Base]
  BY <1>2, Carries
<1>4. ASSUME NEW i \in 1 .. DigestLen PROVE (wide[i] + carry[i]) % Base \in Digits
  <2> DEFINE s == wide[i] + carry[i]
  <2>1. s \in Nat
    BY <1>2, <1>3 DEF CarrySteps
  <2> HIDE DEF s
  <2>2. s % Base \in Nat /\ s % Base < Base
    BY <2>1, QuotientAndRemainder, DigitsAreNumbers
  <2>3. s % Base \in Digits
    BY <2>2, DigitsAreNumbers DEF Digits
  <2> QED
    BY <2>3 DEF s
<1> QED
  BY <1>3, <1>4 DEF Targets, wide

\* A quotient digit leaves room for the carry.
LEMMA QuotientsFit ==
  ASSUME NEW p \in Nat, p > 0, NEW q \in Nat, InRange(<<p, q>>),
         NEW rem, NEW quo, DivisionSteps(p, q, rem, quo), NEW i \in 1 .. DigestLen
  PROVE  2 * quo[i] <= MaxU32
<1> DEFINE a == rem[i - 1]
           x == quo[i]
           d == Diff1Target[i]
           M == MaxU32
<1>1. i - 1 \in 0 .. DigestLen
  BY Lengths
<1>2. a \in Nat /\ a < p /\ x \in Nat /\ rem[i] \in Nat
  <2>1. a \in Nat /\ x \in Nat /\ rem[i] \in Nat
    BY <1>1 DEF DivisionSteps
  <2>2. CASE i = 1
    BY <2>2 DEF DivisionSteps
  <2>3. CASE i # 1
    <3>1. i - 1 \in 1 .. DigestLen
      BY <2>3, Lengths
    <3> QED
      BY <3>1 DEF DivisionSteps
  <2> QED
    BY <2>1, <2>2, <2>3
<1>3. d \in Nat /\ d + 1 <= Base
  BY Diff1Digits, DigitsAreNumbers DEF Targets
<1>4. a * Base + d * q = x * p + rem[i]
  BY DEF DivisionSteps
<1>5. 2 * (Base * p + (Base - 1) * q) <= M * p
  BY DEF InRange
<1>6. M \in Nat
  BY MaxU32IsNat
<1>7. Base \in Nat
  BY DigitsAreNumbers
<1> HIDE DEF a, x, d, M
<1>8. a * Base + Base <= p * Base
  BY <1>2, <1>7, OneMoreBase
<1>9. d * q <= (Base - 1) * q
  <2>1. PICK c \in Nat : Base - 1 = d + c
    <3>1. (Base - 1) - d \in Nat /\ Base - 1 = d + ((Base - 1) - d)
      BY <1>3, <1>7
    <3> QED
      BY <3>1
  <2>2. (d + c) * q = d * q + c * q /\ c * q \in Nat /\ d * q \in Nat
    BY <1>3
  <2> QED
    BY <2>1, <2>2
<1>10. /\ a * Base \in Nat /\ d * q \in Nat /\ p * Base \in Nat /\ x * p \in Nat
       /\ (Base - 1) * q \in Nat /\ M * p \in Nat /\ Base * p = p * Base
  <2>1. Base - 1 \in Nat
    BY DigitsAreNumbers
  <2>2. Base * p = p * Base
    BY <1>7
  <2> QED
    BY <1>2, <1>3, <1>6, <1>7, <2>1, <2>2, ProductIsNat
<1>11. 2 * (x * p) <= M * p
  <2> DEFINE A == a * Base
             D == d * q
             P == p * Base
             X == x * p
             E == (Base - 1) * q
             N == M * p
  <2>1. /\ A \in Nat /\ D \in Nat /\ P \in Nat /\ X \in Nat /\ E \in Nat /\ N \in Nat
        /\ A + Base <= P /\ D <= E /\ A + D = X + rem[i] /\ 2 * (P + E) <= N
    BY <1>4, <1>5, <1>8, <1>9, <1>10
  <2> HIDE DEF A, D, P, X, E, N
  <2>2. 2 * X <= N
    BY <1>2, <1>7, <2>1
  <2> QED
    BY <2>2 DEF X, N
<1>12. ~(M < 2 * x)
  <2> SUFFICES ASSUME M + 1 <= 2 * x PROVE FALSE
    BY <1>2, <1>6
  <2>1. M * p + p <= (2 * x) * p
    BY <1>2, <1>6, OneMoreBase
  <2>2. (2 * x) * p = 2 * (x * p)
    BY <1>2
  <2> QED
    BY <1>10, <1>11, <2>1, <2>2
<1>13. 2 * x <= M
  BY <1>2, <1>6, <1>12
<1> QED
  BY <1>13 DEF x, M

\* Carries out of each digit, and the digits left, when nothing wraps around.
CarriedSteps(quo, c, out) ==
  /\ c \in [0 .. DigestLen -> Nat] /\ c[DigestLen] = 0
  /\ out \in Targets
  /\ \A i \in 1 .. DigestLen : quo[i] + c[i] = c[i - 1] * Base + out[i]

LEMMA NothingWraps ==
  ASSUME NEW p \in Nat, p > 0, NEW q \in Nat, InRange(<<p, q>>),
         NEW rem, NEW quo, DivisionSteps(p, q, rem, quo),
         WideDigits(p, q) = [i \in 1 .. DigestLen |-> IF quo[i] > MaxU32 THEN MaxU32 ELSE quo[i]]
  PROVE  \E c : /\ CarriedSteps(quo, c, Carried(WideDigits(p, q)))
                /\ \A i \in 1 .. DigestLen : c[i] <= MaxU32
<1> DEFINE wide == WideDigits(p, q)
           out == Carried(wide)
           M == MaxU32
<1>1. M \in Nat
  BY MaxU32IsNat
<1>2. ASSUME NEW i \in 1 .. DigestLen
      PROVE  quo[i] \in Nat /\ 2 * quo[i] <= M /\ wide[i] = quo[i]
  <2>1. quo[i] \in Nat
    BY DEF DivisionSteps
  <2>2. 2 * quo[i] <= M
    BY QuotientsFit
  <2>3. quo[i] <= M
    BY <1>1, <2>1, <2>2
  <2> HIDE DEF M
  <2>4. wide[i] = IF quo[i] > M THEN M ELSE quo[i]
    BY DEF M
  <2> HIDE DEF wide
  <2> QED
    BY <1>1, <2>1, <2>2, <2>3, <2>4
<1>3. wide \in [1 .. DigestLen -> Nat]
  BY <1>2
<1>4. out \in Targets
  BY TargetsAreTyped
<1> HIDE DEF wide
<1>5. PICK carry : /\ CarrySteps(wide, carry)
                   /\ out = [i \in 1 .. DigestLen |-> (wide[i] + carry[i]) % Base]
  BY <1>3, Carries
<1> HIDE DEF out
<1>6. \A i \in 1 .. DigestLen : carry[i] \in Nat
  BY <1>5 DEF CarrySteps
<1> DEFINE S == {i \in 0 .. DigestLen : i > 0 => 2 * carry[i] <= M}
           T(i) == (wide[i] + carry[i]) \div Base
<1>7. DigestLen \in S
  BY <1>1, <1>5, Lengths DEF CarrySteps
<1>8. ASSUME NEW i \in 1 .. DigestLen, i \in S
      PROVE  /\ T(i) \in Nat /\ 2 * T(i) <= M
             /\ wide[i] + carry[i] = T(i) * Base + out[i]
             /\ i - 1 > 0 => carry[i - 1] = T(i)
  <2> DEFINE s == wide[i] + carry[i]
  <2>1. s \in Nat /\ s <= M
    BY <1>1, <1>2, <1>6, <1>8
  <2>2. out[i] = s % Base
    BY <1>5
  <2>3. i - 1 > 0 => carry[i - 1] = (s % (M + 1)) \div Base
    <3> SUFFICES ASSUME i - 1 > 0 PROVE carry[i - 1] = (s % (M + 1)) \div Base
      OBVIOUS
    <3> DEFINE j == i - 1
    <3>1. j \in 1 .. DigestLen - 1 /\ j + 1 = i
      BY Lengths
    <3> HIDE DEF j
    <3>2. carry[j] = ((wide[j + 1] + carry[j + 1]) % (MaxU32 + 1)) \div Base
      BY <1>5, <3>1 DEF CarrySteps
    <3> QED
      BY <3>1, <3>2 DEF j
  <2>4. T(i) = s \div Base
    OBVIOUS
  <2> HIDE DEF s, T, M
  <2>5. s % (M + 1) = s
    <3>1. M + 1 \in Nat /\ M + 1 > 0 /\ s < M + 1 /\ s = 0 * (M + 1) + s
      BY <1>1, <2>1
    <3> QED
      BY <2>1, <3>1, QuotientIsUnique
  <2>6. /\ s \div Base \in Nat /\ s % Base \in Nat
        /\ s = (s \div Base) * Base + (s % Base)
    BY <2>1, QuotientAndRemainder, DigitsAreNumbers
  <2>7. 2 * T(i) <= M
    <3> DEFINE t == s \div Base
               r == s % Base
    <3>1. t \in Nat /\ r \in Nat /\ s = t * Base + r
      BY <2>6
    <3> HIDE DEF t, r
    <3>2. 2 * t <= t * Base
      <4>1. PICK c \in Nat : Base = 2 + c
        <5>1. Base - 2 \in Nat /\ Base = 2 + (Base - 2)
          BY DigitsAreNumbers
        <5> QED
          BY <5>1
      <4>2. t * (2 + c) = 2 * t + t * c /\ t * c \in Nat
        BY <3>1
      <4> QED
        BY <3>1, <4>1, <4>2
    <3>3. t * Base \in Nat
      BY <3>1, ProductIsNat, DigitsAreNumbers
    <3>4. 2 * t <= M
      BY <1>1, <2>1, <3>1, <3>2, <3>3
    <3> QED
      BY <2>4, <3>4 DEF t
  <2>8. s = wide[i] + carry[i]
    BY DEF s
  <2> QED
    BY <2>2, <2>3, <2>4, <2>5, <2>6, <2>7, <2>8
<1>9. ASSUME NEW i \in 1 .. DigestLen, i \in S PROVE i - 1 \in S
  <2> HIDE DEF T, M
  <2>1. i - 1 \in 0 .. DigestLen
    BY Lengths
  <2>2. i - 1 > 0 => 2 * carry[i - 1] <= M
    BY <1>8, <1>9
  <2> QED
    BY <2>1, <2>2
<1> HIDE DEF S, T
<1>10. \A i \in 0 .. DigestLen : i \in S
  BY <1>7, <1>9, InductionDownFrom, Lengths
<1> DEFINE c == [i \in 0 .. DigestLen |-> IF i = 0 THEN T(1) ELSE carry[i]]
<1>11. c[0] = T(1) /\ \A i \in 1 .. DigestLen : c[i] = carry[i]
  BY Lengths
<1>12. 1 \in 1 .. DigestLen /\ 1 \in S
  <2>1. 1 \in 0 .. DigestLen /\ 1 \in 1 .. DigestLen
    BY Lengths
  <2> QED
    BY <1>10, <2>1
<1>13. c \in [0 .. DigestLen -> Nat]
  <2>1. T(1) \in Nat
    BY <1>8, <1>12
  <2>2. \A i \in 0 .. DigestLen : i # 0 => i \in 1 .. DigestLen
    BY Lengths
  <2> QED
    BY <1>6, <2>1, <2>2
<1> HIDE DEF c
<1>14. c[DigestLen] = 0
  BY <1>5, <1>11, Lengths DEF CarrySteps
<1>15. ASSUME NEW i \in 1 .. DigestLen PROVE quo[i] + c[i] = c[i - 1] * Base + out[i]
  <2>1. i \in S
    BY <1>10
  <2>2. /\ wide[i] + carry[i] = T(i) * Base + out[i]
        /\ i - 1 > 0 => carry[i - 1] = T(i)
    BY <1>8, <2>1
  <2>3. c[i - 1] = T(i)
    <3>1. CASE i = 1
      BY <1>11, <3>1
    <3>2. CASE i # 1
      <4>1. i - 1 \in 1 .. DigestLen /\ i - 1 > 0
        BY <3>2, Lengths
      <4> QED
        BY <1>11, <2>2, <4>1
    <3> QED
      BY <3>1, <3>2
  <2> QED
    BY <1>2, <1>11, <2>2, <2>3
<1>16. \A i \in 1 .. DigestLen : c[i] <= M
  <2> SUFFICES ASSUME NEW i \in 1 .. DigestLen PROVE c[i] <= M
    OBVIOUS
  <2>1. i \in 0 .. DigestLen /\ i > 0
    BY Lengths
  <2>2. 2 * carry[i] <= M
    BY <1>10, <2>1 DEF S
  <2> QED
    BY <1>1, <1>6, <1>11, <2>2
<1>17. CarriedSteps(quo, c, out)
  BY <1>4, <1>13, <1>14, <1>15 DEF CarriedSteps
<1> QED
  BY <1>16, <1>17 DEF out, wide

LEMMA DivisionValue ==
  ASSUME NEW p \in Nat, p > 0, NEW q \in Nat, NEW rem, NEW quo, DivisionSteps(p, q, rem, quo),
         NEW w, ValueSteps(w, DigestLen, quo), NEW v, ValueSteps(v, DigestLen, Diff1Target)
  PROVE  w[DigestLen] = (v[DigestLen] * q) \div p
<1>1. /\ \A i \in 0 .. DigestLen : w[i] \in Nat /\ v[i] \in Nat /\ rem[i] \in Nat
      /\ \A i \in 1 .. DigestLen : quo[i] \in Nat /\ Diff1Target[i] \in Nat
  BY Diff1Digits, DigitsAreNumbers DEF ValueSteps, DivisionSteps, Targets
<1> DEFINE S == {i \in 0 .. DigestLen : w[i] * p + rem[i] = v[i] * q}
<1>2. 0 \in S
  <2>1. w[0] = 0 /\ v[0] = 0 /\ rem[0] = 0
    BY DEF ValueSteps, DivisionSteps
  <2>2. 0 * p + 0 = 0 * q
    OBVIOUS
  <2> QED
    BY <2>1, <2>2, Lengths
<1>3. ASSUME NEW i \in 1 .. DigestLen, i - 1 \in S PROVE i \in S
  <2> DEFINE a == w[i - 1]
             b == v[i - 1]
             r == rem[i - 1]
             x == quo[i]
             d == Diff1Target[i]
  <2>1. i - 1 \in 0 .. DigestLen /\ i \in 0 .. DigestLen
    BY Lengths
  <2>2. /\ a \in Nat /\ b \in Nat /\ r \in Nat /\ x \in Nat /\ d \in Nat
        /\ rem[i] \in Nat /\ Base \in Nat
    BY <1>1, <2>1, DigitsAreNumbers
  <2>3. a * p + r = b * q
    BY <1>3
  <2>4. w[i] = a * Base + x /\ v[i] = b * Base + d
    BY DEF ValueSteps
  <2>5. r * Base + d * q = x * p + rem[i]
    BY DEF DivisionSteps
  <2> HIDE DEF a, b, r, x, d
  <2>6. (a * Base + x) * p + rem[i] = (a * p) * Base + (x * p + rem[i])
    BY <2>2
  <2>7. (b * Base + d) * q = (b * q) * Base + d * q
    BY <2>2
  <2>8. (a * p + r) * Base = (a * p) * Base + r * Base
    BY <2>2
  <2>9. /\ (a * p) * Base \in Nat /\ r * Base \in Nat /\ d * q \in Nat /\ x * p \in Nat
        /\ (b * q) * Base \in Nat
    BY <2>2, ProductIsNat
  <2>10. (a * Base + x) * p + rem[i] = (b * Base + d) * q
    <3>1. (b * q) * Base = (a * p) * Base + r * Base
      BY <2>3, <2>8
    <3> QED
      BY <2>2, <2>5, <2>6, <2>7, <2>9, <3>1
  <2>11. w[i] * p + rem[i] = v[i] * q
    BY <2>4, <2>10
  <2> QED
    BY <2>1, <2>11
<1> HIDE DEF S
<1>4. \A i \in 0 .. DigestLen : i \in S
  BY <1>2, <1>3, InductionUpTo, Lengths
<1>5. DigestLen \in 0 .. DigestLen /\ DigestLen \in 1 .. DigestLen
  BY Lengths
<1>6. w[DigestLen] * p + rem[DigestLen] = v[DigestLen] * q
  BY <1>4, <1>5 DEF S
<1>7. rem[DigestLen] < p
  BY <1>5 DEF DivisionSteps
<1> DEFINE a == w[DigestLen]
           r == rem[DigestLen]
           y == v[DigestLen] * q
<1>8. a \in Nat /\ r \in Nat /\ y \in Nat /\ y = a * p + r /\ r < p
  <2>1. a \in Nat /\ r \in Nat /\ v[DigestLen] \in Nat
    BY <1>1, <1>5
  <2>2. y \in Nat
    BY <2>1, ProductIsNat
  <2> QED
    BY <1>6, <1>7, <2>1, <2>2
<1> HIDE DEF a, r, y
<1>9. y \div p = a
  BY <1>8, QuotientIsUnique
<1> QED
  BY <1>9 DEF a, y

\* The first word of the quotient is zero, as that of the dividend is.
LEMMA FirstWordIsZero ==
  ASSUME NEW p \in Nat, p > 0, NEW q \in Nat, NEW rem, NEW quo, DivisionSteps(p, q, rem, quo),
         NEW w, ValueSteps(w, DigestLen, quo)
  PROVE  w[WordLen] = 0
<1> DEFINE S == {i \in 0 .. WordLen : rem[i] = 0 /\ w[i] = 0}
<1>1. 0 \in S
  BY Lengths DEF ValueSteps, DivisionSteps
<1>2. ASSUME NEW i \in 1 .. WordLen, i - 1 \in S PROVE i \in S
  <2>1. i \in 1 .. DigestLen /\ i \in 0 .. DigestLen
    BY Lengths
  <2>2. rem[i - 1] = 0 /\ w[i - 1] = 0 /\ Diff1Target[i] = 0
    BY <1>2, Diff1Digits
  <2>3. quo[i] \in Nat /\ rem[i] \in Nat
    BY <2>1 DEF DivisionSteps
  <2>4. 0 * Base + 0 * q = quo[i] * p + rem[i]
    BY <2>1, <2>2 DEF DivisionSteps
  <2>5. w[i] = 0 * Base + quo[i]
    BY <2>1, <2>2 DEF ValueSteps
  <2> DEFINE x == quo[i]
             r == rem[i]
  <2>6. x * p + r = 0 /\ x \in Nat /\ r \in Nat
    BY <2>3, <2>4, DigitsAreNumbers
  <2> HIDE DEF x, r
  <2>7. x * p \in Nat
    BY <2>6, ProductIsNat
  <2>8. r = 0 /\ x * p = 0
    BY <2>6, <2>7
  <2>9. x = 0
    BY <2>6, <2>8
  <2>10. r = rem[i] /\ x = quo[i]
    BY DEF r, x
  <2>11. w[i] = 0
    BY <2>5, <2>9, <2>10, DigitsAreNumbers
  <2> QED
    BY <2>8, <2>10, <2>11
<1> HIDE DEF S
<1>3. \A i \in 0 .. WordLen : i \in S
  BY <1>1, <1>2, InductionUpTo, Lengths
<1>4. WordLen \in 0 .. WordLen
  BY Lengths
<1> QED
  BY <1>3, <1>4 DEF S

LEMMA CarriedValue ==
  ASSUME NEW quo, NEW c, NEW out, CarriedSteps(quo, c, out), quo \in [1 .. DigestLen -> Nat],
         NEW w, ValueSteps(w, DigestLen, quo), NEW v, ValueSteps(v, DigestLen, out),
         w[WordLen] = 0, c[WordLen] <= MaxU32
  PROVE  w[DigestLen] = v[DigestLen]
<1> DEFINE z == c[0]
           S == {i \in 0 .. DigestLen : v[i] + z * Base ^ i = w[i] + c[i]}
<1>1. /\ \A i \in 0 .. DigestLen : w[i] \in Nat /\ v[i] \in Nat /\ c[i] \in Nat
      /\ \A i \in 1 .. DigestLen : quo[i] \in Nat /\ out[i] \in Nat
  BY DigitsAreNumbers DEF ValueSteps, CarriedSteps, Targets
<1>2. z \in Nat
  BY <1>1, Lengths
<1>3. 0 \in S
  <2>1. v[0] = 0 /\ w[0] = 0 /\ Base ^ 0 = 1
    BY PowersArePositive DEF ValueSteps
  <2>2. 0 + z * 1 = 0 + z
    BY <1>2
  <2> QED
    BY <2>1, <2>2, Lengths
<1>4. \A i \in 0 .. DigestLen : i \in 0 .. MaxPower
  BY Lengths DEF MaxPower
<1>5. ASSUME NEW i \in 1 .. DigestLen, i - 1 \in S PROVE i \in S
  <2> DEFINE a == w[i - 1]
             b == v[i - 1]
             e == c[i - 1]
             P == Base ^ (i - 1)
             x == quo[i]
             d == out[i]
  <2>1. i - 1 \in 0 .. DigestLen /\ i \in 0 .. DigestLen
    BY Lengths
  <2>2. P \in Nat /\ Base ^ i = Base * P
    <3>1. i - 1 \in 0 .. MaxPower /\ i \in 1 .. MaxPower
      BY <1>4, <2>1, Lengths DEF MaxPower
    <3> QED
      BY <3>1, PowersArePositive
  <2>3. /\ a \in Nat /\ b \in Nat /\ e \in Nat /\ x \in Nat /\ d \in Nat
        /\ c[i] \in Nat /\ Base \in Nat
    BY <1>1, <2>1, DigitsAreNumbers
  <2>4. b + z * P = a + e
    BY <1>5
  <2>5. w[i] = a * Base + x /\ v[i] = b * Base + d
    BY DEF ValueSteps
  <2>6. x + c[i] = e * Base + d
    BY DEF CarriedSteps
  <2> HIDE DEF a, b, e, P, x, d, z
  <2>7. (b + z * P) * Base = b * Base + z * (Base * P)
    BY <1>2, <2>2, <2>3
  <2>8. (a + e) * Base = a * Base + e * Base
    BY <2>3
  <2>9. z * (Base * P) \in Nat /\ a * Base \in Nat /\ b * Base \in Nat /\ e * Base \in Nat
    <3>1. Base * P \in Nat
      BY <2>2, <2>3, ProductIsNat
    <3> QED
      BY <1>2, <2>3, <3>1, ProductIsNat
  <2>10. b * Base + z * (Base * P) = a * Base + e * Base
    BY <2>4, <2>7, <2>8
  <2>11. (b * Base + d) + z * (Base * P) = (a * Base + x) + c[i]
    <3> DEFINE A == a * Base
               B == b * Base
               E == e * Base
               Z == z * (Base * P)
    <3>1. /\ A \in Nat /\ B \in Nat /\ E \in Nat /\ Z \in Nat
          /\ B + Z = A + E /\ x + c[i] = E + d
      BY <2>6, <2>9, <2>10
    <3> HIDE DEF A, B, E, Z
    <3>2. (B + d) + Z = (A + x) + c[i]
      BY <2>3, <3>1
    <3> QED
      BY <3>2 DEF A, B, Z
  <2>12. v[i] + z * Base ^ i = w[i] + c[i]
    BY <2>2, <2>5, <2>11
  <2> QED
    BY <2>1, <2>12 DEF z
<1> HIDE DEF S
<1>6. \A i \in 0 .. DigestLen : i \in S
  BY <1>3, <1>5, InductionUpTo, Lengths
<1>7. WordLen \in 0 .. DigestLen /\ DigestLen \in 0 .. DigestLen
  BY Lengths
<1>8. v[WordLen] + z * Base ^ WordLen = c[WordLen]
  <2>1. v[WordLen] + z * Base ^ WordLen = w[WordLen] + c[WordLen]
    BY <1>6, <1>7 DEF S
  <2> QED
    BY <1>1, <1>7, <2>1
<1>9. z = 0
  <2> DEFINE P == Base ^ WordLen
  <2>1. P \in Nat /\ c[WordLen] < P /\ v[WordLen] \in Nat /\ c[WordLen] \in Nat
    BY <1>1, <1>7, MaxU32IsNat
  <2>2. v[WordLen] + z * P = c[WordLen]
    BY <1>8
  <2> HIDE DEF P, z
  <2>3. z * P \in Nat
    BY <1>2, <2>1, ProductIsNat
  <2>4. z * P < P
    BY <2>1, <2>2, <2>3
  <2> SUFFICES ASSUME 0 + 1 <= z PROVE FALSE
    BY <1>2
  <2>5. 0 * P + P <= z * P
    BY <1>2, <2>1, OneMoreBase
  <2> QED
    BY <2>1, <2>3, <2>4, <2>5
<1>10. v[DigestLen] + z * Base ^ DigestLen = w[DigestLen] + c[DigestLen]
  BY <1>6, <1>7 DEF S
<1>11. 0 * Base ^ DigestLen = 0
  BY <1>4, <1>7, PowersArePositive
<1> HIDE DEF z
<1>12. v[DigestLen] + 0 = w[DigestLen] + 0
  BY <1>9, <1>10, <1>11 DEF CarriedSteps
<1> QED
  BY <1>1, <1>7, <1>12

LEMMA CarriedQuotient ==
  ASSUME NEW p \in Nat, p > 0, NEW q \in Nat, InRange(<<p, q>>), Exact(<<p, q>>)
  PROVE  Value(Carried(WideDigits(p, q))) = (Value(Diff1Target) * q) \div p
<1> DEFINE out == Carried(WideDigits(p, q))
<1>1. PICK rem, quo : /\ DivisionSteps(p, q, rem, quo)
                      /\ WideDigits(p, q) =
                           [i \in 1 .. DigestLen |-> IF quo[i] > MaxU32 THEN MaxU32 ELSE quo[i]]
  BY LongDivision
<1>2. PICK c : CarriedSteps(quo, c, out) /\ \A i \in 1 .. DigestLen : c[i] <= MaxU32
  BY <1>1, NothingWraps
<1> HIDE DEF out
<1>3. /\ quo \in [1 .. DigestLen -> Nat] /\ out \in [1 .. DigestLen -> Nat]
      /\ Diff1Target \in [1 .. DigestLen -> Nat]
  BY <1>1, <1>2, Diff1Digits, DigitsAreNumbers DEF DivisionSteps, CarriedSteps, Targets
<1>4. PICK w : ValueSteps(w, DigestLen, quo)
  BY <1>3, Lengths, ValueStepsExist
<1>5. PICK v : ValueSteps(v, DigestLen, out) /\ Value(out) = v[DigestLen]
  BY <1>3, Lengths, ValueIsLast
<1>6. PICK u : ValueSteps(u, DigestLen, Diff1Target) /\ Value(Diff1Target) = u[DigestLen]
  BY <1>3, Lengths, ValueIsLast
<1>7. w[WordLen] = 0
  BY <1>1, <1>4, FirstWordIsZero
<1>8. c[WordLen] <= MaxU32
  BY <1>2, Lengths
<1>9. w[DigestLen] = v[DigestLen]
  BY <1>2, <1>3, <1>4, <1>5, <1>7, <1>8, CarriedValue
<1>10. w[DigestLen] = (u[DigestLen] * q) \div p
  BY <1>1, <1>4, <1>6, DivisionValue
<1> QED
  BY <1>5, <1>6, <1>9, <1>10 DEF out

-----------------------------------------------------------------------------
(* The target of a piece of work is that of the difficulty it was made     *)
(* with.                                                                   *)
Fraction(d) == d[1] \in Int /\ d[2] \in Nat \ {0}

LEMMA DifficultyHasTarget ==
  ASSUME NEW d, Fraction(d)
  PROVE  /\ DifficultyToTarget(d) \in Targets
         /\ InRange(d) /\ Exact(d) => Value(DifficultyToTarget(d)) = Quotient(d)
<1> DEFINE p == d[1]
           q == d[2]
<1>1. p \in Int /\ q \in Nat /\ q > 0
  BY DEF Fraction
<1>2. /\ InRange(d) => InRange(<<p, q>>) /\ p > 0
      /\ Exact(d) => Exact(<<p, q>>)
      /\ Quotient(d) = (Value(Diff1Target) * q) \div p
  BY DEF InRange, Exact, Quotient
<1>3. DifficultyToTarget(d) =
        IF p <= 0 \/ p = q THEN Diff1Target ELSE Carried(WideDigits(p, q))
  BY DEF DifficultyToTarget
<1> HIDE DEF p, q
<1>4. CASE p <= 0
  BY <1>1, <1>2, <1>3, <1>4, Diff1Digits
<1>5. CASE p > 0 /\ p = q
  <2>1. DifficultyToTarget(d) = Diff1Target
    BY <1>3, <1>5
  <2> DEFINE x == Value(Diff1Target)
  <2>2. x \in Nat
    BY Diff1Digits, ValueOrder, Lengths DEF Targets
  <2> HIDE DEF x
  <2>3. x * q = x * p + 0 /\ x * q \in Nat /\ 0 < p /\ p \in Nat
    BY <1>1, <1>5, <2>2
  <2>4. (x * q) \div p = x
    BY <2>2, <2>3, QuotientIsUnique
  <2> QED
    BY <1>2, <2>1, <2>4, Diff1Digits DEF x
<1>6. CASE p > 0 /\ p # q
  <2>1. DifficultyToTarget(d) = Carried(WideDigits(p, q))
    BY <1>1, <1>3, <1>6
  <2>2. Carried(WideDigits(p, q)) \in Targets
    BY <1>1, <1>6, TargetsAreTyped
  <2>3. InRange(d) /\ Exact(d)
          => Value(Carried(WideDigits(p, q))) = (Value(Diff1Target) * q) \div p
    BY <1>1, <1>2, <1>6, CarriedQuotient
  <2> QED
    BY <1>2, <2>1, <2>2, <2>3
<1> QED
  BY <1>1, <1>4, <1>5, <1>6

TargetInv ==
  /\ Fraction(difficulty)
  /\ \A device \in Devices : work[device] # NoWork =>
       /\ Fraction(work[device].difficulty)
       /\ work[device].target = DifficultyToTarget(work[device].difficulty)

LEMMA TargetInvStep ==
  ASSUME TargetInv, [Next]_vars
  PROVE  TargetInv'
<1> USE DEF TargetInv
<1>1. CASE UNCHANGED vars
  BY <1>1 DEF vars
<1>2. ASSUME NEW n \in Sizes, Connect(n) PROVE TargetInv'
  <2>1. Fraction(<<1, 1>>)
    BY DEF Fraction
  <2>2. difficulty' = <<1, 1>> /\ UNCHANGED work
    BY <1>2 DEF Connect
  <2> QED
    BY <2>1, <2>2
<1>3. CASE ConnectionLost
  BY <1>3 DEF ConnectionLost
<1>4. ASSUME NEW d \in Difficulties, SetDifficulty(d) PROVE TargetInv'
  <2>1. Fraction(d)
    BY ShareJourneyAssumption, PowersOfTwoArePositive DEF Fraction, IsFloat
  <2>2. difficulty' = d /\ UNCHANGED work
    BY <1>4 DEF SetDifficulty
  <2> QED
    BY <2>1, <2>2
<1>5. ASSUME NEW j \in DOMAIN Jobs, Notify(j) PROVE TargetInv'
  <2>1. UNCHANGED difficulty
    BY <1>5 DEF Notify
  <2>2. CASE UNCHANGED work
    BY <2>1, <2>2
  <2>3. CASE work' = [d \in Devices |-> WorkOf(d, Template(FromParams(Announced(j))))]
    <3>1. \A d \in Devices : /\ work'[d].difficulty = difficulty
                             /\ work'[d].target = DifficultyToTarget(difficulty)
      BY <2>3 DEF WorkOf
    <3> QED
      BY <2>1, <3>1
  <2> QED
    BY <1>5, <2>2, <2>3 DEF Notify
<1>6. ASSUME NEW device \in Devices, NEW nonce \in Nonces, Find(device, nonce) PROVE TargetInv'
  BY <1>6 DEF Find
<1>7. CASE Submit
  BY <1>7 DEF Submit
<1> QED
  BY <1>1, <1>2, <1>3, <1>4, <1>5, <1>6, <1>7 DEF Next

THEOREM TargetInvCorrect == Spec => []TargetInv
<1>1. Init => TargetInv
  <2> SUFFICES ASSUME Init PROVE TargetInv
    OBVIOUS
  <2>1. Fraction(<<1, 1>>)
    BY DEF Fraction
  <2>2. difficulty = <<1, 1>> /\ \A d \in Devices : work[d] = NoWork
    BY DEF Init
  <2> QED
    BY <2>1, <2>2 DEF TargetInv
<1> QED
  BY <1>1, TargetInvStep, PTL DEF Spec

(* The long division of difficulty_to_target, in floats, yields the target *)
(* of difficulty 1 divided by the difficulty, rounded down, for every      *)
(* base, width of the words and precision, and every difficulty within     *)
(* the range that has few enough bits: of those nothing is rounded, no     *)
(* quotient up to the next integer either.                                 *)
THEOREM TargetIsQuotientHolds == Spec => []TargetIsQuotient
<1>1. TargetInv => TargetIsQuotient
  <2> SUFFICES ASSUME TargetInv, NEW device \in Devices, work[device] # NoWork,
                      InRange(work[device].difficulty), Exact(work[device].difficulty)
               PROVE  Value(work[device].target) = Quotient(work[device].difficulty)
    BY DEF TargetIsQuotient
  <2> DEFINE d == work[device].difficulty
  <2>1. /\ Fraction(d) /\ work[device].target = DifficultyToTarget(d)
        /\ InRange(d) /\ Exact(d)
    BY DEF TargetInv
  <2> HIDE DEF d
  <2>2. Value(DifficultyToTarget(d)) = Quotient(d)
    BY <2>1, DifficultyHasTarget
  <2> QED
    BY <2>1, <2>2 DEF d
<1> QED
  BY <1>1, TargetInvCorrect, PTL

(* The early exit of the CPU loop, its comparison byte by byte and the     *)
(* kernel's word by word accept the same hashes, those that do not exceed  *)
(* the target as big-endian numbers; of every base and width.              *)
THEOREM TestsAgreeHolds == Spec => []TestsAgree
<1>1. TargetInv => TestsAgree
  <2> SUFFICES ASSUME TargetInv, NEW target \in TargetsHeld, NEW hash \in Probes(target)
               PROVE  LET low == Value(hash) <= Value(target)
                      IN  /\ MeetsTargetBE(hash, target) <=> low
                          /\ CpuAccepts(hash, target) <=> low
                          /\ GpuAccepts(hash, target) <=> low
    BY DEF TestsAgree
  <2>1. target \in Targets
    <3>1. PICK d \in Devices : work[d] # NoWork /\ target = work[d].target
      BY DEF TargetsHeld
    <3>2. Fraction(work[d].difficulty) /\ target = DifficultyToTarget(work[d].difficulty)
      BY <3>1 DEF TargetInv
    <3> QED
      BY <3>2, DifficultyHasTarget
  <2>2. hash \in Targets
    <3>1. 0 \in Digits /\ Base - 1 \in Digits
      BY DigitsAreNumbers DEF Digits
    <3>2. CASE hash = target
      BY <2>1, <3>2
    <3>3. ASSUME NEW i \in 1 .. DigestLen, NEW x \in Digits, NEW y \in {0, Base - 1},
                 hash = [k \in 1 .. DigestLen |->
                           IF k < i THEN target[k] ELSE IF k = i THEN x ELSE y]
          PROVE  hash \in Targets
      <4>1. y \in Digits
        BY <3>1
      <4> QED
        BY <2>1, <3>3, <4>1 DEF Targets
    <3>4. hash = target \/ \E i \in 1 .. DigestLen, x \in Digits, y \in {0, Base - 1} :
            hash = [k \in 1 .. DigestLen |->
                      IF k < i THEN target[k] ELSE IF k = i THEN x ELSE y]
      BY DEF Probes
    <3> HIDE DEF Targets
    <3> QED
      BY <3>2, <3>3, <3>4, Zenon
  <2> QED
    BY <2>1, <2>2, BytesTestIsOrder, CpuTestIsOrder, GpuTestIsOrder
<1> QED
  BY <1>1, TargetInvCorrect, PTL

-----------------------------------------------------------------------------
(* Sequences, whatever their elements: x is one of length n.               *)
OfLength(x, n) == x = [i \in 1 .. n |-> x[i]]

LEMMA LengthIs ==
  ASSUME NEW n \in Nat, NEW x, OfLength(x, n)
  PROVE  /\ Len(x) = n /\ DOMAIN x = 1 .. n
         /\ x \in Seq({x[i] : i \in 1 .. n})
<1> DEFINE D == {x[i] : i \in 1 .. n}
<1>1. x \in [1 .. n -> D] /\ DOMAIN x = 1 .. n
  BY DEF OfLength
<1> HIDE DEF D
<1>2. x \in Seq(D) /\ Len(x) = n
  BY <1>1, FunctionIsSequence
<1> QED
  BY <1>1, <1>2 DEF D

LEMMA FunctionHasLength ==
  ASSUME NEW n \in Nat, NEW D, NEW x \in [1 .. n -> D]
  PROVE  OfLength(x, n)
BY DEF OfLength

LEMMA SequenceHasLength ==
  ASSUME NEW D, NEW x \in Seq(D)
  PROVE  Len(x) \in Nat /\ OfLength(x, Len(x))
<1>1. Len(x) \in Nat /\ x \in [1 .. Len(x) -> D]
  OBVIOUS
<1> QED
  BY <1>1, FunctionHasLength

LEMMA SameSequence ==
  ASSUME NEW n \in Nat, NEW x, OfLength(x, n), NEW y, OfLength(y, n),
         \A i \in 1 .. n : x[i] = y[i]
  PROVE  x = y
BY DEF OfLength

\* z is x, of length n, followed by y, of length m.
Joins(z, x, n, y, m) ==
  /\ OfLength(z, n + m)
  /\ \A i \in 1 .. n : z[i] = x[i]
  /\ \A i \in 1 .. m : z[n + i] = y[i]

LEMMA ConcatOf ==
  ASSUME NEW n \in Nat, NEW x, OfLength(x, n), NEW m \in Nat, NEW y, OfLength(y, m)
  PROVE  Joins(x \o y, x, n, y, m)
<1> DEFINE D == {x[i] : i \in 1 .. n} \cup {y[i] : i \in 1 .. m}
<1>1. x \in [1 .. n -> D] /\ y \in [1 .. m -> D]
  BY DEF OfLength
<1> HIDE DEF D
<1>2. x \in Seq(D) /\ Len(x) = n /\ y \in Seq(D) /\ Len(y) = m
  BY <1>1, FunctionIsSequence
<1>3. /\ x \o y \in Seq(D) /\ Len(x \o y) = n + m
      /\ \A i \in 1 .. n + m : (x \o y)[i] = IF i <= n THEN x[i] ELSE y[i - n]
  BY <1>2
<1> DEFINE z == x \o y
<1> HIDE DEF z
<1>4. OfLength(z, n + m)
  BY <1>3, SequenceHasLength DEF z
<1>5. ASSUME NEW i \in 1 .. n PROVE z[i] = x[i]
  <2>1. i \in 1 .. n + m /\ i <= n
    OBVIOUS
  <2> QED
    BY <1>3, <2>1 DEF z
<1>6. ASSUME NEW i \in 1 .. m PROVE z[n + i] = y[i]
  <2>1. n + i \in 1 .. n + m /\ ~(n + i <= n) /\ (n + i) - n = i
    OBVIOUS
  <2> QED
    BY <1>3, <2>1 DEF z
<1> QED
  BY <1>4, <1>5, <1>6 DEF z, Joins

LEMMA SplitIndex ==
  ASSUME NEW n \in Nat, NEW m \in Nat, NEW i \in 1 .. n + m
  PROVE  i \in 1 .. n \/ \E j \in 1 .. m : i = n + j
<1>1. CASE i <= n
  BY <1>1
<1>2. CASE i > n
  <2>1. i - n \in 1 .. m /\ i = n + (i - n)
    BY <1>2
  <2> QED
    BY <2>1
<1> QED
  BY <1>1, <1>2

\* The order in which three are joined does not matter.
Associates(x, y, z) == (x \o y) \o z = x \o (y \o z)

LEMMA ConcatAssociates ==
  ASSUME NEW n \in Nat, NEW x, OfLength(x, n), NEW m \in Nat, NEW y, OfLength(y, m),
         NEW k \in Nat, NEW z, OfLength(z, k)
  PROVE  Associates(x, y, z)
<1> DEFINE D == {x[i] : i \in 1 .. n} \cup {y[i] : i \in 1 .. m} \cup {z[i] : i \in 1 .. k}
<1>1. x \in [1 .. n -> D] /\ y \in [1 .. m -> D] /\ z \in [1 .. k -> D]
  BY DEF OfLength
<1> HIDE DEF D
<1>2. x \in Seq(D) /\ y \in Seq(D) /\ z \in Seq(D)
  BY <1>1, FunctionIsSequence
<1>3. (x \o y) \o z = x \o (y \o z)
  BY <1>2, SMTT(30)
<1> QED
  BY <1>3 DEF Associates

LEMMA SubSeqOf ==
  ASSUME NEW n \in Nat, NEW x, OfLength(x, n), NEW a \in Nat, NEW m \in Nat, a + m <= n
  PROVE  /\ OfLength(SubSeq(x, a + 1, a + m), m)
         /\ \A k \in 1 .. m : SubSeq(x, a + 1, a + m)[k] = x[a + k]
<1> DEFINE D == {x[i] : i \in 1 .. n}
<1>1. x \in [1 .. n -> D]
  BY DEF OfLength
<1> HIDE DEF D
<1>2. /\ SubSeq(x, a + 1, a + m) \in [1 .. m -> D]
      /\ \A k \in 1 .. m : SubSeq(x, a + 1, a + m)[k] = x[a + k]
  BY <1>1, PartOf
<1> QED
  BY <1>2, FunctionHasLength

LEMMA PrefixOf ==
  ASSUME NEW n \in Nat, NEW x, OfLength(x, n), NEW m \in Nat, m <= n
  PROVE  /\ OfLength(SubSeq(x, 1, m), m)
         /\ \A k \in 1 .. m : SubSeq(x, 1, m)[k] = x[k]
<1> DEFINE D == {x[i] : i \in 1 .. n}
<1>1. x \in [1 .. n -> D]
  BY DEF OfLength
<1> HIDE DEF D
<1>2. /\ SubSeq(x, 1, m) \in [1 .. m -> D]
      /\ \A k \in 1 .. m : SubSeq(x, 1, m)[k] = x[k]
  BY <1>1, FirstPart
<1> QED
  BY <1>2, FunctionHasLength

\* Taking a concatenation apart, and putting parts together.
LEMMA PartsOfConcat ==
  ASSUME NEW n \in Nat, NEW x, OfLength(x, n), NEW m \in Nat, NEW y, OfLength(y, m)
  PROVE  SubSeq(x \o y, 1, n) = x /\ SubSeq(x \o y, n + 1, n + m) = y
<1> DEFINE z == x \o y
<1>0. Joins(z, x, n, y, m)
  BY ConcatOf
<1> HIDE DEF z
<1>1. /\ OfLength(z, n + m) /\ (\A i \in 1 .. n : z[i] = x[i])
      /\ \A i \in 1 .. m : z[n + i] = y[i]
  BY <1>0 DEF Joins
<1> DEFINE s == SubSeq(z, 1, n)
           t == SubSeq(z, n + 1, n + m)
<1>2. n + m \in Nat /\ n <= n + m /\ n + m <= n + m
  OBVIOUS
<1>3. OfLength(s, n) /\ \A k \in 1 .. n : s[k] = z[k]
  BY <1>1, <1>2, PrefixOf
<1>4. OfLength(t, m) /\ \A k \in 1 .. m : t[k] = z[n + k]
  BY <1>1, <1>2, SubSeqOf
<1> HIDE DEF s, t
<1>5. s = x
  BY <1>1, <1>3 DEF OfLength
<1>6. t = y
  BY <1>1, <1>4 DEF OfLength
<1> QED
  BY <1>5, <1>6 DEF s, t, z

LEMMA ConcatOfParts ==
  ASSUME NEW n \in Nat, NEW x, OfLength(x, n), NEW a \in Nat, NEW m \in Nat, a + m <= n
  PROVE  SubSeq(x, 1, a) \o SubSeq(x, a + 1, a + m) = SubSeq(x, 1, a + m)
<1> DEFINE u == SubSeq(x, 1, a)
           v == SubSeq(x, a + 1, a + m)
           w == SubSeq(x, 1, a + m)
<1>1. a <= n /\ a + m \in Nat
  OBVIOUS
<1>2. OfLength(u, a) /\ \A k \in 1 .. a : u[k] = x[k]
  BY <1>1, PrefixOf
<1>3. OfLength(v, m) /\ \A k \in 1 .. m : v[k] = x[a + k]
  BY SubSeqOf
<1>4. OfLength(w, a + m) /\ \A k \in 1 .. a + m : w[k] = x[k]
  BY <1>1, PrefixOf
<1> HIDE DEF u, v, w
<1> DEFINE s == u \o v
<1>5. Joins(s, u, a, v, m)
  BY <1>2, <1>3, ConcatOf
<1> HIDE DEF s
<1>6. ASSUME NEW i \in 1 .. a + m PROVE s[i] = w[i]
  <2>1. CASE i \in 1 .. a
    BY <1>2, <1>4, <1>5, <2>1 DEF Joins
  <2>2. ASSUME NEW j \in 1 .. m, i = a + j PROVE s[i] = w[i]
    BY <1>3, <1>4, <1>5, <2>2 DEF Joins
  <2> QED
    BY <2>1, <2>2, SplitIndex
<1>7. s = w
  BY <1>4, <1>5, <1>6 DEF Joins, OfLength
<1> QED
  BY <1>7 DEF s, u, v, w

LEMMA ReverseOf ==
  ASSUME NEW n \in Nat, NEW x, OfLength(x, n)
  PROVE  OfLength(Reverse(x), n) /\ \A i \in 1 .. n : Reverse(x)[i] = x[n - i + 1]
<1>1. Len(x) = n
  BY LengthIs
<1> QED
  BY <1>1 DEF Reverse, OfLength

-----------------------------------------------------------------------------
(* Words.                                                                  *)
\* x is made of the n words ws.
OfWords(x, ws, n) ==
  /\ OfLength(x, n * WordLen) /\ OfLength(ws, n)
  /\ \A i \in 1 .. n : OfLength(ws[i], WordLen)
  /\ \A i \in 1 .. n, k \in 1 .. WordLen : x[(i - 1) * WordLen + k] = ws[i][k]

LEMMA WordsSplit ==
  ASSUME NEW n \in Nat, NEW x, OfLength(x, n * WordLen)
  PROVE  OfWords(x, Words(x), n)
<1>1. n * WordLen \in Nat
  BY ProductIsNat, Lengths
<1>2. Len(x) = n * WordLen
  BY <1>1, LengthIs
<1>3. (n * WordLen) \div WordLen = n
  BY Lengths
<1>4. Words(x) = [i \in 1 .. n |-> SubSeq(x, (i - 1) * WordLen + 1, i * WordLen)]
  BY <1>2, <1>3 DEF Words
<1>5. ASSUME NEW i \in 1 .. n
      PROVE  /\ OfLength(Words(x)[i], WordLen)
             /\ \A k \in 1 .. WordLen : Words(x)[i][k] = x[(i - 1) * WordLen + k]
  <2> DEFINE a == (i - 1) * WordLen
             b == i * WordLen
  <2>1. a \in Nat /\ b = a + WordLen /\ b <= n * WordLen
    BY PlacesOf
  <2>2. Words(x)[i] = SubSeq(x, a + 1, b)
    BY <1>4
  <2> HIDE DEF a, b
  <2>3. /\ OfLength(SubSeq(x, a + 1, a + WordLen), WordLen)
        /\ \A k \in 1 .. WordLen : SubSeq(x, a + 1, a + WordLen)[k] = x[a + k]
    BY <1>1, <2>1, SubSeqOf, Lengths
  <2> DEFINE w == Words(x)[i]
  <2>4. w = SubSeq(x, a + 1, a + WordLen)
    BY <2>1, <2>2
  <2> HIDE DEF w
  <2>5. OfLength(w, WordLen) /\ \A k \in 1 .. WordLen : w[k] = x[a + k]
    BY <2>3, <2>4
  <2> QED
    BY <2>5 DEF w, a
<1>6. OfLength(Words(x), n)
  BY <1>4 DEF OfLength
<1> QED
  BY <1>5, <1>6 DEF OfWords

LEMMA SameWords ==
  ASSUME NEW n \in Nat, NEW ws, NEW x, OfWords(x, ws, n), NEW y, OfWords(y, ws, n)
  PROVE  x = y
<1>1. OfLength(x, n * WordLen) /\ OfLength(y, n * WordLen)
  BY DEF OfWords
<1>2. ASSUME NEW p \in 1 .. n * WordLen PROVE x[p] = y[p]
  <2>1. PICK i \in 1 .. n, k \in 1 .. WordLen : p = (i - 1) * WordLen + k
    BY PlacesOf
  <2> QED
    BY <2>1 DEF OfWords
<1> QED
  BY <1>1, <1>2 DEF OfLength

FlatSteps(f, ws, n) ==
  /\ f = [i \in 1 .. n |-> f[i]]
  /\ \A i \in 1 .. n : f[i] = IF i = 1 THEN ws[i] ELSE f[i - 1] \o ws[i]

LEMMA FlatStepsExist ==
  ASSUME NEW n \in Nat, NEW ws
  PROVE  \E f : FlatSteps(f, ws, n)
<1> DEFINE S == {m \in 0 .. n : \E f : FlatSteps(f, ws, m)}
<1>1. 0 \in S
  <2> DEFINE f == [i \in 1 .. 0 |-> 0]
  <2>1. FlatSteps(f, ws, 0)
    BY DEF FlatSteps
  <2> QED
    BY <2>1
<1>2. ASSUME NEW m \in 1 .. n, m - 1 \in S PROVE m \in S
  <2>1. PICK f : FlatSteps(f, ws, m - 1)
    BY <1>2
  <2> DEFINE v == IF m = 1 THEN ws[m] ELSE f[m - 1] \o ws[m]
             g == [i \in 1 .. m |-> IF i = m THEN v ELSE f[i]]
  <2> HIDE DEF v
  <2>2. g = [i \in 1 .. m |-> g[i]] /\ g[m] = v /\ \A i \in 1 .. m - 1 : g[i] = f[i]
    OBVIOUS
  <2> HIDE DEF g
  <2>3. ASSUME NEW i \in 1 .. m PROVE g[i] = IF i = 1 THEN ws[i] ELSE g[i - 1] \o ws[i]
    <3>1. CASE i = m
      <4>1. m # 1 => g[m - 1] = f[m - 1]
        <5>1. m # 1 => m - 1 \in 1 .. m - 1
          OBVIOUS
        <5> QED
          BY <2>2, <5>1
      <4> QED
        BY <2>2, <3>1, <4>1 DEF v
    <3>2. CASE i # m
      <4>1. i \in 1 .. m - 1 /\ (i # 1 => i - 1 \in 1 .. m - 1)
        BY <3>2
      <4>2. g[i] = f[i] /\ (i # 1 => g[i - 1] = f[i - 1])
        BY <2>2, <4>1
      <4>3. f[i] = IF i = 1 THEN ws[i] ELSE f[i - 1] \o ws[i]
        BY <2>1, <4>1 DEF FlatSteps
      <4> QED
        BY <4>2, <4>3
    <3> QED
      BY <3>1, <3>2
  <2>4. FlatSteps(g, ws, m)
    BY <2>2, <2>3 DEF FlatSteps
  <2> QED
    BY <2>4
<1> HIDE DEF S
<1>3. \A m \in 0 .. n : m \in S
  BY <1>1, <1>2, InductionUpTo
<1> QED
  BY <1>3 DEF S

LEMMA FlattenIsLast ==
  ASSUME NEW n \in Nat, n > 0, NEW ws, OfLength(ws, n)
  PROVE  \E f : FlatSteps(f, ws, n) /\ FlattenSeq(ws) = f[n]
<1> DEFINE Steps(f) == f = [i \in 1 .. n |-> IF i = 1 THEN ws[i] ELSE f[i - 1] \o ws[i]]
           up == CHOOSE f : Steps(f)
<1>1. Len(ws) = n
  BY LengthIs
<1>2. PICK g : FlatSteps(g, ws, n)
  BY FlatStepsExist
<1>3. Steps(g)
  BY <1>2 DEF FlatSteps
<1>4. Steps(up)
  BY <1>3
<1>5. FlattenSeq(ws) = up[n]
  BY <1>1 DEF FlattenSeq
<1> HIDE DEF up
<1>6. FlatSteps(up, ws, n)
  BY <1>4 DEF FlatSteps
<1> QED
  BY <1>5, <1>6

LEMMA FlattenOf ==
  ASSUME NEW n \in Nat, n > 0, NEW ws, OfLength(ws, n), \A i \in 1 .. n : OfLength(ws[i], WordLen)
  PROVE  OfWords(FlattenSeq(ws), ws, n)
<1>1. PICK f : FlatSteps(f, ws, n) /\ FlattenSeq(ws) = f[n]
  BY FlattenIsLast
<1> DEFINE S == {m \in 0 .. n : m > 0 =>
                   /\ OfLength(f[m], m * WordLen)
                   /\ \A i \in 1 .. m, k \in 1 .. WordLen :
                        f[m][(i - 1) * WordLen + k] = ws[i][k]}
<1>2. 0 \in S
  OBVIOUS
<1>3. ASSUME NEW m \in 1 .. n, m - 1 \in S PROVE m \in S
  <2> DEFINE z == f[m]
             x == f[m - 1]
             y == ws[m]
             a == (m - 1) * WordLen
  <2>1. a \in Nat /\ m * WordLen = a + WordLen
    BY PlacesOf
  <2>2. OfLength(y, WordLen)
    OBVIOUS
  <2>3. CASE m = 1
    <3>1. z = y /\ a = 0
      <4>1. z = y
        BY <1>1, <2>3 DEF FlatSteps
      <4>2. (1 - 1) * WordLen = 0
        BY Lengths
      <4> QED
        BY <2>3, <4>1, <4>2
    <3> HIDE DEF z, y
    <3>2. OfLength(z, m * WordLen)
      BY <2>1, <2>2, <3>1, Lengths
    <3>3. ASSUME NEW i \in 1 .. m, NEW k \in 1 .. WordLen
          PROVE  z[(i - 1) * WordLen + k] = ws[i][k]
      <4>1. i = m /\ (i - 1) * WordLen + k = k
        BY <2>3, <3>1, Lengths
      <4> QED
        BY <3>1, <4>1 DEF y
    <3> QED
      BY <3>2, <3>3 DEF z
  <2>4. CASE m # 1
    <3>1. z = x \o y
      BY <1>1, <2>4 DEF FlatSteps
    <3>2. /\ OfLength(x, a)
          /\ \A i \in 1 .. m - 1, k \in 1 .. WordLen : x[(i - 1) * WordLen + k] = ws[i][k]
      BY <1>3, <2>4
    <3> HIDE DEF x, y, a, z
    <3>3. Joins(z, x, a, y, WordLen)
      BY <2>1, <2>2, <3>1, <3>2, ConcatOf, Lengths
    <3>4. OfLength(z, m * WordLen)
      BY <2>1, <3>3 DEF Joins
    <3>5. ASSUME NEW i \in 1 .. m, NEW k \in 1 .. WordLen
          PROVE  z[(i - 1) * WordLen + k] = ws[i][k]
      <4>1. CASE i = m
        BY <3>3, <4>1 DEF Joins, a, y
      <4>2. CASE i # m
        <5> DEFINE b == (i - 1) * WordLen
        <5>1. m - 1 \in Nat /\ i \in 1 .. m - 1
          BY <4>2
        <5>2. b \in Nat /\ b + WordLen <= a
          BY <5>1, PlacesOf DEF a
        <5> HIDE DEF b
        <5>3. b + k \in 1 .. a
          BY <2>1, <5>2, Lengths
        <5>4. z[b + k] = x[b + k]
          BY <3>3, <5>3 DEF Joins
        <5>5. x[b + k] = ws[i][k]
          BY <3>2, <5>1 DEF b
        <5> QED
          BY <5>4, <5>5 DEF b
      <4> QED
        BY <4>1, <4>2
    <3> QED
      BY <3>4, <3>5 DEF z
  <2> QED
    BY <2>3, <2>4
<1> HIDE DEF S
<1>4. \A m \in 0 .. n : m \in S
  BY <1>2, <1>3, InductionUpTo
<1>5. /\ OfLength(f[n], n * WordLen)
      /\ \A i \in 1 .. n, k \in 1 .. WordLen : f[n][(i - 1) * WordLen + k] = ws[i][k]
  <2>1. n \in S /\ n > 0
    BY <1>4
  <2> QED
    BY <2>1 DEF S
<1> QED
  BY <1>1, <1>5 DEF OfWords

LEMMA FlattenWords ==
  ASSUME NEW n \in Nat, n > 0, NEW x, OfLength(x, n * WordLen)
  PROVE  FlattenSeq(Words(x)) = x
<1>1. OfWords(x, Words(x), n)
  BY WordsSplit
<1>2. OfWords(FlattenSeq(Words(x)), Words(x), n)
  BY <1>1, FlattenOf DEF OfWords
<1> QED
  BY <1>1, <1>2, SameWords

-----------------------------------------------------------------------------
(* Messages of one and of two blocks.                                      *)
LEMMA BlockLengths ==
  /\ BlockLen \in Nat /\ BlockLen = 2 * DigestLen /\ BlockLen > 0
  /\ TailLen \in Nat /\ TailLen = 4 * WordLen /\ TailLen + 2 <= BlockLen
  /\ DigestLen + 2 <= BlockLen
  /\ HeaderLen \in Nat /\ HeaderLen = BlockLen + TailLen
<1>1. WordLen \in Nat /\ WordLen >= 1 /\ DigestLen \in Nat
  BY Lengths
<1>2. 2 * DigestLen >= 4 * WordLen + 2
  <2>1. 2 * DigestWords * WordLen >= 4 * WordLen + 2
    BY BlockHashAssumption
  <2>2. 2 * DigestWords * WordLen = 2 * DigestLen
    BY Lengths DEF DigestLen
  <2> QED
    BY <2>1, <2>2
<1> QED
  BY <1>1, <1>2 DEF BlockLen, TailLen, HeaderLen

Zeros(len) == (-(len + 2)) % BlockLen

LEMMA ZerosAre ==
  ASSUME NEW r \in Nat, r + 2 <= BlockLen
  PROVE  /\ Zeros(r) = BlockLen - (r + 2) /\ Zeros(r) \in Nat
         /\ Zeros(BlockLen + r) = Zeros(r)
<1> DEFINE b == BlockLen
<1>1. b \in Nat /\ b > 0 /\ r + 2 <= b
  BY BlockLengths
<1>2. Zeros(r) = (-(r + 2)) % b /\ Zeros(b + r) = (-(b + r + 2)) % b
  BY DEF Zeros
<1> HIDE DEF b
<1>3. (-(r + 2)) % b = b - (r + 2)
  BY <1>1
<1>4. (-(b + r + 2)) % b = b - (r + 2)
  BY <1>1
<1> QED
  BY <1>1, <1>2, <1>3, <1>4 DEF b

Mark(z, total) == <<<<Base \div 2>>>> \o [i \in 1 .. z |-> <<0>>] \o <<<<total>>>>

LEMMA PaddedIs ==
  ASSUME NEW r \in Nat, NEW rest, OfLength(rest, r), Zeros(r) \in Nat, NEW total
  PROVE  /\ Padded(rest, total) = rest \o Mark(Zeros(r), total)
         /\ OfLength(Mark(Zeros(r), total), Zeros(r) + 2)
<1> DEFINE z == Zeros(r)
           a == <<<<Base \div 2>>>>
           b == [i \in 1 .. z |-> <<0>>]
           c == <<<<total>>>>
<1>1. OfLength(a, 1) /\ OfLength(c, 1)
  BY DEF OfLength
<1>2. OfLength(b, z) /\ z \in Nat
  BY DEF OfLength
<1>3. Len(rest) = r
  BY LengthIs
<1>4. Padded(rest, total) = ((rest \o a) \o b) \o c
  BY <1>3 DEF Padded, Zeros
<1>5. Mark(z, total) = (a \o b) \o c
  BY DEF Mark
<1> HIDE DEF a, b, c, z
<1>6. OfLength(a \o b, 1 + z) /\ 1 + z \in Nat
  <2>1. Joins(a \o b, a, 1, b, z)
    BY <1>1, <1>2, ConcatOf
  <2> QED
    BY <1>2, <2>1 DEF Joins
<1>7. OfLength((a \o b) \o c, z + 2)
  <2> DEFINE ab == a \o b
  <2>1. OfLength(ab, 1 + z)
    BY <1>6
  <2> HIDE DEF ab
  <2>2. Joins(ab \o c, ab, 1 + z, c, 1)
    BY <1>1, <1>6, <2>1, ConcatOf
  <2>3. (1 + z) + 1 = z + 2
    BY <1>2
  <2> QED
    BY <2>2, <2>3 DEF Joins, ab
<1>8. (rest \o a) \o b = rest \o (a \o b)
  <2> DEFINE l == 1
  <2>1. OfLength(a, l) /\ l \in Nat
    BY <1>1
  <2> HIDE DEF l
  <2>2. Associates(rest, a, b)
    BY <1>2, <2>1, ConcatAssociates
  <2> QED
    BY <2>2 DEF Associates
<1>9. (rest \o (a \o b)) \o c = rest \o ((a \o b) \o c)
  <2> DEFINE ab == a \o b
             k == 1 + z
             l == 1
  <2>1. OfLength(ab, k) /\ k \in Nat /\ OfLength(c, l) /\ l \in Nat
    BY <1>1, <1>6
  <2> HIDE DEF ab, k, l
  <2>2. Associates(rest, ab, c)
    BY <2>1, ConcatAssociates
  <2> QED
    BY <2>2 DEF Associates, ab
<1> QED
  BY <1>4, <1>5, <1>7, <1>8, <1>9 DEF z

LEMMA PaddedLength ==
  ASSUME NEW r \in Nat, NEW rest, OfLength(rest, r), r + 2 <= BlockLen, NEW total
  PROVE  OfLength(Padded(rest, total), BlockLen)
<1>1. Zeros(r) \in Nat /\ r + (Zeros(r) + 2) = BlockLen
  BY ZerosAre, BlockLengths
<1> DEFINE m == Mark(Zeros(r), total)
           z == Zeros(r) + 2
<1>2. Padded(rest, total) = rest \o m /\ OfLength(m, z) /\ z \in Nat
  BY <1>1, PaddedIs
<1>3. r + z = BlockLen
  BY <1>1
<1> HIDE DEF m, z
<1>4. Joins(rest \o m, rest, r, m, z)
  BY <1>2, ConcatOf
<1> QED
  BY <1>2, <1>3, <1>4 DEF Joins

LEMMA PaddedPrefix ==
  ASSUME NEW x, OfLength(x, BlockLen), NEW r \in Nat, NEW rest, OfLength(rest, r),
         r + 2 <= BlockLen, NEW total
  PROVE  Padded(x \o rest, total) = x \o Padded(rest, total)
<1>1. Zeros(r) \in Nat /\ Zeros(BlockLen + r) = Zeros(r)
  BY ZerosAre
<1> DEFINE xr == x \o rest
           n  == BlockLen + r
           m  == Mark(Zeros(r), total)
<1>2. OfLength(xr, n) /\ n \in Nat
  <2> DEFINE b == BlockLen
  <2>1. OfLength(x, b) /\ b \in Nat
    BY BlockLengths
  <2> HIDE DEF b
  <2>2. Joins(xr, x, b, rest, r)
    BY <2>1, ConcatOf
  <2> HIDE DEF xr
  <2>3. OfLength(xr, b + r) /\ b + r \in Nat
    BY <2>1, <2>2 DEF Joins
  <2> QED
    BY <2>3 DEF b
<1>3. Padded(rest, total) = rest \o m /\ OfLength(m, Zeros(r) + 2) /\ Zeros(r) + 2 \in Nat
  BY <1>1, PaddedIs
<1>4. Zeros(n) = Zeros(r)
  BY <1>1
<1> HIDE DEF xr, n
<1>5. Padded(xr, total) = xr \o m
  BY <1>1, <1>2, <1>4, PaddedIs
<1>6. (x \o rest) \o m = x \o (rest \o m)
  <2> DEFINE k == Zeros(r) + 2
             b == BlockLen
  <2>1. OfLength(m, k) /\ k \in Nat /\ b \in Nat /\ OfLength(x, b)
    BY <1>3, BlockLengths
  <2> HIDE DEF m, k, b
  <2>2. Associates(x, rest, m)
    BY <2>1, ConcatAssociates
  <2> QED
    BY <2>2 DEF Associates
<1> HIDE DEF m
<1> QED
  BY <1>3, <1>5, <1>6 DEF xr

LEMMA StateBytesLength ==
  ASSUME NEW state
  PROVE  OfLength(StateBytes(state), DigestLen)
BY DEF StateBytes, OfLength

\* The chain of the states of SHA-256 over n blocks.
ChainSteps(f, padded, n) ==
  f = [i \in 0 .. n |->
         IF i = 0 THEN IV
         ELSE Sha256Compress(f[i - 1], SubSeq(padded, (i - 1) * BlockLen + 1, i * BlockLen))]

LEMMA DigestIsLast ==
  ASSUME NEW n, NEW message, NEW padded, padded = Padded(message, Len(message)),
         n = Len(padded) \div BlockLen, \E f : ChainSteps(f, padded, n)
  PROVE  \E f : ChainSteps(f, padded, n) /\ Digest(message) = StateBytes(f[n])
<1> DEFINE p == Padded(message, Len(message))
           k == Len(p) \div BlockLen
           up == CHOOSE f : ChainSteps(f, p, k)
<1>1. Digest(message) = StateBytes(up[k])
  BY DEF Digest, ChainSteps
<1>2. p = padded
  OBVIOUS
<1> HIDE DEF p
<1>3. k = n
  BY <1>2
<1> HIDE DEF k
<1>4. \E f : ChainSteps(f, p, k)
  BY <1>2, <1>3
<1>5. ChainSteps(up, p, k)
  BY <1>4
<1> HIDE DEF up
<1> QED
  BY <1>1, <1>2, <1>3, <1>5

LEMMA DigestOne ==
  ASSUME NEW r \in Nat, NEW m, OfLength(m, r), r + 2 <= BlockLen
  PROVE  Digest(m) = StateBytes(Sha256Compress(IV, Padded(m, r)))
<1> DEFINE p == Padded(m, r)
           b == BlockLen
<1>1. Len(m) = r
  BY LengthIs
<1>2. OfLength(p, b) /\ b \in Nat /\ b > 0
  BY PaddedLength, BlockLengths
<1>3. p = Padded(m, Len(m))
  BY <1>1
<1> HIDE DEF p
<1>4. Len(p) \div b = 1
  <2>1. Len(p) = b
    BY <1>2, LengthIs
  <2> HIDE DEF b
  <2>2. b \div b = 1
    BY <1>2
  <2> QED
    BY <2>1, <2>2
<1>5. SubSeq(p, (1 - 1) * b + 1, 1 * b) = p
  <2>1. (1 - 1) * b + 1 = 1 /\ 1 * b = b /\ b <= b
    BY <1>2
  <2> DEFINE s == SubSeq(p, 1, b)
  <2>2. OfLength(s, b) /\ \A k \in 1 .. b : s[k] = p[k]
    BY <1>2, <2>1, PrefixOf
  <2> HIDE DEF s, b
  <2>3. s = p
    BY <1>2, <2>2 DEF OfLength
  <2> QED
    BY <2>1, <2>3 DEF s
<1>6. \E f : ChainSteps(f, p, 1)
  <2> DEFINE f == [i \in 0 .. 1 |-> IF i = 0 THEN IV ELSE Sha256Compress(IV, p)]
  <2>1. f[0] = IV
    OBVIOUS
  <2>2. \A i \in 0 .. 1 : i # 0 => i = 1
    OBVIOUS
  <2>3. f = [i \in 0 .. 1 |->
               IF i = 0 THEN IV
               ELSE Sha256Compress(f[i - 1], SubSeq(p, (i - 1) * b + 1, i * b))]
    <3> DEFINE g(i) == IF i = 0 THEN IV
                       ELSE Sha256Compress(f[i - 1], SubSeq(p, (i - 1) * b + 1, i * b))
    <3>1. f[1] = Sha256Compress(IV, p) /\ f[1 - 1] = IV
      BY <2>1
    <3>2. f = [i \in 0 .. 1 |-> f[i]]
      OBVIOUS
    <3> HIDE DEF f
    <3>3. g(0) = f[0] /\ g(1) = f[1]
      BY <1>5, <2>1, <3>1
    <3>4. \A i \in 0 .. 1 : f[i] = g(i)
      <4> HIDE DEF g
      <4> QED
        BY <2>2, <3>3
    <3> QED
      BY <3>2, <3>4
  <2>4. ChainSteps(f, p, 1)
    BY <2>3 DEF ChainSteps
  <2> QED
    BY <2>4
<1>7. PICK f : ChainSteps(f, p, 1) /\ Digest(m) = StateBytes(f[1])
  <2>1. 1 = Len(p) \div BlockLen
    BY <1>4
  <2> QED
    BY <1>3, <1>6, <2>1, DigestIsLast
<1>8. f[1] = Sha256Compress(f[1 - 1], SubSeq(p, (1 - 1) * b + 1, 1 * b))
  BY <1>7 DEF ChainSteps
<1>9. f[1 - 1] = IV
  BY <1>7 DEF ChainSteps
<1> QED
  BY <1>5, <1>7, <1>8, <1>9 DEF p

LEMMA DigestTwo ==
  ASSUME NEW x, OfLength(x, BlockLen), NEW r \in Nat, NEW y, OfLength(y, r), r + 2 <= BlockLen
  PROVE  Digest(x \o y)
           = StateBytes(Sha256Compress(Sha256Compress(IV, x), Padded(y, BlockLen + r)))
<1> DEFINE b == BlockLen
           m == x \o y
           P == Padded(y, b + r)
           p == x \o P
<1>1. b \in Nat /\ b > 0
  BY BlockLengths
<1>2. OfLength(P, b)
  BY PaddedLength
<1>3. Len(m) = b + r
  <2>1. OfLength(m, b + r)
    BY <1>1, ConcatOf DEF Joins
  <2> HIDE DEF m
  <2>2. b + r \in Nat
    BY <1>1
  <2> QED
    BY <2>1, <2>2, LengthIs
<1>4. Padded(m, b + r) = p
  BY PaddedPrefix
<1>5. p = Padded(m, Len(m))
  BY <1>3, <1>4
<1> HIDE DEF m, b, P
<1>6. OfLength(x, b)
  BY DEF b
<1>7. SubSeq(p, 1, b) = x /\ SubSeq(p, b + 1, b + b) = P
  BY <1>1, <1>2, <1>6, PartsOfConcat
<1>8. OfLength(p, b + b)
  BY <1>1, <1>2, <1>6, ConcatOf DEF Joins
<1> HIDE DEF p
<1>9. Len(p) \div b = 2
  <2>1. b + b \in Nat
    BY <1>1
  <2>2. Len(p) = b + b
    BY <1>8, <2>1, LengthIs
  <2>3. (b + b) \div b = 2
    <3>1. b + b = 2 * b + 0 /\ 0 < b
      BY <1>1
    <3> QED
      BY <1>1, <2>1, <3>1, QuotientIsUnique
  <2> QED
    BY <2>2, <2>3
<1> DEFINE block(i) == SubSeq(p, (i - 1) * b + 1, i * b)
<1>10. block(1) = x /\ block(2) = P
  <2>1. (1 - 1) * b + 1 = 1 /\ 1 * b = b /\ (2 - 1) * b + 1 = b + 1 /\ 2 * b = b + b
    BY <1>1
  <2> QED
    BY <1>7, <2>1
<1> DEFINE s == Sha256Compress(IV, x)
           t == Sha256Compress(s, P)
<1>11. \E f : ChainSteps(f, p, 2)
  <2> DEFINE f == [i \in 0 .. 2 |-> IF i = 0 THEN IV ELSE IF i = 1 THEN s ELSE t]
             g(i) == IF i = 0 THEN IV ELSE Sha256Compress(f[i - 1], block(i))
  <2>1. f[0] = IV /\ f[1] = s /\ f[2] = t /\ f[1 - 1] = IV /\ f[2 - 1] = s
    OBVIOUS
  <2>2. \A i \in 0 .. 2 : i = 0 \/ i = 1 \/ i = 2
    OBVIOUS
  <2>3. f = [i \in 0 .. 2 |-> f[i]]
    OBVIOUS
  <2> HIDE DEF f, block, s, t
  <2>4. g(0) = f[0] /\ g(1) = f[1] /\ g(2) = f[2]
    BY <1>10, <2>1 DEF s, t
  <2>5. \A i \in 0 .. 2 : f[i] = g(i)
    <3> HIDE DEF g
    <3> QED
      BY <2>2, <2>4
  <2>6. f = [i \in 0 .. 2 |-> g(i)]
    <3> HIDE DEF g
    <3> QED
      BY <2>3, <2>5
  <2>7. ChainSteps(f, p, 2)
    BY <2>6 DEF ChainSteps, block, b
  <2> QED
    BY <2>7
<1>12. PICK f : ChainSteps(f, p, 2) /\ Digest(m) = StateBytes(f[2])
  <2>1. 2 = Len(p) \div BlockLen
    BY <1>9 DEF b
  <2> QED
    BY <1>5, <1>11, <2>1, DigestIsLast
<1>13. /\ f[0] = IV
       /\ f[1] = Sha256Compress(f[1 - 1], block(1))
       /\ f[2] = Sha256Compress(f[2 - 1], block(2))
  BY <1>12 DEF ChainSteps, b
<1> HIDE DEF block
<1>14. f[2] = t
  BY <1>10, <1>13
<1> QED
  BY <1>12, <1>14 DEF m, P, b

-----------------------------------------------------------------------------
(* The hash of a header with a nonce.                                      *)
LEMMA ToBELength ==
  ASSUME NEW n, NEW len \in Nat
  PROVE  OfLength(ToBE(n, len), len) /\ OfLength(ToLE(n, len), len)
<1>1. OfLength(ToBE(n, len), len)
  BY DEF ToBE, OfLength
<1> QED
  BY <1>1, ReverseOf DEF ToLE

\* What the loops hash: the first block, and the tail with the nonce.
Tail12(header) == SubSeq(header, BlockLen + 1, HeaderLen - WordLen)

NewTail(header, nonce) == Tail12(header) \o ToLE(nonce, WordLen)

LEMMA HeaderParts ==
  ASSUME NEW header, OfLength(header, HeaderLen), NEW nonce
  PROVE  /\ OfLength(FirstBlock(header), BlockLen)
         /\ OfLength(Tail12(header), 3 * WordLen)
         /\ \A k \in 1 .. 3 * WordLen : Tail12(header)[k] = header[BlockLen + k]
         /\ OfLength(Tail16(header), TailLen)
         /\ \A k \in 1 .. TailLen : Tail16(header)[k] = header[BlockLen + k]
         /\ OfLength(NewTail(header, nonce), TailLen)
         /\ WithNonce(header, nonce) = FirstBlock(header) \o NewTail(header, nonce)
<1> DEFINE b == BlockLen
           w == 3 * WordLen
           le == ToLE(nonce, WordLen)
<1>1. /\ b \in Nat /\ w \in Nat /\ TailLen \in Nat /\ HeaderLen \in Nat
      /\ b + w = HeaderLen - WordLen /\ b + TailLen = HeaderLen /\ w + WordLen = TailLen
      /\ b <= HeaderLen /\ b + w <= HeaderLen /\ b + TailLen <= HeaderLen
  BY BlockLengths, Lengths
<1>2. OfLength(le, WordLen) /\ WordLen \in Nat
  BY ToBELength, Lengths
<1>3. /\ FirstBlock(header) = SubSeq(header, 1, b)
      /\ Tail12(header) = SubSeq(header, b + 1, b + w)
      /\ Tail16(header) = SubSeq(header, b + 1, b + TailLen)
  BY <1>1 DEF FirstBlock, Tail12, Tail16
<1>4. WithNonce(header, nonce) = SubSeq(header, 1, b + w) \o le
  BY <1>1 DEF WithNonce
<1>5. NewTail(header, nonce) = Tail12(header) \o le
  BY DEF NewTail
<1> DEFINE F == FirstBlock(header)
           T == Tail12(header)
           U == Tail16(header)
           N == TailLen
<1>6. N \in Nat /\ b + N <= HeaderLen
  BY <1>1
<1> HIDE DEF b, w, le, F, T, U, N
<1>7. OfLength(F, b)
  BY <1>1, <1>3, PrefixOf DEF F
<1>8. OfLength(T, w) /\ \A k \in 1 .. w : T[k] = header[b + k]
  <2>1. T = SubSeq(header, b + 1, b + w)
    BY <1>3 DEF T
  <2> QED
    BY <1>1, <2>1, SubSeqOf
<1>9. OfLength(U, N) /\ \A k \in 1 .. N : U[k] = header[b + k]
  <2>1. U = SubSeq(header, b + 1, b + N)
    BY <1>3 DEF U, N
  <2> QED
    BY <1>1, <1>6, <2>1, SubSeqOf
<1>10. OfLength(T \o le, w + WordLen)
  BY <1>1, <1>2, <1>8, ConcatOf DEF Joins
<1>11. F \o T = SubSeq(header, 1, b + w)
  <2>1. SubSeq(header, 1, b) \o SubSeq(header, b + 1, b + w) = SubSeq(header, 1, b + w)
    BY <1>1, ConcatOfParts
  <2> QED
    BY <1>3, <2>1 DEF F, T
<1>12. (F \o T) \o le = F \o (T \o le)
  <2>1. Associates(F, T, le)
    BY <1>1, <1>2, <1>7, <1>8, ConcatAssociates
  <2> QED
    BY <2>1 DEF Associates
<1> QED
  BY <1>1, <1>4, <1>5, <1>7, <1>8, <1>9, <1>10, <1>11, <1>12 DEF b, w, F, T, U, N

LEMMA WordCounts ==
  /\ DigestWords \in Nat /\ DigestWords > 0 /\ DigestLen = DigestWords * WordLen
  /\ 2 * DigestWords \in Nat /\ 2 * DigestWords > 0 /\ BlockLen = (2 * DigestWords) * WordLen
<1>1. DigestLen = DigestWords * WordLen /\ BlockLen = 2 * DigestLen
  BY BlockLengths DEF DigestLen
<1>2. DigestWords # 0
  <2>1. 0 * WordLen = 0
    BY Lengths
  <2> QED
    BY <1>1, <2>1, Lengths, BlockLengths
<1>3. (2 * DigestWords) * WordLen = 2 * (DigestWords * WordLen)
  BY Lengths
<1> QED
  BY <1>1, <1>2, <1>3, Lengths

LEMMA KernelTail ==
  ASSUME NEW header, OfLength(header, HeaderLen), NEW nonce, NEW tail, tail = GpuTail(header)
  PROVE  FlattenSeq(<<tail[1], tail[2], tail[3], NonceWord(nonce)>>) = NewTail(header, nonce)
<1> DEFINE T == Tail12(header)
           U == Tail16(header)
           le == ToLE(nonce, WordLen)
           new == NewTail(header, nonce)
           w == <<tail[1], tail[2], tail[3], NonceWord(nonce)>>
           b == BlockLen
           o == 3 * WordLen
<1>1. /\ OfLength(T, o) /\ OfLength(U, 4 * WordLen) /\ OfLength(new, 4 * WordLen)
      /\ \A k \in 1 .. o : T[k] = header[b + k]
      /\ \A k \in 1 .. 4 * WordLen : U[k] = header[b + k]
  BY HeaderParts, BlockLengths
<1>2. OfLength(le, WordLen) /\ NonceWord(nonce) = le
  BY ToBELength, Lengths DEF NonceWord, ToLE
<1>3. o \in Nat /\ WordLen \in Nat /\ 4 * WordLen \in Nat
  BY Lengths
<1>4. new = T \o le
  BY DEF NewTail
<1>5. tail = Words(U)
  BY DEF GpuTail
<1>6. w = [i \in 1 .. 4 |-> w[i]] /\ w[1] = tail[1] /\ w[2] = tail[2] /\ w[3] = tail[3] /\ w[4] = le
  BY <1>2
<1> HIDE DEF T, U, le, new, w, b, o
<1>7. OfWords(U, tail, 4)
  BY <1>1, <1>5, WordsSplit
<1>8. Joins(new, T, o, le, WordLen)
  BY <1>1, <1>2, <1>3, <1>4, ConcatOf
<1>9. ASSUME NEW i \in 1 .. 4, NEW k \in 1 .. WordLen
      PROVE  OfLength(w[i], WordLen) /\ new[(i - 1) * WordLen + k] = w[i][k]
  <2>1. CASE i = 4
    <3>1. (4 - 1) * WordLen = o
      BY <1>3 DEF o
    <3> QED
      BY <1>2, <1>6, <1>8, <2>1, <3>1 DEF Joins
  <2>2. CASE i # 4
    <3>1. w[i] = tail[i] /\ i \in 1 .. 3
      <4>1. i = 1 \/ i = 2 \/ i = 3
        BY <2>2
      <4> QED
        BY <1>6, <4>1
    <3> DEFINE p == (i - 1) * WordLen + k
    <3>2. OfLength(tail[i], WordLen) /\ U[p] = tail[i][k]
      BY <1>7 DEF OfWords
    <3>3. p \in 1 .. o
      <4> DEFINE a == (i - 1) * WordLen
                 c == i * WordLen
      <4>1. a \in Nat /\ c = a + WordLen /\ c <= 3 * WordLen
        <5>1. 3 \in Nat /\ i \in 1 .. 3
          BY <3>1
        <5> QED
          BY <5>1, PlacesOf
      <4> HIDE DEF a, c
      <4>2. a + k \in 1 .. 3 * WordLen
        BY <4>1, Lengths
      <4> QED
        BY <4>2 DEF a, o
    <3>4. p \in 1 .. 4 * WordLen
      BY <3>3, Lengths DEF o
    <3> HIDE DEF p
    <3>5. new[p] = T[p] /\ T[p] = header[b + p] /\ U[p] = header[b + p]
      BY <1>1, <1>8, <3>3, <3>4 DEF Joins
    <3> QED
      BY <3>1, <3>2, <3>5 DEF p
  <2> QED
    BY <2>1, <2>2
<1>10. 1 \in 1 .. WordLen
  BY Lengths
<1>11. OfLength(w, 4) /\ \A i \in 1 .. 4 : OfLength(w[i], WordLen)
  BY <1>6, <1>9, <1>10 DEF OfLength
<1>12. OfWords(new, w, 4)
  BY <1>1, <1>9, <1>11 DEF OfWords
<1>13. OfWords(FlattenSeq(w), w, 4)
  BY <1>11, FlattenOf
<1>14. FlattenSeq(w) = new
  BY <1>12, <1>13, SameWords
<1> QED
  BY <1>14 DEF w, new

(* All the ways to hash a header with a nonce compress the same blocks.    *)
LEMMA FiveHashes ==
  ASSUME NEW header, OfLength(header, HeaderLen), NEW nonce
  PROVE  LET hash == Sha256d(WithNonce(header, nonce))
         IN  /\ MidstateHash(header, nonce) = hash
             /\ SimpleHash(header, nonce) = hash
             /\ Sha256dFromMidstate(Midstate(header), Tail16(WithNonce(header, nonce))) = hash
             /\ GpuHash(header, nonce) = hash
<1> DEFINE F == FirstBlock(header)
           new == NewTail(header, nonce)
           block == Padded(new, HeaderLen)
           mid == Sha256Compress(IV, F)
           first == Sha256Compress(mid, block)
           bytes == StateBytes(first)
           last == Padded(bytes, DigestLen)
           result == StateBytes(Sha256Compress(IV, last))
           m == WithNonce(header, nonce)
<1>1. OfLength(F, BlockLen) /\ OfLength(new, TailLen) /\ m = F \o new
  BY HeaderParts
<1>2. OfLength(bytes, DigestLen)
  BY StateBytesLength
<1>3. OfLength(block, BlockLen) /\ OfLength(last, BlockLen)
  BY <1>1, <1>2, PaddedLength, BlockLengths, Lengths
<1> HIDE DEF new, F, m
<1>4. Digest(m) = bytes
  <2>1. Digest(F \o new)
          = StateBytes(Sha256Compress(Sha256Compress(IV, F), Padded(new, BlockLen + TailLen)))
    BY <1>1, DigestTwo, BlockLengths
  <2>2. BlockLen + TailLen = HeaderLen
    BY BlockLengths
  <2> QED
    BY <1>1, <2>1, <2>2
<1>5. Digest(bytes) = result
  BY <1>2, DigestOne, BlockLengths, Lengths
<1>6. SimpleHash(header, nonce) = result /\ Sha256d(m) = result
  <2>1. SimpleHash(header, nonce) = Digest(Digest(m)) /\ Sha256d(m) = Digest(Digest(m))
    BY DEF SimpleHash, Sha256d, m
  <2> QED
    BY <1>4, <1>5, <2>1
<1>7. MidstateHash(header, nonce) = result
  BY DEF MidstateHash, Midstate, NewTail, Tail12, F, new
<1>8. Sha256dFromMidstate(Midstate(header), Tail16(m)) = result
  <2>1. Tail16(m) = new
    <3>1. SubSeq(F \o new, BlockLen + 1, BlockLen + TailLen) = new
      <4> DEFINE b == BlockLen
                 t == TailLen
      <4>1. b \in Nat /\ t \in Nat /\ OfLength(F, b) /\ OfLength(new, t)
        BY <1>1, BlockLengths
      <4> HIDE DEF b, t
      <4>2. SubSeq(F \o new, b + 1, b + t) = new
        BY <4>1, PartsOfConcat
      <4> QED
        BY <4>2 DEF b, t
    <3>2. HeaderLen = BlockLen + TailLen
      BY BlockLengths
    <3> QED
      BY <1>1, <3>1, <3>2 DEF Tail16
  <2>2. Sha256dFromMidstate(mid, new) = Digest(bytes)
    BY DEF Sha256dFromMidstate
  <2>3. Midstate(header) = mid
    BY DEF Midstate, F
  <2> QED
    BY <1>5, <2>1, <2>2, <2>3
<1>9. GpuHash(header, nonce) = result
  <2> DEFINE tail == GpuTail(header)
             w == <<tail[1], tail[2], tail[3], NonceWord(nonce)>>
  <2>1. FlattenSeq(w) = new
    BY KernelTail DEF new
  <2>2. GpuHash(header, nonce) =
          StateBytes(GpuCompress(IV, Words(Padded(FlattenSeq(Words(StateBytes(
            GpuCompress(Midstate(header), Words(Padded(FlattenSeq(w), HeaderLen)))))), DigestLen))))
    BY DEF GpuHash
  <2> HIDE DEF w
  <2>3. GpuCompress(Midstate(header), Words(block)) = first
    <3>1. FlattenSeq(Words(block)) = block
      <4> HIDE DEF block
      <4> QED
        BY <1>3, FlattenWords, WordCounts
    <3> QED
      BY <3>1 DEF GpuCompress, Midstate, F
  <2>4. FlattenSeq(Words(bytes)) = bytes
    <3> HIDE DEF bytes
    <3> QED
      BY <1>2, FlattenWords, WordCounts
  <2>5. GpuCompress(IV, Words(last)) = Sha256Compress(IV, last)
    <3>1. FlattenSeq(Words(last)) = last
      <4> HIDE DEF last
      <4> QED
        BY <1>3, FlattenWords, WordCounts
    <3> QED
      BY <3>1 DEF GpuCompress
  <2> QED
    BY <2>1, <2>2, <2>3, <2>4, <2>5
<1> QED
  BY <1>6, <1>7, <1>8, <1>9 DEF m

-----------------------------------------------------------------------------
(* The previous hash: its words are reversed on the way and back.          *)
LEMMA WordsUnique ==
  ASSUME NEW n \in Nat, NEW x, NEW ws, OfWords(x, ws, n)
  PROVE  Words(x) = ws
<1> DEFINE vs == Words(x)
<1>1. OfWords(x, vs, n)
  BY WordsSplit DEF OfWords
<1> HIDE DEF vs
<1>2. ASSUME NEW i \in 1 .. n PROVE vs[i] = ws[i]
  <2>1. OfLength(vs[i], WordLen) /\ OfLength(ws[i], WordLen)
    BY <1>1 DEF OfWords
  <2>2. \A k \in 1 .. WordLen : vs[i][k] = ws[i][k]
    BY <1>1 DEF OfWords
  <2> DEFINE v == vs[i]
             w == ws[i]
  <2> HIDE DEF v, w
  <2>3. v = w
    BY <2>1, <2>2 DEF OfLength, v, w
  <2> QED
    BY <2>3 DEF v, w
<1>3. vs = ws
  BY <1>1, <1>2 DEF OfWords, OfLength
<1> QED
  BY <1>3 DEF vs

LEMMA ReverseTwice ==
  ASSUME NEW n \in Nat, NEW x, OfLength(x, n)
  PROVE  Reverse(Reverse(x)) = x
<1> DEFINE y == Reverse(x)
           z == Reverse(y)
<1>1. OfLength(y, n) /\ \A i \in 1 .. n : y[i] = x[n - i + 1]
  BY ReverseOf
<1> HIDE DEF y
<1>2. OfLength(z, n) /\ \A i \in 1 .. n : z[i] = y[n - i + 1]
  BY <1>1, ReverseOf
<1> HIDE DEF z
<1>3. ASSUME NEW i \in 1 .. n PROVE z[i] = x[i]
  <2>1. n - i + 1 \in 1 .. n /\ n - (n - i + 1) + 1 = i
    OBVIOUS
  <2> QED
    BY <1>1, <1>2, <2>1
<1>4. z = x
  BY <1>2, <1>3 DEF OfLength
<1> QED
  BY <1>4 DEF z, y

LEMMA SwapTwice ==
  ASSUME NEW x, OfLength(x, DigestLen)
  PROVE  SwapWords(SwapWords(x)) = x /\ OfLength(SwapWords(x), DigestLen)
<1> DEFINE n  == DigestWords
           ws == Words(x)
           vs == [i \in 1 .. n |-> Reverse(ws[i])]
           y  == FlattenSeq(vs)
<1>1. n \in Nat /\ n > 0 /\ DigestLen = n * WordLen /\ WordLen \in Nat
  BY WordCounts, Lengths
<1>2. y = SwapWords(x)
  BY DEF SwapWords
<1> HIDE DEF n
<1>3. OfWords(x, ws, n)
  BY <1>1, WordsSplit
<1>4. FlattenSeq(ws) = x
  BY <1>1, FlattenWords
<1> HIDE DEF ws
<1>5. ASSUME NEW i \in 1 .. n PROVE OfLength(vs[i], WordLen) /\ Reverse(vs[i]) = ws[i]
  <2> DEFINE w == ws[i]
  <2>1. OfLength(w, WordLen) /\ vs[i] = Reverse(w)
    BY <1>3 DEF OfWords
  <2> HIDE DEF w
  <2>2. OfLength(Reverse(w), WordLen) /\ Reverse(Reverse(w)) = w
    BY <1>1, <2>1, ReverseOf, ReverseTwice
  <2> QED
    BY <2>1, <2>2 DEF w
<1>6. OfLength(vs, n)
  BY DEF OfLength
<1> HIDE DEF vs
<1>7. OfWords(y, vs, n)
  BY <1>1, <1>5, <1>6, FlattenOf
<1> HIDE DEF y
<1>8. Words(y) = vs
  BY <1>1, <1>7, WordsUnique
<1>9. [i \in 1 .. n |-> Reverse(vs[i])] = ws
  BY <1>3, <1>5 DEF OfWords, OfLength
<1>10. SwapWords(y) = FlattenSeq(ws)
  BY <1>8, <1>9 DEF SwapWords, n
<1>11. OfLength(y, DigestLen)
  BY <1>1, <1>7 DEF OfWords
<1> QED
  BY <1>2, <1>4, <1>10, <1>11

-----------------------------------------------------------------------------
(* The merkle root.                                                        *)
RootSteps(f, c, b, n) ==
  /\ f = [i \in 0 .. n |-> f[i]]
  /\ f[0] = c
  /\ \A i \in 1 .. n : f[i] = Sha256d(f[i - 1] \o b[i])

\* One more value at the end of a function.
Extends(g, f, n, v) ==
  /\ g = [i \in 0 .. n |-> g[i]]
  /\ g[n] = v
  /\ \A i \in 0 .. n - 1 : g[i] = f[i]

LEMMA ExtensionExists ==
  ASSUME NEW n \in Nat, NEW f, NEW v
  PROVE  \E g : Extends(g, f, n, v)
<1> DEFINE g == [i \in 0 .. n |-> IF i = n THEN v ELSE f[i]]
<1>1. Extends(g, f, n, v)
  BY DEF Extends
<1> QED
  BY <1>1

LEMMA RootStepsExist ==
  ASSUME NEW n \in Nat, NEW c, NEW b
  PROVE  \E f : RootSteps(f, c, b, n)
<1> DEFINE S == {m \in 0 .. n : \E f : RootSteps(f, c, b, m)}
<1>1. 0 \in S
  <2> DEFINE f == [i \in 0 .. 0 |-> c]
  <2>1. RootSteps(f, c, b, 0)
    BY DEF RootSteps
  <2> QED
    BY <2>1
<1>2. ASSUME NEW m \in 1 .. n, m - 1 \in S PROVE m \in S
  <2>1. PICK f : RootSteps(f, c, b, m - 1)
    BY <1>2
  <2>2. PICK g : Extends(g, f, m, Sha256d(f[m - 1] \o b[m]))
    BY ExtensionExists
  <2>3. \A i \in 0 .. m - 1 : g[i] = f[i]
    BY <2>2 DEF Extends
  <2>4. ASSUME NEW i \in 1 .. m PROVE g[i] = Sha256d(g[i - 1] \o b[i])
    <3>1. g[i - 1] = f[i - 1]
      BY <2>3
    <3>2. CASE i = m
      BY <2>2, <3>1, <3>2 DEF Extends
    <3>3. CASE i # m
      <4>1. i \in 1 .. m - 1 /\ i \in 0 .. m - 1
        BY <3>3
      <4> QED
        BY <2>1, <2>3, <3>1, <4>1 DEF RootSteps
    <3> QED
      BY <3>2, <3>3
  <2>5. RootSteps(g, c, b, m)
    <3>1. g[0] = c
      BY <2>1, <2>3 DEF RootSteps
    <3> QED
      BY <2>2, <2>4, <3>1 DEF RootSteps, Extends
  <2> QED
    BY <2>5
<1> HIDE DEF S
<1>3. \A m \in 0 .. n : m \in S
  BY <1>1, <1>2, InductionUpTo
<1> QED
  BY <1>3 DEF S

LEMMA RootIsLast ==
  ASSUME NEW n \in Nat, NEW c, NEW b, OfLength(b, n)
  PROVE  \E f : RootSteps(f, c, b, n) /\ MerkleRoot(c, b) = f[n]
<1> DEFINE Steps(f) == f = [i \in 0 .. n |-> IF i = 0 THEN c ELSE Sha256d(f[i - 1] \o b[i])]
           up == CHOOSE f : Steps(f)
<1>1. Len(b) = n
  BY LengthIs
<1>2. PICK g : RootSteps(g, c, b, n)
  BY RootStepsExist
<1>3. Steps(g)
  <2> DEFINE v(i) == IF i = 0 THEN c ELSE Sha256d(g[i - 1] \o b[i])
  <2>1. g = [i \in 0 .. n |-> g[i]]
    BY <1>2 DEF RootSteps
  <2>2. ASSUME NEW i \in 0 .. n PROVE g[i] = v(i)
    <3>1. CASE i = 0
      BY <1>2, <3>1 DEF RootSteps
    <3>2. CASE i # 0
      <4> DEFINE u == Sha256d(g[i - 1] \o b[i])
      <4>1. g[i] = u
        <5>1. i \in 1 .. n
          BY <3>2
        <5> QED
          BY <1>2, <5>1 DEF RootSteps
      <4>2. v(i) = u
        BY <3>2
      <4> QED
        BY <4>1, <4>2
    <3> QED
      BY <3>1, <3>2
  <2> HIDE DEF v
  <2>3. g = [i \in 0 .. n |-> v(i)]
    BY <2>1, <2>2
  <2> QED
    BY <2>3 DEF v
<1>4. Steps(up)
  BY <1>3
<1>5. MerkleRoot(c, b) = up[n]
  BY <1>1 DEF MerkleRoot
<1> HIDE DEF up
<1>6. RootSteps(up, c, b, n)
  BY <1>4 DEF RootSteps
<1> QED
  BY <1>5, <1>6

LEMMA RootStepsUnique ==
  ASSUME NEW n \in Nat, NEW c, NEW b, NEW e, \A i \in 1 .. n : b[i] = e[i],
         NEW f, RootSteps(f, c, b, n), NEW k \in Nat, n <= k, NEW g, RootSteps(g, c, e, k)
  PROVE  f[n] = g[n]
<1> DEFINE S == {m \in 0 .. n : f[m] = g[m]}
<1>1. 0 \in S
  BY DEF RootSteps
<1>2. ASSUME NEW m \in 1 .. n, m - 1 \in S PROVE m \in S
  <2>1. m \in 1 .. k /\ f[m - 1] = g[m - 1] /\ b[m] = e[m]
    BY <1>2
  <2>2. f[m] = g[m]
    BY <2>1 DEF RootSteps
  <2> QED
    BY <2>2
<1> HIDE DEF S
<1>3. \A m \in 0 .. n : m \in S
  BY <1>1, <1>2, InductionUpTo
<1> QED
  BY <1>3 DEF S

\* y is x, of length n, followed by e.
Appends(y, x, n, e) ==
  /\ OfLength(y, n + 1)
  /\ \A i \in 1 .. n : y[i] = x[i]
  /\ y[n + 1] = e

LEMMA AppendOf ==
  ASSUME NEW n \in Nat, NEW x, OfLength(x, n), NEW e
  PROVE  Appends(Append(x, e), x, n, e)
<1> DEFINE D == {x[i] : i \in 1 .. n} \cup {e}
           y == Append(x, e)
<1>1. x \in [1 .. n -> D] /\ e \in D
  BY DEF OfLength
<1> HIDE DEF D
<1>2. x \in Seq(D) /\ Len(x) = n
  BY <1>1, FunctionIsSequence
<1>3. /\ y \in Seq(D) /\ Len(y) = n + 1
      /\ \A i \in 1 .. n : y[i] = x[i]
      /\ y[n + 1] = e
  BY <1>1, <1>2
<1>4. OfLength(y, n + 1)
  <2> HIDE DEF y
  <2>1. OfLength(y, Len(y))
    BY <1>3, SequenceHasLength
  <2> QED
    BY <1>3, <2>1
<1> QED
  BY <1>3, <1>4 DEF Appends

LEMMA RootOfMore ==
  ASSUME NEW n \in Nat, NEW c, NEW b, OfLength(b, n), NEW h
  PROVE  /\ MerkleRoot(c, Append(b, h)) = Sha256d(MerkleRoot(c, b) \o h)
         /\ MerkleRoot(c, <<>>) = c
<1> DEFINE e == Append(b, h)
           k == n + 1
<1>1. OfLength(e, k) /\ e[k] = h /\ (\A i \in 1 .. n : b[i] = e[i]) /\ k \in Nat /\ n <= k /\ k - 1 = n
  <2>1. Appends(e, b, n, h)
    BY AppendOf
  <2> HIDE DEF e
  <2> QED
    BY <2>1 DEF Appends
<1> HIDE DEF e, k
<1>2. PICK f : RootSteps(f, c, b, n) /\ MerkleRoot(c, b) = f[n]
  BY RootIsLast
<1>3. PICK g : RootSteps(g, c, e, k) /\ MerkleRoot(c, e) = g[k]
  BY <1>1, RootIsLast
<1>4. f[n] = g[n]
  BY <1>1, <1>2, <1>3, RootStepsUnique
<1>5. g[k] = Sha256d(g[k - 1] \o e[k])
  <2>1. k \in 1 .. k
    BY <1>1
  <2> QED
    BY <1>3, <2>1 DEF RootSteps
<1>6. MerkleRoot(c, e) = Sha256d(MerkleRoot(c, b) \o h)
  BY <1>1, <1>2, <1>3, <1>4, <1>5
<1>7. MerkleRoot(c, <<>>) = c
  <2>1. OfLength(<<>>, 0)
    BY DEF OfLength
  <2>2. PICK u : RootSteps(u, c, <<>>, 0) /\ MerkleRoot(c, <<>>) = u[0]
    BY <2>1, RootIsLast
  <2> QED
    BY <2>2 DEF RootSteps
<1> QED
  BY <1>6, <1>7 DEF e

LevelSteps(f, hashes, n) ==
  /\ f = [i \in 0 .. n |-> f[i]]
  /\ f[0] = hashes
  /\ \A i \in 1 .. n : f[i] = IF Len(f[i - 1]) > 1 THEN NextLevel(f[i - 1]) ELSE f[i - 1]

LEMMA LevelStepsExist ==
  ASSUME NEW n \in Nat, NEW hashes
  PROVE  \E f : LevelSteps(f, hashes, n)
<1> DEFINE S == {m \in 0 .. n : \E f : LevelSteps(f, hashes, m)}
           up(l) == IF Len(l) > 1 THEN NextLevel(l) ELSE l
<1>1. 0 \in S
  <2> DEFINE f == [i \in 0 .. 0 |-> hashes]
  <2>1. LevelSteps(f, hashes, 0)
    BY DEF LevelSteps
  <2> QED
    BY <2>1
<1>2. ASSUME NEW m \in 1 .. n, m - 1 \in S PROVE m \in S
  <2>1. PICK f : LevelSteps(f, hashes, m - 1)
    BY <1>2
  <2>2. PICK g : Extends(g, f, m, up(f[m - 1]))
    <3> HIDE DEF up
    <3> QED
      BY ExtensionExists
  <2>3. /\ f[0] = hashes
        /\ \A i \in 1 .. m - 1 : f[i] = up(f[i - 1])
    BY <2>1 DEF LevelSteps
  <2> HIDE DEF up
  <2>4. g[m] = up(f[m - 1]) /\ \A i \in 0 .. m - 1 : g[i] = f[i]
    BY <2>2 DEF Extends
  <2>5. ASSUME NEW i \in 1 .. m PROVE g[i] = up(g[i - 1])
    <3>1. g[i - 1] = f[i - 1]
      BY <2>4
    <3>2. CASE i = m
      BY <2>4, <3>1, <3>2
    <3>3. CASE i # m
      <4>1. i \in 1 .. m - 1 /\ i \in 0 .. m - 1
        BY <3>3
      <4> QED
        BY <2>3, <2>4, <3>1, <4>1
    <3> QED
      BY <3>2, <3>3
  <2>6. LevelSteps(g, hashes, m)
    <3>1. g[0] = hashes
      BY <2>3, <2>4
    <3> QED
      BY <2>2, <2>5, <3>1 DEF LevelSteps, Extends, up
  <2> QED
    BY <2>6
<1> HIDE DEF S
<1>3. \A m \in 0 .. n : m \in S
  BY <1>1, <1>2, InductionUpTo
<1> QED
  BY <1>3 DEF S

LEMMA RootIsOnTop ==
  ASSUME NEW n \in Nat, n > 0, NEW hashes, OfLength(hashes, n)
  PROVE  \E f : LevelSteps(f, hashes, n) /\ ComputeMerkleRoot(hashes) = f[n][1]
<1> DEFINE up(l) == IF Len(l) > 1 THEN NextLevel(l) ELSE l
           Steps(f) == f = [i \in 0 .. n |->
                              IF i = 0 THEN hashes
                              ELSE IF Len(f[i - 1]) > 1 THEN NextLevel(f[i - 1])
                              ELSE f[i - 1]]
           g == CHOOSE f : Steps(f)
<1>1. Len(hashes) = n /\ hashes # <<>>
  <2>1. Len(hashes) = n
    BY LengthIs
  <2>2. Len(<<>>) = 0
    OBVIOUS
  <2> QED
    BY <2>1, <2>2
<1>2. PICK h : LevelSteps(h, hashes, n)
  BY LevelStepsExist
<1>3. Steps(h)
  <2> DEFINE v(i) == IF i = 0 THEN hashes ELSE up(h[i - 1])
  <2>1. h = [i \in 0 .. n |-> h[i]]
    BY <1>2 DEF LevelSteps
  <2>2. \A i \in 0 .. n : h[i] = v(i)
    BY <1>2 DEF LevelSteps
  <2> HIDE DEF v
  <2>3. h = [i \in 0 .. n |-> v(i)]
    BY <2>1, <2>2
  <2> QED
    BY <2>3 DEF v
<1>4. Steps(g)
  BY <1>3
<1>5. ComputeMerkleRoot(hashes) = g[n][1]
  BY <1>1 DEF ComputeMerkleRoot
<1> HIDE DEF g
<1>6. LevelSteps(g, hashes, n)
  BY <1>4 DEF LevelSteps
<1> QED
  BY <1>5, <1>6

\* What a level of the pool's own tree becomes for the branches of its first hash.
Passed(level) ==
  IF level.rest = <<>> THEN level
  ELSE [branches |-> Append(level.branches, Head(level.rest)),
        rest     |-> NextLevel(Tail(level.rest))]

BranchSteps(f, others, n) ==
  /\ f = [i \in 0 .. n |-> f[i]]
  /\ f[0] = [branches |-> <<>>, rest |-> others]
  /\ \A i \in 1 .. n : f[i] = Passed(f[i - 1])

LEMMA BranchStepsExist ==
  ASSUME NEW n \in Nat, NEW others
  PROVE  \E f : BranchSteps(f, others, n)
<1> DEFINE S == {m \in 0 .. n : \E f : BranchSteps(f, others, m)}
           first == [branches |-> <<>>, rest |-> others]
<1>1. 0 \in S
  <2> DEFINE f == [i \in 0 .. 0 |-> first]
  <2>1. BranchSteps(f, others, 0)
    BY DEF BranchSteps
  <2> QED
    BY <2>1
<1>2. ASSUME NEW m \in 1 .. n, m - 1 \in S PROVE m \in S
  <2>1. PICK f : BranchSteps(f, others, m - 1)
    BY <1>2
  <2>2. PICK g : Extends(g, f, m, Passed(f[m - 1]))
    BY ExtensionExists
  <2>3. f[0] = first /\ \A i \in 1 .. m - 1 : f[i] = Passed(f[i - 1])
    BY <2>1 DEF BranchSteps
  <2>4. g[m] = Passed(f[m - 1]) /\ \A i \in 0 .. m - 1 : g[i] = f[i]
    BY <2>2 DEF Extends
  <2>5. ASSUME NEW i \in 1 .. m PROVE g[i] = Passed(g[i - 1])
    <3>1. g[i - 1] = f[i - 1]
      BY <2>4
    <3>2. CASE i = m
      BY <2>4, <3>1, <3>2
    <3>3. CASE i # m
      <4>1. i \in 1 .. m - 1 /\ i \in 0 .. m - 1
        BY <3>3
      <4> QED
        BY <2>3, <2>4, <3>1, <4>1
    <3> QED
      BY <3>2, <3>3
  <2>6. BranchSteps(g, others, m)
    <3>1. g[0] = first
      BY <2>3, <2>4
    <3> QED
      BY <2>2, <2>5, <3>1 DEF BranchSteps, Extends
  <2> QED
    BY <2>6
<1> HIDE DEF S
<1>3. \A m \in 0 .. n : m \in S
  BY <1>1, <1>2, InductionUpTo
<1> QED
  BY <1>3 DEF S

LEMMA BranchesAreLast ==
  ASSUME NEW n \in Nat, NEW others, OfLength(others, n)
  PROVE  \E f : BranchSteps(f, others, n) /\ Branches(others) = f[n].branches
<1> DEFINE Steps(f) == f = [i \in 0 .. n |->
                              IF i = 0 THEN [branches |-> <<>>, rest |-> others]
                              ELSE IF f[i - 1].rest = <<>> THEN f[i - 1]
                              ELSE [branches |-> Append(f[i - 1].branches, Head(f[i - 1].rest)),
                                    rest     |-> NextLevel(Tail(f[i - 1].rest))]]
           g == CHOOSE f : Steps(f)
<1>1. Len(others) = n
  BY LengthIs
<1>2. PICK h : BranchSteps(h, others, n)
  BY BranchStepsExist
<1>3. Steps(h)
  <2> DEFINE v(i) == IF i = 0 THEN [branches |-> <<>>, rest |-> others] ELSE Passed(h[i - 1])
  <2>1. h = [i \in 0 .. n |-> h[i]]
    BY <1>2 DEF BranchSteps
  <2>2. ASSUME NEW i \in 0 .. n PROVE h[i] = v(i)
    <3>1. CASE i = 0
      BY <1>2, <3>1 DEF BranchSteps
    <3>2. CASE i # 0
      <4> DEFINE u == Passed(h[i - 1])
      <4>1. h[i] = u
        <5>1. i \in 1 .. n
          BY <3>2
        <5> QED
          BY <1>2, <5>1 DEF BranchSteps
      <4>2. v(i) = u
        BY <3>2
      <4> QED
        BY <4>1, <4>2
    <3> QED
      BY <3>1, <3>2
  <2> HIDE DEF v
  <2>3. h = [i \in 0 .. n |-> v(i)]
    BY <2>1, <2>2
  <2> QED
    BY <2>3 DEF v, Passed
<1>4. Steps(g)
  BY <1>3
<1>5. Branches(others) = g[n].branches
  BY <1>1 DEF Branches
<1> HIDE DEF g
<1>6. BranchSteps(g, others, n)
  <2> DEFINE v(i) == IF i = 0 THEN [branches |-> <<>>, rest |-> others] ELSE Passed(g[i - 1])
  <2>1. g = [i \in 0 .. n |-> v(i)]
    BY <1>4 DEF Passed
  <2>2. v(0) = [branches |-> <<>>, rest |-> others]
    OBVIOUS
  <2>6. ASSUME NEW i \in 1 .. n PROVE v(i) = Passed(g[i - 1])
    <3> DEFINE p == Passed(g[i - 1])
               z == i = 0
    <3>1. v(i) = IF z THEN [branches |-> <<>>, rest |-> others] ELSE p
      OBVIOUS
    <3>2. ~z
      OBVIOUS
    <3> HIDE DEF v, p, z
    <3> QED
      BY <3>1, <3>2 DEF p
  <2> HIDE DEF v
  <2>3. g = [i \in 0 .. n |-> g[i]] /\ \A i \in 0 .. n : g[i] = v(i)
    BY <2>1
  <2>4. g[0] = [branches |-> <<>>, rest |-> others]
    BY <2>2, <2>3
  <2>5. ASSUME NEW i \in 1 .. n PROVE g[i] = Passed(g[i - 1])
    <3>1. i \in 0 .. n
      OBVIOUS
    <3>2. g[i] = v(i)
      BY <2>3, <3>1, Zenon
    <3> QED
      BY <2>6, <3>2, Zenon
  <2> QED
    BY <2>3, <2>4, <2>5 DEF BranchSteps
<1> QED
  BY <1>5, <1>6

LEMMA TailOf ==
  ASSUME NEW n \in Nat, n > 0, NEW x, OfLength(x, n)
  PROVE  /\ Head(x) = x[1] /\ OfLength(Tail(x), n - 1)
         /\ \A i \in 1 .. n - 1 : Tail(x)[i] = x[i + 1]
<1> DEFINE D == {x[i] : i \in 1 .. n}
           t == Tail(x)
<1>1. x \in Seq(D) /\ Len(x) = n
  BY LengthIs
<1> HIDE DEF D
<1>2. Head(x) = x[1] /\ t \in Seq(D) /\ Len(t) = n - 1 /\ \A i \in 1 .. n - 1 : t[i] = x[i + 1]
  BY <1>1
<1> HIDE DEF t
<1>3. OfLength(t, Len(t))
  BY <1>2, SequenceHasLength
<1> QED
  BY <1>2, <1>3 DEF t

\* The hash of the i-th pair of a level of n hashes.
Paired(level, n, i) ==
  Sha256d(level[2 * i - 1] \o (IF 2 * i <= n THEN level[2 * i] ELSE level[2 * i - 1]))

LEMMA NextLevelOf ==
  ASSUME NEW n \in Nat, NEW level, OfLength(level, n)
  PROVE  /\ OfLength(NextLevel(level), (n + 1) \div 2)
         /\ \A i \in 1 .. (n + 1) \div 2 : NextLevel(level)[i] = Paired(level, n, i)
<1> DEFINE v(i) == LET left  == level[2 * i - 1]
                       right == IF 2 * i <= n THEN level[2 * i] ELSE left
                   IN  Sha256d(left \o right)
           h == (n + 1) \div 2
           x == NextLevel(level)
<1>1. Len(level) = n
  BY LengthIs
<1>2. x = [i \in 1 .. h |-> v(i)]
  BY <1>1 DEF NextLevel
<1>3. \A i : v(i) = Paired(level, n, i)
  BY DEF Paired
<1> HIDE DEF v, h, x
<1>4. OfLength(x, h) /\ \A i \in 1 .. h : x[i] = Paired(level, n, i)
  BY <1>2, <1>3 DEF OfLength
<1> QED
  BY <1>4 DEF x, h

(* A level of the whole tree is the hash over the coinbase, followed by    *)
(* the level the pool keeps; the next ones are again so.                   *)
LEMMA LevelsClimb ==
  ASSUME NEW l \in Nat, l > 0, NEW rest, OfLength(rest, l), NEW x,
         NEW level, Joins(level, <<x>>, 1, rest, l)
  PROVE  \E k \in Nat :
           /\ k < l
           /\ OfLength(NextLevel(Tail(rest)), k)
           /\ Joins(NextLevel(level), <<Sha256d(x \o Head(rest))>>, 1, NextLevel(Tail(rest)), k)
<1> DEFINE k == l \div 2
           t == Tail(rest)
           u == NextLevel(t)
           next == NextLevel(level)
           y == Sha256d(x \o Head(rest))
           n == l + 1
           m == l - 1
<1>1. /\ k \in Nat /\ k < l /\ (n + 1) \div 2 = 1 + k /\ (m + 1) \div 2 = k
      /\ n \in Nat /\ m \in Nat /\ 1 + l = n
  OBVIOUS
<1>2. Head(rest) = rest[1] /\ OfLength(t, m) /\ \A i \in 1 .. m : t[i] = rest[i + 1]
  BY TailOf
<1>3. /\ OfLength(level, n) /\ level[1] = x
      /\ \A i \in 1 .. l : level[1 + i] = rest[i]
  <2>1. 1 \in 1 .. 1 /\ <<x>>[1] = x
    OBVIOUS
  <2> QED
    BY <1>1, <2>1 DEF Joins
<1> HIDE DEF t
<1>4. OfLength(next, (n + 1) \div 2) /\ \A i \in 1 .. (n + 1) \div 2 : next[i] = Paired(level, n, i)
  <2> HIDE DEF n
  <2> QED
    BY <1>1, <1>3, NextLevelOf
<1>5. OfLength(u, (m + 1) \div 2) /\ \A i \in 1 .. (m + 1) \div 2 : u[i] = Paired(t, m, i)
  <2> HIDE DEF m
  <2> QED
    BY <1>1, <1>2, NextLevelOf
<1> HIDE DEF next, u
<1>6. next[1] = y
  <2>1. 1 \in 1 .. 1 + k /\ 2 * 1 - 1 = 1 /\ 2 * 1 = 2 /\ 2 <= n /\ 1 \in 1 .. l /\ 1 + 1 = 2
    BY <1>1
  <2>2. level[2] = rest[1] /\ next[1] = Paired(level, n, 1)
    BY <1>1, <1>3, <1>4, <2>1
  <2> HIDE DEF n
  <2>3. Paired(level, n, 1) = Sha256d(level[1] \o level[2])
    BY <2>1 DEF Paired
  <2> QED
    BY <1>2, <1>3, <2>2, <2>3
<1>7. ASSUME NEW i \in 1 .. k PROVE next[1 + i] = u[i]
  <2> DEFINE a == 2 * i - 1
             b == 2 * i
             c == 2 * (1 + i) - 1
             d == 2 * (1 + i)
  <2>1. 1 + i \in 1 .. 1 + k /\ a \in 1 .. m /\ c = 1 + (a + 1) /\ a + 1 \in 1 .. l
    OBVIOUS
  <2>2. (b <= m) = (d <= n)
    OBVIOUS
  <2>3. d <= n => b \in 1 .. m /\ d = 1 + (b + 1) /\ b + 1 \in 1 .. l
    OBVIOUS
  <2>4. next[1 + i] = Paired(level, n, 1 + i) /\ u[i] = Paired(t, m, i)
    BY <1>1, <1>4, <1>5, <2>1
  <2>5. t[a] = level[c]
    BY <1>2, <1>3, <2>1
  <2>6. d <= n => t[b] = level[d]
    BY <1>2, <1>3, <2>3
  <2>7. /\ Paired(level, n, 1 + i) = Sha256d(level[c] \o (IF d <= n THEN level[d] ELSE level[c]))
        /\ Paired(t, m, i) = Sha256d(t[a] \o (IF b <= m THEN t[b] ELSE t[a]))
    BY DEF Paired
  <2> DEFINE p == d <= n
             q == b <= m
  <2>8. q = p
    BY <2>2
  <2> HIDE DEF a, b, c, d, n, m
  <2>9. CASE p
    <3>1. Paired(level, n, 1 + i) = Sha256d(level[c] \o level[d])
      BY <2>7, <2>9
    <3>2. Paired(t, m, i) = Sha256d(t[a] \o t[b])
      BY <2>7, <2>8, <2>9
    <3> QED
      BY <2>4, <2>5, <2>6, <2>9, <3>1, <3>2
  <2>10. CASE ~p
    <3>1. Paired(level, n, 1 + i) = Sha256d(level[c] \o level[c])
      BY <2>7, <2>10
    <3>2. Paired(t, m, i) = Sha256d(t[a] \o t[a])
      BY <2>7, <2>8, <2>10
    <3> QED
      BY <2>4, <2>5, <3>1, <3>2
  <2> QED
    BY <2>9, <2>10
<1>8. OfLength(next, 1 + k) /\ OfLength(u, k)
  BY <1>1, <1>4, <1>5
<1>9. Joins(next, <<y>>, 1, u, k)
  <2>1. \A i \in 1 .. 1 : next[i] = <<y>>[i]
    BY <1>6
  <2> HIDE DEF k, y
  <2> QED
    BY <1>7, <1>8, <2>1 DEF Joins
<1> QED
  BY <1>1, <1>8, <1>9 DEF next, u, t

(* The branches so far and what is left of the pool's level belong to the  *)
(* level of the whole tree.                                                *)
Together(kept, level, c, bound) ==
  \E k \in Nat, l \in Nat :
    /\ l <= bound
    /\ OfLength(kept.branches, k)
    /\ OfLength(kept.rest, l)
    /\ Joins(level, <<MerkleRoot(c, kept.branches)>>, 1, kept.rest, l)

LEMMA TogetherUp ==
  ASSUME NEW kept, NEW level, NEW c, NEW m \in Nat, m > 0, Together(kept, level, c, m)
  PROVE  Together(Passed(kept), IF Len(level) > 1 THEN NextLevel(level) ELSE level, c, m - 1)
<1>1. PICK k \in Nat, l \in Nat :
        /\ l <= m
        /\ OfLength(kept.branches, k)
        /\ OfLength(kept.rest, l)
        /\ Joins(level, <<MerkleRoot(c, kept.branches)>>, 1, kept.rest, l)
  BY DEF Together
<1> DEFINE up == IF Len(level) > 1 THEN NextLevel(level) ELSE level
           x == MerkleRoot(c, kept.branches)
           bs == kept.branches
           rest == kept.rest
<1>2. Len(level) = 1 + l
  <2>1. OfLength(level, 1 + l)
    BY <1>1 DEF Joins
  <2> DEFINE n == 1 + l
  <2>2. n \in Nat
    OBVIOUS
  <2> HIDE DEF n
  <2>3. Len(level) = n
    BY <2>1, <2>2, LengthIs DEF n
  <2> QED
    BY <2>3 DEF n
<1>3. Len(rest) = l /\ Len(<<>>) = 0
  BY <1>1, LengthIs
<1>4. CASE l = 0
  <2>1. up = level
    BY <1>2, <1>4
  <2>2. rest = <<>>
    <3>1. OfLength(rest, 0)
      BY <1>1, <1>4
    <3>2. OfLength(<<>>, 0)
      BY DEF OfLength
    <3>3. 1 .. 0 = {}
      OBVIOUS
    <3> HIDE DEF rest
    <3> QED
      BY <3>1, <3>2, <3>3 DEF OfLength
  <2>3. Passed(kept) = kept
    BY <2>2 DEF Passed
  <2>4. l <= m - 1
    BY <1>4
  <2>5. Together(kept, level, c, m - 1)
    BY <1>1, <2>4 DEF Together
  <2> QED
    BY <2>1, <2>3, <2>5
<1>5. CASE l # 0
  <2> DEFINE more == Append(bs, Head(rest))
             new == NextLevel(Tail(rest))
             y == Sha256d(x \o Head(rest))
             next == NextLevel(level)
             kk == k + 1
  <2>1. up = next
    BY <1>2, <1>5
  <2>2. rest # <<>>
    BY <1>3, <1>5
  <2>3. Passed(kept) = [branches |-> more, rest |-> new]
    BY <2>2 DEF Passed
  <2>4. PICK j \in Nat : j < l /\ OfLength(new, j) /\ Joins(next, <<y>>, 1, new, j)
    <3>1. l > 0 /\ OfLength(rest, l) /\ Joins(level, <<x>>, 1, rest, l)
      BY <1>1, <1>5
    <3> HIDE DEF rest, x
    <3> QED
      BY <3>1, LevelsClimb
  <2>5. MerkleRoot(c, more) = y
    <3> HIDE DEF bs
    <3>1. OfLength(bs, k)
      BY <1>1 DEF bs
    <3>2. \A h : MerkleRoot(c, Append(bs, h)) = Sha256d(MerkleRoot(c, bs) \o h)
      BY <3>1, RootOfMore
    <3> QED
      BY <3>2 DEF bs
  <2>6. OfLength(more, kk) /\ kk \in Nat
    <3> HIDE DEF bs
    <3>1. OfLength(bs, k)
      BY <1>1 DEF bs
    <3>2. Appends(more, bs, k, Head(rest))
      BY <3>1, AppendOf
    <3> QED
      BY <3>2 DEF Appends
  <2> DEFINE p == Passed(kept)
  <2>7. p.branches = more /\ p.rest = new
    BY <2>3
  <2>8. j <= m - 1
    BY <1>1, <2>4
  <2> HIDE DEF more, new, y, next, kk, p
  <2>9. Together(p, next, c, m - 1)
    BY <2>4, <2>5, <2>6, <2>7, <2>8 DEF Together
  <2> QED
    BY <2>1, <2>9 DEF p
<1> QED
  BY <1>4, <1>5

(* Folding the branches into the hash of the coinbase gives the root of    *)
(* the tree of all the transactions.                                       *)
LEMMA BranchesLeadToRoot ==
  ASSUME NEW c, NEW n \in Nat, NEW others, OfLength(others, n)
  PROVE  /\ MerkleRoot(c, Branches(others)) = ComputeMerkleRoot(<<c>> \o others)
         /\ \E k \in Nat : OfLength(Branches(others), k)
<1> DEFINE all == <<c>> \o others
           k == n + 1
<1>1. Joins(all, <<c>>, 1, others, n) /\ OfLength(all, k) /\ k \in Nat /\ k > 0
  <2>1. OfLength(<<c>>, 1)
    BY DEF OfLength
  <2> DEFINE s == <<c>>
             o == 1
  <2>2. OfLength(s, o) /\ o \in Nat
    BY <2>1
  <2> HIDE DEF s, o
  <2>3. Joins(s \o others, s, o, others, n)
    BY <2>2, ConcatOf
  <2>4. Joins(all, <<c>>, 1, others, n)
    BY <2>3 DEF s, o
  <2>5. 1 + n = k
    OBVIOUS
  <2> HIDE DEF all
  <2> QED
    BY <2>4, <2>5 DEF Joins
<1> HIDE DEF all
<1>2. PICK f : BranchSteps(f, others, n) /\ Branches(others) = f[n].branches
  BY BranchesAreLast
<1>3. PICK g : LevelSteps(g, all, k) /\ ComputeMerkleRoot(all) = g[k][1]
  <2> HIDE DEF k
  <2> QED
    BY <1>1, RootIsOnTop
<1> DEFINE S == {i \in 0 .. n : Together(f[i], g[i], c, n - i)}
<1>4. 0 \in S
  <2>1. f[0] = [branches |-> <<>>, rest |-> others] /\ g[0] = all
    BY <1>2, <1>3 DEF BranchSteps, LevelSteps
  <2>2. MerkleRoot(c, <<>>) = c
    <3>1. OfLength(<<>>, 0)
      BY DEF OfLength
    <3> QED
      BY <3>1, RootOfMore
  <2>3. OfLength(<<>>, 0)
    BY DEF OfLength
  <2> DEFINE x == f[0]
             y == <<>>
  <2>4. x.branches = y /\ x.rest = others
    BY <2>1
  <2>5. Together(x, all, c, n)
    <3>1. OfLength(x.branches, 0)
      BY <2>3, <2>4
    <3>2. Joins(all, <<MerkleRoot(c, x.branches)>>, 1, x.rest, n)
      BY <1>1, <2>2, <2>4
    <3> HIDE DEF x
    <3> QED
      BY <2>4, <3>1, <3>2 DEF Together
  <2>6. n - 0 = n
    OBVIOUS
  <2> QED
    BY <2>1, <2>5, <2>6
<1>5. ASSUME NEW i \in 1 .. n, i - 1 \in S PROVE i \in S
  <2> DEFINE t == f[i - 1]
             l == g[i - 1]
             m == n - (i - 1)
             up == IF Len(l) > 1 THEN NextLevel(l) ELSE l
  <2>1. Together(t, l, c, m) /\ m \in Nat /\ m > 0 /\ m - 1 = n - i
    BY <1>5
  <2>2. f[i] = Passed(t)
    BY <1>2 DEF BranchSteps
  <2>3. g[i] = up
    <3>1. i \in 1 .. k
      OBVIOUS
    <3> HIDE DEF k
    <3> QED
      BY <1>3, <3>1 DEF LevelSteps
  <2> HIDE DEF t, l, m
  <2>4. Together(Passed(t), up, c, m - 1)
    BY <2>1, TogetherUp
  <2> QED
    BY <2>1, <2>2, <2>3, <2>4
<1> HIDE DEF S
<1>6. \A i \in 0 .. n : i \in S
  BY <1>4, <1>5, InductionUpTo
<1>7. Together(f[n], g[n], c, n - n)
  BY <1>6 DEF S
<1>8. PICK p \in Nat, l \in Nat :
        /\ l <= n - n
        /\ OfLength(f[n].branches, p)
        /\ Joins(g[n], <<MerkleRoot(c, f[n].branches)>>, 1, f[n].rest, l)
  BY <1>7 DEF Together
<1>9. l = 0
  BY <1>8
<1>10. g[n][1] = MerkleRoot(c, f[n].branches) /\ OfLength(g[n], 1)
  <2> DEFINE x == MerkleRoot(c, f[n].branches)
  <2>1. 1 \in 1 .. 1 /\ <<x>>[1] = x /\ 1 + 0 = 1
    OBVIOUS
  <2>2. Joins(g[n], <<x>>, 1, f[n].rest, 0)
    BY <1>8, <1>9
  <2> HIDE DEF x
  <2>3. g[n][1] = <<x>>[1] /\ OfLength(g[n], 1)
    BY <2>1, <2>2 DEF Joins
  <2> QED
    BY <2>1, <2>3 DEF x
<1>11. g[k] = g[n]
  <2>1. k \in 1 .. k /\ k - 1 = n
    OBVIOUS
  <2>2. Len(g[n]) = 1
    BY <1>10, LengthIs
  <2> HIDE DEF k
  <2>3. g[k] = IF Len(g[k - 1]) > 1 THEN NextLevel(g[k - 1]) ELSE g[k - 1]
    BY <1>3, <2>1 DEF LevelSteps
  <2>4. ~(Len(g[n]) > 1)
    BY <2>2
  <2> QED
    BY <2>1, <2>3, <2>4
<1> QED
  BY <1>2, <1>3, <1>8, <1>10, <1>11 DEF all

-----------------------------------------------------------------------------
(* Numbers, written and read.                                              *)
LEMMA QuotientOfQuotient ==
  ASSUME NEW a \in Nat, NEW b \in Nat, b > 0, NEW d \in Nat, d > 0
  PROVE  (a \div b) \div d = a \div (d * b)
<1> DEFINE q == a \div b
           r == a % b
           s == q \div d
           u == q % d
<1>1. q \in Nat /\ r \in Nat /\ r < b /\ a = q * b + r
  BY QuotientAndRemainder
<1> HIDE DEF q, r
<1>2. s \in Nat /\ u \in Nat /\ u < d /\ q = s * d + u
  BY <1>1, QuotientAndRemainder
<1> HIDE DEF s, u
<1> DEFINE c == d * b
           t == u * b + r
<1>3. t \in Nat /\ t < c
  <2>1. u + 1 <= d
    BY <1>2
  <2>2. u * b + b <= d * b
    BY <1>2, <2>1, OneMoreBase
  <2>3. u * b \in Nat /\ d * b \in Nat
    BY <1>2, ProductIsNat
  <2> QED
    BY <1>1, <2>2, <2>3
<1>4. a = s * c + t
  <2>1. q * b = s * (d * b) + u * b
    <3> DEFINE p == s * d
    <3>1. p \in Nat /\ q = p + u
      BY <1>2, ProductIsNat
    <3>2. p * b = s * (d * b)
      BY <1>2
    <3> HIDE DEF p
    <3>3. (p + u) * b = p * b + u * b
      BY <1>2, <3>1
    <3> QED
      BY <3>1, <3>2, <3>3
  <2>2. q * b \in Nat /\ s * (d * b) \in Nat /\ u * b \in Nat
    BY <1>1, <1>2, ProductIsNat
  <2> DEFINE x == q * b
             y == s * (d * b)
             z == u * b
  <2>3. a = x + r /\ x = y + z /\ y \in Nat /\ z \in Nat
    BY <1>1, <2>1, <2>2
  <2> HIDE DEF x, y, z
  <2>4. a = y + (z + r)
    BY <1>1, <2>3
  <2> QED
    BY <2>4 DEF y, z
<1>5. c \in Nat /\ c > 0
  <2>1. c \in Nat
    BY ProductIsNat
  <2> QED
    BY <1>3, <2>1
<1> HIDE DEF c, t
<1>6. a \div c = s
  BY <1>2, <1>3, <1>4, <1>5, QuotientIsUnique
<1> QED
  BY <1>6 DEF c, s, q

LEMMA NumberReadBack ==
  ASSUME NEW len \in 0 .. MaxPower, NEW t \in Nat, t < Base ^ len
  PROVE  FromBE(ToBE(t, len)) = t
<1> DEFINE x == [i \in 1 .. len |-> (t \div Base ^ (len - i)) % Base]
<1>0. len \in Nat /\ MaxPower \in Nat
  BY Lengths DEF MaxPower
<1>1. FromBE(ToBE(t, len)) = Value(x)
  <2> DEFINE y == ToBE(t, len)
             v(i) == (t \div Base ^ (len - i)) % Base
  <2>1. y = [i \in 1 .. len |-> <<v(i)>>]
    BY DEF ToBE
  <2>2. x = [i \in 1 .. len |-> v(i)]
    OBVIOUS
  <2> HIDE DEF y, v
  <2>3. [i \in DOMAIN y |-> y[i][1]] = [i \in 1 .. len |-> v(i)]
    BY <2>1
  <2>4. FromBE(y) = Value([i \in DOMAIN y |-> y[i][1]])
    BY DEF FromBE
  <2> HIDE DEF x
  <2> QED
    BY <2>2, <2>3, <2>4 DEF y
<1>2. ASSUME NEW i \in 1 .. len PROVE x[i] = (t \div Base ^ (len - i)) % Base /\ x[i] \in Nat
  <2> DEFINE k == len - i
             v == (t \div Base ^ k) % Base
  <2>1. x[i] = v
    OBVIOUS
  <2>2. k \in 0 .. MaxPower
    BY <1>0
  <2> HIDE DEF k, x
  <2>3. v \in Digits
    BY <2>2, DigitOf
  <2> HIDE DEF v
  <2>4. v \in Nat
    BY <2>3, DigitsAreNumbers
  <2> QED
    BY <2>1, <2>4 DEF v, k
<1>3. x \in [1 .. len -> Nat]
  <2>1. x = [i \in 1 .. len |-> x[i]]
    OBVIOUS
  <2> HIDE DEF x
  <2> QED
    BY <1>2, <2>1
<1> HIDE DEF x
<1>4. PICK f : ValueSteps(f, len, x) /\ Value(x) = f[len]
  BY <1>0, <1>3, ValueIsLast
<1> DEFINE S == {i \in 0 .. len : f[i] = t \div Base ^ (len - i)}
<1>5. 0 \in S
  <2> DEFINE P == Base ^ len
  <2>1. P \in Nat /\ P > 0
    BY PowersArePositive
  <2>2. t < P
    OBVIOUS
  <2> HIDE DEF P
  <2>3. 0 * P = 0 /\ t = 0 * P + t
    BY <2>1
  <2>4. t \div P = 0
    BY <2>1, <2>2, <2>3, QuotientIsUnique
  <2>5. f[0] = 0
    BY <1>4 DEF ValueSteps
  <2>6. len - 0 = len
    BY <1>0
  <2> QED
    BY <1>0, <2>4, <2>5, <2>6 DEF P
<1>6. ASSUME NEW i \in 1 .. len, i - 1 \in S PROVE i \in S
  <2> DEFINE k == len - i
             b == Base ^ k
             q == t \div b
             c == Base ^ (len - (i - 1))
  <2>1. k \in 0 .. MaxPower /\ k + 1 \in 1 .. MaxPower /\ (k + 1) - 1 = k /\ len - (i - 1) = k + 1
    BY <1>0
  <2>2. b \in Nat /\ b > 0 /\ c = Base * b
    <3> HIDE DEF k
    <3>1. Base ^ (k + 1) = Base * Base ^ ((k + 1) - 1)
      BY <2>1, PowersArePositive
    <3> QED
      BY <2>1, <3>1, PowersArePositive
  <2>3. f[i - 1] = t \div c
    BY <1>6
  <2>4. f[i] = f[i - 1] * Base + x[i]
    BY <1>4 DEF ValueSteps
  <2>5. x[i] = q % Base
    BY <1>2
  <2> HIDE DEF b, c
  <2>6. t \div c = q \div Base
    BY <2>2, DigitsAreNumbers, QuotientOfQuotient
  <2>7. q \in Nat
    BY <2>2, QuotientAndRemainder
  <2> HIDE DEF q
  <2>8. q = (q \div Base) * Base + (q % Base)
    BY <2>7, DigitsAreNumbers, QuotientAndRemainder
  <2>9. f[i] = q
    BY <2>3, <2>4, <2>5, <2>6, <2>8
  <2> QED
    BY <2>9 DEF q, b, k
<1> HIDE DEF S
<1>7. \A i \in 0 .. len : i \in S
  BY <1>0, <1>5, <1>6, InductionUpTo
<1>8. f[len] = t
  <2>1. f[len] = t \div Base ^ (len - len) /\ len - len = 0
    BY <1>0, <1>7 DEF S
  <2>2. Base ^ 0 = 1
    BY PowersOfBase
  <2>3. t \div 1 = t
    OBVIOUS
  <2> QED
    BY <2>1, <2>2, <2>3
<1> QED
  BY <1>1, <1>4, <1>8

LEMMA WordReadBack ==
  ASSUME NEW t \in 0 .. MaxU32
  PROVE  FromBE(ToBE(t, WordLen)) = t
<1>1. WordLen \in 0 .. MaxPower
  BY Lengths, BlockHashAssumption DEF MaxPower
<1> DEFINE P == Base ^ WordLen
<1>2. P \in Nat /\ MaxU32 = P - 1
  BY <1>1, PowersArePositive DEF MaxU32
<1> HIDE DEF P
<1>3. t \in Nat /\ t < P
  BY <1>2
<1> QED
  BY <1>1, <1>3, NumberReadBack DEF P

-----------------------------------------------------------------------------
(* Headers.                                                                *)
LEMMA ConcatLength ==
  ASSUME NEW n \in Nat, NEW x, OfLength(x, n), NEW m \in Nat, NEW y, OfLength(y, m)
  PROVE  OfLength(x \o y, n + m) /\ n + m \in Nat
<1>1. Joins(x \o y, x, n, y, m)
  BY ConcatOf
<1> QED
  BY <1>1 DEF Joins

LEMMA DigestLength ==
  ASSUME NEW message
  PROVE  OfLength(Sha256d(message), DigestLen)
<1> DEFINE m == Digest(message)
<1>1. \E s : Digest(m) = StateBytes(s)
  <2> HIDE DEF m
  <2> QED
    BY DEF Digest
<1> QED
  BY <1>1, StateBytesLength DEF Sha256d

LEMMA RootLength ==
  ASSUME NEW c, OfLength(c, DigestLen), NEW k \in Nat, NEW b, OfLength(b, k)
  PROVE  OfLength(MerkleRoot(c, b), DigestLen)
<1>1. PICK f : RootSteps(f, c, b, k) /\ MerkleRoot(c, b) = f[k]
  BY RootIsLast
<1>2. CASE k = 0
  BY <1>1, <1>2 DEF RootSteps
<1>3. CASE k # 0
  <2>1. f[k] = Sha256d(f[k - 1] \o b[k])
    BY <1>1, <1>3 DEF RootSteps
  <2> QED
    BY <1>1, <2>1, DigestLength
<1> QED
  BY <1>2, <1>3

Serialized(v, p, m, t, b, n) ==
  Serialize([version |-> v, prevHash |-> p, merkleRoot |-> m, timestamp |-> t, bits |-> b,
             nonce |-> n])

LEMMA HeaderWithNonce ==
  ASSUME NEW v, NEW p, OfLength(p, DigestLen), NEW m, OfLength(m, DigestLen), NEW t, NEW b,
         NEW n, NEW k
  PROVE  /\ OfLength(Serialized(v, p, m, t, b, n), HeaderLen)
         /\ WithNonce(Serialized(v, p, m, t, b, n), k) = Serialized(v, p, m, t, b, k)
<1> DEFINE w == WordLen
           d == DigestLen
           lv == ToLE(v, w)
           lt == ToLE(t, w)
           lb == ToLE(b, w)
           ln == ToLE(n, w)
           lk == ToLE(k, w)
           x1 == lv \o p
           x2 == x1 \o m
           x3 == x2 \o lt
           x4 == x3 \o lb
           h  == x4 \o ln
           n4 == w + d + d + w + w
<1>1. w \in Nat /\ d \in Nat /\ HeaderLen = n4 + w /\ HeaderLen - WordLen = n4
  BY Lengths, BlockLengths
<1>2. Serialized(v, p, m, t, b, n) = h /\ Serialized(v, p, m, t, b, k) = x4 \o lk
  BY DEF Serialized, Serialize
<1> HIDE DEF d
<1>3. OfLength(p, d) /\ OfLength(m, d)
  BY DEF d
<1> HIDE DEF w
<1>4. OfLength(lv, w) /\ OfLength(lt, w) /\ OfLength(lb, w) /\ OfLength(ln, w) /\ OfLength(lk, w)
  BY <1>1, ToBELength
<1> HIDE DEF lv, lt, lb, ln, lk
<1>5. OfLength(x1, w + d) /\ w + d \in Nat
  BY <1>1, <1>3, <1>4, ConcatLength
<1>6. OfLength(x2, w + d + d) /\ w + d + d \in Nat
  <2> DEFINE l == w + d
  <2> HIDE DEF x1, l
  <2>1. OfLength(x1 \o m, l + d) /\ l + d \in Nat
    BY <1>1, <1>3, <1>5, ConcatLength DEF l
  <2> QED
    BY <2>1 DEF l
<1>7. OfLength(x3, w + d + d + w) /\ w + d + d + w \in Nat
  <2> DEFINE l == w + d + d
  <2> HIDE DEF x2, l
  <2>1. OfLength(x2 \o lt, l + w) /\ l + w \in Nat
    BY <1>1, <1>4, <1>6, ConcatLength DEF l
  <2> QED
    BY <2>1 DEF l
<1>8. OfLength(x4, n4) /\ n4 \in Nat
  <2> DEFINE l == w + d + d + w
  <2> HIDE DEF x3, l
  <2>1. OfLength(x3 \o lb, l + w) /\ l + w \in Nat
    BY <1>1, <1>4, <1>7, ConcatLength DEF l
  <2> QED
    BY <2>1 DEF l
<1> HIDE DEF x4, n4
<1>9. OfLength(h, n4 + w)
  BY <1>1, <1>4, <1>8, ConcatLength
<1>10. SubSeq(h, 1, n4) = x4
  BY <1>1, <1>4, <1>8, PartsOfConcat
<1>11. WithNonce(h, k) = x4 \o lk
  <2> HIDE DEF h
  <2>1. WithNonce(h, k) = SubSeq(h, 1, n4) \o ToLE(k, WordLen)
    BY <1>1 DEF WithNonce
  <2> QED
    BY <1>10, <2>1 DEF lk, w
<1> QED
  BY <1>1, <1>2, <1>9, <1>11

\* The coinbase and the header of a job in a session: the pool asked for n bytes of extranonce2.
CoinbaseOf(job, s, n, e) ==
  BuildCoinbaseTx(Lit(job.coinbase1) \o Extranonce1(s), e, n, Lit(job.coinbase2))

HeaderOf(job, s, n, e) ==
  Serialized(job.version, Lit(job.prevHash),
             MerkleRoot(Sha256d(CoinbaseOf(job, s, n, e)), Branches(Others(job))),
             job.timestamp, job.bits, 0)

LEMMA JobsAreTyped ==
  ASSUME NEW j \in DOMAIN Jobs
  PROVE  /\ Jobs[j].timestamp \in 0 .. MaxU32
         /\ OfLength(Lit(Jobs[j].prevHash), DigestLen)
         /\ \E k \in Nat : OfLength(Others(Jobs[j]), k)
<1> DEFINE job == Jobs[j]
           Hashes == [1 .. DigestLen -> Digits]
           Words32 == 0 .. MaxU32
           Records == [version : Words32, prevHash : Hashes, coinbase1 : Seq(Digits),
                       coinbase2 : Seq(Digits), others : Seq(Hashes), bits : Words32,
                       timestamp : Words32]
<1>1. /\ job.timestamp \in Words32
      /\ job.prevHash \in Hashes
      /\ job.others \in Seq(Hashes)
  <2>1. Jobs \in Seq(Records)
    BY ShareJourneyAssumption
  <2>2. Jobs[j] \in Records
    <3> HIDE DEF Records
    <3> QED
      BY <2>1
  <2> HIDE DEF Words32, Hashes
  <2> QED
    BY <2>2
<1>2. OfLength(Lit(job.prevHash), DigestLen)
  BY <1>1 DEF Lit, OfLength
<1>3. OfLength(Others(job), Len(job.others)) /\ Len(job.others) \in Nat
  <2>1. DOMAIN job.others = 1 .. Len(job.others) /\ Len(job.others) \in Nat
    BY <1>1
  <2> QED
    BY <2>1 DEF Others, OfLength
<1> QED
  BY <1>1, <1>2, <1>3

LEMMA RootOfJob ==
  ASSUME NEW j \in DOMAIN Jobs, NEW x
  PROVE  /\ MerkleRoot(Sha256d(x), Branches(Others(Jobs[j])))
              = ComputeMerkleRoot(<<Sha256d(x)>> \o Others(Jobs[j]))
         /\ OfLength(MerkleRoot(Sha256d(x), Branches(Others(Jobs[j]))), DigestLen)
<1> DEFINE c == Sha256d(x)
           others == Others(Jobs[j])
           branches == Branches(others)
<1>1. OfLength(c, DigestLen)
  BY DigestLength
<1>2. PICK k \in Nat : OfLength(others, k)
  BY JobsAreTyped
<1> HIDE DEF c, others
<1>3. MerkleRoot(c, branches) = ComputeMerkleRoot(<<c>> \o others) /\ \E l \in Nat : OfLength(branches, l)
  BY <1>2, BranchesLeadToRoot
<1> HIDE DEF branches
<1>4. OfLength(MerkleRoot(c, branches), DigestLen)
  BY <1>1, <1>3, RootLength
<1> QED
  BY <1>3, <1>4 DEF c, others, branches

LEMMA HeadersOfJobs ==
  ASSUME NEW j \in DOMAIN Jobs, NEW s, NEW n, NEW e, NEW k
  PROVE  /\ OfLength(HeaderOf(Jobs[j], s, n, e), HeaderLen)
         /\ WithNonce(HeaderOf(Jobs[j], s, n, e), k)
              = Serialized(Jobs[j].version, Lit(Jobs[j].prevHash),
                           ComputeMerkleRoot(<<Sha256d(CoinbaseOf(Jobs[j], s, n, e))>>
                                               \o Others(Jobs[j])),
                           Jobs[j].timestamp, Jobs[j].bits, k)
<1> DEFINE job == Jobs[j]
           c == CoinbaseOf(job, s, n, e)
           m == MerkleRoot(Sha256d(c), Branches(Others(job)))
           r == ComputeMerkleRoot(<<Sha256d(c)>> \o Others(job))
           p == Lit(job.prevHash)
           v == job.version
           t == job.timestamp
           b == job.bits
<1>1. OfLength(p, DigestLen)
  BY JobsAreTyped
<1>2. m = r /\ OfLength(m, DigestLen)
  <2> HIDE DEF c
  <2> QED
    BY RootOfJob
<1>3. HeaderOf(job, s, n, e) = Serialized(v, p, m, t, b, 0)
  BY DEF HeaderOf
<1> HIDE DEF m, r, p, v, t, b
<1>4. /\ OfLength(Serialized(v, p, m, t, b, 0), HeaderLen)
      /\ WithNonce(Serialized(v, p, m, t, b, 0), k) = Serialized(v, p, m, t, b, k)
  BY <1>1, <1>2, HeaderWithNonce
<1> QED
  BY <1>2, <1>3, <1>4 DEF r, p, v, t, b

\* What build_header makes of an announced job.
LEMMA BuiltHeader ==
  ASSUME NEW j \in DOMAIN Jobs, NEW e, extranonce1 = Extranonce1(session)
  PROVE  LET template == Template(FromParams(Announced(j)))
         IN  /\ BuildHeader(template, e) = HeaderOf(Jobs[j], session, size, e)
             /\ template.jobId = j
             /\ template.timestamp = Jobs[j].timestamp
<1> DEFINE job == Jobs[j]
           p == Lit(job.prevHash)
           swapped == SwapWords(SwapWords(p))
           template == Template(FromParams(Announced(j)))
           c1 == Lit(job.coinbase1) \o Extranonce1(session)
           c2 == Lit(job.coinbase2)
           bs == Branches(Others(job))
<1>1. swapped = p
  <2>1. OfLength(p, DigestLen)
    BY JobsAreTyped
  <2> HIDE DEF p
  <2> QED
    BY <2>1, SwapTwice
<1> DEFINE params == Announced(j)
<1>2. /\ params[1] = j /\ params[2] = SwapWords(p) /\ params[3] = Lit(job.coinbase1)
      /\ params[4] = c2 /\ params[5] = bs /\ params[6] = job.version
      /\ params[7] = job.bits /\ params[8] = job.timestamp
  BY DEF Announced
<1> HIDE DEF params
<1>3. template = [jobId |-> params[1], version |-> params[6],
                  prevHash |-> SwapWords(params[2]), coinbase1 |-> params[3] \o extranonce1,
                  coinbase2 |-> params[4], branches |-> params[5], bits |-> params[7],
                  timestamp |-> params[8], extranonceSize |-> size]
  BY DEF Template, FromParams, params
<1> HIDE DEF template, bs, c2, p
<1>4. /\ template.jobId = j /\ template.version = job.version
      /\ template.prevHash = swapped /\ template.coinbase1 = c1
      /\ template.coinbase2 = c2 /\ template.branches = bs
      /\ template.bits = job.bits /\ template.timestamp = job.timestamp
      /\ template.extranonceSize = size
  BY <1>2, <1>3
<1> HIDE DEF c1, swapped
<1>5. BuildHeader(template, e)
        = Serialized(job.version, p, MerkleRoot(Sha256d(BuildCoinbaseTx(c1, e, size, c2)), bs),
                     job.timestamp, job.bits, 0)
  <2>1. BuildHeader(template, e)
          = Serialized(template.version, template.prevHash,
                       MerkleRoot(Sha256d(BuildCoinbaseTx(template.coinbase1, e,
                                            template.extranonceSize, template.coinbase2)),
                                  template.branches),
                       template.timestamp, template.bits, 0)
    BY DEF BuildHeader, Serialized
  <2> QED
    BY <1>1, <1>4, <2>1
<1>6. HeaderOf(job, session, size, e)
        = Serialized(job.version, p, MerkleRoot(Sha256d(BuildCoinbaseTx(c1, e, size, c2)), bs),
                     job.timestamp, job.bits, 0)
  BY DEF HeaderOf, CoinbaseOf, c1, c2, bs, p
<1> QED
  BY <1>4, <1>5, <1>6 DEF template

-----------------------------------------------------------------------------
(* In session now, with m bytes of extranonce2: what a device works on is  *)
(* the header of a job in that session or an earlier one, and so is what a *)
(* waiting share was found in.                                             *)
Timely(s, n, now, m) == s \in Nat /\ s <= now /\ (s = now => n = m)

WorkFits(w, now, m) ==
  /\ w.job \in DOMAIN Jobs
  /\ Timely(w.session, w.size, now, m)
  /\ w.ntime = ToBE(Jobs[w.job].timestamp, WordLen)
  /\ w.header = HeaderOf(Jobs[w.job], w.session, w.size, w.extranonce)

ShareFits(share, now, m) ==
  \E n : /\ share.job \in DOMAIN Jobs
         /\ share.nonce \in Nonces
         /\ Timely(share.session, n, now, m)
         /\ share.ntime = ToBE(Jobs[share.job].timestamp, WordLen)
         /\ share.hashed = WithNonce(HeaderOf(Jobs[share.job], share.session, n, share.extranonce),
                                     share.nonce)

QueueFits(q, now, m) ==
  \E n \in Nat : OfLength(q, n) /\ \A i \in 1 .. n : ShareFits(q[i], now, m)

JourneyInv ==
  /\ session \in Nat /\ size \in Nat
  /\ online => extranonce1 = Extranonce1(session)
  /\ \A device \in Devices : work[device] # NoWork => WorkFits(work[device], session, size)
  /\ QueueFits(queue, session, size)
  /\ PoolRebuildsHeader

(* The submission of a waiting share: what the pool makes of it.           *)
LEMMA SubmittedHeader ==
  ASSUME NEW share, ShareFits(share, session, size), size \in Nat, size <= CounterLen, share.session = session,
         NEW s, s = [params |-> BuildSubmit(share), session |-> session, share |-> share]
  PROVE  PoolHeader(s) = share.hashed
<1>1. PICK n : /\ share.job \in DOMAIN Jobs
               /\ share.nonce \in Nonces
               /\ Timely(share.session, n, session, size)
               /\ share.ntime = ToBE(Jobs[share.job].timestamp, WordLen)
               /\ share.hashed = WithNonce(HeaderOf(Jobs[share.job], share.session, n,
                                                    share.extranonce), share.nonce)
  BY DEF ShareFits
<1> DEFINE j == share.job
           job == Jobs[j]
           e == share.extranonce
           k == share.nonce
           sub == SubSeq(ToLE(e, CounterLen), 1, size)
           c == Lit(job.coinbase1) \o Extranonce1(session) \o sub \o Lit(job.coinbase2)
           root == ComputeMerkleRoot(<<Sha256d(c)>> \o Others(job))
           q == s.params
<1>2. n = size
  BY <1>1 DEF Timely
<1>3. /\ q[2] = j /\ q[3] = sub /\ q[4] = ToBE(job.timestamp, WordLen)
      /\ q[5] = ToBE(k, WordLen) /\ s.session = session
  BY <1>1 DEF BuildSubmit, SentExtranonce
<1>4. FromBE(q[4]) = job.timestamp
  BY <1>1, <1>3, JobsAreTyped, WordReadBack
<1>5. FromBE(q[5]) = k
  <2>1. k \in 0 .. MaxU32
    BY <1>1, ShareJourneyAssumption
  <2> QED
    BY <1>3, <2>1, WordReadBack
<1>6. CoinbaseOf(job, session, size, e) = c
  <2>1. ~(size > CounterLen)
    BY BlockHashAssumption
  <2> QED
    BY <2>1 DEF CoinbaseOf, BuildCoinbaseTx
<1>7. PoolHeader(s) = Serialized(job.version, Lit(job.prevHash), root, job.timestamp, job.bits, k)
  <2> HIDE DEF q
  <2>1. PoolHeader(s) =
          Serialized(Jobs[q[2]].version, Lit(Jobs[q[2]].prevHash),
            ComputeMerkleRoot(<<Sha256d(Lit(Jobs[q[2]].coinbase1) \o Extranonce1(s.session)
                                          \o q[3] \o Lit(Jobs[q[2]].coinbase2))>>
                                \o Others(Jobs[q[2]])),
            FromBE(q[4]), Jobs[q[2]].bits, FromBE(q[5]))
    BY DEF PoolHeader, Serialized, q
  <2> HIDE DEF sub, k, j
  <2> QED
    BY <1>3, <1>4, <1>5, <2>1
<1> HIDE DEF c
<1>8. WithNonce(HeaderOf(job, session, size, e), k)
        = Serialized(job.version, Lit(job.prevHash), root, job.timestamp, job.bits, k)
  <2> HIDE DEF e, k
  <2>1. j \in DOMAIN Jobs
    BY <1>1
  <2> HIDE DEF j
  <2> QED
    BY <1>6, <2>1, HeadersOfJobs
<1> QED
  BY <1>1, <1>2, <1>7, <1>8

\* In a later session, what fitted still fits.
LEMMA StillFits ==
  ASSUME NEW now \in Nat, NEW m, NEW k
  PROVE  /\ \A w : WorkFits(w, now, m) => WorkFits(w, now + 1, k)
         /\ \A q : QueueFits(q, now, m) => QueueFits(q, now + 1, k)
<1>1. ASSUME NEW s, NEW n, Timely(s, n, now, m) PROVE Timely(s, n, now + 1, k)
  BY <1>1 DEF Timely
<1>2. \A w : WorkFits(w, now, m) => WorkFits(w, now + 1, k)
  BY <1>1 DEF WorkFits
<1>3. ASSUME NEW share, ShareFits(share, now, m) PROVE ShareFits(share, now + 1, k)
  BY <1>1, <1>3 DEF ShareFits
<1>4. \A q : QueueFits(q, now, m) => QueueFits(q, now + 1, k)
  BY <1>3 DEF QueueFits
<1> QED
  BY <1>2, <1>4

LEMMA JourneyInit == Init => JourneyInv
<1> SUFFICES ASSUME Init PROVE JourneyInv
  OBVIOUS
<1>1. /\ session = 0 /\ size = 0 /\ online = FALSE /\ queue = <<>> /\ sent = NoShare
      /\ \A device \in Devices : work[device] = NoWork
  BY DEF Init
<1>2. QueueFits(<<>>, session, size)
  <2>1. OfLength(<<>>, 0) /\ \A i \in 1 .. 0 : ShareFits(<<>>[i], session, size)
    BY DEF OfLength
  <2> QED
    BY <2>1 DEF QueueFits
<1> QED
  BY <1>1, <1>2 DEF JourneyInv, PoolRebuildsHeader

LEMMA JourneyStep ==
  ASSUME JourneyInv, [Next]_vars
  PROVE  JourneyInv'
<1>0. /\ session \in Nat /\ size \in Nat
      /\ online => extranonce1 = Extranonce1(session)
      /\ \A device \in Devices : work[device] # NoWork => WorkFits(work[device], session, size)
      /\ QueueFits(queue, session, size)
      /\ PoolRebuildsHeader
  BY DEF JourneyInv
<1>1. CASE UNCHANGED vars
  BY <1>0, <1>1 DEF vars, JourneyInv, PoolRebuildsHeader
<1>2. ASSUME NEW n \in Sizes, Connect(n) PROVE JourneyInv'
  <2>1. /\ session' = session + 1 /\ size' = n /\ extranonce1' = Extranonce1(session')
        /\ UNCHANGED <<work, queue, sent>>
    BY <1>2 DEF Connect, FromResult, SubscribeAnswer
  <2>2. n \in Nat
    BY ShareJourneyAssumption
  <2>3. QueueFits(queue', session', size')
    BY <1>0, <2>1, StillFits
  <2>4. \A device \in Devices : work'[device] # NoWork => WorkFits(work'[device], session', size')
    BY <1>0, <2>1, StillFits
  <2>5. PoolRebuildsHeader'
    BY <1>0, <2>1 DEF PoolRebuildsHeader
  <2>6. session' \in Nat /\ size' \in Nat
    BY <1>0, <2>1, <2>2
  <2> QED
    BY <2>1, <2>3, <2>4, <2>5, <2>6 DEF JourneyInv
<1>3. CASE ConnectionLost
  <2>1. online' = FALSE /\ UNCHANGED <<session, size, work, queue, sent>>
    BY <1>3 DEF ConnectionLost
  <2> QED
    BY <1>0, <2>1 DEF JourneyInv, PoolRebuildsHeader
<1>4. ASSUME NEW d \in Difficulties, SetDifficulty(d) PROVE JourneyInv'
  <2>1. UNCHANGED <<session, size, online, extranonce1, work, queue, sent>>
    BY <1>4 DEF SetDifficulty
  <2> QED
    BY <1>0, <2>1 DEF JourneyInv, PoolRebuildsHeader
<1>5. ASSUME NEW j \in DOMAIN Jobs, Notify(j) PROVE JourneyInv'
  <2>1. UNCHANGED <<session, size, extranonce1, queue, sent>> /\ online
    BY <1>5 DEF Notify
  <2>2. (UNCHANGED online /\ work' = [d \in Devices |-> WorkOf(d, Template(FromParams(Announced(j))))])
        \/ (online' = FALSE /\ UNCHANGED work)
    BY <1>5 DEF Notify
  <2>3. \A device \in Devices : work'[device] # NoWork => WorkFits(work'[device], session', size')
    <3>1. CASE UNCHANGED work
      BY <1>0, <2>1, <3>1
    <3>2. CASE work' = [d \in Devices |-> WorkOf(d, Template(FromParams(Announced(j))))]
      <4> DEFINE template == Template(FromParams(Announced(j)))
      <4>1. ASSUME NEW d \in Devices PROVE WorkFits(work'[d], session, size)
        <5> DEFINE e == Extranonce2(d)
                   w == WorkOf(d, template)
        <5>1. /\ template.jobId = j /\ template.timestamp = Jobs[j].timestamp
              /\ BuildHeader(template, e) = HeaderOf(Jobs[j], session, size, e)
          BY <1>0, <2>1, BuiltHeader
        <5> HIDE DEF template
        <5>2. /\ w.job = j /\ w.session = session /\ w.size = size /\ w.extranonce = e
              /\ w.ntime = ToBE(Jobs[j].timestamp, WordLen)
              /\ w.header = HeaderOf(Jobs[j], session, size, e)
          BY <5>1 DEF WorkOf
        <5>3. work'[d] = w
          BY <3>2 DEF template
        <5> HIDE DEF w, e
        <5>4. WorkFits(w, session, size)
          BY <1>0, <5>2 DEF WorkFits, Timely
        <5> QED
          BY <5>3, <5>4
      <4> QED
        BY <2>1, <4>1
    <3> QED
      BY <2>2, <3>1, <3>2
  <2> QED
    BY <1>0, <2>1, <2>2, <2>3 DEF JourneyInv, PoolRebuildsHeader
<1>6. ASSUME NEW device \in Devices, NEW nonce \in Nonces, Find(device, nonce) PROVE JourneyInv'
  <2> DEFINE w == work[device]
             share == [job |-> w.job, extranonce |-> w.extranonce, ntime |-> w.ntime,
                       nonce |-> nonce, hashed |-> WithNonce(w.header, nonce),
                       session |-> w.session]
  <2>1. /\ w # NoWork /\ queue' = Append(queue, share)
        /\ UNCHANGED <<session, size, online, extranonce1, work, sent>>
    BY <1>6 DEF Find
  <2>2. WorkFits(w, session, size)
    BY <1>0, <2>1
  <2>3. ShareFits(share, session, size)
    <3>1. /\ share.job = w.job /\ share.extranonce = w.extranonce /\ share.ntime = w.ntime
          /\ share.nonce = nonce /\ share.hashed = WithNonce(w.header, nonce)
          /\ share.session = w.session
      OBVIOUS
    <3> HIDE DEF share, w
    <3> QED
      BY <2>2, <3>1 DEF WorkFits, ShareFits
  <2> HIDE DEF share
  <2>4. QueueFits(Append(queue, share), session, size)
    <3>1. PICK n \in Nat : OfLength(queue, n) /\ \A i \in 1 .. n : ShareFits(queue[i], session, size)
      BY <1>0 DEF QueueFits
    <3> DEFINE q == Append(queue, share)
               k == n + 1
    <3>2. Appends(q, queue, n, share)
      BY <3>1, AppendOf
    <3> HIDE DEF q
    <3>3. /\ OfLength(q, k) /\ k \in Nat /\ q[k] = share /\ k - 1 = n
          /\ \A i \in 1 .. n : q[i] = queue[i]
      BY <3>2 DEF Appends
    <3> HIDE DEF k
    <3>4. ASSUME NEW i \in 1 .. k PROVE ShareFits(q[i], session, size)
      <4>1. i = k \/ i \in 1 .. n
        BY <3>3
      <4> QED
        BY <2>3, <3>1, <3>3, <4>1
    <3>5. QueueFits(q, session, size)
      BY <3>3, <3>4 DEF QueueFits
    <3> QED
      BY <3>5 DEF q
  <2> QED
    BY <1>0, <2>1, <2>4 DEF JourneyInv, PoolRebuildsHeader
<1>7. CASE Submit
  <2> DEFINE share == Head(queue)
             s == [params |-> BuildSubmit(share), session |-> session, share |-> share]
  <2>1. /\ queue # <<>> /\ queue' = Tail(queue)
        /\ UNCHANGED <<session, size, extranonce1, work>>
    BY <1>7 DEF Submit
  <2>2. /\ online /\ (online' = FALSE \/ UNCHANGED online)
        /\ UNCHANGED sent \/ (~(size > CounterLen) /\ sent' = s)
    BY <1>7 DEF Submit
  <2>3. PICK n \in Nat : OfLength(queue, n) /\ \A i \in 1 .. n : ShareFits(queue[i], session, size)
    BY <1>0 DEF QueueFits
  <2>4. n > 0
    <3> SUFFICES ASSUME n = 0 PROVE FALSE
      OBVIOUS
    <3>1. OfLength(<<>>, 0) /\ 1 .. 0 = {}
      BY DEF OfLength
    <3>2. queue = <<>>
      BY <2>3, <3>1 DEF OfLength
    <3> QED
      BY <2>1, <3>2
  <2> DEFINE k == n - 1
             t == Tail(queue)
  <2>5. Head(queue) = queue[1] /\ OfLength(t, k) /\ \A i \in 1 .. k : t[i] = queue[i + 1]
    BY <2>3, <2>4, TailOf
  <2>6. k \in Nat /\ 1 \in 1 .. n /\ \A i \in 1 .. k : i + 1 \in 1 .. n
    BY <2>4
  <2> HIDE DEF t, k
  <2>7. QueueFits(t, session, size)
    BY <2>3, <2>5, <2>6 DEF QueueFits
  <2>8. ShareFits(share, session, size)
    BY <2>3, <2>5, <2>6
  <2>9. PoolRebuildsHeader'
    <3>1. CASE UNCHANGED sent
      BY <1>0, <3>1 DEF PoolRebuildsHeader
    <3>2. CASE ~(size > CounterLen) /\ sent' = s
      <4>1. size <= CounterLen
        BY <1>0, <3>2, BlockHashAssumption
      <4>2. s.share = share /\ s.session = session
        OBVIOUS
      <4>3. ASSUME share.session = session PROVE PoolHeader(s) = share.hashed
        <5> HIDE DEF share
        <5> QED
          BY <1>0, <2>8, <4>1, <4>3, SubmittedHeader
      <4> HIDE DEF s, share
      <4>4. s.session = s.share.session => PoolHeader(s) = s.share.hashed
        BY <4>2, <4>3
      <4>5. PoolHeader(sent)' = PoolHeader(sent')
        BY DEF PoolHeader
      <4> QED
        BY <3>2, <4>4, <4>5 DEF PoolRebuildsHeader
    <3> QED
      BY <2>2, <3>1, <3>2
  <2> QED
    BY <1>0, <2>1, <2>2, <2>7, <2>9 DEF JourneyInv, t
<1> QED
  BY <1>1, <1>2, <1>3, <1>4, <1>5, <1>6, <1>7 DEF Next

(* What each device holds and what waits in the queue stay headers of the  *)
(* pool's jobs through reconnections, lost connections and jobs that do    *)
(* not parse.                                                              *)
THEOREM JourneyInvCorrect == Spec => []JourneyInv
BY JourneyInit, JourneyStep, PTL DEF Spec

(* A share submitted in the session it was mined in names the very header  *)
(* that was hashed, for every base, width, set of jobs and number of       *)
(* transactions: folding the branches gives the root of the whole tree,    *)
(* the words of the previous hash come back in order, and the numbers of   *)
(* the submission read as those of the header.                             *)
THEOREM PoolRebuildsHeaderHolds == Spec => []PoolRebuildsHeader
<1>1. JourneyInv => PoolRebuildsHeader
  BY DEF JourneyInv
<1> QED
  BY <1>1, JourneyInvCorrect, PTL

(* The midstate loop, the plain loop, the helper on a midstate and the     *)
(* kernel compute the double SHA-256 of the header with the nonce, for     *)
(* every header the program builds and every nonce.                        *)
THEOREM HashesAgreeHolds == Spec => []HashesAgree
<1>1. JourneyInv => HashesAgree
  <2> SUFFICES ASSUME JourneyInv, NEW device \in Devices, work[device] # NoWork,
                      NEW nonce \in Nonces
               PROVE  LET header == work[device].header
                          hash   == Sha256d(WithNonce(header, nonce))
                      IN  /\ MidstateHash(header, nonce) = hash
                          /\ SimpleHash(header, nonce) = hash
                          /\ Sha256dFromMidstate(Midstate(header),
                               Tail16(WithNonce(header, nonce))) = hash
                          /\ GpuHash(header, nonce) = hash
    BY DEF HashesAgree
  <2> DEFINE w == work[device]
  <2>1. WorkFits(w, session, size)
    BY DEF JourneyInv
  <2> HIDE DEF w
  <2>2. OfLength(w.header, HeaderLen)
    BY <2>1, HeadersOfJobs DEF WorkFits
  <2> QED
    BY <2>2, FiveHashes DEF w
<1> QED
  BY <1>1, JourneyInvCorrect, PTL
=============================================================================
