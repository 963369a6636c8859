---------------------------- MODULE ShareTarget -----------------------------
(***************************************************************************)
(* The target of a share: from a difficulty to bytes (session.rs,          *)
(* bitcoin_util.rs), and the three tests of a hash against it (hasher.rs,  *)
(* shader.metal).  A target is a sequence of digits, the most significant  *)
(* first.  A difficulty is a float: a fraction <<p, q>> whose denominator  *)
(* is a power of two, and every operation on it is rounded as an f64 is.   *)
(***************************************************************************)
EXTENDS BlockHash

CONSTANTS
  Diff1Exponent,  \* the exponent of 0x1d00ffff, 29
  Precision,      \* the bits of a mantissa, 53
  MaxExponent     \* bound on the powers of two a float is scaled by

(* The target of difficulty 1 starts with a word of zeros.                 *)
ASSUME ShareTargetAssumption ==
  /\ Diff1Exponent \in 3 .. DigestLen - WordLen + 1
  /\ MaxExponent \in Nat /\ Precision \in 0 .. MaxExponent

(* As for the powers of Base.                                              *)
ASSUME PowersOfTwo ==
  /\ 2 ^ 0 = 1
  /\ \A k \in 0 .. MaxExponent - 1 : 2 ^ (k + 1) = 2 * 2 ^ k

Digits  == 0 .. Base - 1
Targets == [1 .. DigestLen -> Digits]

\* The number that a sequence of digits stands for.
Value(digits) ==
  LET upTo[i \in 0 .. Len(digits)] ==
        IF i = 0 THEN 0 ELSE upTo[i - 1] * Base + digits[i]
  IN  upTo[Len(digits)]

MaxU32 == Base ^ WordLen - 1

-----------------------------------------------------------------------------
(* Target = mantissa * Base^(exponent - 3); digits beyond either end of    *)
(* the target are dropped, an exponent below 3 gives zero, and the sign    *)
(* bit of the mantissa is masked off.                                      *)
NbitsToTarget(exponent, mantissa) ==
  LET digit(k) == ((mantissa % (Base ^ 3 \div 2)) \div Base ^ k) % Base
      offset   == exponent - 3
  IN  [i \in 1 .. DigestLen |->
         IF exponent >= 3 /\ DigestLen - i - offset \in 0 .. 2
           THEN digit(DigestLen - i - offset)
           ELSE 0]

Diff1Target == NbitsToTarget(Diff1Exponent, Base ^ 2 - 1)

-----------------------------------------------------------------------------
(* Floats.  An operation gives the float nearest to its exact result, the  *)
(* one with an even mantissa when two are as near.  There are no           *)
(* infinities and no subnormals: no difficulty is small enough.            *)
Mantissas == 2 ^ Precision

Magnitude(a) == IF a < 0 THEN -a ELSE a

\* a / b, rounded to an integer.
Nearest(a, b) ==
  LET below == a \div b
      rest  == a % b
  IN  IF 2 * rest > b \/ (2 * rest = b /\ below % 2 = 1) THEN below + 1 ELSE below

\* a / b, as an integer, takes all the bits of a mantissa.
Full(a, b) ==
  /\ Magnitude(a) < Mantissas * b
  /\ Mantissas * b <= 2 * Magnitude(a)

\* (a / b).floor(): a quotient just below an integer is rounded up to it.
FloorOfFloat(a, b) ==
  IF a = 0 THEN 0
  ELSE IF Magnitude(a) < Mantissas * b
    THEN LET scale == 2 ^ (CHOOSE k \in 0 .. MaxExponent : Full(a * 2 ^ k, b))
         IN  Nearest(a * scale, b) \div scale
    ELSE LET scale == 2 ^ (CHOOSE k \in 0 .. MaxExponent : Full(a, b * 2 ^ k))
         IN  Nearest(a, b * scale) * scale

\* The float nearest to an integer, in the unit the integers are counted in.
Rounded(n) == FloorOfFloat(n, 1)

IsFloat(d) ==
  /\ d[1] \in Int /\ Rounded(d[1]) = d[1]
  /\ d[2] \in {2 ^ k : k \in 0 .. MaxExponent}

-----------------------------------------------------------------------------
\* Mutant: the remainder is kept as an integer.
IntegerRemainder(p, q) ==
  LET remainder[i \in 0 .. DigestLen] ==
        IF i = 0 THEN 0
        ELSE (((remainder[i - 1] * Base + Diff1Target[i] * q) % p) \div q) * q
  IN  [i \in 1 .. DigestLen |-> (remainder[i - 1] * Base + Diff1Target[i] * q) \div p]

\* quotient.min(u32::MAX as f64) as u32, which is 0 for what is negative.
AsU32(n) == IF n \in 0 .. MaxU32 THEN n ELSE IF n > MaxU32 THEN MaxU32 ELSE 0

(* The quotient digits of the long division by p / q, all numbers counted  *)
(* in units of 1 / q.  A digit may exceed a byte when the difficulty is    *)
(* below 1, and be negative when the rounding made the remainder so.       *)
WideDigits(p, q) ==
  LET val(remainder, i) == Rounded(remainder * Base + Diff1Target[i] * q)
      left(v) == Rounded(v - Rounded(FloorOfFloat(v, p) * p))
      remainder[i \in 0 .. DigestLen] ==
        IF i = 0 THEN 0 ELSE left(val(remainder[i - 1], i))
      quotient(i) == FloorOfFloat(val(remainder[i - 1], i), p)
  IN  [i \in 1 .. DigestLen |-> AsU32(quotient(i))]

\* Mutant: what exceeds a byte is cut off instead of carried.
NoCarries(wide) == [i \in 1 .. DigestLen |-> wide[i] % Base]

(* The carries, from right to left, in u32 additions that wrap around in a *)
(* release build; the carry out of the first digit is dropped.             *)
Carried(wide) ==
  LET carry[i \in 1 .. DigestLen] ==
        IF i = DigestLen THEN 0
        ELSE ((wide[i + 1] + carry[i + 1]) % (MaxU32 + 1)) \div Base
  IN  [i \in 1 .. DigestLen |-> (wide[i] + carry[i]) % Base]

DifficultyToTarget(d) ==
  IF d[1] <= 0 \/ d[1] = d[2] THEN Diff1Target ELSE Carried(WideDigits(d[1], d[2]))

-----------------------------------------------------------------------------
\* The tests of a hash against a target
FirstWord(digits) == Value(SubSeq(digits, 1, WordLen))

MeetsTargetBE(hash, target) ==
  \/ hash = target
  \/ \E i \in 1 .. DigestLen :
       /\ hash[i] < target[i]
       /\ \A j \in 1 .. i - 1 : hash[j] = target[j]

\* Mutant: the early exit lets only a smaller first word through.
CpuAcceptsBelow(hash, target) ==
  /\ FirstWord(hash) < FirstWord(target)
  /\ MeetsTargetBE(hash, target)

\* hash_range_midstate: the first words, and the rest only if they pass.
CpuAccepts(hash, target) ==
  /\ FirstWord(hash) <= FirstWord(target)
  /\ MeetsTargetBE(hash, target)

\* The kernel: word by word, below_target or equal_so_far at the end.
GpuAccepts(hash, target) ==
  LET h == Words(hash)
      t == Words(target)
  IN  \/ \A i \in 1 .. DigestWords : h[i] = t[i]
      \/ \E i \in 1 .. DigestWords :
           /\ Value(h[i]) < Value(t[i])
           /\ \A j \in 1 .. i - 1 : h[j] = t[j]
=============================================================================
