------------------------- MODULE ContractCallsProofs -------------------------
(***************************************************************************)
(* The time arithmetic of crates/contracts, its adapters and the command   *)
(* conversion of the C ABI, for every integer width, every set of rates    *)
(* and times and every set of raw commands.                                *)
(*                                                                         *)
(* First the operators: no 128-bit intermediate overflows, each rounding   *)
(* policy keeps its bound and the order of times, Euclid's loop returns a  *)
(* common divisor that is a combination of its arguments, so from_i128     *)
(* reduces every fraction to the one pair of coprime fields it has.  Then  *)
(* the calls: what a client of the crate holds after any sequence of them. *)
(*                                                                         *)
(* The second half is the canonical codec, for every project and every     *)
(* command.  A list is read along a chain of positions.  What was written  *)
(* at a place is read back from it, so an encoding decodes to its project  *)
(* in whatever order its maps are listed; a reader of a part of a stream   *)
(* reads the same of the whole, so no part of an accepted stream is        *)
(* accepted; and a list ends as many words after its start as its entries  *)
(* take, in any order, so a stream is as long as the encoding of what it   *)
(* decodes to.                                                             *)
(***************************************************************************)
EXTENDS ContractCalls, ProjectModelProofs, FiniteSetTheorems, TLAPS

USE MaxIntAssumption

-----------------------------------------------------------------------------
(* Products: the only nonlinear facts the solver is asked for.             *)

LEMMA ProductOfNaturals ==
  ASSUME NEW x \in Nat, NEW y \in Nat
  PROVE  x * y \in Nat
OBVIOUS

LEMMA TimesMonotone ==
  ASSUME NEW x \in Int, NEW y \in Int, NEW k \in Nat, x <= y
  PROVE  x * k <= y * k
<1>1. (y - x) * k \in Nat
  <2>1. y - x \in Nat
    OBVIOUS
  <2>2. QED
    BY <2>1, ProductOfNaturals
<1>2. (y - x) * k = y * k - x * k
  OBVIOUS
<1>3. QED
  BY <1>1, <1>2

LEMMA TimesStrict ==
  ASSUME NEW x \in Int, NEW y \in Int, NEW k \in Nat \ {0}, x < y
  PROVE  x * k < y * k
<1>1. (x + 1) * k <= y * k
  BY TimesMonotone
<1>2. (x + 1) * k = x * k + k
  OBVIOUS
<1>3. QED
  BY <1>1, <1>2

\* A common positive factor cancels.
LEMMA CancelStrict ==
  ASSUME NEW x \in Int, NEW y \in Int, NEW k \in Nat, x * k < y * k
  PROVE  x < y
<1>1. SUFFICES ASSUME y <= x PROVE FALSE
  OBVIOUS
<1>2. y * k <= x * k
  BY <1>1, TimesMonotone
<1>3. x * k \in Int /\ y * k \in Int
  OBVIOUS
<1>4. QED
  BY <1>2, <1>3

LEMMA CancelWeak ==
  ASSUME NEW x \in Int, NEW y \in Int, NEW k \in Nat \ {0}, x * k <= y * k
  PROVE  x <= y
<1>1. SUFFICES ASSUME y < x PROVE FALSE
  OBVIOUS
<1>2. y * k < x * k
  BY <1>1, TimesStrict
<1>3. x * k \in Int /\ y * k \in Int
  OBVIOUS
<1>4. QED
  BY <1>2, <1>3

\* Bounded factors have a bounded product.
LEMMA ProductBound ==
  ASSUME NEW B \in Nat, NEW C \in Nat, NEW x \in -B..B, NEW y \in 0..C
  PROVE  x * y \in -(B * C)..(B * C)
<1>1. x * y <= B * y /\ (-B) * y <= x * y
  BY TimesMonotone
<1>2. y * B <= C * B
  BY TimesMonotone
<1>3. B * y = y * B /\ C * B = B * C /\ (-B) * y = -(y * B)
  OBVIOUS
<1>4. x * y \in Int /\ B * C \in Int /\ y * B \in Int
  OBVIOUS
<1>5. QED
  BY <1>1, <1>2, <1>3, <1>4

-----------------------------------------------------------------------------
(* Widths.                                                                 *)

Fits(n) == n \in -MaxWide..MaxWide

LEMMA MaxWideValue ==
  /\ (MaxInt + 1) * MaxInt \in Nat
  /\ (MaxInt + 1) * (MaxInt + 1) = (MaxInt + 1) * MaxInt + MaxInt + 1
  /\ MaxWide = 2 * ((MaxInt + 1) * MaxInt) + 2 * MaxInt + 1
<1>1. (MaxInt + 1) * MaxInt \in Nat
  BY ProductOfNaturals
<1>2. (MaxInt + 1) * (MaxInt + 1) = (MaxInt + 1) * MaxInt + MaxInt + 1
  OBVIOUS
<1>3. 2 * (MaxInt + 1) * (MaxInt + 1) = 2 * ((MaxInt + 1) * (MaxInt + 1))
  OBVIOUS
<1>4. QED
  BY <1>1, <1>2, <1>3 DEF MaxWide

\* The numerator of one time by the denominator of another, or by a rate.
LEMMA CrossProduct ==
  ASSUME NEW n \in i64, NEW k \in 0..MaxInt
  PROVE  n * k \in -((MaxInt + 1) * MaxInt)..((MaxInt + 1) * MaxInt)
BY ProductBound DEF i64

LEMMA DenominatorProduct ==
  ASSUME NEW d \in 1..MaxInt, NEW k \in 1..MaxInt
  PROVE  d * k \in 1..((MaxInt + 1) * MaxInt)
<1>1. 1 * k <= d * k
  BY TimesMonotone
<1>2. d \in i64 /\ k \in 0..MaxInt
  BY DEF i64
<1>3. d * k <= (MaxInt + 1) * MaxInt
  BY <1>2, CrossProduct, MaxWideValue
<1>4. QED
  BY <1>1, <1>3, MaxWideValue

\* Two numerators.  The square of the least i64 is the largest product.
LEMMA NumeratorProduct ==
  ASSUME NEW m \in i64, NEW n \in i64
  PROVE  m * n \in -((MaxInt + 1) * (MaxInt + 1))..((MaxInt + 1) * (MaxInt + 1))
<1>1. CASE n >= 0
  BY <1>1, ProductBound DEF i64
<1>2. CASE n < 0
  <2>1. m * (-n) \in -((MaxInt + 1) * (MaxInt + 1))..((MaxInt + 1) * (MaxInt + 1))
    <3>1. -n \in 0..MaxInt + 1 /\ m \in -(MaxInt + 1)..(MaxInt + 1)
      BY <1>2 DEF i64
    <3>2. QED
      BY <3>1, ProductBound
  <2>2. m * n = -(m * (-n)) /\ m * n \in Int
    BY DEF i64
  <2>3. QED
    BY <2>1, <2>2, MaxWideValue
<1>3. QED
  BY <1>1, <1>2 DEF i64

\* What add, subtract, multiply and compare compute in 128 bits fits, and so
\* does its negation in from_i128, whatever the operands: none of the
\* unchecked operators there can overflow (impl Rational).
THEOREM WideArithmeticFits ==
  ASSUME NEW a \in Rational, NEW b \in Rational
  PROVE  /\ \A i \in {1, 2} : Fits(WideSum(a, b)[i])
         /\ \A i \in {1, 2} : Fits(WideDifference(a, b)[i])
         /\ \A i \in {1, 2} : Fits(WideProduct(a, b)[i])
         /\ Fits(a.num * b.den) /\ Fits(b.num * a.den)
<1> DEFINE n == a.num * b.den
           m == b.num * a.den
           d == a.den * b.den
           p == a.num * b.num
           K == (MaxInt + 1) * MaxInt
<1>1. /\ a.num \in i64 /\ b.num \in i64
      /\ a.den \in 1..MaxInt /\ b.den \in 1..MaxInt
  BY DEF Rational
<1>2. n \in -K..K /\ m \in -K..K
  BY <1>1, CrossProduct
<1>3. d \in 1..K
  BY <1>1, DenominatorProduct
<1>4. p \in -(K + MaxInt + 1)..(K + MaxInt + 1)
  BY <1>1, NumeratorProduct, MaxWideValue
<1>5. K \in Nat /\ MaxWide = 2 * K + 2 * MaxInt + 1
  BY MaxWideValue
<1>6. /\ WideSum(a, b) = <<n + m, d>> /\ WideDifference(a, b) = <<n - m, d>>
      /\ WideProduct(a, b) = <<p, d>>
  BY DEF WideSum, WideDifference, WideProduct
<1>7. Fits(n) /\ Fits(m) /\ Fits(d) /\ Fits(p) /\ Fits(n + m) /\ Fits(n - m)
  <2> HIDE DEF n, m, d, p, K
  <2> QED
    BY <1>2, <1>3, <1>4, <1>5 DEF Fits
<1>8. QED
  <2> HIDE DEF p, d
  <2> QED
    BY <1>6, <1>7

-----------------------------------------------------------------------------
(* Rounding.                                                               *)

\* Euclidean division by a positive number.
LEMMA Division ==
  ASSUME NEW n \in Int, NEW d \in Nat \ {0}
  PROVE  /\ n \div d \in Int /\ n % d \in 0..d - 1
         /\ n = ((n \div d) * d) + (n % d)
OBVIOUS

\* A quotient is no larger than what is divided.
LEMMA QuotientBound ==
  ASSUME NEW K \in Nat, NEW n \in -K..K, NEW d \in Nat \ {0}
  PROVE  n \div d \in -K..K
<1> DEFINE q == n \div d
           r == n % d
<1>1. q \in Int /\ r \in 0..d - 1 /\ n = (q * d) + r
  BY Division
<1> HIDE DEF q, r
<1>2. 1 * K <= d * K
  BY TimesMonotone
<1>3. (K + 1) * d = d * K + d /\ (-K - 1) * d = -(d * K) - d
  OBVIOUS
<1>4. q * d \in Int /\ d * K \in Int
  BY <1>1
<1>5. q * d < (K + 1) * d /\ (-K - 1) * d < q * d
  BY <1>1, <1>2, <1>3, <1>4
<1>6. q < K + 1 /\ -K - 1 < q
  BY <1>1, <1>5, CancelStrict
<1>7. QED
  BY <1>1, <1>6 DEF q

\* Each policy keeps its bound: Floor and Ceil are less than a tick off on
\* their side, NearestEven at most half a tick, and even on a tie
\* (round_quotient).
THEOREM RoundingWithinPolicy ==
  ASSUME NEW n \in Int, NEW d \in Nat \ {0}, NEW policy \in Policy
  PROVE  WithinPolicy(policy, RoundQuotient(n, d, policy), n, d)
<1> DEFINE q == n \div d
           r == n % d
<1>1. q \in Int /\ r \in 0..d - 1 /\ n = q * d + r
  BY Division
<1>2. /\ (q + 1) * d = q * d + d /\ (q - 1) * d = q * d - d
      /\ (q + 1 + 1) * d = q * d + 2 * d /\ (q + 1 - 1) * d = q * d
      /\ q * d \in Int
  BY <1>1
<1>3. RoundQuotient(n, d, policy) =
        IF RoundsUp(q, r, d, policy) THEN q + 1 ELSE q
  BY DEF RoundQuotient
<1>4. (q % 2 = 0 /\ (q + 1) % 2 # 0) \/ (q % 2 # 0 /\ (q + 1) % 2 = 0)
  BY <1>1
<1> HIDE DEF q, r
<1>5. CASE policy = "Floor"
  BY <1>1, <1>2, <1>3, <1>5 DEF RoundsUp, WithinPolicy
<1>6. CASE policy = "Ceil"
  BY <1>1, <1>2, <1>3, <1>6 DEF RoundsUp, WithinPolicy
<1>7. CASE policy = "NearestEven"
  <2>1. CASE RoundsUp(q, r, d, policy)
    <3>1. 2 * r > d \/ (2 * r = d /\ q % 2 # 0)
      BY <2>1, <1>7 DEF RoundsUp
    <3>2. n - (q + 1) * d = r - d
      BY <1>1, <1>2
    <3>3. QED
      BY <1>1, <1>3, <1>4, <2>1, <3>1, <3>2, <1>7 DEF WithinPolicy, Abs
  <2>2. CASE ~ RoundsUp(q, r, d, policy)
    <3>1. 2 * r <= d /\ (2 * r = d => q % 2 = 0)
      BY <1>1, <2>2, <1>7 DEF RoundsUp
    <3>2. n - q * d = r
      BY <1>1, <1>2
    <3>3. QED
      BY <1>1, <1>3, <2>2, <3>1, <3>2, <1>7 DEF WithinPolicy, Abs
  <2>3. QED
    BY <2>1, <2>2
<1>8. QED
  BY <1>5, <1>6, <1>7 DEF Policy

\* Rounding keeps the order of two fractions, under every policy.
LEMMA RoundingMonotone ==
  ASSUME NEW n \in Int, NEW d \in Nat \ {0}, NEW policy \in Policy,
         NEW m \in Int, NEW e \in Nat \ {0}, n * e <= m * d
  PROVE  RoundQuotient(n, d, policy) <= RoundQuotient(m, e, policy)
<1> DEFINE q == n \div d
           r == n % d
           p == m \div e
           s == m % e
<1>1. /\ q \in Int /\ r \in 0..d - 1 /\ n = q * d + r
      /\ p \in Int /\ s \in 0..e - 1 /\ m = p * e + s
  BY Division
<1>2. /\ RoundQuotient(n, d, policy) =
           IF RoundsUp(q, r, d, policy) THEN q + 1 ELSE q
      /\ RoundQuotient(m, e, policy) =
           IF RoundsUp(p, s, e, policy) THEN p + 1 ELSE p
  BY DEF RoundQuotient
<1> HIDE DEF q, r, p, s
<1>3. n * e = q * (d * e) + r * e /\ m * d = p * (d * e) + s * d
  BY <1>1
<1>4. d * e \in Nat \ {0}
  OBVIOUS
<1>5. r * e < 1 * (d * e) /\ s * d < 1 * (d * e)
  <2>1. r * e < d * e /\ s * d < e * d
    BY <1>1, TimesStrict
  <2>2. QED
    BY <2>1
<1>6. r * e \in Nat /\ s * d \in Nat
  BY <1>1, ProductOfNaturals
<1>7. q <= p
  <2>1. q * (d * e) < (p + 1) * (d * e)
    <3>1. (p + 1) * (d * e) = p * (d * e) + 1 * (d * e)
      BY <1>1
    <3>2. q * (d * e) \in Int /\ p * (d * e) \in Int
      BY <1>1
    <3>3. QED
      BY <1>3, <1>4, <1>5, <1>6, <3>1, <3>2
  <2>2. q < p + 1
    BY <1>1, <1>4, <2>1, CancelStrict
  <2>3. QED
    BY <1>1, <2>2
<1>8. CASE q < p
  BY <1>1, <1>2, <1>8
<1>9. CASE q = p /\ ~ RoundsUp(q, r, d, policy)
  BY <1>1, <1>2, <1>9
<1>10. CASE q = p /\ RoundsUp(q, r, d, policy)
  <2>1. r * e <= s * d
    BY <1>1, <1>3, <1>6, <1>10
  <2>2. CASE policy = "Ceil"
    <3>1. 0 * e < r * e
      BY <1>1, <1>10, <2>2, TimesStrict DEF RoundsUp
    <3>2. s # 0
      BY <1>6, <2>1, <3>1
    <3>3. RoundsUp(p, s, e, policy)
      BY <2>2, <3>2 DEF RoundsUp
    <3>4. QED
      BY <1>1, <1>2, <1>10, <3>3
  <2>3. CASE policy = "NearestEven" /\ 2 * r > d
    <3>1. d * e < (2 * r) * e
      BY <1>1, <2>3, TimesStrict
    <3>2. e * d < (2 * s) * d
      BY <1>1, <1>6, <2>1, <3>1
    <3>3. 2 * s > e
      BY <1>1, <3>2, CancelStrict
    <3>4. RoundsUp(p, s, e, policy)
      BY <2>3, <3>3 DEF RoundsUp
    <3>5. QED
      BY <1>1, <1>2, <1>10, <3>4
  <2>4. CASE policy = "NearestEven" /\ 2 * r = d /\ q % 2 # 0
    <3>1. d * e = (2 * r) * e
      BY <2>4
    <3>2. e * d <= (2 * s) * d
      BY <1>1, <1>6, <2>1, <3>1
    <3>3. 2 * s >= e
      BY <1>1, <3>2, CancelWeak
    <3>4. RoundsUp(p, s, e, policy)
      BY <1>1, <1>10, <2>4, <3>3 DEF RoundsUp
    <3>5. QED
      BY <1>1, <1>2, <1>10, <3>4
  <2>5. QED
    BY <1>10, <2>2, <2>3, <2>4 DEF RoundsUp
<1>11. QED
  BY <1>1, <1>7, <1>8, <1>9, <1>10

\* An adapter's quotient, and the doubled remainder it compares, fit in 128
\* bits, and a later time never gets an earlier tick: NonMonotonicAdaptedTicks
\* can only mean that two times fell on one tick (adapt_absolute and
\* adapt_absolute_sequence).
THEOREM AdapterKeepsOrder ==
  ASSUME NEW a \in Rational, NEW b \in Rational, NEW rate \in 1..MaxInt,
         NEW policy \in Policy
  PROVE  /\ Fits(a.num * rate)
         /\ Fits(2 * ((a.num * rate) % a.den))
         /\ Fits(RoundQuotient(a.num * rate, a.den, policy))
         /\ LessOrEqual(a, b) => RoundQuotient(a.num * rate, a.den, policy)
                                   <= RoundQuotient(b.num * rate, b.den, policy)
<1> DEFINE n == a.num * rate
           m == b.num * rate
           K == (MaxInt + 1) * MaxInt
<1>1. /\ a.num \in i64 /\ b.num \in i64 /\ n \in Int /\ m \in Int
      /\ a.den \in 1..MaxInt /\ b.den \in 1..MaxInt
  BY DEF Rational, i64
<1>2. n \in -K..K
  BY <1>1, CrossProduct
<1>3. K \in Nat /\ MaxWide = 2 * K + 2 * MaxInt + 1
  BY MaxWideValue
<1>4. n % a.den \in 0..a.den - 1 /\ n \div a.den \in Int
  <2> DEFINE d == a.den
  <2>1. n \in Int /\ d \in Nat \ {0}
    BY <1>1
  <2> HIDE DEF n, d
  <2>2. n % d \in 0..d - 1 /\ n \div d \in Int
    BY <2>1, Division
  <2>3. QED
    BY <2>2 DEF d
<1>5. -K <= n \div a.den /\ n \div a.den <= K
  <2> DEFINE d == a.den
  <2>1. d \in Nat \ {0}
    BY <1>1
  <2> HIDE DEF n, K, d
  <2>2. n \div d \in -K..K
    BY <1>2, <1>3, <2>1, QuotientBound
  <2>3. QED
    BY <1>3, <2>2 DEF d
<1>6. Fits(n) /\ Fits(2 * (n % a.den))
  <2> HIDE DEF n, K
  <2> QED
    BY <1>1, <1>2, <1>3, <1>4 DEF Fits
<1>7. Fits(RoundQuotient(n, a.den, policy))
  <2> HIDE DEF n, K
  <2>1. RoundQuotient(n, a.den, policy) \in {n \div a.den, n \div a.den + 1}
    BY DEF RoundQuotient
  <2>2. QED
    BY <1>3, <1>4, <1>5, <2>1 DEF Fits
<1>8. ASSUME LessOrEqual(a, b)
      PROVE  RoundQuotient(n, a.den, policy) <= RoundQuotient(m, b.den, policy)
  <2>1. (a.num * b.den) * rate <= (b.num * a.den) * rate
    <3>1. a.num * b.den \in Int /\ b.num * a.den \in Int
      BY <1>1 DEF i64
    <3>2. QED
      BY <1>8, <3>1, TimesMonotone DEF LessOrEqual
  <2>2. n * b.den <= m * a.den
    BY <1>1, <2>1 DEF i64
  <2> HIDE DEF n, m
  <2>3. QED
    BY <1>1, <2>2, RoundingMonotone
<1>9. QED
  BY <1>6, <1>7, <1>8

-----------------------------------------------------------------------------
(* The greatest common divisor.                                            *)

Divides(k, n) == \E j \in Int : n = j * k

CommonDivisors(a, b) == {k \in Nat : Divides(k, a) /\ Divides(k, b)}

LEMMA DividesCombination ==
  ASSUME NEW k \in Int, NEW a \in Int, NEW b \in Int, NEW c \in Int,
         Divides(k, a), Divides(k, b)
  PROVE  Divides(k, (c * a) + b)
<1>1. PICK i \in Int : a = i * k
  BY DEF Divides
<1>2. PICK j \in Int : b = j * k
  BY DEF Divides
<1>3. ((c * i) + j) * k = (c * (i * k)) + (j * k) /\ (c * i) + j \in Int
  OBVIOUS
<1>4. QED
  BY <1>1, <1>2, <1>3 DEF Divides

LEMMA DivisorBound ==
  ASSUME NEW k \in Nat, NEW n \in Nat \ {0}, Divides(k, n)
  PROVE  k <= n
<1>1. PICK j \in Int : n = j * k
  BY DEF Divides
<1>2. 0 * k < j * k
  BY <1>1
<1>3. 0 < j
  BY <1>2, CancelStrict
<1>4. 1 * k <= j * k
  BY <1>3, TimesMonotone
<1>5. QED
  BY <1>1, <1>4

\* A natural number is known by its divisors.
LEMMA SameDivisors ==
  ASSUME NEW a \in Nat, NEW b \in Nat,
         CommonDivisors(a, 0) = CommonDivisors(b, 0)
  PROVE  a = b
<1>1. ASSUME NEW n \in Nat PROVE n \in CommonDivisors(n, 0)
  <2>1. n = 1 * n /\ 0 = 0 * n /\ 1 \in Int /\ 0 \in Int
    OBVIOUS
  <2>2. (\E j \in Int : n = j * n) /\ (\E j \in Int : 0 = j * n)
    BY <2>1, Zenon
  <2>3. QED
    BY <2>2 DEF CommonDivisors, Divides
<1>2. Divides(a, b) /\ Divides(b, a)
  BY <1>1 DEF CommonDivisors
<1>3. ASSUME NEW n \in Nat, Divides(0, n) PROVE n = 0
  BY <1>3 DEF Divides
<1>4. QED
  BY <1>2, <1>3, DivisorBound

LEMMA EuclidStep ==
  ASSUME NEW left \in Nat, NEW right \in Nat \ {0}
  PROVE  /\ left % right \in 0..right - 1
         /\ \E q \in Int : left = (q * right) + (left % right)
         /\ CommonDivisors(left, right) = CommonDivisors(right, left % right)
<1> DEFINE q == left \div right
           m == left % right
<1>1. q \in Int /\ m \in 0..right - 1 /\ left = (q * right) + m
  BY Division
<1> HIDE DEF q, m
<1>2. ASSUME NEW k \in Nat, Divides(k, right)
      PROVE  Divides(k, left) <=> Divides(k, m)
  <2>1. ASSUME Divides(k, m) PROVE Divides(k, left)
    <3>1. k \in Int /\ right \in Int /\ m \in Int
      BY <1>1
    <3>2. Divides(k, (q * right) + m)
      BY <1>1, <1>2, <2>1, <3>1, DividesCombination, Zenon
    <3>3. QED
      BY <1>1, <3>2
  <2>2. ASSUME Divides(k, left) PROVE Divides(k, m)
    <3>1. k \in Int /\ right \in Int /\ left \in Int /\ -q \in Int
      BY <1>1
    <3>2. Divides(k, ((-q) * right) + left)
      BY <1>2, <2>2, <3>1, DividesCombination, Zenon
    <3>3. ((-q) * right) + left = m
      BY <1>1
    <3>4. QED
      BY <3>2, <3>3
  <2>3. QED
    BY <2>1, <2>2
<1>3. CommonDivisors(left, right) = CommonDivisors(right, m)
  BY <1>2 DEF CommonDivisors
<1>4. QED
  BY <1>1, <1>3 DEF m

Euclid(f) ==
  f = [pair \in Nat \X Nat |->
         IF pair[2] = 0 THEN pair[1] ELSE f[<<pair[2], pair[1] % pair[2]>>]]

\* Euclid's recursion has a solution: the natural number whose divisors are
\* the common divisors of both.
LEMMA GcdUnfold == Euclid(gcd)
<1> DEFINE greatest(a, b) ==
             CHOOSE g \in Nat : CommonDivisors(g, 0) = CommonDivisors(a, b)
           f == [pair \in Nat \X Nat |-> greatest(pair[1], pair[2])]
<1>1. ASSUME NEW left \in Nat, NEW right \in Nat
      PROVE  greatest(left, right) =
               IF right = 0 THEN left ELSE greatest(right, left % right)
  <2>1. CASE right = 0
    <3>1. greatest(left, 0) \in Nat
          /\ CommonDivisors(greatest(left, 0), 0) = CommonDivisors(left, 0)
      OBVIOUS
    <3> HIDE DEF greatest
    <3>2. QED
      BY <2>1, <3>1, SameDivisors
  <2>2. CASE right # 0
    <3>1. CommonDivisors(left, right) = CommonDivisors(right, left % right)
      BY <2>2, EuclidStep
    <3>2. greatest(left, right) = greatest(right, left % right)
      BY <3>1
    <3> HIDE DEF greatest
    <3>3. QED
      BY <2>2, <3>2
  <2> HIDE DEF greatest
  <2>3. QED
    BY <2>1, <2>2
<1>2. Euclid(f)
  <2> HIDE DEF greatest
  <2>1. ASSUME NEW pair \in Nat \X Nat
        PROVE  f[pair] = IF pair[2] = 0 THEN pair[1]
                         ELSE f[<<pair[2], pair[1] % pair[2]>>]
    <3>1. pair[1] \in Nat /\ pair[2] \in Nat
      OBVIOUS
    <3> DEFINE left == pair[1]
               right == pair[2]
    <3>2. right # 0 => left % right \in Nat
      <4> HIDE DEF left, right
      <4>1. left \in Nat /\ right \in Nat
        BY <3>1 DEF left, right
      <4>2. QED
        BY <4>1, EuclidStep
    <3>3. pair[2] # 0 => f[<<pair[2], pair[1] % pair[2]>>] =
                           greatest(pair[2], pair[1] % pair[2])
      BY <3>1, <3>2
    <3>4. f[pair] = greatest(pair[1], pair[2])
      OBVIOUS
    <3> HIDE DEF f
    <3>5. QED
      BY <1>1, <3>1, <3>3, <3>4
  <2> HIDE DEF f
  <2>2. f = [pair \in Nat \X Nat |-> f[pair]]
    BY DEF f
  <2>3. QED
    BY <2>1, <2>2 DEF Euclid
<1>3. gcd = CHOOSE g : Euclid(g)
  BY DEF gcd, Euclid
<1>4. QED
  <2> HIDE DEF f
  <2> QED
    BY <1>2, <1>3

\* What gcd returns, with the coefficients of Bezout.
GcdOf(left, right, g) ==
  /\ g \in Nat
  /\ Divides(g, left) /\ Divides(g, right)
  /\ \E x, y \in Int : g = (x * left) + (y * right)
  /\ left # 0 \/ right # 0 => g # 0

LEMMA GcdStep ==
  ASSUME NEW left \in Nat, NEW right \in Nat \ {0}, NEW g, NEW m \in Nat,
         NEW q \in Int, left = (q * right) + m, GcdOf(right, m, g)
  PROVE  GcdOf(left, right, g)
<1>1. q \in Int /\ m \in Nat /\ left = (q * right) + m
  OBVIOUS
<1>2. GcdOf(right, m, g)
  OBVIOUS
<1>3. g \in Nat /\ Divides(g, right) /\ Divides(g, m) /\ g # 0
  BY <1>2 DEF GcdOf
<1>4. Divides(g, left)
  BY <1>1, <1>3, DividesCombination
<1>5. PICK x \in Int, y \in Int : g = (x * right) + (y * m)
  BY <1>2 DEF GcdOf
<1>6. g = (y * left) + ((x - (y * q)) * right)
  <2>1. y * left = (y * (q * right)) + (y * m)
    BY <1>1
  <2>2. (x - (y * q)) * right = (x * right) - (y * (q * right))
    BY <1>1
  <2>3. y * (q * right) \in Int /\ x * right \in Int /\ y * m \in Int
    BY <1>1
  <2>4. QED
    BY <1>5, <2>1, <2>2, <2>3
<1>7. x - (y * q) \in Int
  BY <1>1
<1>8. QED
  BY <1>3, <1>4, <1>6, <1>7 DEF GcdOf

LEMMA GcdProperties ==
  ASSUME NEW left \in Nat, NEW right \in Nat
  PROVE  GcdOf(left, right, gcd[<<left, right>>])
<1> DEFINE T == {r \in Nat : \E l \in Nat : ~ GcdOf(l, r, gcd[<<l, r>>])}
<1>1. SUFFICES ASSUME T # {} PROVE FALSE
  OBVIOUS
<1>2. PICK r \in T : \A k \in T : r <= k
  <2>1. T \in SUBSET Nat
    OBVIOUS
  <2> HIDE DEF T
  <2>2. QED
    BY <1>1, <2>1, LeastNatural
<1>3. r \in Nat
  OBVIOUS
<1>4. PICK l \in Nat : ~ GcdOf(l, r, gcd[<<l, r>>])
  OBVIOUS
<1>5. gcd[<<l, r>>] = IF r = 0 THEN l ELSE gcd[<<r, l % r>>]
  BY GcdUnfold DEF Euclid
<1>6. CASE r = 0
  <2>1. gcd[<<l, r>>] = l
    BY <1>5, <1>6
  <2>2. l = (1 * l) + (0 * 0) /\ l = 1 * l /\ 0 = 0 * l
    OBVIOUS
  <2>3. Divides(l, l) /\ Divides(l, 0)
    BY <2>2 DEF Divides
  <2>4. \E x, y \in Int : l = (x * l) + (y * 0)
    BY <2>2
  <2>5. QED
    BY <1>4, <1>6, <2>1, <2>3, <2>4 DEF GcdOf
<1>7. CASE r # 0
  <2>1. l % r \in Nat /\ ~ (r <= l % r)
    BY <1>3, <1>7, EuclidStep
  <2>2. l % r \notin T
    BY <1>2, <2>1
  <2>3. GcdOf(r, l % r, gcd[<<r, l % r>>])
    BY <1>3, <2>1, <2>2
  <2>4. GcdOf(l, r, gcd[<<r, l % r>>])
    <3>1. PICK q \in Int : l = (q * r) + (l % r)
      BY <1>3, <1>7, EuclidStep
    <3> DEFINE m == l % r
    <3>2. m \in Nat /\ l = (q * r) + m /\ GcdOf(r, m, gcd[<<r, m>>])
      BY <2>1, <2>3, <3>1
    <3> HIDE DEF m
    <3>3. GcdOf(l, r, gcd[<<r, m>>])
      BY <1>3, <1>7, <3>2, GcdStep
    <3>4. QED
      BY <3>3 DEF m
  <2>5. QED
    BY <1>4, <1>5, <1>7, <2>4
<1>8. QED
  BY <1>6, <1>7

-----------------------------------------------------------------------------
(* Lowest terms.                                                           *)

Coprime(p, q) == \E x, y \in Int : (x * p) + (y * q) = 1

\* A common factor cancels, whatever its sign.
LEMMA CancelEqual ==
  ASSUME NEW x \in Int, NEW y \in Int, NEW k \in Int \ {0}, x * k = y * k
  PROVE  x = y
<1>1. CASE k > 0
  <2>1. k \in Nat \ {0} /\ x * k <= y * k /\ y * k <= x * k
    BY <1>1
  <2>2. x <= y /\ y <= x
    BY <2>1, CancelWeak
  <2>3. QED
    BY <2>2
<1>2. CASE k < 0
  <2>1. x * (-k) = -(x * k) /\ y * (-k) = -(y * k)
    OBVIOUS
  <2>2. -k \in Nat \ {0} /\ x * (-k) <= y * (-k) /\ y * (-k) <= x * (-k)
    BY <1>2, <2>1
  <2>3. x <= y /\ y <= x
    BY <2>2, CancelWeak
  <2>4. QED
    BY <2>3
<1>3. QED
  BY <1>1, <1>2

Equal(m, e, p, q) == m * q = p * e

\* Fractions that equal a third are equal.
LEMMA SameFraction ==
  ASSUME NEW n \in Int, NEW d \in Int \ {0}, NEW p \in Int, NEW q \in Int,
         NEW m \in Int, NEW e \in Int, Equal(p, q, n, d), Equal(m, e, n, d)
  PROVE  Equal(m, e, p, q)
<1> USE DEF Equal
<1>1. (m * q) * d = (m * d) * q /\ (p * e) * d = (p * d) * e
  OBVIOUS
<1>2. (n * e) * q = (n * q) * e
  OBVIOUS
<1>3. (m * q) * d = (p * e) * d
  BY <1>1, <1>2
<1>4. m * q \in Int /\ p * e \in Int
  OBVIOUS
<1>5. QED
  BY <1>3, <1>4, CancelEqual

Multiple(m, e, p, q) == \E k \in Nat \ {0} : m = p * k /\ e = q * k

\* Every fraction is a multiple of the one in lowest terms.
LEMMA LowestTerms ==
  ASSUME NEW p \in Int, NEW q \in Nat \ {0}, Coprime(p, q),
         NEW m \in Int, NEW e \in Nat \ {0}, Equal(m, e, p, q)
  PROVE  Multiple(m, e, p, q)
<1> USE DEF Equal
<1>1. PICK x \in Int, y \in Int : (x * p) + (y * q) = 1
  BY DEF Coprime
<1> DEFINE k == (x * m) + (y * e)
<1>2. k \in Int
  OBVIOUS
<1>3. p * k = m
  <2>1. p * k = (x * p) * m + y * (p * e)
    OBVIOUS
  <2>2. y * (m * q) = (y * q) * m
    OBVIOUS
  <2>3. ((x * p) * m) + ((y * q) * m) = ((x * p) + (y * q)) * m
    OBVIOUS
  <2>4. p * k = 1 * m
    BY <1>1, <2>1, <2>2, <2>3
  <2>5. QED
    BY <2>4
<1>4. q * k = e
  <2>1. q * k = x * (m * q) + (y * q) * e
    OBVIOUS
  <2>2. x * (p * e) = (x * p) * e
    OBVIOUS
  <2>3. ((x * p) * e) + ((y * q) * e) = ((x * p) + (y * q)) * e
    OBVIOUS
  <2>4. q * k = 1 * e
    BY <1>1, <2>1, <2>2, <2>3
  <2>5. QED
    BY <2>4
<1> HIDE DEF k
<1>5. 0 * q < k * q
  BY <1>2, <1>4
<1>6. 0 < k
  BY <1>2, <1>5, CancelStrict
<1>7. k \in Nat \ {0} /\ m = p * k /\ e = q * k
  BY <1>2, <1>3, <1>4, <1>6
<1>8. QED
  BY <1>7, Zenon DEF Multiple

\* A multiple is no nearer to zero.
LEMMA MultipleBound ==
  ASSUME NEW p \in Int, NEW k \in Nat \ {0}
  PROVE  /\ p >= 0 => p <= p * k
         /\ p <= 0 => p * k <= p
<1>1. CASE p >= 0
  <2>1. 1 * p <= k * p
    BY <1>1, TimesMonotone
  <2>2. QED
    BY <1>1, <2>1
<1>2. CASE p <= 0
  <2>1. 1 * (-p) <= k * (-p)
    BY <1>2, TimesMonotone
  <2>2. k * (-p) = -(p * k) /\ p * k \in Int
    OBVIOUS
  <2>3. QED
    BY <1>2, <2>1, <2>2
<1>3. QED
  BY <1>1, <1>2

\* If any pair of fields holds a value, its lowest terms do.
LEMMA LowestTermsFit ==
  ASSUME NEW p \in Int, NEW q \in Nat \ {0}, Coprime(p, q),
         NEW m \in i64, NEW e \in 1..MaxInt, m * q = p * e
  PROVE  p \in i64 /\ q \in 1..MaxInt
<1>1. m \in Int /\ e \in Nat \ {0}
  BY DEF i64
<1>2. PICK k \in Nat \ {0} : m = p * k /\ e = q * k
  <2>1. Equal(m, e, p, q)
    BY DEF Equal
  <2>2. Multiple(m, e, p, q)
    BY <1>1, <2>1, LowestTerms
  <2>3. QED
    BY <2>2 DEF Multiple
<1>3. q <= q * k /\ (p >= 0 => p <= p * k) /\ (p <= 0 => p * k <= p)
  BY MultipleBound
<1>4. p * k \in Int /\ q * k \in Int
  OBVIOUS
<1>5. QED
  BY <1>2, <1>3, <1>4 DEF i64

\* Lowest terms are unique.
LEMMA LowestTermsUnique ==
  ASSUME NEW p \in Int, NEW q \in Nat \ {0}, Coprime(p, q),
         NEW m \in Int, NEW e \in Nat \ {0}, Coprime(m, e), m * q = p * e
  PROVE  m = p /\ e = q
<1>1. PICK k \in Nat \ {0} : m = p * k /\ e = q * k
  <2>1. Equal(m, e, p, q)
    BY DEF Equal
  <2>2. Multiple(m, e, p, q)
    BY <2>1, LowestTerms
  <2>3. QED
    BY <2>2 DEF Multiple
<1>2. PICK j \in Nat \ {0} : p = m * j /\ q = e * j
  <2>1. Equal(p, q, m, e)
    BY DEF Equal
  <2>2. Multiple(p, q, m, e)
    BY <2>1, LowestTerms
  <2>3. QED
    BY <2>2 DEF Multiple
<1>3. e <= e * j /\ q <= q * k
  BY MultipleBound
<1>4. e = q
  BY <1>1, <1>2, <1>3
<1>5. m * q = p * q
  BY <1>4
<1>6. m = p
  BY <1>5, CancelEqual
<1>7. QED
  BY <1>4, <1>6

\* Division by a divisor is exact.
LEMMA ExactQuotient ==
  ASSUME NEW j \in Int, NEW g \in Nat \ {0}
  PROVE  (j * g) \div g = j
<1> DEFINE n == j * g
           q == n \div g
           r == n % g
<1>1. n \in Int
  OBVIOUS
<1>2. q \in Int /\ r \in 0..g - 1 /\ n = (q * g) + r
  <2> HIDE DEF n
  <2>1. QED
    BY <1>1, Division
<1> HIDE DEF q, r
<1>3. (q + 1) * g = (q * g) + g /\ q * g \in Int /\ j * g \in Int
  BY <1>2
<1>4. q * g <= j * g /\ j * g < (q + 1) * g
  BY <1>2, <1>3
<1>5. q <= j /\ j < q + 1
  BY <1>2, <1>4, CancelWeak, CancelStrict
<1>6. q = j
  BY <1>2, <1>5
<1>7. QED
  BY <1>6 DEF q

\* What Rational::from_i128 makes of a fraction: its lowest terms with a
\* positive denominator, narrowed.
LEMMA FromWideReduces ==
  ASSUME NEW n \in Int, NEW d \in Int \ {0}
  PROVE  \E p \in Int, q \in Nat \ {0} :
           /\ p * d = n * q
           /\ Coprime(p, q)
           /\ FromWide(n, d) = Narrow(p, q)
<1>1. CASE n = 0
  <2>1. 0 \in i64 /\ 1 \in i64
    BY DEF i64
  <2>2. FromWide(n, d) = Ok(Zero) /\ Narrow(0, 1) = Ok(Zero)
    BY <1>1, <2>1 DEF FromWide, Narrow, Zero
  <2>3. 0 * d = n * 1 /\ (0 * 0) + (1 * 1) = 1
    BY <1>1
  <2>4. Coprime(0, 1)
    BY <2>3 DEF Coprime
  <2>5. 0 \in Int /\ 1 \in Nat \ {0}
    OBVIOUS
  <2>6. QED
    BY <2>2, <2>3, <2>4, <2>5
<1>2. CASE n # 0
  <2> DEFINE g == gcd[<<Abs(n), Abs(d)>>]
  <2>1. Abs(n) \in Nat \ {0} /\ Abs(d) \in Nat \ {0}
    BY <1>2 DEF Abs
  <2>2. GcdOf(Abs(n), Abs(d), g)
    BY <2>1, GcdProperties
  <2>3. FromWide(n, d) = Positive(n \div g, d \div g)
    BY <1>2 DEF FromWide
  <2> HIDE DEF g
  <2>4. g \in Nat \ {0}
    BY <2>1, <2>2 DEF GcdOf
  <2>5. PICK a \in Int : Abs(n) = a * g
    BY <2>2 DEF GcdOf, Divides
  <2>6. PICK b \in Int : Abs(d) = b * g
    BY <2>2 DEF GcdOf, Divides
  <2>7. PICK x \in Int, y \in Int : g = (x * Abs(n)) + (y * Abs(d))
    BY <2>2 DEF GcdOf
  <2>8. (x * a) + (y * b) = 1
    <3>1. x * (a * g) = (x * a) * g /\ y * (b * g) = (y * b) * g
      BY <2>4
    <3>2. ((x * a) + (y * b)) * g = ((x * a) * g) + ((y * b) * g)
      BY <2>4
    <3>3. ((x * a) + (y * b)) * g = 1 * g
      BY <2>4, <2>5, <2>6, <2>7, <3>1, <3>2
    <3>4. (x * a) + (y * b) \in Int /\ g \in Int \ {0} /\ 1 \in Int
      BY <2>4
    <3>5. QED
      BY <3>3, <3>4, CancelEqual
  <2> DEFINE s == IF n < 0 THEN -a ELSE a
             t == IF d < 0 THEN -b ELSE b
  <2>9. n = s * g /\ d = t * g /\ s \in Int /\ t \in Int
    <3>1. (-a) * g = -(a * g) /\ (-b) * g = -(b * g)
      BY <2>4
    <3>2. QED
      BY <2>5, <2>6, <3>1 DEF Abs
  <2>10. 0 < b
    <3>1. 0 * g < b * g
      BY <2>1, <2>4, <2>6
    <3>2. QED
      BY <2>4, <3>1, CancelStrict
  <2>11. n \div g = s /\ d \div g = t
    <3> HIDE DEF s, t
    <3>1. (s * g) \div g = s /\ (t * g) \div g = t
      BY <2>4, <2>9, ExactQuotient
    <3>2. QED
      BY <2>9, <3>1
  <2> DEFINE p == IF d < 0 THEN -s ELSE s
             q == IF d < 0 THEN -t ELSE t
  <2>12. FromWide(n, d) = Narrow(p, q)
    <3>1. t < 0 <=> d < 0
      BY <2>10
    <3> HIDE DEF s, t
    <3>2. QED
      BY <2>3, <2>11, <3>1 DEF Positive
  <2>13. p * d = n * q
    <3> HIDE DEF s, t
    <3>1. /\ s * (t * g) = (s * g) * t
          /\ (-s) * (t * g) = (s * g) * (-t)
      BY <2>4, <2>9
    <3>2. QED
      BY <2>9, <3>1
  <2>14. p \in Int /\ q \in Nat \ {0}
    BY <2>10
  <2>15. Coprime(p, q)
    <3>1. q = b
      BY <2>10
    <3>2. p = a \/ p = -a
      OBVIOUS
    <3>3. (-x) * (-a) = x * a
      OBVIOUS
    <3>4. -x \in Int
      OBVIOUS
    <3> HIDE DEF p, q
    <3>5. \E z \in Int : (z * p) + (y * q) = 1
      BY <2>8, <3>1, <3>2, <3>3, <3>4
    <3>6. QED
      BY <3>5 DEF Coprime
  <2> HIDE DEF p, q
  <2>16. QED
    BY <2>12, <2>13, <2>14, <2>15, Zenon
<1>3. QED
  BY <1>1, <1>2

\* A fraction that some pair of fields holds is answered in lowest terms.
LEMMA FromWideExact ==
  ASSUME NEW n \in Int, NEW d \in Int \ {0},
         NEW m \in i64, NEW e \in 1..MaxInt, m * d = n * e
  PROVE  LET result == FromWide(n, d)
         IN  /\ IsOk(result) /\ result.value \in Rational
             /\ SameValue(result.value, <<n, d>>)
             /\ Coprime(result.value.num, result.value.den)
<1>1. PICK p \in Int, q \in Nat \ {0} :
        p * d = n * q /\ Coprime(p, q) /\ FromWide(n, d) = Narrow(p, q)
  BY FromWideReduces
<1>2. m \in Int /\ e \in Int
  BY DEF i64
<1>3. m * q = p * e
  <2>1. Equal(p, q, n, d) /\ Equal(m, e, n, d)
    BY <1>1 DEF Equal
  <2>2. Equal(m, e, p, q)
    BY <1>2, <2>1, SameFraction
  <2>3. QED
    BY <2>2 DEF Equal
<1>4. p \in i64 /\ q \in 1..MaxInt
  BY <1>1, <1>3, LowestTermsFit
<1>5. q \in i64
  BY <1>4 DEF i64
<1>6. FromWide(n, d) = Ok([num |-> p, den |-> q])
  BY <1>1, <1>4, <1>5 DEF Narrow
<1>7. QED
  BY <1>1, <1>4, <1>6 DEF Ok, IsOk, Rational, SameValue

\* An answer is a pair of fields in lowest terms with the exact value.
LEMMA FromWideSound ==
  ASSUME NEW n \in Int, NEW d \in Int, IsOk(FromWide(n, d))
  PROVE  LET value == FromWide(n, d).value
         IN  /\ d # 0 /\ value \in Rational
             /\ SameValue(value, <<n, d>>)
             /\ Coprime(value.num, value.den)
<1>1. d # 0
  BY DEF FromWide, IsOk, Err
<1>2. PICK p \in Int, q \in Nat \ {0} :
        p * d = n * q /\ Coprime(p, q) /\ FromWide(n, d) = Narrow(p, q)
  BY <1>1, FromWideReduces
<1>3. p \in i64 /\ q \in i64
  BY <1>2 DEF Narrow, IsOk, Err
<1>4. FromWide(n, d) = Ok([num |-> p, den |-> q])
  BY <1>2, <1>3 DEF Narrow
<1>5. p \in i64 /\ q \in 1..MaxInt
  BY <1>2, <1>3 DEF i64
<1>6. QED
  BY <1>1, <1>2, <1>4, <1>5 DEF Ok, Rational, SameValue

\* Only a fraction that no pair of fields holds is refused.
LEMMA FromWideRefuses ==
  ASSUME NEW n \in Int, NEW d \in Int \ {0}, ~ IsOk(FromWide(n, d))
  PROVE  FromWide(n, d) = Err("Overflow")
<1>1. PICK p \in Int, q \in Nat \ {0} :
        p * d = n * q /\ Coprime(p, q) /\ FromWide(n, d) = Narrow(p, q)
  BY FromWideReduces
<1>2. QED
  BY <1>1 DEF Narrow, IsOk, Ok

\* The values that Rational::new makes are fields in lowest terms.
LEMMA RationalsReduced ==
  ASSUME NEW r \in Rationals
  PROVE  r \in Rational /\ Coprime(r.num, r.den)
<1>1. PICK n \in i64, d \in 1..MaxInt : r = New(n, d).value
  BY DEF Rationals
<1>2. n \in Int /\ d \in Int \ {0} /\ n * d = n * d
  BY DEF i64
<1>3. IsOk(FromWide(n, d))
  BY <1>2, FromWideExact
<1>4. QED
  BY <1>1, <1>2, <1>3, FromWideSound DEF New

\* The contract of every operation that ends in from_i128.
LEMMA FromWideContract ==
  ASSUME NEW n \in Int, NEW d \in Int
  PROVE  LET result == FromWide(n, d)
         IN  IF d = 0 THEN result = Err("ZeroDenominator")
             ELSE IF \E m \in i64, e \in 1..MaxInt :
                       SameValue([num |-> m, den |-> e], <<n, d>>)
             THEN /\ IsOk(result) /\ result.value \in Rational
                  /\ SameValue(result.value, <<n, d>>)
                  /\ \A r \in Rationals :
                       SameValue(r, <<n, d>>) => r = result.value
             ELSE result = Err("Overflow")
<1> DEFINE result == FromWide(n, d)
<1>1. CASE d = 0
  BY <1>1 DEF FromWide
<1>2. CASE /\ d # 0
           /\ \E m \in i64, e \in 1..MaxInt :
                SameValue([num |-> m, den |-> e], <<n, d>>)
  <2>1. PICK m \in i64, e \in 1..MaxInt : m * d = n * e
    BY <1>2 DEF SameValue
  <2>2. /\ IsOk(result) /\ result.value \in Rational
        /\ SameValue(result.value, <<n, d>>)
        /\ Coprime(result.value.num, result.value.den)
    BY <1>2, <2>1, FromWideExact
  <2> HIDE DEF result
  <2>3. ASSUME NEW r \in Rationals, SameValue(r, <<n, d>>)
        PROVE  r = result.value
    <3> DEFINE v == result.value
    <3>1. r \in Rational /\ Coprime(r.num, r.den)
      BY RationalsReduced
    <3>2. v \in Rational /\ Coprime(v.num, v.den)
      BY <2>2
    <3>3. Equal(r.num, r.den, n, d) /\ Equal(v.num, v.den, n, d)
      BY <2>2, <2>3 DEF SameValue, Equal
    <3>4. /\ r.num \in Int /\ r.den \in Nat \ {0}
          /\ v.num \in Int /\ v.den \in Nat \ {0}
      BY <3>1, <3>2 DEF Rational, i64
    <3> HIDE DEF v
    <3>5. Equal(r.num, r.den, v.num, v.den)
      <4>1. d \in Int \ {0} /\ r.den \in Int /\ v.den \in Int
        BY <1>2, <3>4
      <4>2. QED
        BY <3>3, <3>4, <4>1, SameFraction
    <3>6. r.num = v.num /\ r.den = v.den
      BY <3>1, <3>2, <3>4, <3>5, LowestTermsUnique DEF Equal
    <3>7. r = v
      BY <3>1, <3>2, <3>6 DEF Rational
    <3>8. QED
      BY <3>7 DEF v
  <2>4. QED
    BY <1>2, <2>2, <2>3 DEF result
<1>3. CASE /\ d # 0
           /\ ~ \E m \in i64, e \in 1..MaxInt :
                  SameValue([num |-> m, den |-> e], <<n, d>>)
  <2>1. ASSUME IsOk(result) PROVE FALSE
    <3>1. result.value \in Rational /\ SameValue(result.value, <<n, d>>)
      BY <2>1, FromWideSound
    <3> HIDE DEF result
    <3>2. /\ result.value = [num |-> result.value.num, den |-> result.value.den]
          /\ result.value.num \in i64 /\ result.value.den \in 1..MaxInt
      BY <3>1 DEF Rational
    <3>3. QED
      BY <1>3, <3>1, <3>2
  <2>2. QED
    BY <1>3, <2>1, FromWideRefuses
<1>4. QED
  BY <1>1, <1>2, <1>3

-----------------------------------------------------------------------------
(* The calls of the arithmetic and the conversion.                         *)

Arithmetic ==
  Computed => /\ ExactValue \in Int \X Int
              /\ last.result = FromWide(ExactValue[1], ExactValue[2])

Conversion ==
  last.call = "Convert" =>
    last.left \in RawCommand /\ last.result = ConvertCommand(last.left)

LEMMA ArithmeticSuffices ==
  ASSUME Arithmetic PROVE ExactOrRefused
<1>1. SUFFICES ASSUME Computed
               PROVE  IF ExactValue[2] = 0
                      THEN last.result = Err("ZeroDenominator")
                      ELSE IF \E n \in i64, d \in 1..MaxInt :
                                SameValue([num |-> n, den |-> d], ExactValue)
                      THEN /\ IsOk(last.result) /\ last.result.value \in Rational
                           /\ SameValue(last.result.value, ExactValue)
                           /\ \A r \in Rationals :
                                SameValue(r, ExactValue) => r = last.result.value
                      ELSE last.result = Err("Overflow")
  BY DEF ExactOrRefused
<1>2. PICK v \in Int \X Int :
        v = ExactValue /\ last.result = FromWide(v[1], v[2])
  BY <1>1 DEF Arithmetic
<1>3. v = <<v[1], v[2]>> /\ v[1] \in Int /\ v[2] \in Int
  OBVIOUS
<1>4. PICK n \in Int, d \in Int : v = <<n, d>>
  BY <1>3
<1>5. ExactValue = <<n, d>> /\ last.result = FromWide(n, d)
  BY <1>2, <1>4
<1>6. <<n, d>>[2] = d
  OBVIOUS
<1>7. QED
  BY <1>5, <1>6, FromWideContract

LEMMA CallSteps ==
  ASSUME Arithmetic, Conversion, [Next]_vars
  PROVE  Arithmetic' /\ Conversion'
<1>1. CASE UNCHANGED last
  BY <1>1 DEF Arithmetic, Conversion, Computed, ExactValue
<1>2. CASE CallNew
  <2>1. PICK n \in i64, d \in i64 : Called("New", n, d, New(n, d))
    BY <1>2 DEF CallNew
  <2>2. n \in Int /\ d \in Int
    BY DEF i64
  <2>3. last' = [call |-> "New", left |-> n, right |-> d, result |-> New(n, d)]
    BY <2>1 DEF Called
  <2>4. (ExactValue)' = <<n, d>>
    BY <2>3 DEF ExactValue
  <2>5. last'.result = FromWide(n, d)
    BY <2>3 DEF New
  <2>6. QED
    BY <2>2, <2>3, <2>4, <2>5 DEF Arithmetic, Conversion
<1>3. CASE CallBinary
  <2>1. PICK a \in Rationals, b \in Rationals :
          \/ Called("Add", a, b, Add(a, b))
          \/ Called("Subtract", a, b, Subtract(a, b))
          \/ Called("Multiply", a, b, Multiply(a, b))
    BY <1>3 DEF CallBinary
  <2>2. a \in Rational /\ b \in Rational
    BY RationalsReduced
  <2>3. a.num \in Int /\ a.den \in Int /\ b.num \in Int /\ b.den \in Int
    BY <2>2 DEF Rational, i64
  <2>4. /\ WideSum(a, b) \in Int \X Int /\ WideDifference(a, b) \in Int \X Int
        /\ WideProduct(a, b) \in Int \X Int
    <3>1. /\ a.num * b.den \in Int /\ b.num * a.den \in Int
          /\ a.den * b.den \in Int /\ a.num * b.num \in Int
      BY <2>3
    <3>2. QED
      BY <3>1 DEF WideSum, WideDifference, WideProduct
  <2>5. CASE Called("Add", a, b, Add(a, b))
    <3>1. last' = [call |-> "Add", left |-> a, right |-> b,
                   result |-> Add(a, b)]
      BY <2>5 DEF Called
    <3>2. (ExactValue)' = WideSum(a, b)
      BY <3>1 DEF ExactValue
    <3>3. last'.result = FromWide(WideSum(a, b)[1], WideSum(a, b)[2])
      BY <3>1 DEF Add
    <3>4. QED
      BY <2>4, <3>1, <3>2, <3>3 DEF Arithmetic, Conversion
  <2>6. CASE Called("Subtract", a, b, Subtract(a, b))
    <3>1. last' = [call |-> "Subtract", left |-> a, right |-> b,
                   result |-> Subtract(a, b)]
      BY <2>6 DEF Called
    <3>2. (ExactValue)' = WideDifference(a, b)
      BY <3>1 DEF ExactValue
    <3>3. last'.result =
            FromWide(WideDifference(a, b)[1], WideDifference(a, b)[2])
      BY <3>1 DEF Subtract
    <3>4. QED
      BY <2>4, <3>1, <3>2, <3>3 DEF Arithmetic, Conversion
  <2>7. CASE Called("Multiply", a, b, Multiply(a, b))
    <3>1. last' = [call |-> "Multiply", left |-> a, right |-> b,
                   result |-> Multiply(a, b)]
      BY <2>7 DEF Called
    <3>2. (ExactValue)' = WideProduct(a, b)
      BY <3>1 DEF ExactValue
    <3>3. last'.result = FromWide(WideProduct(a, b)[1], WideProduct(a, b)[2])
      BY <3>1 DEF Multiply
    <3>4. QED
      BY <2>4, <3>1, <3>2, <3>3 DEF Arithmetic, Conversion
  <2>8. QED
    BY <2>1, <2>5, <2>6, <2>7
<1>4. CASE CallReciprocal
  <2>1. PICK a \in Rationals : Called("Reciprocal", a, a, Reciprocal(a))
    BY <1>4 DEF CallReciprocal
  <2>2. a.num \in Int /\ a.den \in Int
    BY RationalsReduced DEF Rational, i64
  <2>3. last' = [call |-> "Reciprocal", left |-> a, right |-> a,
                 result |-> Reciprocal(a)]
    BY <2>1 DEF Called
  <2>4. (ExactValue)' = <<a.den, a.num>>
    BY <2>3 DEF ExactValue
  <2>5. last'.result = FromWide(a.den, a.num)
    BY <2>3 DEF Reciprocal, New
  <2>6. QED
    BY <2>2, <2>3, <2>4, <2>5 DEF Arithmetic, Conversion
<1>5. CASE CallConvert
  <2>1. PICK raw \in Raws : Called("Convert", raw, raw, ConvertCommand(raw))
    BY <1>5 DEF CallConvert
  <2>2. last' = [call |-> "Convert", left |-> raw, right |-> raw,
                 result |-> ConvertCommand(raw)]
    BY <2>1 DEF Called
  <2>3. raw \in RawCommand
    BY ContractAssumption
  <2>4. QED
    BY <2>2, <2>3 DEF Arithmetic, Conversion, Computed
<1>6. CASE Return
  <2>1. last'.call = "None"
    BY <1>6 DEF Return, NoCall
  <2>2. QED
    BY <2>1 DEF Arithmetic, Conversion, Computed
<1>7. QED
  BY <1>1, <1>2, <1>3, <1>4, <1>5, <1>6
     DEF Next, vars, BeginAdapting, AdaptOne, EndAdapting, Edit, Write, Damage,
         Discard

LEMMA CallInvariant == Spec => [](Arithmetic /\ Conversion)
<1>1. Init => Arithmetic /\ Conversion
  BY DEF Init, NoCall, Arithmetic, Conversion, Computed
<1>2. (Arithmetic /\ Conversion) /\ [Next]_vars => (Arithmetic /\ Conversion)'
  BY CallSteps
<1>3. QED
  BY <1>1, <1>2, PTL DEF Spec

\* No operation of Rational rounds, overflows a field or refuses a value that
\* fits, for every width of the fields (impl Rational, checked arithmetic).
THEOREM ContractsExactOrRefused == Spec => []ExactOrRefused
<1>1. Arithmetic => ExactOrRefused
  BY ArithmeticSuffices
<1>2. QED
  BY <1>1, CallInvariant, PTL

\* A range of the C ABI that is accepted is a nonempty range with the values
\* its caller wrote.
LEMMA RangeOfSound ==
  ASSUME NEW raw \in i64 \X i64 \X i64 \X i64, IsOk(RangeOf(raw))
  PROVE  SameRange(raw, RangeOf(raw).value)
<1> DEFINE start == New(raw[1], raw[2])
           end == New(raw[3], raw[4])
<1>1. /\ IsOk(start) /\ IsOk(end) /\ IsOk(NewRange(start.value, end.value))
      /\ RangeOf(raw) = NewRange(start.value, end.value)
  BY DEF RangeOf, IsOk, Err
<1>2. /\ raw[1] \in Int /\ raw[2] \in Int /\ raw[3] \in Int /\ raw[4] \in Int
  BY DEF i64
<1>3. /\ SameValue(start.value, <<raw[1], raw[2]>>)
      /\ SameValue(end.value, <<raw[3], raw[4]>>)
  BY <1>1, <1>2, FromWideSound DEF New
<1> HIDE DEF start, end
<1>4. RangeOf(raw).value = [start |-> start.value, end |-> end.value]
  BY <1>1 DEF NewRange, IsOk, Ok, Err
<1>5. QED
  BY <1>3, <1>4 DEF SameRange

LEMMA ConversionSuffices ==
  ASSUME Conversion PROVE EveryFieldCounts
<1> DEFINE raw == last.left
           c == last.result.value
<1>1. SUFFICES ASSUME last.call = "Convert", IsOk(last.result)
      PROVE  /\ Filled(raw.kind, raw.primary, raw.secondary, raw.tertiary) =
                  RawOf(c)
             /\ raw.header = "valid" /\ ~ raw.reserved
             /\ raw.kind # 1 => NoIdentity(raw)
             /\ IF raw.kind \in {3, 4} THEN SameRange(raw.timeline, c.range)
                                       ELSE NoTimeline(raw)
             /\ IF raw.kind = 3 THEN IsOk(RangeOf(raw.source)) ELSE NoSource(raw)
  BY DEF EveryFieldCounts
<1>2. raw \in RawCommand /\ last.result = ConvertCommand(raw)
  BY <1>1 DEF Conversion
<1>3. c = ConvertCommand(raw).value /\ IsOk(ConvertCommand(raw))
  BY <1>1, <1>2
<1> HIDE DEF raw, c
<1>4. raw.header = "valid"
  BY <1>2, <1>3 DEF ConvertCommand, RawCommand, IsOk, Err
<1>5. /\ ~ raw.reserved /\ raw.kind \in 1..5 /\ UnusedAreZero(raw)
      /\ ConvertCommand(raw) = Converted(raw)
  BY <1>3, <1>4 DEF ConvertCommand, IsOk, Err
<1>6. c = Converted(raw).value /\ IsOk(Converted(raw))
  BY <1>3, <1>5
<1>7. /\ raw.timeline \in i64 \X i64 \X i64 \X i64
      /\ raw.source \in i64 \X i64 \X i64 \X i64
  BY <1>2, RawRangeAssumption DEF RawCommand
<1>8. CASE raw.kind = 1
  <2>1. c = [op |-> "AddAsset", asset |-> raw.primary]
    BY <1>6, <1>8 DEF Converted, Ok
  <2>2. NoSecondaries(raw) /\ NoTimeline(raw) /\ NoSource(raw)
    BY <1>5, <1>8 DEF UnusedAreZero
  <2>3. QED
    BY <1>4, <1>5, <1>8, <2>1, <2>2 DEF RawOf, NoSecondaries
<1>9. CASE raw.kind = 2
  <2>1. c = [op |-> "AddTrack", track |-> raw.primary]
    BY <1>6, <1>9 DEF Converted, Ok
  <2>2. /\ NoSecondaries(raw) /\ NoIdentity(raw)
        /\ NoTimeline(raw) /\ NoSource(raw)
    BY <1>5, <1>9 DEF UnusedAreZero
  <2>3. QED
    BY <1>4, <1>5, <1>9, <2>1, <2>2 DEF RawOf, NoSecondaries
<1>10. CASE raw.kind = 3
  <2>1. /\ IsOk(RangeOf(raw.timeline)) /\ IsOk(RangeOf(raw.source))
        /\ c = [op |-> "AddClip", clip |-> raw.primary,
                asset |-> raw.secondary, track |-> raw.tertiary,
                range |-> RangeOf(raw.timeline).value]
    BY <1>6, <1>10 DEF Converted, Ok, Err, IsOk
  <2>2. SameRange(raw.timeline, c.range)
    BY <1>7, <2>1, RangeOfSound
  <2>3. NoIdentity(raw)
    BY <1>5, <1>10 DEF UnusedAreZero
  <2>4. RawOf(c) = Filled(3, raw.primary, raw.secondary, raw.tertiary)
    BY <2>1 DEF RawOf
  <2>5. QED
    BY <1>4, <1>5, <1>10, <2>1, <2>2, <2>3, <2>4
<1>11. CASE raw.kind = 4
  <2>1. /\ IsOk(RangeOf(raw.timeline))
        /\ c = [op |-> "MoveClip", clip |-> raw.primary,
                range |-> RangeOf(raw.timeline).value]
    BY <1>6, <1>11 DEF Converted, Ok, Err, IsOk
  <2>2. SameRange(raw.timeline, c.range)
    BY <1>7, <2>1, RangeOfSound
  <2>3. NoSecondaries(raw) /\ NoIdentity(raw) /\ NoSource(raw)
    BY <1>5, <1>11 DEF UnusedAreZero
  <2>4. RawOf(c) = Filled(4, raw.primary, 0, 0)
    BY <2>1 DEF RawOf
  <2>5. QED
    BY <1>4, <1>5, <1>11, <2>2, <2>3, <2>4 DEF NoSecondaries
<1>12. CASE raw.kind = 5
  <2>1. c = [op |-> "RemoveClip", clip |-> raw.primary]
    BY <1>6, <1>12 DEF Converted, Ok
  <2>2. /\ NoSecondaries(raw) /\ NoIdentity(raw)
        /\ NoTimeline(raw) /\ NoSource(raw)
    BY <1>5, <1>12 DEF UnusedAreZero
  <2>3. QED
    BY <1>4, <1>5, <1>12, <2>1, <2>2 DEF RawOf, NoSecondaries
<1>13. QED
  BY <1>5, <1>8, <1>9, <1>10, <1>11, <1>12

\* Whatever a C caller writes, an accepted stitch_command carries nothing the
\* resulting command does not say (command() in native/c-abi).
THEOREM ContractsEveryFieldCounts == Spec => []EveryFieldCounts
<1>1. Conversion => EveryFieldCounts
  BY ConversionSuffices
<1>2. QED
  BY <1>1, CallInvariant, PTL

-----------------------------------------------------------------------------
(* The adapter over a vector of times.                                     *)

\* One entry: its own time, rounded once, and the exact error.
Rounded(entry, rate, policy) ==
  /\ entry \in AdaptedTime
  /\ WithinPolicy(policy, entry.ticks, entry.time.num * rate, entry.time.den)
  /\ entry.error.num * entry.time.den * rate =
       (entry.time.num * rate - entry.ticks * entry.time.den) * entry.error.den

\* e / f is n / d less p / q.
IsDifference(e, f, n, d, p, q) == e * (d * q) = ((n * q) - (p * d)) * f

\* The error of an entry, from the time its ticks stand for.
LEMMA ErrorExact ==
  ASSUME NEW n \in Int, NEW d \in Int, NEW rate \in Int, NEW ticks \in Int,
         NEW p \in Int, NEW q \in Int \ {0}, Equal(p, q, ticks, rate),
         NEW e \in Int, NEW f \in Int, IsDifference(e, f, n, d, p, q)
  PROVE  IsDifference(e, f, n, d, ticks, rate)
<1> USE DEF Equal, IsDifference
<1>1. ((e * d) * rate) * q = (e * (d * q)) * rate
  OBVIOUS
<1>2. (((n * q) - (p * d)) * f) * rate =
        (((n * rate) * q) - ((p * rate) * d)) * f
  OBVIOUS
<1>3. (((n * rate) * q) - ((ticks * q) * d)) * f =
        (((n * rate) - (ticks * d)) * f) * q
  OBVIOUS
<1>4. ((e * d) * rate) * q = (((n * rate) - (ticks * d)) * f) * q
  BY <1>1, <1>2, <1>3
<1>5. (e * d) * rate \in Int /\ ((n * rate) - (ticks * d)) * f \in Int
  OBVIOUS
<1>6. (e * d) * rate = ((n * rate) - (ticks * d)) * f
  BY <1>4, <1>5, CancelEqual
<1>7. QED
  BY <1>6

LEMMA AdaptAtSound ==
  ASSUME NEW time \in Rational, NEW rate \in 1..MaxInt, NEW policy \in Policy,
         IsOk(AdaptAt(time, rate, policy))
  PROVE  LET entry == AdaptAt(time, rate, policy).value
         IN  Rounded(entry, rate, policy) /\ entry.time = time
<1> DEFINE n == time.num * rate
           d == time.den
           ticks == RoundQuotient(n, d, policy)
           represented == New(ticks, rate)
           error == Subtract(time, represented.value)
<1>1. time.num \in Int /\ d \in Nat \ {0} /\ rate \in Nat \ {0}
  BY DEF Rational, i64
<1>2. n \in Int
  BY <1>1
<1>3. /\ ticks \in i64 /\ IsOk(represented)
      /\ AdaptAt(time, rate, policy) = Adapted(time, ticks, error)
  BY DEF AdaptAt, IsOk, Err
<1>4. /\ IsOk(error)
      /\ AdaptAt(time, rate, policy).value =
           [time |-> time, ticks |-> ticks, error |-> error.value]
  <2> HIDE DEF ticks, error
  <2>1. IsOk(Adapted(time, ticks, error))
    BY <1>3
  <2>2. IsOk(error)
    BY <2>1 DEF Adapted, IsOk, Err
  <2>3. QED
    BY <1>3, <2>2 DEF Adapted, Ok
<1>5. WithinPolicy(policy, ticks, n, d)
  <2> HIDE DEF n, d
  <2>1. QED
    BY <1>1, <1>2, RoundingWithinPolicy
<1> DEFINE r == represented.value
<1>6. ticks \in Int
  BY <1>3 DEF i64
<1>7. r \in Rational /\ SameValue(r, <<ticks, rate>>)
  <2> HIDE DEF ticks
  <2>1. QED
    BY <1>1, <1>3, <1>6, FromWideSound DEF New
<1> HIDE DEF ticks, r
<1>8. r.num \in Int /\ r.den \in Nat \ {0} /\ r.num * rate = ticks * r.den
  BY <1>7 DEF Rational, i64, SameValue
<1>9. error = FromWide((time.num * r.den) - (r.num * d), d * r.den)
  BY DEF Subtract, WideDifference, r
<1>10. /\ (time.num * r.den) - (r.num * d) \in Int /\ d * r.den \in Int
  BY <1>1, <1>8
<1> DEFINE e == error.value
<1>11. /\ e \in Rational
       /\ SameValue(e, <<(time.num * r.den) - (r.num * d), d * r.den>>)
  <2> HIDE DEF error
  <2>1. QED
    BY <1>4, <1>9, <1>10, FromWideSound
<1>12. AdaptAt(time, rate, policy).value =
         [time |-> time, ticks |-> ticks, error |-> e]
  BY <1>4
<1> HIDE DEF error, represented, e
<1>13. /\ e.num \in Int /\ e.den \in Int
       /\ e.num * (d * r.den) = ((time.num * r.den) - (r.num * d)) * e.den
  BY <1>11 DEF Rational, i64, SameValue
<1> HIDE DEF d
<1>14. (e.num * d) * rate = ((time.num * rate) - (ticks * d)) * e.den
  <2>1. d \in Int /\ rate \in Int /\ r.den \in Int \ {0}
    BY <1>1, <1>8
  <2>2. QED
    <3>1. /\ Equal(r.num, r.den, ticks, rate)
          /\ IsDifference(e.num, e.den, time.num, d, r.num, r.den)
      BY <1>8, <1>13 DEF Equal, IsDifference
    <3>2. IsDifference(e.num, e.den, time.num, d, ticks, rate)
      BY <1>1, <1>6, <1>8, <1>13, <2>1, <3>1, ErrorExact
    <3>3. e.num * (d * rate) = (e.num * d) * rate
      BY <1>13, <2>1
    <3>4. QED
      BY <3>2, <3>3 DEF IsDifference
<1>15. [time |-> time, ticks |-> ticks, error |-> e] \in AdaptedTime
  BY <1>3, <1>11 DEF AdaptedTime
<1> DEFINE entry == [time |-> time, ticks |-> ticks, error |-> e]
<1>16. /\ entry.time = time /\ entry.ticks = ticks /\ entry.error = e
       /\ entry.time.den = d
  BY DEF d
<1> HIDE DEF entry
<1>17. Rounded(entry, rate, policy)
  <2>1. entry \in AdaptedTime
    BY <1>15 DEF entry
  <2>2. QED
    BY <1>5, <1>14, <1>16, <2>1 DEF Rounded
<1>18. QED
  BY <1>12, <1>16, <1>17 DEF entry

LEMMA AdaptAbsoluteSound ==
  ASSUME NEW time \in Rational, NEW rate \in u64, NEW policy \in Policy,
         IsOk(AdaptAbsolute(time, rate, policy))
  PROVE  LET entry == AdaptAbsolute(time, rate, policy).value
         IN  Rounded(entry, rate, policy) /\ entry.time = time
<1>1. IsOk(TicksPerSecond(rate))
  BY DEF AdaptAbsolute, IsOk, Err
<1>2. TicksPerSecond(rate).value = rate /\ rate \in 1..MaxInt
  BY <1>1 DEF TicksPerSecond, IsOk, Err, Ok, u64
<1>3. AdaptAbsolute(time, rate, policy) = AdaptAt(time, rate, policy)
  BY <1>1, <1>2 DEF AdaptAbsolute
<1>4. QED
  BY <1>2, <1>3, AdaptAtSound

\* The next entry is sound and beyond the last one.
LEMMA AdaptNextSound ==
  ASSUME NEW adapted \in Seq(AdaptedTime), NEW time \in Rational,
         NEW rate \in u64, NEW policy \in Policy,
         IsOk(AdaptNext(adapted, time, rate, policy))
  PROVE  LET entry == AdaptNext(adapted, time, rate, policy).value
             end == adapted[Len(adapted)]
         IN  /\ Rounded(entry, rate, policy)
             /\ adapted # <<>> => /\ Less(end.time, entry.time)
                                  /\ end.ticks < entry.ticks
<1> DEFINE next == AdaptAbsolute(time, rate, policy)
           end == adapted[Len(adapted)]
<1>1. /\ ~ (adapted # <<>> /\ LessOrEqual(time, end.time))
      /\ AdaptNext(adapted, time, rate, policy) = next
      /\ ~ (IsOk(next) /\ adapted # <<>> /\ next.value.ticks <= end.ticks)
  <2> HIDE DEF next, end
  <2>1. AdaptNext(adapted, time, rate, policy) =
          CASE adapted # <<>> /\ LessOrEqual(time, end.time) ->
                 Err("InvalidRange")
            [] OTHER ->
                 IF IsOk(next) /\ adapted # <<>> /\ next.value.ticks <= end.ticks
                 THEN Err("NonMonotonicAdaptedTicks") ELSE next
    BY DEF AdaptNext, next, end
  <2>2. QED
    BY <2>1 DEF IsOk, Err
<1>2. IsOk(next)
  BY <1>1
<1>3. Rounded(next.value, rate, policy) /\ next.value.time = time
  BY <1>2, AdaptAbsoluteSound
<1> HIDE DEF next
<1>4. ASSUME adapted # <<>>
      PROVE  Less(end.time, time) /\ end.ticks < next.value.ticks
  <2>1. end \in AdaptedTime
    <3>1. Len(adapted) \in DOMAIN adapted
      BY <1>4
    <3>2. QED
      BY <3>1
  <2> HIDE DEF end
  <2>2. end.time \in Rational /\ end.ticks \in Int
    BY <2>1 DEF AdaptedTime, i64
  <2>3. next.value.ticks \in Int
    BY <1>3 DEF Rounded, AdaptedTime, i64
  <2>4. time.num * end.time.den \in Int /\ end.time.num * time.den \in Int
    <3>1. /\ time.num \in Int /\ time.den \in Int
          /\ end.time.num \in Int /\ end.time.den \in Int
      BY <2>2 DEF Rational, i64
    <3>2. QED
      BY <3>1
  <2>5. QED
    BY <1>1, <1>2, <1>4, <2>2, <2>3, <2>4 DEF Less, LessOrEqual
<1>5. QED
  BY <1>1, <1>3, <1>4

LEMMA LessTransitive ==
  ASSUME NEW a \in Rational, NEW b \in Rational, NEW c \in Rational,
         Less(a, b), Less(b, c)
  PROVE  Less(a, c)
<1>1. /\ a.num \in Int /\ b.num \in Int /\ c.num \in Int
      /\ a.den \in Nat \ {0} /\ b.den \in Nat \ {0} /\ c.den \in Nat \ {0}
  BY DEF Rational, i64
<1> DEFINE an == a.num  ad == a.den  bn == b.num  bd == b.den
           cn == c.num  cd == c.den
<1>2. an * bd < bn * ad /\ bn * cd < cn * bd
  BY DEF Less
<1>3. /\ an \in Int /\ bn \in Int /\ cn \in Int /\ ad \in Nat \ {0}
      /\ bd \in Nat \ {0} /\ cd \in Nat \ {0}
  BY <1>1
<1>4. SUFFICES an * cd < cn * ad
  BY DEF Less
<1> HIDE DEF an, ad, bn, bd, cn, cd
<1>5. an * bd \in Int /\ bn * ad \in Int /\ bn * cd \in Int /\ cn * bd \in Int
  BY <1>3
<1>6. (an * bd) * cd < (bn * ad) * cd /\ (bn * cd) * ad < (cn * bd) * ad
  BY <1>2, <1>3, <1>5, TimesStrict
<1>7. /\ (an * bd) * cd = (an * cd) * bd /\ (bn * ad) * cd = (bn * cd) * ad
      /\ (cn * bd) * ad = (cn * ad) * bd
  BY <1>3
<1>8. an * cd \in Int /\ cn * ad \in Int
  BY <1>3
<1>9. (an * cd) * bd \in Int /\ (bn * cd) * ad \in Int /\ (cn * ad) * bd \in Int
  BY <1>3, <1>5, <1>8
<1>10. (an * cd) * bd < (cn * ad) * bd
  BY <1>6, <1>7, <1>9
<1>11. QED
  BY <1>3, <1>8, <1>10, CancelStrict

\* A run of the adapter: each entry is sound, and the run increases.
Beyond(entry, next) == Less(entry.time, next.time) /\ entry.ticks < next.ticks

Increasing(adapted) ==
  \A i, j \in DOMAIN adapted : i < j => Beyond(adapted[i], adapted[j])

Adapting ==
  /\ session = [rate |-> session.rate, policy |-> session.policy,
                adapted |-> session.adapted, error |-> session.error,
                open |-> session.open]
  /\ session.rate \in u64 /\ session.policy \in Policy
  /\ session.adapted \in Seq(AdaptedTime)
  /\ \A i \in DOMAIN session.adapted :
       Rounded(session.adapted[i], session.rate, session.policy)
  /\ Increasing(session.adapted)

LEMMA AppendIncreasing ==
  ASSUME NEW adapted \in Seq(AdaptedTime), Increasing(adapted),
         NEW entry \in AdaptedTime,
         adapted # <<>> => Beyond(adapted[Len(adapted)], entry)
  PROVE  Increasing(Append(adapted, entry))
<1> DEFINE n == Len(adapted)
           longer == Append(adapted, entry)
<1>1. /\ n \in Nat /\ DOMAIN adapted = 1..n /\ DOMAIN longer = 1..(n + 1)
      /\ \A i \in 1..n : longer[i] = adapted[i]
      /\ longer[n + 1] = entry
  OBVIOUS
<1>2. ASSUME NEW i \in 1..n PROVE adapted[i] \in AdaptedTime
  OBVIOUS
<1>3. ASSUME NEW i \in 1..n PROVE Beyond(adapted[i], entry)
  <2>1. adapted # <<>> /\ n \in 1..n
    BY <1>1
  <2>2. Beyond(adapted[n], entry)
    BY <2>1
  <2>3. CASE i = n
    BY <2>2, <2>3
  <2>4. CASE i # n
    <3>1. Beyond(adapted[i], adapted[n])
      <4>1. i \in DOMAIN adapted /\ n \in DOMAIN adapted /\ i < n
        <5> HIDE DEF n, longer
        <5>1. QED
          BY <1>1, <2>1, <2>4
      <4> HIDE DEF n
      <4>2. QED
        BY <4>1 DEF Increasing
    <3>2. adapted[i] \in AdaptedTime /\ adapted[n] \in AdaptedTime
      BY <1>2, <2>1
    <3> DEFINE a == adapted[i]
               b == adapted[n]
    <3> HIDE DEF n, longer
    <3>3. /\ a.time \in Rational /\ b.time \in Rational
          /\ entry.time \in Rational
          /\ a.ticks \in Int /\ b.ticks \in Int /\ entry.ticks \in Int
      BY <3>2 DEF AdaptedTime, i64
    <3>4. Beyond(a, b) /\ Beyond(b, entry)
      BY <2>2, <3>1
    <3> HIDE DEF a, b
    <3>5. Less(a.time, entry.time)
      BY <3>3, <3>4, LessTransitive DEF Beyond
    <3>6. a.ticks < entry.ticks
      BY <3>3, <3>4 DEF Beyond
    <3>7. Beyond(a, entry)
      BY <3>5, <3>6 DEF Beyond
    <3>8. QED
      BY <3>7 DEF a
  <2>5. QED
    BY <2>3, <2>4
<1> HIDE DEF n, longer
<1>4. ASSUME NEW i \in 1..(n + 1), NEW j \in 1..(n + 1), i < j
      PROVE  Beyond(longer[i], longer[j])
  <2>1. i \in 1..n
    BY <1>1, <1>4
  <2>2. CASE j \in 1..n
    BY <1>1, <1>4, <2>1, <2>2 DEF Increasing
  <2>3. CASE j = n + 1
    BY <1>1, <1>3, <2>1, <2>3
  <2>4. QED
    BY <1>1, <2>2, <2>3
<1>5. Increasing(longer)
  BY <1>1, <1>4 DEF Increasing
<1>6. QED
  BY <1>5 DEF longer

LEMMA AdaptOneStep ==
  ASSUME Adapting, AdaptOne
  PROVE  Adapting'
<1>1. PICK time \in Times :
        LET next == AdaptNext(session.adapted, time, session.rate,
                              session.policy)
        IN  session' = IF IsOk(next)
                       THEN [session EXCEPT !.adapted = Append(@, next.value)]
                       ELSE [session EXCEPT !.error = next.error]
  BY DEF AdaptOne
<1> DEFINE next == AdaptNext(session.adapted, time, session.rate,
                             session.policy)
<1>2. time \in Rational
  BY ContractAssumption
<1>3. CASE ~ IsOk(next)
  <2>1. session' = [session EXCEPT !.error = next.error]
    BY <1>1, <1>3
  <2> HIDE DEF next
  <2>2. /\ session'.rate = session.rate /\ session'.policy = session.policy
        /\ session'.adapted = session.adapted
        /\ session' = [rate |-> session.rate, policy |-> session.policy,
                       adapted |-> session.adapted, error |-> next.error,
                       open |-> session.open]
    BY <2>1 DEF Adapting
  <2>3. session' = [rate |-> session'.rate, policy |-> session'.policy,
                    adapted |-> session'.adapted, error |-> session'.error,
                    open |-> session'.open]
    BY <2>2
  <2>4. QED
    BY <2>2, <2>3 DEF Adapting
<1>4. CASE IsOk(next)
  <2>1. session' = [session EXCEPT !.adapted = Append(@, next.value)]
    BY <1>1, <1>4
  <2> DEFINE entry == next.value
  <2>2. /\ Rounded(entry, session.rate, session.policy)
        /\ session.adapted # <<>> =>
             Beyond(session.adapted[Len(session.adapted)], entry)
    BY <1>2, <1>4, AdaptNextSound DEF Adapting, Beyond
  <2> HIDE DEF next, entry
  <2>3. entry \in AdaptedTime
    BY <2>2 DEF Rounded
  <2>4. /\ session'.rate = session.rate /\ session'.policy = session.policy
        /\ session'.adapted = Append(session.adapted, entry)
        /\ session' = [rate |-> session.rate, policy |-> session.policy,
                       adapted |-> Append(session.adapted, entry),
                       error |-> session.error, open |-> session.open]
    BY <2>1 DEF Adapting, entry
  <2>5. session' = [rate |-> session'.rate, policy |-> session'.policy,
                    adapted |-> session'.adapted, error |-> session'.error,
                    open |-> session'.open]
    BY <2>4
  <2>6. session.adapted \in Seq(AdaptedTime) /\ Increasing(session.adapted)
    BY DEF Adapting
  <2>7. Increasing(session'.adapted)
    BY <2>2, <2>3, <2>4, <2>6, AppendIncreasing
  <2>8. session'.adapted \in Seq(AdaptedTime)
    BY <2>3, <2>4, <2>6
  <2>9. \A i \in DOMAIN session'.adapted :
          Rounded(session'.adapted[i], session.rate, session.policy)
    <3>1. \A i \in DOMAIN session.adapted :
            Rounded(session.adapted[i], session.rate, session.policy)
      BY DEF Adapting
    <3>2. /\ DOMAIN session'.adapted = 1..(Len(session.adapted) + 1)
          /\ \A i \in 1..Len(session.adapted) :
               session'.adapted[i] = session.adapted[i]
          /\ session'.adapted[Len(session.adapted) + 1] = entry
          /\ DOMAIN session.adapted = 1..Len(session.adapted)
          /\ Len(session.adapted) \in Nat
      BY <2>3, <2>4, <2>6
    <3>3. \A i \in 1..(Len(session.adapted) + 1) :
            i \in 1..Len(session.adapted) \/ i = Len(session.adapted) + 1
      BY <3>2
    <3>4. QED
      BY <2>2, <3>1, <3>2, <3>3
  <2>10. QED
    BY <2>4, <2>5, <2>7, <2>8, <2>9 DEF Adapting
<1>5. QED
  BY <1>3, <1>4

\* A session as NoSession and begin leave it.
Fresh ==
  \E rate \in u64, policy \in Policy, open \in BOOLEAN :
    session = [rate |-> rate, policy |-> policy, adapted |-> <<>>,
               error |-> "None", open |-> open]

LEMMA FreshAdapting ==
  ASSUME Fresh PROVE Adapting
<1>1. PICK rate \in u64, policy \in Policy, open \in BOOLEAN :
        session = [rate |-> rate, policy |-> policy, adapted |-> <<>>,
                   error |-> "None", open |-> open]
  BY DEF Fresh
<1>2. /\ session.rate = rate /\ session.policy = policy
      /\ session.adapted = <<>>
      /\ session = [rate |-> session.rate, policy |-> session.policy,
                    adapted |-> session.adapted, error |-> session.error,
                    open |-> session.open]
  BY <1>1
<1>3. <<>> \in Seq(AdaptedTime) /\ \A i \in DOMAIN <<>> : FALSE
  OBVIOUS
<1>4. QED
  BY <1>1, <1>2, <1>3 DEF Adapting, Increasing

LEMMA ZeroWord == 0 \in u64
BY DEF u64

LEMMA AdaptingSteps ==
  ASSUME Adapting, [Next]_vars
  PROVE  Adapting' \/ Fresh'
<1>1. CASE UNCHANGED session
  BY <1>1 DEF Adapting
<1>2. CASE AdaptOne
  BY <1>2, AdaptOneStep
<1>3. CASE BeginAdapting \/ EndAdapting
  <2>1. CASE BeginAdapting
    <3>1. PICK rate \in Rates, policy \in Policy :
            session' = [NoSession EXCEPT !.rate = rate, !.policy = policy,
                                         !.open = TRUE]
      BY <2>1 DEF BeginAdapting
    <3>2. session' = [rate |-> rate, policy |-> policy, adapted |-> <<>>,
                      error |-> "None", open |-> TRUE]
      BY <3>1 DEF NoSession
    <3>3. rate \in u64
      BY ContractAssumption
    <3>4. QED
      BY <3>2, <3>3 DEF Fresh
  <2>2. CASE EndAdapting
    <3>1. session' = [rate |-> 0, policy |-> "Floor", adapted |-> <<>>,
                      error |-> "None", open |-> FALSE]
      BY <2>2 DEF EndAdapting, NoSession
    <3>2. "Floor" \in Policy
      BY DEF Policy
    <3>3. QED
      BY <3>1, <3>2, ZeroWord DEF Fresh
  <2>3. QED
    BY <1>3, <2>1, <2>2
<1>4. QED
  BY <1>1, <1>2, <1>3
     DEF Next, vars, CallNew, CallBinary, CallReciprocal, CallConvert, Return,
         Called, Edit, Write, Damage, Discard

\* Every entry of an adapted vector is its own time rounded once, with the
\* exact error, and the ticks increase with the times: rounding never
\* accumulates, however long the vector (adapt_absolute_sequence).
THEOREM ContractsAdaptedTicksSound == Spec => []AdaptedTicksSound
<1>1. Init => Adapting
  <2>1. "Floor" \in Policy
    BY DEF Policy
  <2>2. Init => Fresh
    BY <2>1, ZeroWord DEF Init, NoSession, Fresh
  <2>3. QED
    BY <2>2, FreshAdapting
<1>2. Adapting /\ [Next]_vars => Adapting'
  <2>1. Fresh => Adapting
    BY FreshAdapting
  <2>2. (Fresh => Adapting)'
    BY <2>1, PTL
  <2>3. QED
    BY <2>2, AdaptingSteps
<1>3. Adapting => AdaptedTicksSound
  BY DEF Adapting, AdaptedTicksSound, Rounded, Increasing, Beyond
<1>4. QED
  BY <1>1, <1>2, <1>3, PTL DEF Spec

-----------------------------------------------------------------------------
(* Streams: where a stream holds a chunk of words.                         *)

LEMMA SetInduction ==
  ASSUME NEW T \in SUBSET Nat, 0 \in T, \A n \in T : n + 1 \in T
  PROVE  T = Nat
<1>1. SUFFICES ASSUME Nat \ T # {} PROVE FALSE
  OBVIOUS
<1>2. PICK n \in Nat \ T : \A m \in Nat \ T : n <= m
  BY <1>1, LeastNatural
<1>3. n # 0 /\ n - 1 \in Nat
  BY <1>2
<1>4. n - 1 \in T
  BY <1>2, <1>3
<1>5. n - 1 + 1 \in T /\ n - 1 + 1 = n
  BY <1>2, <1>4
<1>6. QED
  BY <1>2, <1>5

Holds(w, at, chunk) ==
  /\ at + Len(chunk) <= Len(w) + 1
  /\ \A i \in 1..Len(chunk) : w[at + i - 1] = chunk[i]

\* A stream holds itself from its first word.
LEMMA HoldsAll ==
  ASSUME NEW w \in Seq(Nat) PROVE Holds(w, 1, w)
BY DEF Holds

\* A chunk is held where its two parts are, one after the other.
LEMMA HoldsParts ==
  ASSUME NEW w \in Seq(Nat), NEW at \in Nat \ {0},
         NEW a \in Seq(Nat), NEW b \in Seq(Nat), Holds(w, at, a \o b)
  PROVE  Holds(w, at, a) /\ Holds(w, at + Len(a), b)
<1> DEFINE c == a \o b
<1>1. /\ Len(a) \in Nat /\ Len(b) \in Nat /\ Len(w) \in Nat
      /\ Len(c) = Len(a) + Len(b)
      /\ \A i \in 1..Len(a) : c[i] = a[i]
      /\ \A i \in 1..Len(b) : c[Len(a) + i] = b[i]
  OBVIOUS
<1>2. /\ at + Len(c) <= Len(w) + 1
      /\ \A i \in 1..Len(c) : w[at + i - 1] = c[i]
  BY DEF Holds
<1> HIDE DEF c
<1>3. ASSUME NEW i \in 1..Len(a) PROVE w[at + i - 1] = a[i]
  <2>1. i \in 1..Len(c)
    BY <1>1
  <2>2. w[at + i - 1] = c[i]
    BY <1>2, <2>1
  <2>3. QED
    BY <1>1, <2>2
<1>4. ASSUME NEW i \in 1..Len(b) PROVE w[at + Len(a) + i - 1] = b[i]
  <2>1. Len(a) + i \in 1..Len(c) /\ at + (Len(a) + i) - 1 = at + Len(a) + i - 1
    BY <1>1
  <2>2. w[at + (Len(a) + i) - 1] = c[Len(a) + i]
    BY <1>2, <2>1
  <2>3. QED
    BY <1>1, <2>1, <2>2
<1>5. at + Len(a) <= Len(w) + 1 /\ at + Len(a) + Len(b) <= Len(w) + 1
  BY <1>1, <1>2
<1>6. QED
  BY <1>3, <1>4, <1>5 DEF Holds

Flattens(chunks, f, n) ==
  f = [i \in 1..n |-> IF i = 1 THEN chunks[i] ELSE f[i - 1] \o chunks[i]]

LEMMA FlattensExists ==
  ASSUME NEW chunks, NEW n \in Nat
  PROVE  \E f : Flattens(chunks, f, n)
<1> DEFINE T == {m \in Nat : \E f : Flattens(chunks, f, m)}
<1>1. 0 \in T
  <2>1. Flattens(chunks, [i \in 1..0 |-> <<>>], 0)
    BY DEF Flattens
  <2>2. QED
    BY <2>1
<1>2. ASSUME NEW m \in T PROVE m + 1 \in T
  <2>1. PICK f : Flattens(chunks, f, m)
    OBVIOUS
  <2>2. m \in Nat
    OBVIOUS
  <2> DEFINE g == [i \in 1..(m + 1) |->
                    IF i = 1 THEN chunks[i]
                    ELSE IF i <= m THEN f[i] ELSE f[m] \o chunks[i]]
  <2>3. ASSUME NEW i \in 1..(m + 1)
        PROVE  g[i] = IF i = 1 THEN chunks[i] ELSE g[i - 1] \o chunks[i]
    <3>1. CASE i = 1
      BY <2>2, <3>1
    <3>2. CASE i # 1 /\ i <= m
      <4>1. i \in 1..m /\ i - 1 \in 1..m
        BY <2>2, <3>2
      <4>2. f[i] = f[i - 1] \o chunks[i]
        BY <2>1, <3>2, <4>1 DEF Flattens
      <4>3. g[i - 1] = f[i - 1]
        <5>1. i - 1 = 1 => f[i - 1] = chunks[i - 1]
          BY <2>1, <4>1 DEF Flattens
        <5>2. QED
          BY <2>2, <4>1, <5>1
      <4>4. QED
        BY <2>2, <3>2, <4>2, <4>3
    <3>3. CASE i # 1 /\ i = m + 1
      <4>1. m \in 1..m /\ m \in 1..(m + 1)
        BY <2>2, <3>3
      <4>2. g[m] = f[m]
        <5>1. m = 1 => f[m] = chunks[m]
          BY <2>1, <4>1 DEF Flattens
        <5>2. QED
          BY <2>2, <4>1, <5>1
      <4>3. i - 1 = m /\ i # 1 /\ ~ (i <= m)
        BY <2>2, <3>3
      <4>4. g[i] = f[m] \o chunks[i]
        BY <4>3
      <4>5. QED
        BY <3>3, <4>2, <4>3, <4>4
    <3>4. QED
      BY <2>2, <3>1, <3>2, <3>3
  <2> HIDE DEF g
  <2>4. g = [i \in 1..(m + 1) |-> g[i]]
    BY DEF g
  <2>5. Flattens(chunks, g, m + 1)
    BY <2>3, <2>4 DEF Flattens
  <2>6. QED
    BY <2>2, <2>5
<1>3. T = Nat
  <2> HIDE DEF T
  <2>1. T \in SUBSET Nat
    BY DEF T
  <2>2. QED
    BY <1>1, <1>2, <2>1, SetInduction
<1>4. QED
  BY <1>3

\* FlattenSeq, one chunk at a time.
Partial(chunks, f) ==
  /\ f \in [0..Len(chunks) -> Seq(Nat)]
  /\ f[0] = <<>>
  /\ \A i \in 1..Len(chunks) : f[i] = f[i - 1] \o chunks[i]
  /\ Seqs!FlattenSeq(chunks) = f[Len(chunks)]

\* FlattenSeq is the last of the partial concatenations.
LEMMA FlattenPartial ==
  ASSUME NEW chunks \in Seq(Seq(Nat))
  PROVE  \E f : Partial(chunks, f)
<1> DEFINE n == Len(chunks)
           h == CHOOSE f : Flattens(chunks, f, n)
           f == [i \in 0..n |-> IF i = 0 THEN <<>> ELSE h[i]]
<1>1. n \in Nat /\ DOMAIN chunks = 1..n
  OBVIOUS
<1>2. Flattens(chunks, h, n)
  BY <1>1, FlattensExists
<1>3. Seqs!FlattenSeq(chunks) = IF n = 0 THEN chunks ELSE h[n]
  BY DEF Seqs!FlattenSeq, Flattens
<1> HIDE DEF h
<1>4. ASSUME NEW i \in 1..n PROVE chunks[i] \in Seq(Nat)
  OBVIOUS
<1>5. n = 0 => chunks = <<>>
  OBVIOUS
<1> HIDE DEF n
<1>6. \A i \in 1..n : h[i] = IF i = 1 THEN chunks[i] ELSE h[i - 1] \o chunks[i]
  BY <1>2 DEF Flattens
<1> DEFINE T == {m \in Nat : m \in 1..n => h[m] \in Seq(Nat)}
<1>7. T = Nat
  <2>1. 0 \in T
    BY <1>1
  <2>2. ASSUME NEW m \in T PROVE m + 1 \in T
    <3>1. SUFFICES ASSUME m + 1 \in 1..n PROVE h[m + 1] \in Seq(Nat)
      OBVIOUS
    <3>2. h[m + 1] = IF m + 1 = 1 THEN chunks[m + 1]
                     ELSE h[m + 1 - 1] \o chunks[m + 1]
      BY <1>6, <3>1
    <3>3. m \in Nat /\ m + 1 - 1 = m /\ chunks[m + 1] \in Seq(Nat)
      BY <1>4, <3>1
    <3>4. CASE m = 0
      BY <3>2, <3>3, <3>4
    <3>5. CASE m # 0
      <4>1. m \in 1..n
        BY <1>1, <3>1, <3>3, <3>5
      <4>2. h[m] \in Seq(Nat)
        BY <4>1
      <4>3. h[m + 1] = h[m] \o chunks[m + 1]
        <5>1. m + 1 # 1
          BY <3>3, <3>5
        <5>2. h[m + 1] = h[m + 1 - 1] \o chunks[m + 1]
          BY <3>2, <5>1
        <5>3. QED
          BY <3>3, <5>2
      <4>4. QED
        BY <3>3, <4>2, <4>3
    <3>6. QED
      BY <3>4, <3>5
  <2>3. T \in SUBSET Nat
    OBVIOUS
  <2> HIDE DEF T
  <2>4. QED
    BY <2>1, <2>2, <2>3, SetInduction
<1>8. ASSUME NEW i \in 1..n PROVE h[i] \in Seq(Nat)
  BY <1>1, <1>7
<1>9. f \in [0..n -> Seq(Nat)]
  <2>1. <<>> \in Seq(Nat)
    OBVIOUS
  <2>2. QED
    BY <1>1, <1>8, <2>1
<1>10. f[0] = <<>>
  BY <1>1
<1>11. ASSUME NEW i \in 1..n PROVE f[i] = f[i - 1] \o chunks[i]
  <2>1. f[i] = h[i]
    BY <1>1
  <2>2. CASE i = 1
    <3>1. h[i] = chunks[i] /\ f[i - 1] = <<>>
      BY <1>6, <1>10, <2>2
    <3>2. <<>> \o chunks[i] = chunks[i]
      BY <1>4
    <3>3. QED
      BY <2>1, <3>1, <3>2
  <2>3. CASE i # 1
    <3>1. i - 1 \in 1..n
      BY <1>1, <2>3
    <3>2. f[i - 1] = h[i - 1]
      BY <1>1, <3>1
    <3>3. QED
      BY <1>6, <2>1, <2>3, <3>2
  <2>4. QED
    BY <2>2, <2>3
<1>12. Seqs!FlattenSeq(chunks) = f[n]
  BY <1>1, <1>3, <1>5
<1> HIDE DEF f
<1>13. Partial(chunks, f)
  BY <1>9, <1>10, <1>11, <1>12 DEF Partial, n
<1>14. QED
  BY <1>13

\* Where each chunk of a flattened list lies.
Placed(w, at, chunks, f) ==
  \A i \in 1..Len(chunks) :
    /\ Holds(w, at + Len(f[i - 1]), chunks[i])
    /\ Len(f[i]) = Len(f[i - 1]) + Len(chunks[i])
\* Where a stream holds a flattened list it holds every entry at its place.
LEMMA HoldsFlattened ==
  ASSUME NEW w \in Seq(Nat), NEW at \in Nat \ {0},
         NEW chunks \in Seq(Seq(Nat)), NEW f, Partial(chunks, f),
         Holds(w, at, Seqs!FlattenSeq(chunks))
  PROVE  Placed(w, at, chunks, f)
<1> DEFINE n == Len(chunks)
           T == {m \in Nat : m <= n => Holds(w, at, f[n - m])}
<1>1. n \in Nat
  OBVIOUS
<1>2. ASSUME NEW i \in 1..n PROVE chunks[i] \in Seq(Nat)
  OBVIOUS
<1>3. /\ f \in [0..n -> Seq(Nat)]
      /\ \A i \in 1..n : f[i] = f[i - 1] \o chunks[i]
      /\ Holds(w, at, f[n])
  BY DEF Partial
<1> HIDE DEF n
<1>4. ASSUME NEW i \in 1..n, Holds(w, at, f[i])
      PROVE  Holds(w, at, f[i - 1]) /\ Holds(w, at + Len(f[i - 1]), chunks[i])
  <2>1. i - 1 \in 0..n
    BY <1>1
  <2>2. f[i - 1] \in Seq(Nat) /\ chunks[i] \in Seq(Nat)
    BY <1>2, <1>3, <2>1
  <2>3. Holds(w, at, f[i - 1] \o chunks[i])
    BY <1>3, <1>4
  <2>4. QED
    BY <2>2, <2>3, HoldsParts
<1>5. T = Nat
  <2>1. 0 \in T
    BY <1>1, <1>3
  <2>2. ASSUME NEW m \in T PROVE m + 1 \in T
    <3>1. SUFFICES ASSUME m + 1 <= n PROVE Holds(w, at, f[n - (m + 1)])
      OBVIOUS
    <3>2. n - m \in 1..n /\ n - (m + 1) = n - m - 1 /\ m <= n
      BY <1>1, <3>1
    <3>3. Holds(w, at, f[n - m])
      BY <3>2
    <3>4. QED
      BY <1>4, <3>2, <3>3
  <2>3. T \in SUBSET Nat
    OBVIOUS
  <2> HIDE DEF T
  <2>4. QED
    BY <2>1, <2>2, <2>3, SetInduction
<1>6. ASSUME NEW i \in 1..n PROVE Holds(w, at, f[i])
  <2>1. n - i \in Nat /\ n - i <= n /\ n - (n - i) = i
    BY <1>1
  <2>2. n - i \in T
    BY <1>5, <2>1
  <2>3. Holds(w, at, f[n - (n - i)])
    BY <2>1, <2>2
  <2>4. QED
    BY <2>1, <2>3
<1>7. ASSUME NEW i \in 1..n
      PROVE  Len(f[i]) = Len(f[i - 1]) + Len(chunks[i])
  <2>1. f[i - 1] \in Seq(Nat) /\ chunks[i] \in Seq(Nat)
    BY <1>1, <1>2, <1>3
  <2>2. f[i] = f[i - 1] \o chunks[i]
    BY <1>3
  <2>3. QED
    BY <2>1, <2>2
<1>8. QED
  BY <1>4, <1>6, <1>7 DEF n, Placed

-----------------------------------------------------------------------------
(* ReadList: the chain of positions its entries are read from.             *)

After(entries, before) ==
  IF entries[before.at].at = Failed THEN Fail
  ELSE Read(entries[before.at].at,
            Append(before.value, entries[before.at].value))

Lists(entries, first, up, n) ==
  up = [i \in 0..n |->
         IF i = 0 THEN Read(first, <<>>) ELSE After(entries, up[i - 1])]

LEMMA ListsExists ==
  ASSUME NEW entries, NEW first, NEW n \in Nat
  PROVE  \E up : Lists(entries, first, up, n)
<1> DEFINE T == {m \in Nat : \E up : Lists(entries, first, up, m)}
<1>1. 0 \in T
  <2>1. Lists(entries, first, [i \in 0..0 |-> Read(first, <<>>)], 0)
    BY DEF Lists
  <2>2. QED
    BY <2>1
<1>2. ASSUME NEW m \in T PROVE m + 1 \in T
  <2>1. PICK up : Lists(entries, first, up, m)
    OBVIOUS
  <2>2. m \in Nat
    OBVIOUS
  <2> DEFINE g == [i \in 0..(m + 1) |->
                    IF i <= m THEN up[i] ELSE After(entries, up[m])]
  <2>3. ASSUME NEW i \in 0..(m + 1)
        PROVE  g[i] = IF i = 0 THEN Read(first, <<>>)
                      ELSE After(entries, g[i - 1])
    <3>1. CASE i = 0
      <4>1. 0 \in 0..m /\ 0 <= m
        BY <2>2
      <4>2. g[i] = up[0]
        BY <2>2, <3>1, <4>1
      <4>3. up[0] = Read(first, <<>>)
        BY <2>1, <4>1 DEF Lists
      <4>4. QED
        BY <3>1, <4>2, <4>3
    <3>2. CASE i # 0 /\ i <= m
      <4>1. i \in 0..m /\ i - 1 \in 0..(m + 1) /\ i - 1 <= m
        BY <2>2, <3>2
      <4>2. g[i] = up[i] /\ g[i - 1] = up[i - 1]
        BY <3>2, <4>1
      <4>3. up[i] = After(entries, up[i - 1])
        BY <2>1, <3>2, <4>1 DEF Lists
      <4>4. QED
        BY <3>2, <4>2, <4>3
    <3>3. CASE i = m + 1
      <4>1. /\ m \in 0..(m + 1) /\ m <= m /\ i - 1 = m /\ ~ (i <= m)
            /\ i # 0
        BY <2>2, <3>3
      <4>2. g[m] = up[m] /\ g[i] = After(entries, up[m])
        BY <4>1
      <4>3. QED
        BY <4>1, <4>2
    <3>4. QED
      BY <2>2, <3>1, <3>2, <3>3
  <2> HIDE DEF g
  <2>4. g = [i \in 0..(m + 1) |-> g[i]]
    BY DEF g
  <2>5. Lists(entries, first, g, m + 1)
    BY <2>3, <2>4 DEF Lists
  <2>6. QED
    BY <2>2, <2>5
<1>3. T = Nat
  <2> HIDE DEF T
  <2>1. T \in SUBSET Nat
    BY DEF T
  <2>2. QED
    BY <1>1, <1>2, <2>1, SetInduction
<1>4. QED
  BY <1>3

Unfolds(entries, at, up, n) ==
  /\ up[0] = Read(at + 1, <<>>)
  /\ \A i \in 1..n : up[i] = After(entries, up[i - 1])

\* The recursive function of ReadList, unfolded.
LEMMA ReadListUnfold ==
  ASSUME NEW entries, NEW w, NEW at, Takes(w, at, 1), w[at] \in Nat
  PROVE  \E up : /\ Unfolds(entries, at, up, w[at])
                 /\ ReadList(entries, w, at) = up[w[at]]
<1> DEFINE n == w[at]
           up == CHOOSE up : Lists(entries, at + 1, up, n)
<1>1. Lists(entries, at + 1, up, n)
  BY ListsExists
<1>2. ReadList(entries, w, at) = up[n]
  BY DEF ReadList, Lists, After
<1> HIDE DEF n, up
<1>3. up = [i \in 0..n |-> IF i = 0 THEN Read(at + 1, <<>>)
                           ELSE After(entries, up[i - 1])]
  BY <1>1 DEF Lists
<1>4. n \in Nat
  BY DEF n
<1>5. up[0] = Read(at + 1, <<>>)
  <2>1. 0 \in 0..n
    BY <1>4
  <2>2. QED
    BY <1>3, <2>1
<1>6. ASSUME NEW i \in 1..n PROVE up[i] = After(entries, up[i - 1])
  <2>1. i \in 0..n /\ i # 0
    BY <1>4
  <2>2. QED
    BY <1>3, <2>1
<1>7. Unfolds(entries, at, up, n)
  BY <1>5, <1>6 DEF Unfolds
<1>8. QED
  BY <1>2, <1>7 DEF n

Chain(entries, at, n, pos) ==
  /\ pos \in [0..n -> Nat \ {0}]
  /\ pos[0] = at + 1
  /\ \A i \in 1..n : entries[pos[i - 1]].at = pos[i]

Listed(entries, n, pos) == [i \in 1..n |-> entries[pos[i - 1]].value]

LEMMA AppendFunction ==
  ASSUME NEW g, NEW m \in Nat
  PROVE  Append([i \in 1..m |-> g[i]], g[m + 1]) = [i \in 1..(m + 1) |-> g[i]]
<1> DEFINE S == {g[i] : i \in 1..(m + 1)}
           s == [i \in 1..m |-> g[i]]
           t == Append(s, g[m + 1])
<1>1. s \in Seq(S) /\ Len(s) = m /\ g[m + 1] \in S
  OBVIOUS
<1>2. /\ t \in Seq(S) /\ DOMAIN t = 1..(m + 1)
      /\ \A i \in 1..m : t[i] = s[i]
      /\ t[m + 1] = g[m + 1]
  <2> HIDE DEF S, s
  <2>1. QED
    BY <1>1
<1>3. ASSUME NEW i \in 1..(m + 1) PROVE t[i] = g[i]
  <2>1. CASE i = m + 1
    BY <1>2, <2>1
  <2>2. CASE i \in 1..m
    <3>1. s[i] = g[i]
      BY <2>2
    <3> HIDE DEF s, t
    <3>2. QED
      BY <1>2, <2>2, <3>1
  <2>3. QED
    BY <2>1, <2>2
<1> HIDE DEF t
<1>4. t = [i \in DOMAIN t |-> t[i]]
  BY <1>2
<1>5. t = [i \in 1..(m + 1) |-> g[i]]
  BY <1>2, <1>3, <1>4
<1>6. QED
  BY <1>5 DEF t

\* A chain of entries is what ReadList reads.
LEMMA ReadListChain ==
  ASSUME NEW entries, NEW w, NEW at, Takes(w, at, 1), w[at] \in Nat,
         NEW pos, Chain(entries, at, w[at], pos)
  PROVE  ReadList(entries, w, at) =
           Read(pos[w[at]], Listed(entries, w[at], pos))
<1> DEFINE n == w[at]
           g == [i \in 1..n |-> entries[pos[i - 1]].value]
<1>1. PICK up : Unfolds(entries, at, up, n) /\ ReadList(entries, w, at) = up[n]
  BY ReadListUnfold
<1>2. n \in Nat
  OBVIOUS
<1>3. Chain(entries, at, n, pos)
  OBVIOUS
<1> HIDE DEF n
<1> DEFINE T == {m \in Nat : m <= n =>
                   up[m] = Read(pos[m], [i \in 1..m |-> g[i]])}
<1>4. 0 \in T
  <2>1. up[0] = Read(pos[0], <<>>)
    BY <1>1, <1>3 DEF Unfolds, Chain
  <2>2. <<>> = [i \in 1..0 |-> g[i]]
    OBVIOUS
  <2> HIDE DEF g
  <2>3. QED
    BY <2>1, <2>2
<1>5. ASSUME NEW m \in T PROVE m + 1 \in T
  <2>1. SUFFICES ASSUME m + 1 <= n
                 PROVE  up[m + 1] =
                          Read(pos[m + 1], [i \in 1..(m + 1) |-> g[i]])
    OBVIOUS
  <2>2. m \in Nat /\ m <= n /\ m + 1 \in 1..n /\ m + 1 - 1 = m /\ m + 1 \in 0..n
    BY <1>2, <2>1
  <2>3. up[m] = Read(pos[m], [i \in 1..m |-> g[i]])
    BY <2>2
  <2>4. g[m + 1] = entries[pos[m]].value
    BY <2>2
  <2> HIDE DEF g, T
  <2>5. up[m + 1] = After(entries, up[m])
    <3>1. up[m + 1] = After(entries, up[m + 1 - 1])
      BY <1>1, <2>2 DEF Unfolds
    <3>2. QED
      BY <2>2, <3>1
  <2>6. entries[pos[m]].at = pos[m + 1] /\ pos[m + 1] # Failed
    <3>1. entries[pos[m + 1 - 1]].at = pos[m + 1]
      BY <1>3, <2>2 DEF Chain
    <3>2. pos[m + 1] \in Nat \ {0}
      BY <1>3, <2>2 DEF Chain
    <3>3. QED
      BY <2>2, <3>1, <3>2 DEF Failed
  <2>7. up[m + 1] = Read(pos[m + 1], Append([i \in 1..m |-> g[i]], g[m + 1]))
    <3> DEFINE s == [i \in 1..m |-> g[i]]
    <3>1. up[m].at = pos[m] /\ up[m].value = s
      BY <2>3 DEF Read
    <3> HIDE DEF s
    <3>2. up[m + 1] = Read(entries[pos[m]].at,
                           Append(up[m].value, entries[pos[m]].value))
      BY <2>5, <2>6, <3>1 DEF After
    <3>3. up[m + 1] = Read(pos[m + 1], Append(s, g[m + 1]))
      BY <2>4, <2>6, <3>1, <3>2
    <3>4. QED
      BY <3>3 DEF s
  <2>8. Append([i \in 1..m |-> g[i]], g[m + 1]) = [i \in 1..(m + 1) |-> g[i]]
    BY <2>2, AppendFunction
  <2>9. QED
    BY <2>7, <2>8
<1>6. T = Nat
  <2>1. T \in SUBSET Nat
    OBVIOUS
  <2> HIDE DEF T
  <2>2. QED
    BY <1>4, <1>5, <2>1, SetInduction
<1>7. up[n] = Read(pos[n], [i \in 1..n |-> g[i]])
  <2>1. n \in T
    BY <1>2, <1>6
  <2>2. QED
    BY <1>2, <2>1
<1>8. [i \in 1..n |-> g[i]] = Listed(entries, n, pos)
  BY DEF Listed
<1>9. QED
  BY <1>1, <1>7, <1>8 DEF n

\* A list that was read has such a chain.
LEMMA ReadListBack ==
  ASSUME NEW w \in Seq(Nat), NEW entries, NEW at \in Nat,
         entries[Failed].at = Failed,
         \A x \in Positions(w) : entries[x].at \in Positions(w),
         ReadList(entries, w, at).at # Failed
  PROVE  /\ Takes(w, at, 1) /\ w[at] \in Nat
         /\ \E pos \in [0..w[at] -> Positions(w) \ {0}] :
              Chain(entries, at, w[at], pos)
<1>1. Takes(w, at, 1)
  BY DEF ReadList, Fail, Read
<1>2. at \in 1..Len(w) /\ w[at] \in Nat /\ at + 1 \in Positions(w)
  BY <1>1 DEF Takes, Failed, Positions
<1> DEFINE n == w[at]
<1>3. PICK up : Unfolds(entries, at, up, n) /\ ReadList(entries, w, at) = up[n]
  BY <1>1, <1>2, ReadListUnfold
<1>4. n \in Nat
  BY <1>2
<1> HIDE DEF n
<1>5. ASSUME NEW i \in 1..n
      PROVE  /\ up[i].at = entries[up[i - 1].at].at
             /\ up[i - 1].at = Failed => up[i].at = Failed
  <2>1. up[i] = After(entries, up[i - 1])
    BY <1>3 DEF Unfolds
  <2>2. QED
    BY <2>1 DEF After, Fail, Read
<1> DEFINE T == {m \in Nat : m <= n => up[m].at \in Positions(w)}
           U == {m \in Nat : m <= n => up[n - m].at # Failed}
<1>6. T = Nat
  <2>1. 0 \in T
    BY <1>2, <1>3 DEF Unfolds, Read
  <2>2. ASSUME NEW m \in T PROVE m + 1 \in T
    <3>1. SUFFICES ASSUME m + 1 <= n PROVE up[m + 1].at \in Positions(w)
      OBVIOUS
    <3>2. m <= n /\ m + 1 \in 1..n /\ m + 1 - 1 = m
      BY <1>4, <3>1
    <3>3. up[m].at \in Positions(w)
      BY <3>2
    <3>4. up[m + 1].at = entries[up[m + 1 - 1].at].at
      BY <1>5, <3>2
    <3>5. QED
      BY <3>2, <3>3, <3>4
  <2>3. T \in SUBSET Nat
    OBVIOUS
  <2> HIDE DEF T
  <2>4. QED
    BY <2>1, <2>2, <2>3, SetInduction
<1>7. U = Nat
  <2>1. 0 \in U
    BY <1>3, <1>4
  <2>2. ASSUME NEW m \in U PROVE m + 1 \in U
    <3>1. SUFFICES ASSUME m + 1 <= n PROVE up[n - (m + 1)].at # Failed
      OBVIOUS
    <3>2. m <= n /\ n - m \in 1..n /\ n - m - 1 = n - (m + 1)
      BY <1>4, <3>1
    <3>3. up[n - m].at # Failed
      BY <3>2
    <3>4. up[n - m - 1].at # Failed
      BY <1>5, <3>2, <3>3
    <3>5. QED
      BY <3>2, <3>4
  <2>3. U \in SUBSET Nat
    OBVIOUS
  <2> HIDE DEF U
  <2>4. QED
    BY <2>1, <2>2, <2>3, SetInduction
<1>8. ASSUME NEW i \in 0..n PROVE up[i].at \in Positions(w) \ {0}
  <2>1. i \in T /\ i <= n
    BY <1>4, <1>6
  <2>2. n - i \in U /\ n - i <= n /\ n - (n - i) = i
    <3>1. n - i \in Nat /\ n - i <= n /\ n - (n - i) = i
      BY <1>4
    <3> HIDE DEF U
    <3>2. QED
      BY <1>7, <3>1
  <2>3. up[n - (n - i)].at # Failed
    BY <2>2
  <2>4. QED
    BY <2>1, <2>2, <2>3 DEF Failed
<1> DEFINE pos == [i \in 0..n |-> up[i].at]
<1>9. pos \in [0..n -> Positions(w) \ {0}]
  BY <1>8
<1>10. Chain(entries, at, n, pos)
  <2>1. pos \in [0..n -> Nat \ {0}]
    BY <1>9 DEF Positions
  <2>2. pos[0] = at + 1
    BY <1>3, <1>4 DEF Unfolds, Read
  <2>3. ASSUME NEW i \in 1..n PROVE entries[pos[i - 1]].at = pos[i]
    <3>1. i \in 0..n /\ i - 1 \in 0..n
      BY <1>4
    <3>2. QED
      BY <1>5, <3>1
  <2>4. QED
    BY <2>1, <2>2, <2>3 DEF Chain
<1> HIDE DEF pos
<1>11. QED
  BY <1>1, <1>2, <1>9, <1>10 DEF n

USE MaxIntAssumption

-----------------------------------------------------------------------------
(* Reading what was written.                                               *)

\* Two's complement: a field that was written is read back.
LEMMA SignedUnsigned ==
  ASSUME NEW n \in i64
  PROVE  Unsigned(n) \in Word /\ Signed(Unsigned(n)) = n
<1> DEFINE M == 2 * (MaxInt + 1)
           q == n \div M
           r == n % M
<1>1. n \in Int /\ M \in Nat \ {0}
  BY DEF i64
<1>2. q \in Int /\ r \in 0..M - 1 /\ n = (q * M) + r
  <2> HIDE DEF M
  <2>1. QED
    BY <1>1, Division
<1>3. Unsigned(n) = r
  BY DEF Unsigned
<1>4. -M < n /\ n < M /\ M = 2 * MaxInt + 2
  BY DEF i64
<1> HIDE DEF q, r, M
<1>5. (-2) * M = -M - M /\ 1 * M = M /\ q * M \in Int
  BY <1>1, <1>2
<1>6. (-2) * M < q * M /\ q * M < 1 * M
  BY <1>1, <1>2, <1>4, <1>5
<1>7. -2 < q /\ q < 1
  BY <1>1, <1>2, <1>6, CancelStrict
<1>8. q = 0 \/ q = -1
  BY <1>2, <1>7
<1>9. (q = 0 /\ n = r) \/ (q = -1 /\ n = r - M)
  BY <1>1, <1>2, <1>8
<1>10. r \in Word
  BY <1>2, <1>4 DEF Word, u64
<1>11. Signed(r) = n
  BY <1>2, <1>4, <1>9 DEF Signed, i64
<1>12. QED
  BY <1>3, <1>10, <1>11

LEMMA SignedWord ==
  ASSUME NEW n \in Word PROVE Signed(n) \in i64
BY DEF Signed, Word, u64, i64

LEMMA UnsignedPositive ==
  ASSUME NEW n \in i64 PROVE Unsigned(n) \in Nat
BY SignedUnsigned DEF Word, u64

\* A value that is there is its own normal form.
LEMMA NewAgain ==
  ASSUME NEW r \in Rationals
  PROVE  New(r.num, r.den) = Ok(r)
<1>1. r \in Rational /\ r.num \in i64 /\ r.den \in 1..MaxInt
  BY RationalsReduced DEF Rational
<1>2. r.num \in Int /\ r.den \in Int \ {0} /\ r.den \in Int
  BY <1>1 DEF i64
<1>3. r.num * r.den = r.num * r.den
  OBVIOUS
<1> DEFINE result == FromWide(r.num, r.den)
<1>4. IsOk(result)
  BY <1>1, <1>2, <1>3, FromWideExact
<1>5. SameValue([num |-> r.num, den |-> r.den], <<r.num, r.den>>)
  BY DEF SameValue
<1>6. SameValue(r, <<r.num, r.den>>)
  BY DEF SameValue
<1>7. \A x \in Rationals :
        SameValue(x, <<r.num, r.den>>) => x = result.value
  BY <1>1, <1>2, <1>5, FromWideContract
<1>8. r = result.value
  BY <1>6, <1>7
<1>9. result = Ok(result.value)
  <2>1. PICK p \in Int, q \in Nat \ {0} : result = Narrow(p, q)
    BY <1>2, FromWideReduces
  <2>2. QED
    BY <1>4, <2>1 DEF Narrow, IsOk, Ok, Err
<1>10. QED
  BY <1>8, <1>9 DEF New

\* The fields of a range in lowest terms.
LEMMA TimeRangeFields ==
  ASSUME NEW range \in TimeRange
  PROVE  /\ range.start \in Rationals /\ range.end \in Rationals
         /\ range = [start |-> range.start, end |-> range.end]
         /\ range.start \in Rational /\ range.end \in Rational
         /\ NewRange(range.start, range.end) = Ok(range)
<1>1. /\ range.start \in Rationals /\ range.end \in Rationals
      /\ range = [start |-> range.start, end |-> range.end]
      /\ Less(range.start, range.end)
  BY DEF TimeRange
<1>2. range.start \in Rational /\ range.end \in Rational
  BY <1>1, RationalsReduced
<1>3. /\ range.start.num * range.end.den \in Int
      /\ range.end.num * range.start.den \in Int
  <2>1. /\ range.start.num \in Int /\ range.start.den \in Int
        /\ range.end.num \in Int /\ range.end.den \in Int
    BY <1>2 DEF Rational, i64
  <2>2. QED
    BY <2>1
<1>4. ~ LessOrEqual(range.end, range.start)
  BY <1>1, <1>3 DEF Less, LessOrEqual
<1>5. QED
  BY <1>1, <1>2, <1>4 DEF NewRange

LEMMA Concatenation ==
  ASSUME NEW s \in Seq(Nat), NEW t \in Seq(Nat)
  PROVE  /\ s \o t \in Seq(Nat) /\ Len(s \o t) = Len(s) + Len(t)
         /\ \A i \in 1..Len(s) : (s \o t)[i] = s[i]
         /\ \A i \in 1..Len(t) : (s \o t)[Len(s) + i] = t[i]
OBVIOUS

\* A range is written in four words, one per field.
LEMMA RangeWordsType ==
  ASSUME NEW range \in TimeRange
  PROVE  /\ LET c == RangeWords(range)
            IN  /\ c[1] = Unsigned(range.start.num)
                /\ c[2] = Unsigned(range.start.den)
                /\ c[3] = Unsigned(range.end.num)
                /\ c[4] = Unsigned(range.end.den)
         /\ /\ range.start.num \in i64 /\ range.start.den \in i64
            /\ range.end.num \in i64 /\ range.end.den \in i64
         /\ RangeWords(range) \in Seq(Nat) /\ Len(RangeWords(range)) = 4
<1>1. /\ range.start.num \in i64 /\ range.start.den \in i64
      /\ range.end.num \in i64 /\ range.end.den \in i64
  BY TimeRangeFields DEF Rational, i64
<1>2. /\ Unsigned(range.start.num) \in Nat /\ Unsigned(range.start.den) \in Nat
      /\ Unsigned(range.end.num) \in Nat /\ Unsigned(range.end.den) \in Nat
  BY <1>1, UnsignedPositive
<1>3. RangeWords(range) =
        <<Unsigned(range.start.num), Unsigned(range.start.den)>>
          \o <<Unsigned(range.end.num), Unsigned(range.end.den)>>
  BY DEF RangeWords, RationalWords
<1> DEFINE a == Unsigned(range.start.num)  b == Unsigned(range.start.den)
           c == Unsigned(range.end.num)  d == Unsigned(range.end.den)
<1>4. a \in Nat /\ b \in Nat /\ c \in Nat /\ d \in Nat
  BY <1>2
<1>5. RangeWords(range) = <<a, b>> \o <<c, d>>
  BY <1>3
<1> HIDE DEF a, b, c, d
<1> DEFINE s == <<a, b>>
           t == <<c, d>>
           u == s \o t
<1>6. /\ s \in Seq(Nat) /\ Len(s) = 2 /\ s[1] = a /\ s[2] = b
      /\ t \in Seq(Nat) /\ Len(t) = 2 /\ t[1] = c /\ t[2] = d
  BY <1>4
<1> HIDE DEF s, t
<1>7. u \in Seq(Nat) /\ Len(u) = 4
  <2>1. u \in Seq(Nat) /\ Len(u) = Len(s) + Len(t)
    BY <1>6, Concatenation, Zenon
  <2> HIDE DEF u
  <2>2. QED
    BY <1>6, <2>1
<1>8. u[1] = s[1] /\ u[2] = s[2] /\ u[3] = t[1] /\ u[4] = t[2]
  <2>1. /\ \A i \in 1..Len(s) : u[i] = s[i]
        /\ \A i \in 1..Len(t) : u[Len(s) + i] = t[i]
    BY <1>6, Concatenation
  <2> HIDE DEF u
  <2>2. 1 \in 1..2 /\ 2 \in 1..2 /\ 2 + 1 = 3 /\ 2 + 2 = 4
    OBVIOUS
  <2>3. u[2 + 1] = t[1] /\ u[2 + 2] = t[2]
    BY <1>6, <2>1, <2>2
  <2>4. QED
    BY <1>6, <2>1, <2>2, <2>3
<1>9. RangeWords(range) = u
  BY <1>5 DEF s, t
<1> HIDE DEF u
<1>10. QED
  BY <1>1, <1>6, <1>7, <1>8, <1>9 DEF a, b, c, d

\* A range that a stream holds is read back.
LEMMA ReadRangeEncoded ==
  ASSUME NEW w \in Seq(Nat), NEW at \in Nat \ {0}, NEW range \in TimeRange,
         Holds(w, at, RangeWords(range))
  PROVE  ReadRange(w, at) = Read(at + 4, range)
<1> DEFINE c == RangeWords(range)
<1>1. /\ c[1] = Unsigned(range.start.num) /\ c[2] = Unsigned(range.start.den)
      /\ c[3] = Unsigned(range.end.num) /\ c[4] = Unsigned(range.end.den)
      /\ Len(c) = 4
  BY RangeWordsType
<1>2. at + Len(c) <= Len(w) + 1 /\ \A i \in 1..Len(c) : w[at + i - 1] = c[i]
  BY DEF Holds
<1> HIDE DEF c
<1>3. 1 \in 1..4 /\ 2 \in 1..4 /\ 3 \in 1..4 /\ 4 \in 1..4
  OBVIOUS
<1>4. /\ w[at + 1 - 1] = c[1] /\ w[at + 2 - 1] = c[2]
      /\ w[at + 3 - 1] = c[3] /\ w[at + 4 - 1] = c[4]
  BY <1>1, <1>2, <1>3
<1>5. /\ at + 1 - 1 = at /\ at + 2 - 1 = at + 1
      /\ at + 3 - 1 = at + 2 /\ at + 4 - 1 = at + 3
  OBVIOUS
<1>6. /\ w[at] = c[1] /\ w[at + 1] = c[2] /\ w[at + 2] = c[3]
      /\ w[at + 3] = c[4]
  BY <1>4, <1>5
<1>7. /\ Signed(w[at]) = range.start.num /\ Signed(w[at + 1]) = range.start.den
      /\ Signed(w[at + 2]) = range.end.num /\ Signed(w[at + 3]) = range.end.den
  BY <1>1, <1>6, RangeWordsType, SignedUnsigned
<1>8. /\ New(Signed(w[at]), Signed(w[at + 1])) = Ok(range.start)
      /\ New(Signed(w[at + 2]), Signed(w[at + 3])) = Ok(range.end)
      /\ NewRange(range.start, range.end) = Ok(range)
  BY <1>7, TimeRangeFields, NewAgain
<1>9. Takes(w, at, 4)
  BY <1>1, <1>2 DEF Takes, Failed
<1>10. QED
  BY <1>8, <1>9 DEF ReadRange, Ok, IsOk

LEMMA ReadWordAt ==
  ASSUME NEW w \in Seq(Nat), NEW at \in 1..Len(w)
  PROVE  ReadWord(w, at) = Read(at + 1, w[at])
<1>1. Takes(w, at, 1)
  BY DEF Takes, Failed
<1>2. QED
  BY <1>1 DEF ReadWord

\* Wherever a stream holds one of the chunks, its value is read from there.
ReadsBack(w, chunks, entries, vals) ==
  \A i \in 1..Len(chunks) : \A x \in 1..Len(w) + 1 :
    Holds(w, x, chunks[i]) => entries[x] = Read(x + Len(chunks[i]), vals[i])

\* A list whose entries are read back is read back.
LEMMA ReadListEncoded ==
  ASSUME NEW w \in Seq(Nat), NEW at \in Nat \ {0},
         NEW chunks \in Seq(Seq(Nat)), Holds(w, at, Counted(chunks)),
         NEW entries, NEW vals, ReadsBack(w, chunks, entries, vals)
  PROVE  /\ Counted(chunks) \in Seq(Nat)
         /\ ReadList(entries, w, at) =
              Read(at + Len(Counted(chunks)),
                   [i \in 1..Len(chunks) |-> vals[i]])
<1> DEFINE n == Len(chunks)
<1>1. n \in Nat
  OBVIOUS
<1>2. PICK f : Partial(chunks, f)
  BY FlattenPartial
<1>3. /\ f \in [0..n -> Seq(Nat)] /\ f[0] = <<>>
      /\ Seqs!FlattenSeq(chunks) = f[n]
  BY <1>2 DEF Partial
<1>4. f[n] \in Seq(Nat)
  <2>1. n \in 0..n
    BY <1>1
  <2> HIDE DEF n
  <2>2. QED
    BY <1>3, <2>1
<1>5. Counted(chunks) = <<n>> \o f[n]
  BY <1>3 DEF Counted
<1>6. \A i \in 1..n : chunks[i] \in Seq(Nat)
  OBVIOUS
<1> HIDE DEF n
<1>7. /\ <<n>> \in Seq(Nat) /\ Len(<<n>>) = 1
      /\ <<n>> \o f[n] \in Seq(Nat) /\ Len(<<n>> \o f[n]) = 1 + Len(f[n])
  BY <1>1, <1>4
<1>8. Holds(w, at, <<n>>) /\ Holds(w, at + 1, f[n])
  <2>1. Holds(w, at, <<n>> \o f[n])
    BY <1>5
  <2>2. Holds(w, at, <<n>>) /\ Holds(w, at + Len(<<n>>), f[n])
    BY <1>4, <1>7, <2>1, HoldsParts
  <2>3. QED
    BY <1>7, <2>2
<1>9. w[at] = n /\ at <= Len(w)
  <2>1. at + 1 <= Len(w) + 1 /\ \A i \in 1..1 : w[at + i - 1] = <<n>>[i]
    BY <1>7, <1>8 DEF Holds
  <2>2. 1 \in 1..1 /\ at + 1 - 1 = at /\ <<n>>[1] = n
    OBVIOUS
  <2>3. w[at + 1 - 1] = <<n>>[1]
    BY <2>1, <2>2
  <2>4. QED
    BY <2>1, <2>2, <2>3
<1>10. \A i \in 1..n : /\ Holds(w, at + 1 + Len(f[i - 1]), chunks[i])
                       /\ Len(f[i]) = Len(f[i - 1]) + Len(chunks[i])
  <2> DEFINE a == at + 1
  <2>1. Holds(w, a, Seqs!FlattenSeq(chunks)) /\ a \in Nat \ {0}
    BY <1>3, <1>8
  <2> HIDE DEF a
  <2>2. Placed(w, a, chunks, f)
    BY <1>2, <2>1, HoldsFlattened, Zenon
  <2>3. QED
    BY <2>2 DEF Placed, n, a
<1> DEFINE pos == [i \in 0..n |-> at + 1 + Len(f[i])]
<1>11. ASSUME NEW i \in 0..n PROVE at + 1 + Len(f[i]) \in Nat \ {0}
  BY <1>3
<1>12. ASSUME NEW i \in 1..n
       PROVE  entries[pos[i - 1]] = Read(pos[i], vals[i])
  <2> DEFINE x == at + 1 + Len(f[i - 1])
  <2>1. i \in 0..n /\ i - 1 \in 0..n
    BY <1>1
  <2>2. pos[i - 1] = x /\ pos[i] = at + 1 + Len(f[i])
    BY <2>1
  <2>3. /\ Holds(w, x, chunks[i]) /\ chunks[i] \in Seq(Nat)
        /\ Len(f[i]) = Len(f[i - 1]) + Len(chunks[i])
        /\ f[i - 1] \in Seq(Nat)
    BY <1>3, <1>6, <1>10, <2>1
  <2>4. /\ Len(f[i - 1]) \in Nat /\ Len(chunks[i]) \in Nat
        /\ x \in Nat \ {0} /\ x + Len(chunks[i]) = pos[i]
    <3> DEFINE before == Len(f[i - 1])
               more == Len(chunks[i])
    <3>1. before \in Nat /\ more \in Nat /\ Len(f[i]) = before + more
      BY <2>3
    <3>2. x = at + 1 + before
      OBVIOUS
    <3> HIDE DEF before, more, x, pos
    <3>3. x \in Nat \ {0} /\ x + more = at + 1 + (before + more)
      BY <3>1, <3>2
    <3>4. QED
      BY <2>2, <3>1, <3>3 DEF before, more
  <2> HIDE DEF x, pos
  <2>5. x \in 1..Len(w) + 1
    <3>1. x + Len(chunks[i]) <= Len(w) + 1
      BY <2>3 DEF Holds
    <3>2. Len(w) \in Nat
      OBVIOUS
    <3>3. QED
      BY <2>4, <3>1, <3>2
  <2>6. entries[x] = Read(x + Len(chunks[i]), vals[i])
    BY <2>3, <2>5 DEF n, ReadsBack
  <2>7. QED
    BY <2>2, <2>4, <2>6
<1>13. Chain(entries, at, n, pos)
  <2>1. pos \in [0..n -> Nat \ {0}]
    BY <1>11
  <2>2. pos[0] = at + 1
    BY <1>1, <1>3
  <2>3. ASSUME NEW i \in 1..n PROVE entries[pos[i - 1]].at = pos[i]
    <3> HIDE DEF pos
    <3>1. entries[pos[i - 1]] = Read(pos[i], vals[i])
      BY <1>12
    <3>2. QED
      BY <3>1 DEF Read
  <2> HIDE DEF pos
  <2>4. QED
    BY <2>1, <2>2, <2>3 DEF Chain
<1>14. Takes(w, at, 1)
  BY <1>9 DEF Takes, Failed
<1>15. ReadList(entries, w, at) = Read(pos[n], Listed(entries, n, pos))
  <2> HIDE DEF pos
  <2>1. QED
    BY <1>1, <1>9, <1>13, <1>14, ReadListChain
<1>16. Listed(entries, n, pos) = [i \in 1..n |-> vals[i]]
  <2>1. ASSUME NEW i \in 1..n PROVE entries[pos[i - 1]].value = vals[i]
    <3> HIDE DEF pos
    <3>1. entries[pos[i - 1]] = Read(pos[i], vals[i])
      BY <1>12
    <3>2. QED
      BY <3>1 DEF Read
  <2> HIDE DEF pos
  <2>2. QED
    BY <2>1 DEF Listed
<1>17. pos[n] = at + Len(Counted(chunks))
  <2>1. pos[n] = at + 1 + Len(f[n])
    BY <1>1
  <2> DEFINE l == Len(f[n])
  <2>2. l \in Nat /\ Len(Counted(chunks)) = 1 + l
    BY <1>4, <1>5, <1>7
  <2> HIDE DEF l, pos
  <2>3. at + 1 + l = at + (1 + l)
    BY <2>2
  <2>4. QED
    BY <2>1, <2>2, <2>3 DEF l
<1>18. QED
  BY <1>5, <1>7, <1>15, <1>16, <1>17 DEF n

\* One word at the head of a chunk.
LEMMA HoldsHead ==
  ASSUME NEW w \in Seq(Nat), NEW at \in Nat \ {0}, NEW x \in Nat,
         NEW s \in Seq(Nat), Holds(w, at, <<x>> \o s)
  PROVE  /\ at \in 1..Len(w) /\ w[at] = x /\ Holds(w, at + 1, s)
         /\ <<x>> \o s \in Seq(Nat) /\ Len(<<x>> \o s) = 1 + Len(s)
<1> DEFINE h == <<x>>
<1>1. h \in Seq(Nat) /\ Len(h) = 1 /\ h[1] = x
  OBVIOUS
<1>2. Holds(w, at, h \o s)
  OBVIOUS
<1> HIDE DEF h
<1>3. Holds(w, at, h) /\ Holds(w, at + Len(h), s)
  BY <1>1, <1>2, HoldsParts
<1>4. h \o s \in Seq(Nat) /\ Len(h \o s) = Len(h) + Len(s)
  BY <1>1, Concatenation, Zenon
<1>5. at + 1 <= Len(w) + 1 /\ \A i \in 1..1 : w[at + i - 1] = h[i]
  BY <1>1, <1>3 DEF Holds
<1>6. 1 \in 1..1 /\ at + 1 - 1 = at /\ Len(w) \in Nat
  OBVIOUS
<1>7. w[at + 1 - 1] = h[1]
  BY <1>5, <1>6
<1>8. at \in 1..Len(w)
  BY <1>5, <1>6
<1>9. QED
  BY <1>1, <1>3, <1>4, <1>6, <1>7, <1>8 DEF h

LEMMA HoldsEntries ==
  ASSUME NEW w \in Seq(Nat), NEW at \in Nat \ {0}, NEW s \in Seq(Nat),
         Holds(w, at, s), NEW i \in 1..Len(s)
  PROVE  at + i - 1 \in 1..Len(w) /\ w[at + i - 1] = s[i]
<1>1. at + Len(s) <= Len(w) + 1 /\ w[at + i - 1] = s[i]
  BY DEF Holds
<1>2. Len(s) \in Nat /\ Len(w) \in Nat
  OBVIOUS
<1>3. QED
  BY <1>1, <1>2

\* So is a list of identities, ...
LEMMA ReadIdsEncoded ==
  ASSUME NEW w \in Seq(Nat), NEW at \in Nat \ {0}, NEW s \in Seq(Nat),
         Holds(w, at, <<Len(s)>> \o s)
  PROVE  ReadIds(w, at) = Read(at + 1 + Len(s), s)
<1> DEFINE n == Len(s)
           entries == [i \in Positions(w) |-> ReadWord(w, i)]
           pos == [i \in 0..n |-> at + 1 + i]
<1>1. n \in Nat
  OBVIOUS
<1>2. at \in 1..Len(w) /\ w[at] = n /\ Holds(w, at + 1, s)
  BY <1>1, HoldsHead
<1>3. s = [i \in 1..n |-> s[i]]
  OBVIOUS
<1>4. ASSUME NEW i \in 1..n
      PROVE  entries[pos[i - 1]] = Read(pos[i], s[i])
  <2>1. i - 1 \in 0..n /\ i \in 0..n
    BY <1>1
  <2>2. pos[i - 1] = at + i /\ pos[i] = at + i + 1
    <3>1. pos[i - 1] = at + 1 + (i - 1) /\ pos[i] = at + 1 + i
      BY <2>1
    <3>2. QED
      BY <1>1, <3>1
  <2>3. at + i \in 1..Len(w) /\ w[at + i] = s[i]
    <3> DEFINE b == at + 1
    <3>1. b \in Nat \ {0} /\ Holds(w, b, s)
      BY <1>2
    <3> HIDE DEF b
    <3>2. b + i - 1 \in 1..Len(w) /\ w[b + i - 1] = s[i]
      BY <3>1, HoldsEntries
    <3>3. b + i - 1 = at + i
      BY <1>1 DEF b
    <3>4. QED
      BY <3>2, <3>3
  <2>4. entries[at + i] = Read(at + i + 1, s[i])
    <3>1. at + i \in Positions(w)
      BY <2>3 DEF Positions
    <3>2. ReadWord(w, at + i) = Read(at + i + 1, w[at + i])
      BY <2>3, ReadWordAt
    <3>3. QED
      BY <2>3, <3>1, <3>2
  <2>5. QED
    BY <2>2, <2>4
<1>5. Chain(entries, at, n, pos)
  <2>1. pos \in [0..n -> Nat \ {0}] /\ pos[0] = at + 1
    BY <1>1
  <2> HIDE DEF entries, pos
  <2>2. ASSUME NEW i \in 1..n PROVE entries[pos[i - 1]].at = pos[i]
    <3>1. entries[pos[i - 1]] = Read(pos[i], s[i])
      BY <1>4
    <3> HIDE DEF n
    <3>2. QED
      BY <3>1 DEF Read
  <2>3. QED
    BY <2>1, <2>2 DEF Chain
<1>6. Takes(w, at, 1)
  BY <1>2 DEF Takes, Failed
<1>7. ReadList(entries, w, at) = Read(pos[n], Listed(entries, n, pos))
  <2> HIDE DEF entries, pos, n
  <2>1. QED
    BY <1>1, <1>2, <1>5, <1>6, ReadListChain
<1>8. Listed(entries, n, pos) = s
  <2> HIDE DEF entries, pos
  <2>1. ASSUME NEW i \in 1..n PROVE entries[pos[i - 1]].value = s[i]
    <3>1. entries[pos[i - 1]] = Read(pos[i], s[i])
      BY <1>4
    <3> HIDE DEF n
    <3>2. QED
      BY <3>1 DEF Read
  <2> HIDE DEF n
  <2>2. QED
    BY <1>3, <2>1 DEF Listed
<1>9. pos[n] = at + 1 + n
  BY <1>1
<1>10. QED
  BY <1>7, <1>8, <1>9 DEF ReadIds

TrackChunk(t, s) == <<t, Len(s)>> \o s

\* ... a track with its list of clips ...
LEMMA ReadTrackEncoded ==
  ASSUME NEW w \in Seq(Nat), NEW at \in Nat \ {0}, NEW t \in Nat,
         NEW s \in Seq(Nat), Holds(w, at, TrackChunk(t, s))
  PROVE  ReadTrack(w, at) =
           Read(at + Len(TrackChunk(t, s)), [id |-> t, clips |-> s])
<1> DEFINE u == <<Len(s)>> \o s
<1>1. Len(s) \in Nat /\ <<Len(s)>> \in Seq(Nat) /\ <<t>> \in Seq(Nat)
  OBVIOUS
<1>2. u \in Seq(Nat) /\ Len(u) = 1 + Len(s)
  <2>1. u \in Seq(Nat) /\ Len(u) = Len(<<Len(s)>>) + Len(s)
    BY <1>1, Concatenation, Zenon
  <2>2. QED
    BY <1>1, <2>1
<1>3. TrackChunk(t, s) = <<t>> \o u
  BY DEF TrackChunk
<1>4. Holds(w, at, <<t>> \o u)
  BY <1>3
<1> HIDE DEF u
<1>5. /\ at \in 1..Len(w) /\ w[at] = t /\ Holds(w, at + 1, u)
      /\ <<t>> \o u \in Seq(Nat) /\ Len(<<t>> \o u) = 1 + Len(u)
  BY <1>2, <1>4, HoldsHead
<1>6. ReadIds(w, at + 1) = Read(at + 1 + 1 + Len(s), s)
  <2> DEFINE b == at + 1
  <2>1. b \in Nat \ {0} /\ Holds(w, b, <<Len(s)>> \o s)
    BY <1>5 DEF u
  <2> HIDE DEF b
  <2>2. ReadIds(w, b) = Read(b + 1 + Len(s), s)
    BY <2>1, ReadIdsEncoded
  <2>3. QED
    BY <2>2 DEF b
<1>7. Takes(w, at, 1) /\ at + 1 + 1 + Len(s) # Failed
  BY <1>1, <1>5 DEF Takes, Failed
<1>8. ReadTrack(w, at) =
        Read(at + 1 + 1 + Len(s), [id |-> t, clips |-> s])
  BY <1>5, <1>6, <1>7 DEF ReadTrack, Read
<1>9. at + 1 + 1 + Len(s) = at + Len(<<t>> \o u)
  <2> DEFINE n == Len(s)
             all == Len(<<t>> \o u)
  <2>1. n \in Nat /\ all = 1 + (1 + n)
    BY <1>1, <1>2, <1>5
  <2> HIDE DEF n, all
  <2>2. at + 1 + 1 + n = at + all
    BY <2>1
  <2>3. QED
    BY <2>2 DEF n, all
<1>10. QED
  BY <1>3, <1>5, <1>8, <1>9

\* ... and a clip with its range.
LEMMA ReadClipEncoded ==
  ASSUME NEW w \in Seq(Nat), NEW at \in Nat \ {0}, NEW k \in Nat,
         NEW a \in Nat, NEW t \in Nat, NEW range \in TimeRange,
         Holds(w, at, <<k, a, t>> \o RangeWords(range))
  PROVE  /\ ReadClip(w, at) =
              Read(at + Len(<<k, a, t>> \o RangeWords(range)),
                   [id |-> k,
                    clip |-> [asset |-> a, track |-> t, range |-> range]])
         /\ <<k, a, t>> \o RangeWords(range) \in Seq(Nat)
<1> DEFINE h == <<k, a, t>>
           r == RangeWords(range)
<1>1. /\ h \in Seq(Nat) /\ Len(h) = 3
      /\ h[1] = k /\ h[2] = a /\ h[3] = t
  OBVIOUS
<1>2. r \in Seq(Nat) /\ Len(r) = 4
  BY RangeWordsType
<1>3. Holds(w, at, h \o r)
  OBVIOUS
<1> HIDE DEF h, r
<1>4. Holds(w, at, h) /\ Holds(w, at + 3, r)
  BY <1>1, <1>2, <1>3, HoldsParts
<1>5. h \o r \in Seq(Nat) /\ Len(h \o r) = 7
  <2>1. h \o r \in Seq(Nat) /\ Len(h \o r) = Len(h) + Len(r)
    BY <1>1, <1>2, Concatenation, Zenon
  <2>2. QED
    BY <1>1, <1>2, <2>1
<1>6. /\ at + 3 <= Len(w) + 1
      /\ w[at] = k /\ w[at + 1] = a /\ w[at + 2] = t
  <2>1. at + 3 <= Len(w) + 1 /\ \A i \in 1..3 : w[at + i - 1] = h[i]
    BY <1>1, <1>4 DEF Holds
  <2>2. /\ 1 \in 1..3 /\ 2 \in 1..3 /\ 3 \in 1..3
        /\ at + 1 - 1 = at /\ at + 2 - 1 = at + 1 /\ at + 3 - 1 = at + 2
    OBVIOUS
  <2>3. /\ w[at + 1 - 1] = h[1] /\ w[at + 2 - 1] = h[2]
        /\ w[at + 3 - 1] = h[3]
    BY <2>1, <2>2
  <2>4. QED
    BY <1>1, <2>1, <2>2, <2>3
<1>7. ReadRange(w, at + 3) = Read(at + 7, range)
  <2> DEFINE b == at + 3
  <2>1. b \in Nat \ {0} /\ Holds(w, b, RangeWords(range)) /\ b + 4 = at + 7
    BY <1>4 DEF r
  <2> HIDE DEF b
  <2>2. ReadRange(w, b) = Read(b + 4, range)
    BY <2>1, ReadRangeEncoded
  <2>3. QED
    BY <2>1, <2>2 DEF b
<1>8. Takes(w, at, 3) /\ at + 7 # Failed
  BY <1>6 DEF Takes, Failed
<1>9. ReadClip(w, at) =
        Read(at + 7, [id |-> k,
                      clip |-> [asset |-> a, track |-> t, range |-> range]])
  BY <1>6, <1>7, <1>8 DEF ReadClip, Read
<1>10. QED
  BY <1>5, <1>9 DEF h, r

-----------------------------------------------------------------------------
(* A project that was written is read back, whatever the order of its maps. *)

\* A list of every member of a set, each of them once.
ListOf(list, S) ==
  list \in Seq(S) /\ S = {list[i] : i \in DOMAIN list} /\ Distinct(list)

LEMMA SeqSubset ==
  ASSUME NEW S, NEW T, S \subseteq T, NEW s \in Seq(S)
  PROVE  s \in Seq(T)
<1>1. \A i \in 1..Len(s) : s[i] \in T
  OBVIOUS
<1>2. Len(s) \in Nat /\ s = [i \in 1..Len(s) |-> s[i]]
  OBVIOUS
<1> DEFINE n == Len(s)
<1> HIDE DEF n
<1>3. s \in [1..n -> T]
  BY <1>1, <1>2 DEF n
<1>4. QED
  BY <1>2, <1>3 DEF n

\* A function on 1..n is a sequence.
LEMMA FunctionSeq ==
  ASSUME NEW S, NEW n \in Nat, NEW f \in [1..n -> S]
  PROVE  f \in Seq(S) /\ Len(f) = n /\ DOMAIN f = 1..n
OBVIOUS

LEMMA CountedType ==
  ASSUME NEW chunks \in Seq(Seq(Nat))
  PROVE  Counted(chunks) \in Seq(Nat)
<1> DEFINE n == Len(chunks)
<1>1. n \in Nat
  OBVIOUS
<1>2. PICK f : Partial(chunks, f)
  BY FlattenPartial
<1>3. f \in [0..n -> Seq(Nat)] /\ Seqs!FlattenSeq(chunks) = f[n]
  BY <1>2 DEF Partial
<1> HIDE DEF n
<1>4. n \in 0..n
  BY <1>1
<1>5. f[n] \in Seq(Nat) /\ <<n>> \in Seq(Nat)
  BY <1>1, <1>3, <1>4
<1>6. QED
  BY <1>3, <1>5, Concatenation DEF Counted, n

LEMMA TrackFields ==
  ASSUME NEW p \in Project, NEW t \in Tracks(p)
  PROVE  t \in Nat /\ p.tracks[t] \in Seq(Nat) /\ p.tracks[t] \in Seq(ClipIds)
<1>1. t \in TrackIds /\ p.tracks[t] # Absent
  BY DEF Tracks, HasTrack
<1>2. p.tracks[t] \in Seq(ClipIds)
  BY <1>1 DEF Project
<1>3. ClipIds = Word /\ TrackIds = Word /\ Word \subseteq Nat
  BY WordAssumption DEF Word, u64
<1>4. p.tracks[t] \in Seq(Nat)
  BY <1>2, <1>3, SeqSubset
<1>5. QED
  BY <1>1, <1>2, <1>3, <1>4

LEMMA ClipFields ==
  ASSUME NEW p \in Project, NEW k \in Clips(p)
  PROVE  /\ k \in Nat /\ k \in ClipIds /\ p.clips[k] \in Clip
         /\ p.clips[k].asset \in Nat /\ p.clips[k].track \in Nat
         /\ p.clips[k].range \in TimeRange
         /\ p.clips[k] = [asset |-> p.clips[k].asset,
                          track |-> p.clips[k].track,
                          range |-> p.clips[k].range]
<1>1. k \in ClipIds /\ p.clips[k] # Absent
  BY DEF Clips, HasClip
<1>2. p.clips[k] \in Clip
  BY <1>1 DEF Project
<1>3. /\ ClipIds = Word /\ TrackIds = Word /\ AssetIds = Word
      /\ Word \subseteq Nat /\ Ranges = TimeRange
  BY WordAssumption DEF Word, u64
<1> DEFINE c == p.clips[k]
<1>4. c \in [asset : AssetIds, track : TrackIds, range : Ranges]
  BY <1>2 DEF Clip
<1> HIDE DEF c
<1>5. /\ c.asset \in AssetIds /\ c.track \in TrackIds /\ c.range \in Ranges
      /\ c = [asset |-> c.asset, track |-> c.track, range |-> c.range]
  BY <1>4
<1>6. QED
  BY <1>1, <1>2, <1>3, <1>5 DEF c

AssetChunks(a) == [i \in DOMAIN a |-> AssetWords(a[i])]
TrackChunks(p, t) == [i \in DOMAIN t |-> TrackWords(p, t[i])]
ClipChunks(p, k) == [i \in DOMAIN k |-> ClipWords(p, k[i])]

LEMMA ChunkType ==
  ASSUME NEW p \in Project
  PROVE  /\ \A x \in AssetIds : AssetWords(x) \in Seq(Nat)
         /\ \A x \in Tracks(p) : TrackWords(p, x) \in Seq(Nat)
         /\ \A x \in Clips(p) : ClipWords(p, x) \in Seq(Nat)
<1>1. ASSUME NEW x \in AssetIds PROVE AssetWords(x) \in Seq(Nat)
  BY WordAssumption DEF AssetWords, Word, u64
<1>2. ASSUME NEW x \in Tracks(p) PROVE TrackWords(p, x) \in Seq(Nat)
  <2>1. x \in Nat /\ p.tracks[x] \in Seq(Nat)
    BY TrackFields
  <2>2. <<x, Len(p.tracks[x])>> \in Seq(Nat)
    BY <2>1
  <2>3. QED
    BY <2>1, <2>2, Concatenation DEF TrackWords
<1>3. ASSUME NEW x \in Clips(p) PROVE ClipWords(p, x) \in Seq(Nat)
  <2>1. /\ x \in Nat /\ p.clips[x].asset \in Nat /\ p.clips[x].track \in Nat
        /\ p.clips[x].range \in TimeRange
    BY ClipFields
  <2>2. <<x, p.clips[x].asset, p.clips[x].track>> \in Seq(Nat)
    BY <2>1
  <2>3. RangeWords(p.clips[x].range) \in Seq(Nat)
    BY <2>1, RangeWordsType
  <2>4. QED
    BY <2>2, <2>3, Concatenation DEF ClipWords
<1>4. QED
  BY <1>1, <1>2, <1>3

LEMMA ChunksType ==
  ASSUME NEW p \in Project, NEW a \in Seq(AssetIds),
         NEW t \in Seq(Tracks(p)), NEW k \in Seq(Clips(p))
  PROVE  /\ AssetChunks(a) \in Seq(Seq(Nat)) /\ Len(AssetChunks(a)) = Len(a)
         /\ \A i \in 1..Len(a) : AssetChunks(a)[i] = AssetWords(a[i])
         /\ TrackChunks(p, t) \in Seq(Seq(Nat))
         /\ Len(TrackChunks(p, t)) = Len(t)
         /\ \A i \in 1..Len(t) : TrackChunks(p, t)[i] = TrackWords(p, t[i])
         /\ ClipChunks(p, k) \in Seq(Seq(Nat))
         /\ Len(ClipChunks(p, k)) = Len(k)
         /\ \A i \in 1..Len(k) : ClipChunks(p, k)[i] = ClipWords(p, k[i])
<1>1. \A i \in DOMAIN a : AssetWords(a[i]) \in Seq(Nat)
  BY ChunkType
<1>2. \A i \in DOMAIN t : TrackWords(p, t[i]) \in Seq(Nat)
  BY ChunkType
<1>3. \A i \in DOMAIN k : ClipWords(p, k[i]) \in Seq(Nat)
  BY ChunkType
<1>4. /\ AssetChunks(a) \in Seq(Seq(Nat)) /\ Len(AssetChunks(a)) = Len(a)
      /\ \A i \in 1..Len(a) : AssetChunks(a)[i] = AssetWords(a[i])
  <2> DEFINE g == [i \in 1..Len(a) |-> AssetWords(a[i])]
  <2>1. AssetChunks(a) = g /\ Len(a) \in Nat
    BY DEF AssetChunks
  <2>2. g \in [1..Len(a) -> Seq(Nat)]
    BY <1>1
  <2>3. \A i \in 1..Len(a) : g[i] = AssetWords(a[i])
    OBVIOUS
  <2> HIDE DEF g
  <2>4. g \in Seq(Seq(Nat)) /\ Len(g) = Len(a)
    BY <2>1, <2>2, FunctionSeq
  <2>5. QED
    BY <2>1, <2>3, <2>4
<1>5. /\ TrackChunks(p, t) \in Seq(Seq(Nat))
      /\ Len(TrackChunks(p, t)) = Len(t)
      /\ \A i \in 1..Len(t) : TrackChunks(p, t)[i] = TrackWords(p, t[i])
  <2> DEFINE g == [i \in 1..Len(t) |-> TrackWords(p, t[i])]
  <2>1. TrackChunks(p, t) = g /\ Len(t) \in Nat
    BY DEF TrackChunks
  <2>2. g \in [1..Len(t) -> Seq(Nat)]
    BY <1>2
  <2>3. \A i \in 1..Len(t) : g[i] = TrackWords(p, t[i])
    OBVIOUS
  <2> HIDE DEF g
  <2>4. g \in Seq(Seq(Nat)) /\ Len(g) = Len(t)
    BY <2>1, <2>2, FunctionSeq
  <2>5. QED
    BY <2>1, <2>3, <2>4
<1>6. /\ ClipChunks(p, k) \in Seq(Seq(Nat))
      /\ Len(ClipChunks(p, k)) = Len(k)
      /\ \A i \in 1..Len(k) : ClipChunks(p, k)[i] = ClipWords(p, k[i])
  <2> DEFINE g == [i \in 1..Len(k) |-> ClipWords(p, k[i])]
  <2>1. ClipChunks(p, k) = g /\ Len(k) \in Nat
    BY DEF ClipChunks
  <2>2. g \in [1..Len(k) -> Seq(Nat)]
    BY <1>3
  <2>3. \A i \in 1..Len(k) : g[i] = ClipWords(p, k[i])
    OBVIOUS
  <2> HIDE DEF g
  <2>4. g \in Seq(Seq(Nat)) /\ Len(g) = Len(k)
    BY <2>1, <2>2, FunctionSeq
  <2>5. QED
    BY <2>1, <2>3, <2>4
<1>7. QED
  BY <1>4, <1>5, <1>6

\* Where the header and the three lists of an encoded project lie.
LEMMA EncodedParts ==
  ASSUME NEW p \in Project, NEW a \in Seq(AssetIds),
         NEW t \in Seq(Tracks(p)), NEW k \in Seq(Clips(p))
  PROVE  LET w == EncodeIn(p, a, t, k)
             A == Counted(AssetChunks(a))
             T == Counted(TrackChunks(p, t))
             K == Counted(ClipChunks(p, k))
         IN  /\ w \in Seq(Nat)
             /\ Len(w) = 2 + Len(A) + Len(T) + Len(K)
             /\ A \in Seq(Nat) /\ T \in Seq(Nat) /\ K \in Seq(Nat)
             /\ Len(w) >= 2
             /\ w[1] = ProjectMagic /\ w[2] = CONTRACT_SCHEMA_VERSION
             /\ Holds(w, 3, A) /\ Holds(w, 3 + Len(A), T)
             /\ Holds(w, 3 + Len(A) + Len(T), K)
<1> DEFINE w == EncodeIn(p, a, t, k)
           A == Counted(AssetChunks(a))
           T == Counted(TrackChunks(p, t))
           K == Counted(ClipChunks(p, k))
           h == <<ProjectMagic, CONTRACT_SCHEMA_VERSION>>
           hA == h \o A
           hAT == hA \o T
<1>1. w = hAT \o K
  BY DEF EncodeIn, AssetChunks, TrackChunks, ClipChunks
<1>2. A \in Seq(Nat) /\ T \in Seq(Nat) /\ K \in Seq(Nat)
  BY ChunksType, CountedType
<1>3. /\ h \in Seq(Nat) /\ Len(h) = 2
      /\ h[1] = ProjectMagic /\ h[2] = CONTRACT_SCHEMA_VERSION
  BY DEF ProjectMagic, CONTRACT_SCHEMA_VERSION
<1> HIDE DEF w, A, T, K, h
<1>4. hA \in Seq(Nat) /\ Len(hA) = 2 + Len(A)
  <2>1. hA \in Seq(Nat) /\ Len(hA) = Len(h) + Len(A)
    BY <1>2, <1>3, Concatenation, Zenon
  <2>2. QED
    BY <1>3, <2>1
<1> HIDE DEF hA
<1>5. hAT \in Seq(Nat) /\ Len(hAT) = 2 + Len(A) + Len(T)
  BY <1>2, <1>4, Concatenation
<1> HIDE DEF hAT
<1>6. w \in Seq(Nat) /\ Len(w) = 2 + Len(A) + Len(T) + Len(K)
  BY <1>1, <1>2, <1>5, Concatenation
<1>7. Holds(w, 1, hAT) /\ Holds(w, 1 + Len(hAT), K)
  <2>1. Holds(w, 1, hAT \o K)
    BY <1>1, <1>6, HoldsAll
  <2>2. QED
    BY <1>2, <1>5, <1>6, <2>1, HoldsParts, 1 \in Nat \ {0}
<1>8. Holds(w, 1, hA) /\ Holds(w, 1 + Len(hA), T)
  <2>1. Holds(w, 1, hA \o T)
    BY <1>7 DEF hAT
  <2>2. QED
    BY <1>2, <1>4, <1>6, <2>1, HoldsParts, 1 \in Nat \ {0}
<1>9. Holds(w, 1, h) /\ Holds(w, 1 + Len(h), A)
  <2>1. Holds(w, 1, h \o A)
    BY <1>8 DEF hA
  <2>2. QED
    BY <1>2, <1>3, <1>6, <2>1, HoldsParts, 1 \in Nat \ {0}
<1>10. 1 + Len(h) = 3
  BY <1>3
<1>11. 1 + Len(hA) = 3 + Len(A) /\ 1 + Len(hAT) = 3 + Len(A) + Len(T)
  <2> DEFINE lA == Len(A)
             lT == Len(T)
  <2>1. lA \in Nat /\ lT \in Nat
    BY <1>2
  <2>2. Len(hA) = 2 + lA /\ Len(hAT) = 2 + lA + lT
    BY <1>4, <1>5
  <2> HIDE DEF lA, lT
  <2>3. 1 + Len(hA) = 3 + lA /\ 1 + Len(hAT) = 3 + lA + lT
    BY <2>1, <2>2
  <2>4. QED
    BY <2>3 DEF lA, lT
<1>12. Len(w) >= 2 /\ w[1] = ProjectMagic /\ w[2] = CONTRACT_SCHEMA_VERSION
  <2>1. 1 + 2 <= Len(w) + 1 /\ \A i \in 1..2 : w[1 + i - 1] = h[i]
    BY <1>3, <1>9 DEF Holds
  <2>2. /\ 1 \in 1..2 /\ 2 \in 1..2 /\ 1 + 1 - 1 = 1 /\ 1 + 2 - 1 = 2
        /\ Len(w) \in Nat
    BY <1>6
  <2>3. w[1 + 1 - 1] = h[1] /\ w[1 + 2 - 1] = h[2]
    BY <2>1, <2>2
  <2>4. QED
    BY <1>3, <2>1, <2>2, <2>3
<1>13. QED
  BY <1>2, <1>6, <1>7, <1>8, <1>9, <1>10, <1>11, <1>12 DEF w, A, T, K

\* Identities and values that list every entry of a map.
ListsMap(ids, values, keys, f) ==
  /\ f = [key \in keys |-> f[key]]
  /\ \A i \in DOMAIN ids : i \in Int /\ values[i] = f[ids[i]]
  /\ \A key \in keys :
       (\E i \in DOMAIN ids : ids[i] = key) \/ f[key] = Absent

\* Inserting distinct identities gives the map they are listed from.
LEMMA MapOfListed ==
  ASSUME NEW ids, Distinct(ids), NEW values, NEW keys, NEW f,
         ListsMap(ids, values, keys, f)
  PROVE  MapOf(ids, values, keys) = f
<1> DEFINE Last(key, i) ==
             ids[i] = key /\ \A j \in DOMAIN ids : ids[j] = key => j <= i
           g(key) == IF \E i \in DOMAIN ids : ids[i] = key
                     THEN values[CHOOSE i \in DOMAIN ids : Last(key, i)]
                     ELSE Absent
<1>0. /\ f = [key \in keys |-> f[key]]
      /\ \A i \in DOMAIN ids : i \in Int /\ values[i] = f[ids[i]]
      /\ \A key \in keys :
           (\E i \in DOMAIN ids : ids[i] = key) \/ f[key] = Absent
  BY DEF ListsMap
<1>1. ASSUME NEW key \in keys PROVE g(key) = f[key]
  <2>1. CASE \E i \in DOMAIN ids : ids[i] = key
    <3>1. PICK i \in DOMAIN ids : ids[i] = key
      BY <2>1
    <3>2. i <= i
      BY <1>0
    <3>3. \A j \in DOMAIN ids : ids[j] = key => j = i
      BY <3>1 DEF Distinct
    <3>4. Last(key, i)
      BY <3>1, <3>2, <3>3
    <3> DEFINE c == CHOOSE x \in DOMAIN ids : Last(key, x)
    <3>5. c \in DOMAIN ids /\ Last(key, c)
      BY <3>4
    <3>6. values[c] = f[key]
      BY <1>0, <3>5
    <3>7. QED
      BY <2>1, <3>6
  <2>2. CASE ~ \E i \in DOMAIN ids : ids[i] = key
    BY <1>0, <2>2
  <2>3. QED
    BY <2>1, <2>2
<1>2. MapOf(ids, values, keys) = [key \in keys |-> g(key)]
  BY DEF MapOf
<1>3. QED
  BY <1>0, <1>1, <1>2

\* Every entry of a written list is read back at its place.
LEMMA TracksRead ==
  ASSUME NEW p \in Project, NEW t \in Seq(Tracks(p)), NEW w \in Seq(Nat),
         NEW i \in 1..Len(t), NEW x \in 1..Len(w) + 1,
         Holds(w, x, TrackWords(p, t[i]))
  PROVE  ReadTrack(w, x) = Read(x + Len(TrackWords(p, t[i])),
                                [id |-> t[i], clips |-> p.tracks[t[i]]])
<1> DEFINE id == t[i]
           s == p.tracks[id]
<1>1. id \in Nat /\ s \in Seq(Nat) /\ x \in Nat \ {0}
  BY TrackFields
<1>2. TrackWords(p, id) = TrackChunk(id, s)
  BY DEF TrackWords, TrackChunk
<1>3. Holds(w, x, TrackChunk(id, s))
  BY <1>2
<1> HIDE DEF id, s
<1>4. ReadTrack(w, x) =
        Read(x + Len(TrackChunk(id, s)), [id |-> id, clips |-> s])
  BY <1>1, <1>3, ReadTrackEncoded
<1>5. QED
  BY <1>2, <1>4 DEF id, s

LEMMA ClipsRead ==
  ASSUME NEW p \in Project, NEW k \in Seq(Clips(p)), NEW w \in Seq(Nat),
         NEW i \in 1..Len(k), NEW x \in 1..Len(w) + 1,
         Holds(w, x, ClipWords(p, k[i]))
  PROVE  ReadClip(w, x) = Read(x + Len(ClipWords(p, k[i])),
                               [id |-> k[i], clip |-> p.clips[k[i]]])
<1> DEFINE id == k[i]
           c == p.clips[id]
<1>1. /\ id \in Nat /\ c.asset \in Nat /\ c.track \in Nat
      /\ c.range \in TimeRange /\ x \in Nat \ {0}
      /\ c = [asset |-> c.asset, track |-> c.track, range |-> c.range]
  <2>1. id \in Clips(p)
    OBVIOUS
  <2> HIDE DEF id
  <2>2. x \in Nat \ {0}
    OBVIOUS
  <2>3. /\ id \in Nat /\ c.asset \in Nat /\ c.track \in Nat
        /\ c.range \in TimeRange
        /\ c = [asset |-> c.asset, track |-> c.track, range |-> c.range]
    BY <2>1, ClipFields
  <2>4. QED
    BY <2>2, <2>3
<1>2. Holds(w, x, <<id, c.asset, c.track>> \o RangeWords(c.range))
  BY DEF ClipWords
<1> HIDE DEF id, c
<1>3. ReadClip(w, x) =
        Read(x + Len(<<id, c.asset, c.track>> \o RangeWords(c.range)),
             [id |-> id, clip |-> [asset |-> c.asset, track |-> c.track,
                                   range |-> c.range]])
  BY <1>1, <1>2, ReadClipEncoded
<1>4. QED
  BY <1>1, <1>3 DEF ClipWords, id, c

TrackValues(p, t) == [i \in 1..Len(t) |-> [id |-> t[i], clips |-> p.tracks[t[i]]]]
ClipValues(p, k) == [i \in 1..Len(k) |-> [id |-> k[i], clip |-> p.clips[k[i]]]]

\* The readers of the three lists.
WordsAt(w) == [i \in Positions(w) |-> ReadWord(w, i)]
TracksAt(w) == [i \in Positions(w) |-> ReadTrack(w, i)]
ClipsAt(w) == [i \in Positions(w) |-> ReadClip(w, i)]

\* The three lists of an encoded project are read back.
LEMMA EncodedRead ==
  ASSUME NEW p \in Project, NEW a \in Seq(AssetIds),
         NEW t \in Seq(Tracks(p)), NEW k \in Seq(Clips(p))
  PROVE  LET w == EncodeIn(p, a, t, k)
             A == Counted(AssetChunks(a))
             T == Counted(TrackChunks(p, t))
         IN  /\ ReadIds(w, 3) = Read(3 + Len(A), a)
             /\ ReadList(TracksAt(w), w, 3 + Len(A)) =
                  Read(3 + Len(A) + Len(T), TrackValues(p, t))
             /\ ReadList(ClipsAt(w), w, 3 + Len(A) + Len(T)) =
                  Read(Len(w) + 1, ClipValues(p, k))
<1> DEFINE w == EncodeIn(p, a, t, k)
           A == Counted(AssetChunks(a))
           T == Counted(TrackChunks(p, t))
           K == Counted(ClipChunks(p, k))
           aT == 3 + Len(A)
           aK == 3 + Len(A) + Len(T)
<1>1. /\ w \in Seq(Nat) /\ Len(w) = 2 + Len(A) + Len(T) + Len(K)
      /\ A \in Seq(Nat) /\ T \in Seq(Nat) /\ K \in Seq(Nat)
      /\ Holds(w, 3, A) /\ Holds(w, aT, T) /\ Holds(w, aK, K)
  BY EncodedParts
<1> HIDE DEF w
<1>2. /\ Len(A) \in Nat /\ Len(T) \in Nat /\ Len(K) \in Nat
      /\ aT \in Nat \ {0} /\ aK \in Nat \ {0}
      /\ aT + Len(T) = aK /\ aK + Len(K) = Len(w) + 1
  <2> HIDE DEF A, T, K
  <2> DEFINE lA == Len(A)
             lT == Len(T)
             lK == Len(K)
  <2>1. lA \in Nat /\ lT \in Nat /\ lK \in Nat
    BY <1>1
  <2>2. Len(w) = 2 + lA + lT + lK
    BY <1>1
  <2>3. aT = 3 + lA /\ aK = 3 + lA + lT
    OBVIOUS
  <2> HIDE DEF lA, lT, lK, aT, aK
  <2>4. /\ aT \in Nat \ {0} /\ aK \in Nat \ {0}
        /\ aT + lT = aK /\ aK + lK = Len(w) + 1
    BY <2>1, <2>2, <2>3
  <2>5. QED
    BY <2>1, <2>4 DEF lA, lT, lK
<1>3. /\ AssetChunks(a) \in Seq(Seq(Nat)) /\ Len(AssetChunks(a)) = Len(a)
      /\ \A i \in 1..Len(a) : AssetChunks(a)[i] = AssetWords(a[i])
      /\ TrackChunks(p, t) \in Seq(Seq(Nat))
      /\ Len(TrackChunks(p, t)) = Len(t)
      /\ \A i \in 1..Len(t) : TrackChunks(p, t)[i] = TrackWords(p, t[i])
      /\ ClipChunks(p, k) \in Seq(Seq(Nat))
      /\ Len(ClipChunks(p, k)) = Len(k)
      /\ \A i \in 1..Len(k) : ClipChunks(p, k)[i] = ClipWords(p, k[i])
  BY ChunksType
<1>4. \A x \in 1..Len(w) + 1 : x \in Positions(w)
  BY <1>1 DEF Positions
<1> HIDE DEF aT, aK
<1>5. ReadIds(w, 3) = Read(aT, a)
  <2> DEFINE chunks == AssetChunks(a)
             entries == WordsAt(w)
  <2>1. \A i \in 1..Len(a) : a[i] \in Nat
    BY WordAssumption DEF Word, u64
  <2>2. ASSUME NEW i \in 1..Len(chunks), NEW x \in 1..Len(w) + 1,
               Holds(w, x, chunks[i])
        PROVE  entries[x] = Read(x + Len(chunks[i]), a[i])
    <3>1. i \in 1..Len(a) /\ chunks[i] = <<a[i]>>
      BY <1>3 DEF AssetWords
    <3> DEFINE b == a[i]
    <3>2. b \in Nat /\ Holds(w, x, <<b>>)
      BY <2>1, <2>2, <3>1
    <3> HIDE DEF b, chunks
    <3>3. Len(<<b>>) = 1 /\ <<b>>[1] = b
      OBVIOUS
    <3>4. x + 1 <= Len(w) + 1 /\ \A j \in 1..1 : w[x + j - 1] = <<b>>[j]
      BY <3>2, <3>3 DEF Holds
    <3>5. w[x] = b /\ x \in 1..Len(w)
      <4>1. 1 \in 1..1 /\ x + 1 - 1 = x /\ Len(w) \in Nat
        BY <1>1
      <4>2. w[x + 1 - 1] = <<b>>[1]
        BY <3>4, <4>1
      <4>3. QED
        BY <3>3, <3>4, <4>1, <4>2
    <3>6. ReadWord(w, x) = Read(x + 1, b)
      BY <1>1, <3>5, ReadWordAt
    <3>7. entries[x] = ReadWord(w, x)
      BY <1>4 DEF WordsAt
    <3>8. QED
      BY <3>1, <3>3, <3>6, <3>7 DEF b
  <2> HIDE DEF chunks, entries
  <2>3. chunks \in Seq(Seq(Nat)) /\ Holds(w, 3, Counted(chunks))
    BY <1>1, <1>3 DEF chunks
  <2>4. ReadList(entries, w, 3) =
          Read(3 + Len(Counted(chunks)), [i \in 1..Len(chunks) |-> a[i]])
    <3>1. ReadsBack(w, chunks, entries, a)
      BY <2>2 DEF ReadsBack
    <3>2. QED
      BY <1>1, <2>3, <3>1, ReadListEncoded, 3 \in Nat \ {0}
  <2>5. [i \in 1..Len(chunks) |-> a[i]] = a
    BY <1>3 DEF chunks
  <2>6. QED
    BY <2>4, <2>5 DEF ReadIds, WordsAt, entries, chunks, aT
<1>6. ReadList(TracksAt(w), w, aT) = Read(aK, TrackValues(p, t))
  <2> DEFINE chunks == TrackChunks(p, t)
             entries == TracksAt(w)
             vals == TrackValues(p, t)
  <2>1. ASSUME NEW i \in 1..Len(chunks), NEW x \in 1..Len(w) + 1,
               Holds(w, x, chunks[i])
        PROVE  entries[x] = Read(x + Len(chunks[i]), vals[i])
    <3>1. i \in 1..Len(t) /\ chunks[i] = TrackWords(p, t[i])
      BY <1>3
    <3>2. ReadTrack(w, x) = Read(x + Len(TrackWords(p, t[i])),
                                 [id |-> t[i], clips |-> p.tracks[t[i]]])
      BY <1>1, <2>1, <3>1, TracksRead
    <3>3. vals[i] = [id |-> t[i], clips |-> p.tracks[t[i]]]
      BY <3>1 DEF TrackValues
    <3>4. entries[x] = ReadTrack(w, x)
      BY <1>4 DEF TracksAt
    <3>5. QED
      BY <3>1, <3>2, <3>3, <3>4
  <2> HIDE DEF chunks, entries, vals
  <2>2. chunks \in Seq(Seq(Nat)) /\ Holds(w, aT, Counted(chunks))
    BY <1>1, <1>3 DEF chunks
  <2>3. ReadList(entries, w, aT) =
          Read(aT + Len(Counted(chunks)), [i \in 1..Len(chunks) |-> vals[i]])
    <3>1. ReadsBack(w, chunks, entries, vals)
      BY <2>1 DEF ReadsBack
    <3>2. QED
      BY <1>1, <1>2, <2>2, <3>1, ReadListEncoded
  <2>4. [i \in 1..Len(chunks) |-> vals[i]] = vals
    BY <1>3 DEF chunks, vals, TrackValues
  <2>5. QED
    BY <1>2, <2>3, <2>4 DEF entries, chunks, vals
<1>7. ReadList(ClipsAt(w), w, aK) = Read(Len(w) + 1, ClipValues(p, k))
  <2> DEFINE chunks == ClipChunks(p, k)
             entries == ClipsAt(w)
             vals == ClipValues(p, k)
  <2>1. ASSUME NEW i \in 1..Len(chunks), NEW x \in 1..Len(w) + 1,
               Holds(w, x, chunks[i])
        PROVE  entries[x] = Read(x + Len(chunks[i]), vals[i])
    <3>1. i \in 1..Len(k) /\ chunks[i] = ClipWords(p, k[i])
      BY <1>3
    <3>2. ReadClip(w, x) = Read(x + Len(ClipWords(p, k[i])),
                                [id |-> k[i], clip |-> p.clips[k[i]]])
      BY <1>1, <2>1, <3>1, ClipsRead
    <3>3. vals[i] = [id |-> k[i], clip |-> p.clips[k[i]]]
      BY <3>1 DEF ClipValues
    <3>4. entries[x] = ReadClip(w, x)
      BY <1>4 DEF ClipsAt
    <3>5. QED
      BY <3>1, <3>2, <3>3, <3>4
  <2> HIDE DEF chunks, entries, vals
  <2>2. chunks \in Seq(Seq(Nat)) /\ Holds(w, aK, Counted(chunks))
    BY <1>1, <1>3 DEF chunks
  <2>3. ReadList(entries, w, aK) =
          Read(aK + Len(Counted(chunks)), [i \in 1..Len(chunks) |-> vals[i]])
    <3>1. ReadsBack(w, chunks, entries, vals)
      BY <2>1 DEF ReadsBack
    <3>2. QED
      BY <1>1, <1>2, <2>2, <3>1, ReadListEncoded
  <2>4. [i \in 1..Len(chunks) |-> vals[i]] = vals
    BY <1>3 DEF chunks, vals, ClipValues
  <2>5. QED
    BY <1>2, <2>3, <2>4 DEF entries, chunks, vals
<1>8. QED
  BY <1>5, <1>6, <1>7 DEF w, aT, aK

\* The maps assembled from their listed entries are the maps.
LEMMA AssembledListed ==
  ASSUME NEW p \in Project, NEW a, NEW t, NEW k, ListOf(a, p.assets),
         ListOf(t, Tracks(p)), ListOf(k, Clips(p))
  PROVE  /\ Assembled(a, TrackValues(p, t), ClipValues(p, k)) = p
         /\ Ids(TrackValues(p, t)) = t /\ Ids(ClipValues(p, k)) = k
<1> DEFINE tv == TrackValues(p, t)
           kv == ClipValues(p, k)
           tracks == [i \in DOMAIN tv |-> tv[i].clips]
           clips == [i \in DOMAIN kv |-> kv[i].clip]
<1>1. /\ p = [assets |-> p.assets, tracks |-> p.tracks, clips |-> p.clips]
      /\ p.tracks \in [TrackIds -> Seq(ClipIds) \cup {Absent}]
      /\ p.clips \in [ClipIds -> Clip \cup {Absent}]
  BY DEF Project
<1>2. t \in Seq(Tracks(p)) /\ k \in Seq(Clips(p)) /\ Distinct(t) /\ Distinct(k)
  BY DEF ListOf
<1>3. /\ DOMAIN t = 1..Len(t) /\ DOMAIN k = 1..Len(k)
      /\ t = [i \in 1..Len(t) |-> t[i]] /\ k = [i \in 1..Len(k) |-> k[i]]
      /\ Len(t) \in Nat /\ Len(k) \in Nat
  BY <1>2
<1>4. /\ DOMAIN tv = 1..Len(t) /\ DOMAIN kv = 1..Len(k)
      /\ \A i \in 1..Len(t) : tv[i] = [id |-> t[i], clips |-> p.tracks[t[i]]]
      /\ \A i \in 1..Len(k) : kv[i] = [id |-> k[i], clip |-> p.clips[k[i]]]
  BY DEF TrackValues, ClipValues
<1> HIDE DEF tv, kv
<1>5. Ids(tv) = t
  <2>1. \A i \in 1..Len(t) : tv[i].id = t[i]
    BY <1>4
  <2>2. QED
    BY <1>3, <1>4, <2>1 DEF Ids
<1>6. Ids(kv) = k
  <2>1. \A i \in 1..Len(k) : kv[i].id = k[i]
    BY <1>4
  <2>2. QED
    BY <1>3, <1>4, <2>1 DEF Ids
<1>7. MapOf(t, tracks, TrackIds) = p.tracks
  <2>1. \A i \in DOMAIN t : tracks[i] = p.tracks[t[i]]
    BY <1>3, <1>4
  <2>2. \A key \in TrackIds :
          (\E i \in DOMAIN t : t[i] = key) \/ p.tracks[key] = Absent
    BY DEF ListOf, Tracks, HasTrack
  <2>3. p.tracks = [key \in TrackIds |-> p.tracks[key]]
    BY <1>1
  <2>4. \A i \in DOMAIN t : i \in Int
    BY <1>3
  <2> HIDE DEF tracks
  <2>5. MapOf(t, tracks, TrackIds) = p.tracks
    <3>1. ListsMap(t, tracks, TrackIds, p.tracks)
      BY <2>1, <2>2, <2>3, <2>4 DEF ListsMap
    <3>2. QED
      BY <1>2, <3>1, MapOfListed
  <2>6. QED
    BY <2>5
<1>8. MapOf(k, clips, ClipIds) = p.clips
  <2>1. \A i \in DOMAIN k : clips[i] = p.clips[k[i]]
    BY <1>3, <1>4
  <2>2. \A key \in ClipIds :
          (\E i \in DOMAIN k : k[i] = key) \/ p.clips[key] = Absent
    BY DEF ListOf, Clips, HasClip
  <2>3. p.clips = [key \in ClipIds |-> p.clips[key]]
    BY <1>1
  <2>4. \A i \in DOMAIN k : i \in Int
    BY <1>3
  <2> HIDE DEF clips
  <2>5. MapOf(k, clips, ClipIds) = p.clips
    <3>1. ListsMap(k, clips, ClipIds, p.clips)
      BY <2>1, <2>2, <2>3, <2>4 DEF ListsMap
    <3>2. QED
      BY <1>2, <3>1, MapOfListed
  <2>6. QED
    BY <2>5
<1>9. p.assets = {a[i] : i \in DOMAIN a}
  BY DEF ListOf
<1>10. Assembled(a, tv, kv) = [assets |-> p.assets, tracks |-> p.tracks,
                               clips |-> p.clips]
  BY <1>5, <1>6, <1>7, <1>8, <1>9 DEF Assembled
<1>11. QED
  BY <1>1, <1>5, <1>6, <1>10 DEF tv, kv

\* A project is read back from its stream in whatever order the three maps
\* were listed (from_canonical_bytes inserts into ordered maps).
THEOREM DecodeEncoded ==
  ASSUME NEW p \in Project, WellFormed(p), NEW a, NEW t, NEW k,
         ListOf(a, p.assets), ListOf(t, Tracks(p)), ListOf(k, Clips(p))
  PROVE  DecodeProject(EncodeIn(p, a, t, k)) = Ok(p)
<1> DEFINE w == EncodeIn(p, a, t, k)
           A == Counted(AssetChunks(a))
           T == Counted(TrackChunks(p, t))
<1>1. p.assets \subseteq AssetIds
  BY DEF Project
<1>2. /\ a \in Seq(AssetIds) /\ t \in Seq(Tracks(p)) /\ k \in Seq(Clips(p))
      /\ Distinct(a) /\ Distinct(t) /\ Distinct(k)
  BY <1>1, SeqSubset DEF ListOf
<1>3. /\ w \in Seq(Nat) /\ Len(w) >= 2
      /\ w[1] = ProjectMagic /\ w[2] = CONTRACT_SCHEMA_VERSION
  BY <1>2, EncodedParts
<1>4. /\ ReadIds(w, 3) = Read(3 + Len(A), a)
      /\ ReadList(TracksAt(w), w, 3 + Len(A)) =
           Read(3 + Len(A) + Len(T), TrackValues(p, t))
      /\ ReadList(ClipsAt(w), w, 3 + Len(A) + Len(T)) =
           Read(Len(w) + 1, ClipValues(p, k))
  BY <1>2, EncodedRead
<1>5. HeaderIs(w, ProjectMagic)
  BY <1>3 DEF HeaderIs, Takes, Failed
<1> DEFINE aT == 3 + Len(A)
           aK == 3 + Len(A) + Len(T)
           tv == TrackValues(p, t)
           kv == ClipValues(p, k)
           e == Len(w) + 1
<1>6. /\ Assembled(a, tv, kv) = p /\ Ids(tv) = t /\ Ids(kv) = k
  BY AssembledListed
<1> HIDE DEF w, A, T, aT, aK, tv, kv, e
<1>7. ReadIds(w, 3).at = aT /\ ReadIds(w, 3).value = a
  BY <1>4 DEF Read, aT
<1>8. /\ ReadList(TracksAt(w), w, aT).at = aK
      /\ ReadList(TracksAt(w), w, aT).value = tv
  BY <1>4 DEF Read, aT, aK, tv
<1>9. /\ ReadList(ClipsAt(w), w, aK).at = e
      /\ ReadList(ClipsAt(w), w, aK).value = kv
  BY <1>4 DEF Read, aK, kv, e
<1>10. Finished(w, e)
  BY DEF Finished, e
<1>11. DecodeProject(w) = Ok(p)
  BY <1>2, <1>5, <1>6, <1>7, <1>8, <1>9, <1>10
     DEF DecodeProject, TracksAt, ClipsAt
<1>12. QED
  BY <1>11 DEF w

-----------------------------------------------------------------------------
(* The orders in which the writers list a map.                             *)

Ordered(list, S) ==
  /\ list \in [1..Cardinality(S) -> S]
  /\ \A i, j \in DOMAIN list : i < j => list[i] < list[j]

\* Every finite set of numbers has an increasing list.
LEMMA OrderedExists ==
  ASSUME NEW S \in SUBSET Word
  PROVE  IsFiniteSet(S) /\ \E list : Ordered(list, S)
<1> DEFINE Listable(Q) == IsFiniteSet(Q) /\ \E list : Ordered(list, Q)
           B == {b \in Nat : \A Q \in SUBSET (0..b - 1) : Listable(Q)}
<1>1. 0 \in B
  <2>1. SUFFICES ASSUME NEW Q \in SUBSET (0..0 - 1) PROVE Listable(Q)
    OBVIOUS
  <2>2. Q = {}
    OBVIOUS
  <2>3. IsFiniteSet(Q) /\ Cardinality(Q) = 0
    BY <2>2, FS_EmptySet
  <2>4. Ordered([i \in 1..0 |-> 0], Q)
    BY <2>3 DEF Ordered
  <2>5. QED
    BY <2>3, <2>4
<1>2. ASSUME NEW b \in B PROVE b + 1 \in B
  <2>1. b \in Nat /\ \A Q \in SUBSET (0..b - 1) : Listable(Q)
    OBVIOUS
  <2>2. ASSUME NEW Q \in SUBSET (0..b + 1 - 1) PROVE Listable(Q)
    <3>1. CASE b \notin Q
      <4>1. Q \in SUBSET (0..b - 1)
        BY <2>1, <3>1
      <4>2. QED
        BY <2>1, <4>1
    <3>2. CASE b \in Q
      <4> DEFINE R == Q \ {b}
                 n == Cardinality(R)
      <4>1. R \in SUBSET (0..b - 1)
        BY <2>1
      <4>2. IsFiniteSet(R) /\ \E list : Ordered(list, R)
        BY <2>1, <4>1
      <4>3. PICK list : Ordered(list, R)
        BY <4>2
      <4>4. Q = R \cup {b} /\ b \notin R
        BY <3>2
      <4> HIDE DEF R
      <4>5. n \in Nat
        BY <4>2, FS_CardinalityType
      <4>6. IsFiniteSet(Q) /\ Cardinality(Q) = n + 1
        BY <4>2, <4>4, FS_AddElement
      <4> HIDE DEF n
      <4>7. /\ list \in [1..n -> R]
            /\ \A i, j \in 1..n : i < j => list[i] < list[j]
        BY <4>3 DEF Ordered, n
      <4> DEFINE more == [i \in 1..n + 1 |-> IF i = n + 1 THEN b ELSE list[i]]
      <4>8. more \in [1..n + 1 -> Q]
        <5>1. ASSUME NEW i \in 1..n + 1
              PROVE  (IF i = n + 1 THEN b ELSE list[i]) \in Q
          <6>1. i = n + 1 \/ i \in 1..n
            BY <4>5
          <6>2. QED
            BY <4>4, <4>7, <6>1
        <5>2. QED
          BY <5>1
      <4>9. ASSUME NEW i \in 1..n + 1, NEW j \in 1..n + 1, i < j
            PROVE  more[i] < more[j]
        <5>1. i \in 1..n /\ i # n + 1 /\ (j \in 1..n \/ j = n + 1)
          BY <4>5, <4>9
        <5>2. more[i] = list[i] /\ list[i] \in 0..b - 1
          BY <4>1, <4>7, <5>1
        <5>3. CASE j = n + 1
          <6>1. more[j] = b
            BY <5>3
          <6>2. list[i] < b
            BY <2>1, <5>2
          <6>3. QED
            BY <5>2, <6>1, <6>2
        <5>4. CASE j # n + 1
          <6>1. more[j] = list[j] /\ j \in 1..n
            BY <5>1, <5>4
          <6>2. QED
            BY <4>7, <4>9, <5>1, <5>2, <6>1
        <5>5. QED
          BY <5>3, <5>4
      <4> HIDE DEF more
      <4>10. Ordered(more, Q)
        <5>1. DOMAIN more = 1..n + 1
          BY <4>8
        <5>2. \A i, j \in DOMAIN more : i < j => more[i] < more[j]
          BY <4>9, <5>1
        <5>3. QED
          BY <4>6, <4>8, <5>2 DEF Ordered
      <4>11. QED
        BY <4>6, <4>10
    <3>3. QED
      BY <3>1, <3>2
  <2>3. QED
    BY <2>1, <2>2
<1> HIDE DEF Listable
<1>3. B = Nat
  <2>1. B \in SUBSET Nat
    OBVIOUS
  <2> HIDE DEF B
  <2>2. \A b \in B : b + 1 \in B
    BY <1>2
  <2>3. QED
    BY <1>1, <2>1, <2>2, SetInduction
<1>4. 2 * MaxInt + 2 \in B /\ S \in SUBSET (0..2 * MaxInt + 2 - 1)
  <2>1. 2 * MaxInt + 2 \in Nat
    OBVIOUS
  <2>2. Word = 0..2 * MaxInt + 1 /\ 2 * MaxInt + 2 - 1 = 2 * MaxInt + 1
    BY DEF Word, u64
  <2> HIDE DEF B
  <2>3. QED
    BY <1>3, <2>1, <2>2
<1>5. Listable(S)
  BY <1>4
<1>6. QED
  BY <1>5 DEF Listable

LEMMA OrderedLists ==
  ASSUME NEW S \in SUBSET Word, NEW list, Ordered(list, S)
  PROVE  ListOf(list, S) /\ Cardinality(S) \in Nat
<1> DEFINE n == Cardinality(S)
<1>1. IsFiniteSet(S)
  BY OrderedExists
<1>2. n \in Nat
  BY <1>1, FS_CardinalityType
<1>3. \A x \in S : x \in Int
  BY DEF Word, u64
<1> HIDE DEF n
<1>4. /\ list \in [1..n -> S]
      /\ \A i, j \in 1..n : i < j => list[i] < list[j]
  BY DEF Ordered, n
<1>5. \A i, j \in 1..n : list[i] = list[j] => i = j
  <2>1. SUFFICES ASSUME NEW i \in 1..n, NEW j \in 1..n, i # j
                 PROVE  list[i] # list[j]
    OBVIOUS
  <2>2. list[i] \in Int /\ list[j] \in Int /\ (i < j \/ j < i)
    BY <1>2, <1>3, <1>4, <2>1
  <2>3. list[i] < list[j] \/ list[j] < list[i]
    BY <1>4, <2>2
  <2>4. QED
    BY <2>2, <2>3
<1>6. IsFiniteSet(1..n) /\ Cardinality(1..n) = n
  <2>1. 1 \in Int /\ n \in Int
    BY <1>2
  <2>2. /\ IsFiniteSet(1..n)
        /\ Cardinality(1..n) = IF 1 > n THEN 0 ELSE n - 1 + 1
    BY <2>1, FS_Interval
  <2>3. QED
    BY <1>2, <2>2
<1>7. list \in Injection(1..n, S)
  BY <1>4, <1>5 DEF Injection, IsInjective
<1>8. list \in Surjection(1..n, S)
  <2>1. Cardinality(1..n) = Cardinality(S)
    BY <1>6 DEF n
  <2> DEFINE R == 1..n
  <2> HIDE DEF R
  <2>2. list \in Injection(R, S) /\ Cardinality(R) = Cardinality(S)
    BY <1>7, <2>1 DEF R
  <2>3. list \in Surjection(R, S)
    BY <1>1, <2>2, FS_Injection
  <2>4. QED
    BY <2>3 DEF R
<1>9. list \in Seq(S) /\ DOMAIN list = 1..n
  BY <1>2, <1>4, FunctionSeq
<1>10. S = {list[i] : i \in DOMAIN list}
  <2>1. \A x \in S : \E i \in 1..n : list[i] = x
    BY <1>8 DEF Surjection
  <2>2. QED
    BY <1>4, <1>9, <2>1
<1>11. Distinct(list)
  BY <1>5, <1>9 DEF Distinct
<1>12. QED
  BY <1>2, <1>9, <1>10, <1>11 DEF ListOf, n

\* The order of the encoder lists a set once ...
LEMMA AscendingLists ==
  ASSUME NEW S \in SUBSET Word
  PROVE  Ordered(Ascending(S), S) /\ ListOf(Ascending(S), S)
<1> DEFINE F == [1..Cardinality(S) -> S]
           Sorted(list) == \A i, j \in DOMAIN list : i < j => list[i] < list[j]
<1>1. \E list \in F : Sorted(list)
  BY OrderedExists DEF Ordered
<1>2. Ascending(S) = CHOOSE list \in F : Sorted(list)
  BY DEF Ascending
<1> HIDE DEF F
<1>3. Ascending(S) \in F /\ Sorted(Ascending(S))
  BY <1>1, <1>2
<1>4. Ordered(Ascending(S), S)
  BY <1>3 DEF Ordered, F
<1>5. QED
  BY <1>4, OrderedLists

\* ... and so does the order of the foreign writer.
LEMMA DescendingLists ==
  ASSUME NEW S \in SUBSET Word
  PROVE  ListOf(Descending(S), S)
<1> DEFINE n == Cardinality(S)
           up == Ascending(S)
           down == Descending(S)
<1>1. ListOf(up, S) /\ up \in [1..n -> S] /\ n \in Nat
  BY AscendingLists, OrderedLists DEF Ordered
<1>2. down = [i \in 1..n |-> up[n + 1 - i]]
  BY DEF Descending
<1> HIDE DEF n, up, down
<1>3. \A i \in 1..n : n + 1 - i \in 1..n
  BY <1>1
<1>4. down \in [1..n -> S]
  BY <1>1, <1>2, <1>3
<1>5. down \in Seq(S) /\ DOMAIN down = 1..n
  BY <1>1, <1>4, FunctionSeq
<1>6. S = {up[i] : i \in 1..n} /\ \A i, j \in 1..n : up[i] = up[j] => i = j
  BY <1>1 DEF ListOf, Distinct
<1>7. ASSUME NEW x \in S PROVE \E i \in 1..n : down[i] = x
  <2>1. PICK j \in 1..n : up[j] = x
    BY <1>6
  <2>2. n + 1 - j \in 1..n /\ n + 1 - (n + 1 - j) = j
    BY <1>1
  <2>3. down[n + 1 - j] = x
    BY <1>2, <2>1, <2>2
  <2>4. QED
    BY <2>2, <2>3
<1>8. ASSUME NEW i \in 1..n, NEW j \in 1..n, down[i] = down[j] PROVE i = j
  <2>1. up[n + 1 - i] = up[n + 1 - j]
    BY <1>2, <1>8
  <2>2. n + 1 - i = n + 1 - j
    BY <1>3, <1>6, <2>1
  <2>3. QED
    BY <1>1, <2>2
<1>9. S = {down[i] : i \in DOMAIN down}
  BY <1>4, <1>5, <1>7
<1>10. Distinct(down)
  BY <1>5, <1>8 DEF Distinct
<1>11. QED
  BY <1>5, <1>9, <1>10 DEF ListOf, down

LEMMA ProjectSets ==
  ASSUME NEW p \in Project
  PROVE  /\ p.assets \in SUBSET Word /\ Tracks(p) \in SUBSET Word
         /\ Clips(p) \in SUBSET Word
BY WordAssumption DEF Project, Tracks, Clips

\* Both writers list every entry once.
ForeignOf(p) == EncodeIn(p, Descending(p.assets), Descending(Tracks(p)),
                         Descending(Clips(p)))

LEMMA WritersList ==
  ASSUME NEW p \in Project
  PROVE  /\ ListOf(Ascending(p.assets), p.assets)
         /\ ListOf(Ascending(Tracks(p)), Tracks(p))
         /\ ListOf(Ascending(Clips(p)), Clips(p))
         /\ ListOf(Descending(p.assets), p.assets)
         /\ ListOf(Descending(Tracks(p)), Tracks(p))
         /\ ListOf(Descending(Clips(p)), Clips(p))
<1>1. /\ p.assets \in SUBSET Word /\ Tracks(p) \in SUBSET Word
      /\ Clips(p) \in SUBSET Word
  BY ProjectSets
<1>2. QED
  BY <1>1, AscendingLists, DescendingLists

LEMMA EncodersDecode ==
  ASSUME NEW p \in Project, WellFormed(p)
  PROVE  /\ DecodeProject(EncodeProject(p)) = Ok(p)
         /\ DecodeProject(ForeignOf(p)) = Ok(p)
<1>1. DecodeProject(EncodeProject(p)) = Ok(p)
  BY WritersList, DecodeEncoded DEF EncodeProject
<1>2. DecodeProject(ForeignOf(p)) = Ok(p)
  BY WritersList, DecodeEncoded DEF ForeignOf
<1>3. QED
  BY <1>1, <1>2

-----------------------------------------------------------------------------
(* Readers: they fail or end within the stream, and what they read of a    *)
(* part they read of the whole.                                            *)

Reader(w, entries) ==
  /\ entries[Failed].at = Failed
  /\ \A x \in Positions(w) : entries[x].at \in Positions(w)

\* What was read, as a chain of entries.
Reads(entries, w, at, pos) ==
  /\ pos \in [0..w[at] -> Positions(w) \ {0}]
  /\ Chain(entries, at, w[at], pos)
  /\ ReadList(entries, w, at) = Read(pos[w[at]], Listed(entries, w[at], pos))

\* A list that was read has its chain.
LEMMA ReadListReads ==
  ASSUME NEW w \in Seq(Nat), NEW entries, NEW at \in Nat, Reader(w, entries),
         ReadList(entries, w, at).at # Failed
  PROVE  /\ Takes(w, at, 1) /\ w[at] \in Nat
         /\ \E pos : Reads(entries, w, at, pos)
<1>1. /\ Takes(w, at, 1) /\ w[at] \in Nat
      /\ \E pos \in [0..w[at] -> Positions(w) \ {0}] :
           Chain(entries, at, w[at], pos)
  BY ReadListBack DEF Reader
<1>2. PICK pos \in [0..w[at] -> Positions(w) \ {0}] :
        Chain(entries, at, w[at], pos)
  BY <1>1
<1>3. ReadList(entries, w, at) =
        Read(pos[w[at]], Listed(entries, w[at], pos))
  BY <1>1, <1>2, ReadListChain
<1>4. Reads(entries, w, at, pos)
  BY <1>2, <1>3 DEF Reads
<1>5. QED
  BY <1>1, <1>4

\* A list fails or ends within the stream.
LEMMA ReadListEnds ==
  ASSUME NEW w \in Seq(Nat), NEW entries, NEW at \in Nat, Reader(w, entries)
  PROVE  ReadList(entries, w, at).at \in Positions(w)
<1>1. CASE ReadList(entries, w, at).at = Failed
  BY <1>1 DEF Failed, Positions
<1>2. CASE ReadList(entries, w, at).at # Failed
  <2>1. w[at] \in Nat /\ \E pos : Reads(entries, w, at, pos)
    BY <1>2, ReadListReads
  <2>2. PICK pos : Reads(entries, w, at, pos)
    BY <2>1
  <2> DEFINE n == w[at]
  <2>3. n \in 0..n
    BY <2>1
  <2>4. /\ pos \in [0..n -> Positions(w) \ {0}]
        /\ ReadList(entries, w, at) = Read(pos[n], Listed(entries, n, pos))
    BY <2>2 DEF Reads
  <2> HIDE DEF n
  <2>5. pos[n] \in Positions(w)
    BY <2>3, <2>4
  <2>6. QED
    BY <2>4, <2>5 DEF Read
<1>3. QED
  BY <1>1, <1>2

LEMMA WordReader ==
  ASSUME NEW w \in Seq(Nat)
  PROVE  /\ Reader(w, WordsAt(w))
         /\ \A x \in Nat : ReadIds(w, x).at \in Positions(w)
<1>1. ASSUME NEW x \in Positions(w)
      PROVE  WordsAt(w)[x].at \in Positions(w)
  <2>1. Len(w) \in Nat /\ x \in Nat
    BY DEF Positions
  <2>2. ReadWord(w, x).at \in Positions(w)
    BY <2>1 DEF ReadWord, Fail, Read, Takes, Failed, Positions
  <2>3. QED
    BY <2>2 DEF WordsAt
<1>2. WordsAt(w)[Failed].at = Failed
  <2>1. 0 \in Positions(w)
    BY DEF Positions
  <2>2. QED
    BY <2>1 DEF WordsAt, ReadWord, Fail, Read, Takes, Failed
<1>3. Reader(w, WordsAt(w))
  BY <1>1, <1>2 DEF Reader
<1>4. QED
  BY <1>3, ReadListEnds DEF ReadIds, WordsAt

LEMMA TrackReader ==
  ASSUME NEW w \in Seq(Nat) PROVE Reader(w, TracksAt(w))
<1>1. ASSUME NEW x \in Positions(w)
      PROVE  TracksAt(w)[x].at \in Positions(w)
  <2>1. x + 1 \in Nat /\ 0 \in Positions(w)
    BY DEF Positions
  <2>2. ReadIds(w, x + 1).at \in Positions(w)
    BY <2>1, WordReader
  <2>3. ReadTrack(w, x).at \in Positions(w)
    BY <2>1, <2>2 DEF ReadTrack, Fail, Read, Failed
  <2>4. QED
    BY <2>3 DEF TracksAt
<1>2. TracksAt(w)[Failed].at = Failed
  <2>1. 0 \in Positions(w)
    BY DEF Positions
  <2>2. QED
    BY <2>1 DEF TracksAt, ReadTrack, Fail, Read, Takes, Failed
<1>3. QED
  BY <1>1, <1>2 DEF Reader

\* A range fails or ends four words on.
LEMMA RangeEnds ==
  ASSUME NEW w \in Seq(Nat), NEW x \in Nat
  PROVE  /\ ReadRange(w, x).at \in Positions(w)
         /\ ReadRange(w, x).at # Failed =>
              Takes(w, x, 4) /\ ReadRange(w, x).at = x + 4
<1> DEFINE start == New(Signed(w[x]), Signed(w[x + 1]))
           end == New(Signed(w[x + 2]), Signed(w[x + 3]))
           range == NewRange(start.value, end.value)
           ok == IsOk(start) /\ IsOk(end) /\ IsOk(range)
           value == range.value
<1>1. ReadRange(w, x) = IF ~ Takes(w, x, 4) THEN Fail
                        ELSE IF ok THEN Read(x + 4, value) ELSE Fail
  BY DEF ReadRange
<1> HIDE DEF ok, value
<1>2. Len(w) \in Nat
  OBVIOUS
<1>3. QED
  BY <1>1, <1>2 DEF Fail, Read, Takes, Failed, Positions

LEMMA ClipReader ==
  ASSUME NEW w \in Seq(Nat) PROVE Reader(w, ClipsAt(w))
<1>1. ASSUME NEW x \in Positions(w)
      PROVE  ClipsAt(w)[x].at \in Positions(w)
  <2>1. x + 3 \in Nat /\ 0 \in Positions(w)
    BY DEF Positions
  <2>2. ReadRange(w, x + 3).at \in Positions(w)
    BY <2>1, RangeEnds
  <2>3. ReadClip(w, x).at \in Positions(w)
    BY <2>1, <2>2 DEF ReadClip, Fail, Read, Failed
  <2>4. QED
    BY <2>3 DEF ClipsAt
<1>2. ClipsAt(w)[Failed].at = Failed
  <2>1. 0 \in Positions(w)
    BY DEF Positions
  <2>2. QED
    BY <2>1 DEF ClipsAt, ReadClip, Fail, Read, Takes, Failed
<1>3. QED
  BY <1>1, <1>2 DEF Reader

-----------------------------------------------------------------------------
(* A part of a stream.                                                     *)

Prefix(u, w) ==
  Len(u) <= Len(w) /\ \A i \in 1..Len(u) : u[i] = w[i]

Stable(u, part, whole) ==
  \A x \in Positions(u) : part[x].at # Failed => whole[x] = part[x]

\* A list read of a part of a stream is read of the whole.
LEMMA ReadListStable ==
  ASSUME NEW u \in Seq(Nat), NEW w \in Seq(Nat), Prefix(u, w),
         NEW part, NEW whole, Reader(u, part), Stable(u, part, whole),
         NEW at \in Nat, ReadList(part, u, at).at # Failed
  PROVE  ReadList(whole, w, at) = ReadList(part, u, at)
<1>1. /\ Takes(u, at, 1) /\ u[at] \in Nat
      /\ \E pos : Reads(part, u, at, pos)
  BY ReadListReads
<1>2. PICK pos : Reads(part, u, at, pos)
  BY <1>1
<1> DEFINE n == u[at]
<1>3. w[at] = n /\ Takes(w, at, 1)
  <2>1. at \in 1..Len(u) /\ Len(u) \in Nat /\ Len(w) \in Nat
    BY <1>1 DEF Takes, Failed
  <2>2. QED
    BY <1>1, <2>1 DEF Prefix, Takes
<1>4. /\ pos \in [0..n -> Positions(u) \ {0}] /\ Chain(part, at, n, pos)
      /\ ReadList(part, u, at) = Read(pos[n], Listed(part, n, pos))
  BY <1>2 DEF Reads
<1>5. n \in Nat
  BY <1>1
<1> HIDE DEF n
<1>6. ASSUME NEW i \in 1..n PROVE whole[pos[i - 1]] = part[pos[i - 1]]
  <2>1. i - 1 \in 0..n /\ i \in 0..n
    BY <1>5
  <2>2. pos[i - 1] \in Positions(u) /\ pos[i] # 0
    BY <1>4, <2>1
  <2>3. part[pos[i - 1]].at = pos[i]
    BY <1>4 DEF Chain
  <2>4. QED
    BY <2>2, <2>3 DEF Stable, Failed
<1>7. Chain(whole, at, n, pos)
  <2>1. \A i \in 1..n : whole[pos[i - 1]].at = pos[i]
    BY <1>4, <1>6 DEF Chain
  <2>2. QED
    BY <1>4, <2>1 DEF Chain
<1>8. Listed(whole, n, pos) = Listed(part, n, pos)
  BY <1>6 DEF Listed
<1>9. ReadList(whole, w, at) = Read(pos[n], Listed(whole, n, pos))
  BY <1>3, <1>5, <1>7, ReadListChain
<1>10. QED
  BY <1>4, <1>8, <1>9

LEMMA TakesMore ==
  ASSUME NEW u \in Seq(Nat), NEW w \in Seq(Nat), Prefix(u, w),
         NEW at \in Nat, NEW n \in Nat \ {0}, Takes(u, at, n)
  PROVE  Takes(w, at, n) /\ \A i \in 0..n - 1 : w[at + i] = u[at + i]
<1>1. Len(u) \in Nat /\ Len(w) \in Nat /\ Len(u) <= Len(w)
  BY DEF Prefix
<1>2. at # 0 /\ at + n - 1 <= Len(u)
  BY DEF Takes, Failed
<1>3. \A i \in 0..n - 1 : at + i \in 1..Len(u)
  BY <1>1, <1>2
<1>4. QED
  BY <1>1, <1>2, <1>3 DEF Prefix, Takes, Failed

LEMMA WordsStable ==
  ASSUME NEW u \in Seq(Nat), NEW w \in Seq(Nat), Prefix(u, w)
  PROVE  /\ Stable(u, WordsAt(u), WordsAt(w))
         /\ \A at \in Nat : ReadIds(u, at).at # Failed =>
              ReadIds(w, at) = ReadIds(u, at)
<1>1. Positions(u) \subseteq Positions(w) /\ Positions(u) \subseteq Nat
  BY DEF Positions, Prefix
<1>2. ASSUME NEW x \in Positions(u), WordsAt(u)[x].at # Failed
      PROVE  WordsAt(w)[x] = WordsAt(u)[x]
  <2>1. WordsAt(u)[x] = ReadWord(u, x) /\ WordsAt(w)[x] = ReadWord(w, x)
    BY <1>1 DEF WordsAt
  <2>2. Takes(u, x, 1)
    BY <1>2, <2>1 DEF ReadWord, Fail, Read
  <2>3. Takes(w, x, 1) /\ \A i \in 0..1 - 1 : w[x + i] = u[x + i]
    BY <1>1, <2>2, TakesMore, 1 \in Nat \ {0}
  <2>4. 0 \in 0..1 - 1 /\ x + 0 = x
    BY <1>1
  <2>5. w[x] = u[x]
    BY <2>3, <2>4
  <2>6. QED
    BY <2>1, <2>2, <2>3, <2>5 DEF ReadWord
<1>3. Stable(u, WordsAt(u), WordsAt(w))
  BY <1>2 DEF Stable
<1>4. Reader(u, WordsAt(u))
  BY WordReader
<1>5. ASSUME NEW at \in Nat, ReadIds(u, at).at # Failed
      PROVE  ReadIds(w, at) = ReadIds(u, at)
  <2>1. /\ ReadIds(u, at) = ReadList(WordsAt(u), u, at)
        /\ ReadIds(w, at) = ReadList(WordsAt(w), w, at)
    BY DEF ReadIds, WordsAt
  <2>2. ReadList(WordsAt(u), u, at).at # Failed
    BY <1>5, <2>1
  <2>3. QED
    BY <1>3, <1>4, <2>1, <2>2, ReadListStable
<1>6. QED
  BY <1>3, <1>5

LEMMA TracksStable ==
  ASSUME NEW u \in Seq(Nat), NEW w \in Seq(Nat), Prefix(u, w)
  PROVE  Stable(u, TracksAt(u), TracksAt(w))
<1>1. Positions(u) \subseteq Positions(w) /\ Positions(u) \subseteq Nat
  BY DEF Positions, Prefix
<1>2. ASSUME NEW x \in Positions(u), TracksAt(u)[x].at # Failed
      PROVE  TracksAt(w)[x] = TracksAt(u)[x]
  <2>1. TracksAt(u)[x] = ReadTrack(u, x) /\ TracksAt(w)[x] = ReadTrack(w, x)
    BY <1>1 DEF TracksAt
  <2>2. Takes(u, x, 1) /\ ReadIds(u, x + 1).at # Failed
    BY <1>2, <2>1 DEF ReadTrack, Fail, Read
  <2>3. Takes(w, x, 1) /\ \A i \in 0..1 - 1 : w[x + i] = u[x + i]
    BY <1>1, <2>2, TakesMore, 1 \in Nat \ {0}
  <2>4. 0 \in 0..1 - 1 /\ x + 0 = x /\ x + 1 \in Nat
    BY <1>1
  <2>5. w[x] = u[x] /\ ReadIds(w, x + 1) = ReadIds(u, x + 1)
    BY <2>2, <2>3, <2>4, WordsStable
  <2>6. QED
    BY <2>1, <2>2, <2>3, <2>5 DEF ReadTrack
<1>3. QED
  BY <1>2 DEF Stable

LEMMA RangeStable ==
  ASSUME NEW u \in Seq(Nat), NEW w \in Seq(Nat), Prefix(u, w),
         NEW at \in Nat, ReadRange(u, at).at # Failed
  PROVE  ReadRange(w, at) = ReadRange(u, at)
<1>1. Takes(u, at, 4)
  BY RangeEnds
<1>2. Takes(w, at, 4) /\ \A i \in 0..4 - 1 : w[at + i] = u[at + i]
  BY <1>1, TakesMore, 4 \in Nat \ {0}
<1>3. /\ 0 \in 0..4 - 1 /\ 1 \in 0..4 - 1 /\ 2 \in 0..4 - 1 /\ 3 \in 0..4 - 1
      /\ at + 0 = at
  OBVIOUS
<1>4. /\ w[at] = u[at] /\ w[at + 1] = u[at + 1]
      /\ w[at + 2] = u[at + 2] /\ w[at + 3] = u[at + 3]
  <2>1. w[at + 0] = u[at + 0]
    BY <1>2, <1>3
  <2>2. QED
    BY <1>2, <1>3, <2>1
<1>5. QED
  BY <1>1, <1>2, <1>4 DEF ReadRange

LEMMA ClipsStable ==
  ASSUME NEW u \in Seq(Nat), NEW w \in Seq(Nat), Prefix(u, w)
  PROVE  Stable(u, ClipsAt(u), ClipsAt(w))
<1>1. Positions(u) \subseteq Positions(w) /\ Positions(u) \subseteq Nat
  BY DEF Positions, Prefix
<1>2. ASSUME NEW x \in Positions(u), ClipsAt(u)[x].at # Failed
      PROVE  ClipsAt(w)[x] = ClipsAt(u)[x]
  <2>1. ClipsAt(u)[x] = ReadClip(u, x) /\ ClipsAt(w)[x] = ReadClip(w, x)
    BY <1>1 DEF ClipsAt
  <2>2. Takes(u, x, 3) /\ ReadRange(u, x + 3).at # Failed
    BY <1>2, <2>1 DEF ReadClip, Fail, Read
  <2>3. Takes(w, x, 3) /\ \A i \in 0..3 - 1 : w[x + i] = u[x + i]
    BY <1>1, <2>2, TakesMore, 3 \in Nat \ {0}
  <2>4. /\ 0 \in 0..3 - 1 /\ 1 \in 0..3 - 1 /\ 2 \in 0..3 - 1
        /\ x + 0 = x /\ x + 3 \in Nat
    BY <1>1
  <2>5. w[x + 0] = u[x + 0]
    BY <2>3, <2>4
  <2>6. w[x] = u[x] /\ w[x + 1] = u[x + 1] /\ w[x + 2] = u[x + 2]
    BY <2>3, <2>4, <2>5
  <2>7. ReadRange(w, x + 3) = ReadRange(u, x + 3)
    BY <2>2, <2>4, RangeStable
  <2>8. QED
    BY <2>1, <2>2, <2>3, <2>6, <2>7 DEF ReadClip
<1>3. QED
  BY <1>2 DEF Stable

\* The three lists of a stream that decodes.
ReadAssets(w) == ReadIds(w, 3)
ReadTracks(w) == ReadList(TracksAt(w), w, ReadAssets(w).at)
ReadClips(w) == ReadList(ClipsAt(w), w, ReadTracks(w).at)
ReadProject(w) ==
  Assembled(ReadAssets(w).value, ReadTracks(w).value, ReadClips(w).value)

LEMMA FailedStays ==
  ASSUME NEW w, NEW entries PROVE ReadList(entries, w, Failed) = Fail
<1>1. ~ Takes(w, Failed, 1)
  BY DEF Takes
<1>2. QED
  BY <1>1 DEF ReadList

\* What a stream that decodes to a project has passed.
LEMMA ProjectParts ==
  ASSUME NEW w \in Seq(Nat), IsOk(DecodeProject(w))
  PROVE  /\ HeaderIs(w, ProjectMagic) /\ ReadClips(w).at = Len(w) + 1
         /\ ReadAssets(w).at # Failed /\ ReadTracks(w).at # Failed
         /\ ReadClips(w).at # Failed
         /\ ReadAssets(w).at \in Nat /\ ReadTracks(w).at \in Nat
         /\ Distinct(ReadAssets(w).value) /\ Distinct(Ids(ReadTracks(w).value))
         /\ Distinct(Ids(ReadClips(w).value)) /\ WellFormed(ReadProject(w))
         /\ DecodeProject(w) = Ok(ReadProject(w))
<1> DEFINE a == ReadAssets(w)
           t == ReadTracks(w)
           k == ReadClips(w)
           Accepted == /\ HeaderIs(w, ProjectMagic) /\ Finished(w, k.at)
                       /\ Distinct(a.value) /\ Distinct(Ids(t.value))
                       /\ Distinct(Ids(k.value)) /\ WellFormed(ReadProject(w))
<1>1. DecodeProject(w) = IF Accepted THEN Ok(ReadProject(w)) ELSE Corrupt
  BY DEF DecodeProject, ReadProject, ReadAssets, ReadTracks, ReadClips,
         TracksAt, ClipsAt
<1>2. ~ IsOk(Corrupt)
  BY DEF IsOk, Corrupt, Err
<1>3. Accepted /\ DecodeProject(w) = Ok(ReadProject(w))
  <2> HIDE DEF Accepted
  <2>1. QED
    BY <1>1, <1>2
<1>4. k.at = Len(w) + 1 /\ k.at # Failed
  BY <1>3 DEF Finished, Failed
<1>5. t.at # Failed
  <2>1. CASE t.at = Failed
    <3>1. k = Fail
      BY <2>1, FailedStays DEF ReadClips
    <3>2. QED
      BY <1>4, <3>1 DEF Fail, Read
  <2>2. QED
    BY <2>1
<1>6. a.at # Failed
  <2>1. CASE a.at = Failed
    <3>1. t = Fail
      BY <2>1, FailedStays DEF ReadTracks
    <3>2. QED
      BY <1>5, <3>1 DEF Fail, Read
  <2>2. QED
    BY <2>1
<1>7. Positions(w) \subseteq Nat
  BY DEF Positions
<1>8. a.at \in Nat
  BY <1>7, WordReader, 3 \in Nat DEF ReadAssets
<1>9. t.at \in Nat
  <2>1. t.at \in Positions(w)
    BY <1>8, TrackReader, ReadListEnds DEF ReadTracks
  <2>2. QED
    BY <1>7, <2>1
<1>10. QED
  BY <1>3, <1>4, <1>5, <1>6, <1>8, <1>9

\* A stream that decodes to a project has no other part that does.
THEOREM ProjectPrefix ==
  ASSUME NEW u \in Seq(Nat), NEW w \in Seq(Nat), Prefix(u, w),
         IsOk(DecodeProject(u)), IsOk(DecodeProject(w))
  PROVE  Len(u) = Len(w)
<1>1. /\ ReadClips(u).at = Len(u) + 1
      /\ ReadAssets(u).at # Failed /\ ReadTracks(u).at # Failed
      /\ ReadClips(u).at # Failed
      /\ ReadAssets(u).at \in Nat /\ ReadTracks(u).at \in Nat
  BY ProjectParts
<1>2. ReadAssets(w) = ReadAssets(u)
  BY <1>1, WordsStable, 3 \in Nat DEF ReadAssets
<1>3. ReadTracks(w) = ReadTracks(u)
  <2> DEFINE at == ReadAssets(u).at
  <2>1. ReadTracks(u) = ReadList(TracksAt(u), u, at)
    BY DEF ReadTracks
  <2>2. at \in Nat /\ ReadList(TracksAt(u), u, at).at # Failed
    BY <1>1, <2>1
  <2> HIDE DEF at
  <2>3. ReadList(TracksAt(w), w, at) = ReadList(TracksAt(u), u, at)
    BY <2>2, TrackReader, TracksStable, ReadListStable
  <2>4. QED
    BY <1>2, <2>1, <2>3 DEF ReadTracks, at
<1>4. ReadClips(w) = ReadClips(u)
  <2> DEFINE at == ReadTracks(u).at
  <2>1. ReadClips(u) = ReadList(ClipsAt(u), u, at)
    BY DEF ReadClips
  <2>2. at \in Nat /\ ReadList(ClipsAt(u), u, at).at # Failed
    BY <1>1, <2>1
  <2> HIDE DEF at
  <2>3. ReadList(ClipsAt(w), w, at) = ReadList(ClipsAt(u), u, at)
    BY <2>2, ClipReader, ClipsStable, ReadListStable
  <2>4. QED
    BY <1>3, <2>1, <2>3 DEF ReadClips, at
<1>5. ReadClips(w).at = Len(w) + 1
  BY ProjectParts
<1>6. Len(u) \in Nat /\ Len(w) \in Nat
  OBVIOUS
<1>7. QED
  BY <1>1, <1>4, <1>5, <1>6

-----------------------------------------------------------------------------
(* Commands.                                                               *)

CommandRange(w) == ReadRange(w, 4 + IdsAfter(w[3]))
CommandEnd(w) ==
  IF HasRange(w[3]) THEN CommandRange(w).at ELSE 4 + IdsAfter(w[3])

\* What a stream that decodes to a command has passed.
LEMMA CommandParts ==
  ASSUME NEW w \in Seq(Nat), IsOk(DecodeCommand(w))
  PROVE  /\ HeaderIs(w, CommandMagic) /\ Takes(w, 3, 1) /\ w[3] \in 1..5
         /\ Takes(w, 4, IdsAfter(w[3])) /\ CommandEnd(w) = Len(w) + 1
         /\ DecodeCommand(w) = Ok(CommandOf(w[3], w, CommandRange(w)))
<1> DEFINE Accepted == /\ HeaderIs(w, CommandMagic)
                       /\ Takes(w, 3, 1) /\ w[3] \in 1..5
                       /\ Takes(w, 4, IdsAfter(w[3]))
                       /\ Finished(w, CommandEnd(w))
           value == CommandOf(w[3], w, CommandRange(w))
<1>1. DecodeCommand(w) = IF Accepted THEN Ok(value) ELSE Corrupt
  BY DEF DecodeCommand, CommandEnd, CommandRange
<1>2. ~ IsOk(Corrupt)
  BY DEF IsOk, Corrupt, Err
<1>3. Accepted /\ DecodeCommand(w) = Ok(value)
  <2> HIDE DEF Accepted, value
  <2>1. QED
    BY <1>1, <1>2
<1>4. QED
  BY <1>3 DEF Finished

\* A stream that decodes to a command has no other part that does.
LEMMA CommandPrefix ==
  ASSUME NEW u \in Seq(Nat), NEW w \in Seq(Nat), Prefix(u, w),
         IsOk(DecodeCommand(u)), IsOk(DecodeCommand(w))
  PROVE  Len(u) = Len(w)
<1>1. /\ Takes(u, 3, 1) /\ CommandEnd(u) = Len(u) + 1
      /\ CommandEnd(w) = Len(w) + 1 /\ Len(u) \in Nat /\ Len(w) \in Nat
  BY CommandParts
<1>2. w[3] = u[3]
  <2>1. 3 \in 1..Len(u)
    BY <1>1 DEF Takes, Failed
  <2>2. QED
    BY <2>1 DEF Prefix
<1>3. CommandEnd(w) = CommandEnd(u)
  <2>1. CASE ~ HasRange(u[3])
    BY <1>2, <2>1 DEF CommandEnd
  <2>2. CASE HasRange(u[3])
    <3> DEFINE at == 4 + IdsAfter(u[3])
    <3>1. at \in Nat
      BY DEF IdsAfter
    <3>2. ReadRange(u, at).at # Failed
      BY <1>1, <2>2 DEF CommandEnd, CommandRange, Failed
    <3> HIDE DEF at
    <3>3. ReadRange(w, at) = ReadRange(u, at)
      BY <3>1, <3>2, RangeStable
    <3>4. QED
      BY <1>2, <2>2, <3>3 DEF CommandEnd, CommandRange, at
  <2>3. QED
    BY <2>1, <2>2
<1>4. QED
  BY <1>1, <1>3

\* A project is not a command, and no part of one is.
LEMMA MagicTellsApart ==
  ASSUME NEW u \in Seq(Nat), NEW w \in Seq(Nat), Prefix(u, w)
  PROVE  /\ ~ (IsOk(DecodeProject(u)) /\ IsOk(DecodeCommand(w)))
         /\ ~ (IsOk(DecodeCommand(u)) /\ IsOk(DecodeProject(w)))
<1>1. ASSUME NEW m, HeaderIs(u, m) PROVE w[1] = m
  <2>1. 1 \in 1..Len(u) /\ u[1] = m
    BY <1>1 DEF HeaderIs, Takes, Failed
  <2>2. QED
    BY <2>1 DEF Prefix
<1>2. ASSUME NEW m, HeaderIs(w, m) PROVE w[1] = m
  BY <1>2 DEF HeaderIs
<1>3. ProjectMagic # CommandMagic
  BY DEF ProjectMagic, CommandMagic
<1>4. /\ IsOk(DecodeProject(u)) => HeaderIs(u, ProjectMagic)
      /\ IsOk(DecodeProject(w)) => HeaderIs(w, ProjectMagic)
      /\ IsOk(DecodeCommand(u)) => HeaderIs(u, CommandMagic)
      /\ IsOk(DecodeCommand(w)) => HeaderIs(w, CommandMagic)
  BY ProjectParts, CommandParts
<1>5. QED
  BY <1>1, <1>2, <1>3, <1>4

\* A command without a range is four words.
ShortWords(w, tag, id) ==
  /\ w \in Seq(Nat) /\ Len(w) = 4 /\ w[1] = CommandMagic
  /\ w[2] = CONTRACT_SCHEMA_VERSION /\ w[3] = tag /\ w[4] = id

PairOf(t, tag, id) ==
  t \in Seq(Nat) /\ Len(t) = 2 /\ t[1] = tag /\ t[2] = id

LEMMA Pairs ==
  ASSUME NEW tag \in Nat, NEW id \in Nat
  PROVE  PairOf(<<tag, id>>, tag, id) /\ PairOf(<<tag>> \o <<id>>, tag, id)
<1> DEFINE f == <<tag>>
           g == <<id>>
           h == f \o g
<1>1. /\ f \in Seq(Nat) /\ Len(f) = 1 /\ f[1] = tag
      /\ g \in Seq(Nat) /\ Len(g) = 1 /\ g[1] = id
  OBVIOUS
<1> HIDE DEF f, g
<1>2. /\ h \in Seq(Nat) /\ Len(h) = Len(f) + Len(g)
      /\ \A i \in 1..Len(f) : h[i] = f[i]
      /\ \A i \in 1..Len(g) : h[Len(f) + i] = g[i]
  BY <1>1, Concatenation, Zenon
<1> HIDE DEF h
<1>3. h \in Seq(Nat) /\ h[1] = tag /\ h[2] = id /\ Len(h) = 2
  <2>1. 1 \in 1..1 /\ 1 + 1 = 2
    OBVIOUS
  <2>2. h[1] = f[1] /\ h[1 + 1] = g[1]
    BY <1>1, <1>2, <2>1
  <2>3. QED
    BY <1>1, <1>2, <2>1, <2>2
<1>4. PairOf(<<tag, id>>, tag, id)
  BY DEF PairOf
<1>5. QED
  BY <1>3, <1>4 DEF PairOf, f, g, h

LEMMA ShortWordsOf ==
  ASSUME NEW tag, NEW id, NEW pair, PairOf(pair, tag, id)
  PROVE  ShortWords(<<CommandMagic, CONTRACT_SCHEMA_VERSION>> \o pair, tag, id)
<1> DEFINE M == CommandMagic
           V == CONTRACT_SCHEMA_VERSION
           s == <<M, V>>
           w == s \o pair
<1>1. M \in Nat /\ V \in Nat
  BY DEF CommandMagic, CONTRACT_SCHEMA_VERSION
<1> HIDE DEF M, V
<1>2. /\ s \in Seq(Nat) /\ Len(s) = 2 /\ s[1] = M /\ s[2] = V
      /\ pair \in Seq(Nat) /\ Len(pair) = 2
      /\ pair[1] = tag /\ pair[2] = id
  BY <1>1 DEF PairOf
<1> HIDE DEF s
<1>3. /\ w \in Seq(Nat) /\ Len(w) = Len(s) + Len(pair)
      /\ \A i \in 1..Len(s) : w[i] = s[i]
      /\ \A i \in 1..Len(pair) : w[Len(s) + i] = pair[i]
  BY <1>2, Concatenation, Zenon
<1> HIDE DEF w
<1>4. /\ w \in Seq(Nat) /\ Len(w) = 4 /\ w[1] = M /\ w[2] = V
      /\ w[3] = tag /\ w[4] = id
  <2>1. /\ 1 \in 1..2 /\ 2 \in 1..2 /\ 2 + 1 = 3 /\ 2 + 2 = 4
    OBVIOUS
  <2>2. /\ w[1] = s[1] /\ w[2] = s[2]
        /\ w[2 + 1] = pair[1] /\ w[2 + 2] = pair[2]
    BY <1>2, <1>3, <2>1
  <2>3. QED
    BY <1>2, <1>3, <2>1, <2>2
<1>5. QED
  BY <1>4 DEF ShortWords, w, s, M, V

LEMMA ShortCommand ==
  ASSUME NEW tag \in {1, 2, 5}, NEW id \in Nat,
         NEW w, ShortWords(w, tag, id)
  PROVE  /\ w \in Seq(Nat) /\ Len(w) = 4
         /\ DecodeCommand(w) =
              Ok(CASE tag = 1 -> [op |-> "AddAsset", asset |-> id]
                   [] tag = 2 -> [op |-> "AddTrack", track |-> id]
                   [] OTHER -> [op |-> "RemoveClip", clip |-> id])
<1>1. CommandMagic \in Nat /\ CONTRACT_SCHEMA_VERSION \in Nat /\ tag \in Nat
  BY DEF CommandMagic, CONTRACT_SCHEMA_VERSION
<1>2. /\ w \in Seq(Nat) /\ Len(w) = 4 /\ w[1] = CommandMagic
      /\ w[2] = CONTRACT_SCHEMA_VERSION /\ w[3] = tag /\ w[4] = id
  BY DEF ShortWords
<1>3. HeaderIs(w, CommandMagic) /\ Takes(w, 3, 1) /\ Takes(w, 4, 1)
  BY <1>2 DEF HeaderIs, Takes, Failed
<1>4. IdsAfter(tag) = 1 /\ ~ HasRange(tag) /\ tag \in 1..5 /\ 4 + 1 = 5
  BY DEF IdsAfter, HasRange
<1>5. Finished(w, 5)
  BY <1>2 DEF Finished
<1>6. DecodeCommand(w) = Ok(CommandOf(tag, w, ReadRange(w, 5)))
  BY <1>2, <1>3, <1>4, <1>5 DEF DecodeCommand
<1>7. CommandOf(tag, w, ReadRange(w, 5)) =
        CASE tag = 1 -> [op |-> "AddAsset", asset |-> id]
          [] tag = 2 -> [op |-> "AddTrack", track |-> id]
          [] OTHER -> [op |-> "RemoveClip", clip |-> id]
  BY <1>2 DEF CommandOf
<1>8. QED
  BY <1>2, <1>6, <1>7

\* What follows a head.
LEMMA HoldsTail ==
  ASSUME NEW h \in Seq(Nat), NEW r \in Seq(Nat)
  PROVE  /\ h \o r \in Seq(Nat) /\ Len(h \o r) = Len(h) + Len(r)
         /\ \A i \in 1..Len(h) : (h \o r)[i] = h[i]
         /\ Holds(h \o r, 1 + Len(h), r)
<1> DEFINE w == h \o r
<1>1. /\ w \in Seq(Nat) /\ Len(w) = Len(h) + Len(r)
      /\ \A i \in 1..Len(h) : w[i] = h[i]
  BY Concatenation, Zenon
<1>2. 1 \in Nat \ {0}
  OBVIOUS
<1> HIDE DEF w
<1>3. Holds(w, 1, h \o r)
  BY <1>1, HoldsAll DEF w
<1>4. Holds(w, 1 + Len(h), r)
  BY <1>1, <1>2, <1>3, HoldsParts
<1>5. QED
  BY <1>1, <1>4 DEF w

AddClipStream(w, clip, asset, track, range) ==
  w = <<CommandMagic, CONTRACT_SCHEMA_VERSION, 3, clip, asset, track>>
        \o RangeWords(range)
MoveClipStream(w, clip, range) ==
  w = <<CommandMagic, CONTRACT_SCHEMA_VERSION, 4, clip>> \o RangeWords(range)

LEMMA AddClipWords ==
  ASSUME NEW clip \in Nat, NEW asset \in Nat, NEW track \in Nat,
         NEW range \in TimeRange, NEW w,
         AddClipStream(w, clip, asset, track, range)
  PROVE  /\ w \in Seq(Nat) /\ Len(w) = 10
         /\ DecodeCommand(w) =
              Ok([op |-> "AddClip", clip |-> clip, asset |-> asset,
                  track |-> track, range |-> range])
<1> DEFINE h == <<CommandMagic, CONTRACT_SCHEMA_VERSION, 3, clip, asset,
                  track>>
<1>1. CommandMagic \in Nat /\ CONTRACT_SCHEMA_VERSION \in Nat
  BY DEF CommandMagic, CONTRACT_SCHEMA_VERSION
<1>2. /\ h \in Seq(Nat) /\ Len(h) = 6 /\ h[1] = CommandMagic
      /\ h[2] = CONTRACT_SCHEMA_VERSION /\ h[3] = 3 /\ h[4] = clip /\ h[5] = asset
      /\ h[6] = track
  BY <1>1
<1> DEFINE r == RangeWords(range)
<1>3. r \in Seq(Nat) /\ Len(r) = 4
  BY RangeWordsType
<1>4. w = h \o r
  BY DEF AddClipStream
<1> HIDE DEF r, h
<1>5. /\ w \in Seq(Nat) /\ Len(w) = Len(h) + Len(r)
      /\ \A i \in 1..Len(h) : w[i] = h[i]
      /\ Holds(w, 1 + Len(h), r)
  <2>1. /\ h \o r \in Seq(Nat) /\ Len(h \o r) = Len(h) + Len(r)
        /\ \A i \in 1..Len(h) : (h \o r)[i] = h[i]
        /\ Holds(h \o r, 1 + Len(h), r)
    BY <1>2, <1>3, HoldsTail, Zenon
  <2>2. QED
    BY <1>4, <2>1, Zenon
<1>6. Len(w) = 10
  BY <1>2, <1>3, <1>5
<1>7. \A i \in 1..6 : w[i] = h[i]
  BY <1>2, <1>5
<1>8. /\ w[1] = CommandMagic /\ w[2] = CONTRACT_SCHEMA_VERSION /\ w[3] = 3
      /\ w[4] = clip /\ w[5] = asset /\ w[6] = track
  BY <1>2, <1>7
<1>9. ReadRange(w, 7) = Read(11, range)
  <2>3. 1 + Len(h) = 7 /\ 7 \in Nat \ {0} /\ 7 + 4 = 11
    BY <1>2
  <2>4. Holds(w, 7, RangeWords(range))
    BY <1>5, <2>3 DEF r
  <2>5. ReadRange(w, 7) = Read(7 + 4, range)
    BY <1>5, <2>3, <2>4, ReadRangeEncoded
  <2>6. QED
    BY <2>3, <2>5
<1>10. HeaderIs(w, CommandMagic) /\ Takes(w, 3, 1) /\ Takes(w, 4, 3)
  BY <1>6, <1>8 DEF HeaderIs, Takes, Failed
<1>11. IdsAfter(3) = 3 /\ HasRange(3) /\ 3 \in 1..5 /\ 4 + 3 = 7
  BY DEF IdsAfter, HasRange
<1>12. Finished(w, 11)
  BY <1>6 DEF Finished
<1>13. ReadRange(w, 7).at = 11 /\ ReadRange(w, 7).value = range
  BY <1>9 DEF Read
<1>14. DecodeCommand(w) = Ok(CommandOf(3, w, ReadRange(w, 7)))
  BY <1>8, <1>10, <1>11, <1>12, <1>13 DEF DecodeCommand
<1>15. CommandOf(3, w, ReadRange(w, 7)) =
         [op |-> "AddClip", clip |-> clip, asset |-> asset, track |-> track,
          range |-> range]
  BY <1>8, <1>13 DEF CommandOf
<1>16. QED
  BY <1>5, <1>6, <1>14, <1>15

LEMMA MoveClipWords ==
  ASSUME NEW k \in Nat, NEW range \in TimeRange,
         NEW w, MoveClipStream(w, k, range)
  PROVE  /\ w \in Seq(Nat) /\ Len(w) = 8
         /\ DecodeCommand(w) =
              Ok([op |-> "MoveClip", clip |-> k, range |-> range])
<1> DEFINE h == <<CommandMagic, CONTRACT_SCHEMA_VERSION, 4, k>>
<1>1. CommandMagic \in Nat /\ CONTRACT_SCHEMA_VERSION \in Nat
  BY DEF CommandMagic, CONTRACT_SCHEMA_VERSION
<1>2. /\ h \in Seq(Nat) /\ Len(h) = 4 /\ h[1] = CommandMagic
      /\ h[2] = CONTRACT_SCHEMA_VERSION /\ h[3] = 4 /\ h[4] = k
  BY <1>1
<1> DEFINE r == RangeWords(range)
<1>3. r \in Seq(Nat) /\ Len(r) = 4
  BY RangeWordsType
<1>4. w = h \o r
  BY DEF MoveClipStream
<1> HIDE DEF r, h
<1>5. /\ w \in Seq(Nat) /\ Len(w) = Len(h) + Len(r)
      /\ \A i \in 1..Len(h) : w[i] = h[i]
      /\ Holds(w, 1 + Len(h), r)
  <2>1. /\ h \o r \in Seq(Nat) /\ Len(h \o r) = Len(h) + Len(r)
        /\ \A i \in 1..Len(h) : (h \o r)[i] = h[i]
        /\ Holds(h \o r, 1 + Len(h), r)
    BY <1>2, <1>3, HoldsTail, Zenon
  <2>2. QED
    BY <1>4, <2>1, Zenon
<1>6. Len(w) = 8
  BY <1>2, <1>3, <1>5
<1>7. \A i \in 1..4 : w[i] = h[i]
  BY <1>2, <1>5
<1>8. /\ w[1] = CommandMagic /\ w[2] = CONTRACT_SCHEMA_VERSION /\ w[3] = 4
      /\ w[4] = k
  BY <1>2, <1>7
<1>9. ReadRange(w, 5) = Read(9, range)
  <2>3. 1 + Len(h) = 5 /\ 5 \in Nat \ {0} /\ 5 + 4 = 9
    BY <1>2
  <2>4. Holds(w, 5, RangeWords(range))
    BY <1>5, <2>3 DEF r
  <2>5. ReadRange(w, 5) = Read(5 + 4, range)
    BY <1>5, <2>3, <2>4, ReadRangeEncoded
  <2>6. QED
    BY <2>3, <2>5
<1>10. HeaderIs(w, CommandMagic) /\ Takes(w, 3, 1) /\ Takes(w, 4, 1)
  BY <1>6, <1>8 DEF HeaderIs, Takes, Failed
<1>11. IdsAfter(4) = 1 /\ HasRange(4) /\ 4 \in 1..5 /\ 4 + 1 = 5
  BY DEF IdsAfter, HasRange
<1>12. Finished(w, 9)
  BY <1>6 DEF Finished
<1>13. ReadRange(w, 5).at = 9 /\ ReadRange(w, 5).value = range
  BY <1>9 DEF Read
<1>14. DecodeCommand(w) = Ok(CommandOf(4, w, ReadRange(w, 5)))
  BY <1>8, <1>10, <1>11, <1>12, <1>13 DEF DecodeCommand
<1>15. CommandOf(4, w, ReadRange(w, 5)) =
         [op |-> "MoveClip", clip |-> k, range |-> range]
  BY <1>8, <1>13 DEF CommandOf
<1>16. QED
  BY <1>5, <1>6, <1>14, <1>15

\* The words of a command: how many there are of each kind.
CommandLength(op) ==
  CASE op = "AddClip" -> 10 [] op = "MoveClip" -> 8 [] OTHER -> 4

\* Every command is read back, from as many words as its kind takes.
LEMMA CommandEncoded ==
  ASSUME NEW c \in Command
  PROVE  /\ EncodeCommand(c) \in Seq(Nat)
         /\ Len(EncodeCommand(c)) = CommandLength(c.op)
         /\ DecodeCommand(EncodeCommand(c)) = Ok(c)
<1> DEFINE w == EncodeCommand(c)
           M == CommandMagic
           V == CONTRACT_SCHEMA_VERSION
<1>1. /\ AssetIds \subseteq Nat /\ TrackIds \subseteq Nat
      /\ ClipIds \subseteq Nat /\ Ranges = TimeRange
  BY WordAssumption DEF Word, u64
<1>2. CASE c.op = "AddAsset"
  <2>1. c.asset \in Nat /\ c = [op |-> "AddAsset", asset |-> c.asset]
    BY <1>1, <1>2 DEF Command
  <2>2. w = <<M, V>> \o (<<1>> \o <<c.asset>>)
    BY <1>2 DEF EncodeCommand, AssetWords
  <2> DEFINE id == c.asset
  <2> HIDE DEF w, id
  <2>3. id \in Nat /\ 1 \in Nat
    BY <2>1 DEF id
  <2> DEFINE pair == <<1>> \o <<id>>
  <2>4. ShortWords(w, 1, id)
    <3>1. PairOf(pair, 1, id)
      BY <2>3, Pairs
    <3>2. w = <<M, V>> \o pair
      BY <2>2 DEF id
    <3> HIDE DEF pair
    <3>3. QED
      BY <3>1, <3>2, ShortWordsOf
  <2>5. /\ w \in Seq(Nat) /\ Len(w) = 4
        /\ DecodeCommand(w) = Ok([op |-> "AddAsset", asset |-> id])
    BY <2>3, <2>4, ShortCommand
  <2>6. QED
    BY <1>2, <2>1, <2>5 DEF CommandLength, w, id
<1>3. CASE c.op = "AddTrack"
  <2>1. c.track \in Nat /\ c = [op |-> "AddTrack", track |-> c.track]
    BY <1>1, <1>3 DEF Command
  <2>2. w = <<M, V>> \o <<2, c.track>>
    BY <1>3 DEF EncodeCommand
  <2> DEFINE id == c.track
  <2> HIDE DEF w, id
  <2>3. id \in Nat /\ 2 \in Nat
    BY <2>1 DEF id
  <2> DEFINE pair == <<2, id>>
  <2>4. ShortWords(w, 2, id)
    <3>1. PairOf(pair, 2, id)
      BY <2>3, Pairs
    <3>2. w = <<M, V>> \o pair
      BY <2>2 DEF id
    <3> HIDE DEF pair
    <3>3. QED
      BY <3>1, <3>2, ShortWordsOf
  <2>5. /\ w \in Seq(Nat) /\ Len(w) = 4
        /\ DecodeCommand(w) = Ok([op |-> "AddTrack", track |-> id])
    BY <2>3, <2>4, ShortCommand
  <2>6. QED
    BY <1>3, <2>1, <2>5 DEF CommandLength, w, id
<1>4. CASE c.op = "AddClip"
  <2>1. /\ c.clip \in Nat /\ c.asset \in Nat /\ c.track \in Nat
        /\ c.range \in TimeRange
        /\ c = [op |-> "AddClip", clip |-> c.clip, asset |-> c.asset,
                track |-> c.track, range |-> c.range]
    BY <1>1, <1>4 DEF Command
  <2> DEFINE r == RangeWords(c.range)
             id == c.clip  assetId == c.asset  trackId == c.track
             h == <<M, V, 3, id, assetId, trackId>>
  <2>2. w = <<M, V>> \o (<<3, id, assetId, trackId>> \o r)
    BY <1>4 DEF EncodeCommand
  <2>3. r \in Seq(Nat)
    BY <2>1, RangeWordsType
  <2> HIDE DEF M, V, w, r, id, assetId, trackId
  <2>4. w = h \o r
    BY <2>2, <2>3
  <2>5. id \in Nat /\ assetId \in Nat /\ trackId \in Nat
    BY <2>1 DEF id, assetId, trackId
  <2>6. AddClipStream(w, id, assetId, trackId, c.range)
    BY <2>4 DEF AddClipStream, M, V, r
  <2>8. /\ w \in Seq(Nat) /\ Len(w) = 10
        /\ DecodeCommand(w) =
             Ok([op |-> "AddClip", clip |-> id, asset |-> assetId, track |-> trackId,
                 range |-> c.range])
    BY <2>1, <2>5, <2>6, AddClipWords
  <2>9. QED
    BY <1>4, <2>1, <2>8 DEF CommandLength, w, id, assetId, trackId
<1>5. CASE c.op = "MoveClip"
  <2>1. /\ c.clip \in Nat /\ c.range \in TimeRange
        /\ c = [op |-> "MoveClip", clip |-> c.clip, range |-> c.range]
    BY <1>1, <1>5 DEF Command
  <2> DEFINE r == RangeWords(c.range)
             k == c.clip
             h == <<M, V, 4, k>>
  <2>2. w = <<M, V>> \o (<<4, k>> \o r)
    BY <1>5 DEF EncodeCommand
  <2>3. r \in Seq(Nat)
    BY <2>1, RangeWordsType
  <2> HIDE DEF M, V, w, r, k
  <2>4. w = h \o r
    BY <2>2, <2>3
  <2>5. k \in Nat
    BY <2>1 DEF k
  <2>6. MoveClipStream(w, k, c.range)
    BY <2>4 DEF MoveClipStream, M, V, r
  <2>8. /\ w \in Seq(Nat) /\ Len(w) = 8
        /\ DecodeCommand(w) =
             Ok([op |-> "MoveClip", clip |-> k, range |-> c.range])
    BY <2>1, <2>5, <2>6, MoveClipWords
  <2>9. QED
    BY <1>5, <2>1, <2>8 DEF CommandLength, w, k
<1>6. CASE c.op = "RemoveClip"
  <2>1. c.clip \in Nat /\ c = [op |-> "RemoveClip", clip |-> c.clip]
    BY <1>1, <1>6 DEF Command
  <2>2. w = <<M, V>> \o <<5, c.clip>>
    BY <1>6 DEF EncodeCommand
  <2> DEFINE id == c.clip
  <2> HIDE DEF w, id
  <2>3. id \in Nat /\ 5 \in Nat
    BY <2>1 DEF id
  <2> DEFINE pair == <<5, id>>
  <2>4. ShortWords(w, 5, id)
    <3>1. PairOf(pair, 5, id)
      BY <2>3, Pairs
    <3>2. w = <<M, V>> \o pair
      BY <2>2 DEF id
    <3> HIDE DEF pair
    <3>3. QED
      BY <3>1, <3>2, ShortWordsOf
  <2>5. /\ w \in Seq(Nat) /\ Len(w) = 4
        /\ DecodeCommand(w) = Ok([op |-> "RemoveClip", clip |-> id])
    BY <2>3, <2>4, ShortCommand
  <2>6. QED
    BY <1>6, <2>1, <2>5 DEF CommandLength, w, id
<1>7. QED
  BY <1>2, <1>3, <1>4, <1>5, <1>6, CommandCases

-----------------------------------------------------------------------------
(* How long a list is when it is written.                                  *)

\* The words that lie between positions which grow chunk by chunk.
Spaced(chunks, pos) ==
  /\ pos \in [0..Len(chunks) -> Nat]
  /\ \A i \in 1..Len(chunks) : pos[i] = pos[i - 1] + Len(chunks[i])

\* A counted list whose entries are spaced by their lengths.
LEMMA CountedLength ==
  ASSUME NEW chunks \in Seq(Seq(Nat)), NEW pos, Spaced(chunks, pos)
  PROVE  pos[Len(chunks)] + 1 = pos[0] + Len(Counted(chunks))
<1> DEFINE n == Len(chunks)
<1>1. n \in Nat /\ \A i \in 1..n : chunks[i] \in Seq(Nat)
  OBVIOUS
<1>2. PICK f : Partial(chunks, f)
  BY FlattenPartial
<1>3. /\ f \in [0..n -> Seq(Nat)] /\ f[0] = <<>>
      /\ \A i \in 1..n : f[i] = f[i - 1] \o chunks[i]
      /\ Seqs!FlattenSeq(chunks) = f[n]
  BY <1>2 DEF Partial
<1>4. /\ pos \in [0..n -> Nat]
      /\ \A i \in 1..n : pos[i] = pos[i - 1] + Len(chunks[i])
  BY DEF Spaced
<1>5. Counted(chunks) = <<n>> \o f[n]
  BY <1>3 DEF Counted
<1> HIDE DEF n
<1> DEFINE T == {m \in Nat : m <= n => pos[m] = pos[0] + Len(f[m])}
<1>6. 0 \in T
  <2>1. 0 \in 0..n
    BY <1>1
  <2>2. pos[0] \in Nat /\ Len(f[0]) = 0
    BY <1>3, <1>4, <2>1
  <2>3. QED
    BY <2>2
<1>7. ASSUME NEW m \in T PROVE m + 1 \in T
  <2>1. SUFFICES ASSUME m + 1 <= n PROVE pos[m + 1] = pos[0] + Len(f[m + 1])
    OBVIOUS
  <2>2. /\ m \in Nat /\ m \in 0..n /\ m + 1 \in 1..n /\ 0 \in 0..n
        /\ m + 1 - 1 = m
    BY <1>1, <2>1
  <2>3. pos[m] = pos[0] + Len(f[m])
    BY <1>1, <2>1, <2>2
  <2>4. pos[m + 1] = pos[m] + Len(chunks[m + 1])
    BY <1>4, <2>2
  <2>5. f[m + 1] = f[m] \o chunks[m + 1]
    <3> DEFINE j == m + 1
    <3>1. j \in 1..n /\ j - 1 = m
      BY <2>2
    <3> HIDE DEF j
    <3>2. f[j] = f[j - 1] \o chunks[j]
      BY <1>3, <3>1
    <3>3. QED
      BY <3>1, <3>2 DEF j
  <2>6. f[m] \in Seq(Nat) /\ chunks[m + 1] \in Seq(Nat)
    BY <1>1, <1>3, <2>2
  <2> DEFINE a == f[m]
             b == chunks[m + 1]
  <2>7. Len(a \o b) = Len(a) + Len(b) /\ Len(a) \in Nat /\ Len(b) \in Nat
    BY <2>6
  <2>8. pos[0] \in Nat
    BY <1>4, <2>2
  <2> DEFINE la == Len(a)
             lb == Len(b)
             x == pos[0]
  <2>9. pos[m + 1] = (x + la) + lb /\ Len(f[m + 1]) = la + lb
    BY <2>3, <2>4, <2>5, <2>7
  <2>10. la \in Nat /\ lb \in Nat /\ x \in Nat
    BY <2>7, <2>8
  <2> HIDE DEF la, lb, x
  <2>11. (x + la) + lb = x + (la + lb)
    BY <2>10
  <2>12. QED
    BY <2>9, <2>11 DEF x
<1>8. T = Nat
  <2>1. T \in SUBSET Nat
    OBVIOUS
  <2> HIDE DEF T
  <2>2. QED
    BY <1>6, <1>7, <2>1, SetInduction
<1>9. pos[n] = pos[0] + Len(f[n])
  BY <1>1, <1>8
<1>10. n \in 0..n /\ 0 \in 0..n
  BY <1>1
<1>11. f[n] \in Seq(Nat) /\ pos[0] \in Nat
  BY <1>3, <1>4, <1>10
<1>12. <<n>> \in Seq(Nat) /\ Len(<<n>>) = 1
  BY <1>1
<1>13. Len(<<n>> \o f[n]) = Len(<<n>>) + Len(f[n])
  BY <1>11, <1>12, Concatenation, Zenon
<1>14. Len(f[n]) \in Nat
  BY <1>11
<1> DEFINE l == Len(f[n])
           x == pos[0]
           all == Len(Counted(chunks))
<1>15. all = 1 + l /\ pos[n] = x + l /\ l \in Nat /\ x \in Nat
  BY <1>5, <1>9, <1>11, <1>12, <1>13, <1>14
<1> HIDE DEF l, x, all
<1>16. pos[n] + 1 = x + all
  BY <1>15
<1>17. QED
  BY <1>16 DEF n, x, all

-----------------------------------------------------------------------------
(* The length does not depend on the order of the list: it counts the      *)
(* slots of the entries.                                                   *)

Slots(S, size) == {y \in S \X Nat : y[2] \in 1..size[y[1]]}

Grows(R, x, size) ==
  /\ IsFiniteSet(Slots(R \cup {x}, size))
  /\ Cardinality(Slots(R \cup {x}, size)) =
       Cardinality(Slots(R, size)) + size[x]

LEMMA SlotsAdd ==
  ASSUME NEW S, NEW size \in [S -> Nat], NEW R \in SUBSET S, NEW x \in S \ R,
         IsFiniteSet(Slots(R, size))
  PROVE  Grows(R, x, size)
<1> DEFINE n == size[x]
           I == 1..n
           new == {x} \X I
           old == Slots(R, size)
<1>1. n \in Nat
  OBVIOUS
<1>2. IsFiniteSet(I) /\ Cardinality(I) = n
  <2>1. 1 \in Int /\ n \in Int
    BY <1>1
  <2>2. IsFiniteSet(1..n) /\ Cardinality(1..n) = IF 1 > n THEN 0 ELSE n - 1 + 1
    BY <2>1, FS_Interval
  <2>3. QED
    BY <1>1, <2>2
<1> HIDE DEF n
<1>3. Slots(R \cup {x}, size) = old \cup new
  <2>1. ASSUME NEW y \in Slots(R \cup {x}, size) PROVE y \in old \cup new
    BY DEF Slots, n
  <2>2. ASSUME NEW y \in old PROVE y \in Slots(R \cup {x}, size)
    BY DEF Slots
  <2>3. ASSUME NEW y \in new PROVE y \in Slots(R \cup {x}, size)
    BY <1>1 DEF Slots, n
  <2>4. QED
    BY <2>1, <2>2, <2>3
<1>4. old \cap new = {}
  BY DEF Slots
<1> HIDE DEF I, old
<1>5. IsFiniteSet({x}) /\ Cardinality({x}) = 1
  BY FS_Singleton
<1>6. IsFiniteSet(new) /\ Cardinality(new) = n
  <2>1. IsFiniteSet({x} \X I) /\ Cardinality({x} \X I) = Cardinality({x}) * Cardinality(I)
    BY <1>2, <1>5, FS_Product
  <2>2. QED
    BY <1>1, <1>2, <1>5, <2>1
<1> HIDE DEF new
<1>7. IsFiniteSet(old)
  BY DEF old
<1>8. /\ IsFiniteSet(old \cup new)
      /\ Cardinality(old \cup new) =
           Cardinality(old) + Cardinality(new) - Cardinality(old \cap new)
  BY <1>6, <1>7, FS_Union
<1>9. Cardinality(old \cap new) = 0 /\ Cardinality(old) \in Nat
  BY <1>4, <1>7, FS_EmptySet, FS_CardinalityType
<1>10. Cardinality(old \cup new) = Cardinality(old) + n
  BY <1>1, <1>6, <1>8, <1>9
<1>11. QED
  BY <1>3, <1>8, <1>10, Zenon DEF Grows, old, n

\* The chunks of a list whose entries have these sizes.
Sized(list, chunks, size) ==
  /\ Len(chunks) = Len(list)
  /\ \A i \in 1..Len(list) : Len(chunks[i]) = size[list[i]]

\* A list of a set takes one word and a word for each slot.
LEMMA ListLength ==
  ASSUME NEW S, NEW list, ListOf(list, S), NEW chunks \in Seq(Seq(Nat)),
         NEW size \in [S -> Nat], Sized(list, chunks, size)
  PROVE  Len(Counted(chunks)) = 1 + Cardinality(Slots(S, size))
<1> DEFINE n == Len(list)
           Upto(m) == {list[i] : i \in 1..m}
           card(m) == Cardinality(Slots(Upto(m), size))
           pos == [m \in 0..n |-> card(m)]
<1>1. /\ list \in Seq(S) /\ n \in Nat /\ DOMAIN list = 1..n
      /\ \A i \in 1..n : list[i] \in S
      /\ \A i, j \in 1..n : list[i] = list[j] => i = j
      /\ S = Upto(n)
  BY DEF ListOf, Distinct
<1>2. Len(chunks) = n /\ \A i \in 1..n : Len(chunks[i]) = size[list[i]]
  BY DEF Sized
<1> HIDE DEF n
<1> DEFINE T == {m \in Nat : m <= n => IsFiniteSet(Slots(Upto(m), size))}
<1>3. Slots(Upto(0), size) = {}
  BY DEF Slots
<1>4. ASSUME NEW m \in Nat, m + 1 <= n
      PROVE  /\ Upto(m + 1) = Upto(m) \cup {list[m + 1]}
             /\ Upto(m) \in SUBSET S /\ list[m + 1] \in S \ Upto(m)
  <2>1. \A i \in 1..m + 1 : i \in 1..m \/ i = m + 1
    BY <1>4
  <2>2. \A i \in 1..m : i \in 1..m + 1 /\ i \in 1..n /\ i # m + 1
    BY <1>1, <1>4
  <2>3. m + 1 \in 1..m + 1 /\ m + 1 \in 1..n
    BY <1>1, <1>4
  <2>4. Upto(m + 1) = Upto(m) \cup {list[m + 1]}
    BY <2>1, <2>2, <2>3
  <2>5. Upto(m) \in SUBSET S
    BY <1>1, <2>2
  <2>6. list[m + 1] \in S \ Upto(m)
    BY <1>1, <2>2, <2>3
  <2>7. QED
    BY <2>4, <2>5, <2>6
<1> HIDE DEF Upto
<1>5. 0 \in T
  BY <1>3, FS_EmptySet
<1>6. ASSUME NEW m \in T PROVE m + 1 \in T
  <2>1. SUFFICES ASSUME m + 1 <= n
                 PROVE  IsFiniteSet(Slots(Upto(m + 1), size))
    OBVIOUS
  <2>2. m \in Nat /\ IsFiniteSet(Slots(Upto(m), size))
    BY <1>1, <2>1
  <2>3. /\ Upto(m + 1) = Upto(m) \cup {list[m + 1]}
        /\ Upto(m) \in SUBSET S /\ list[m + 1] \in S \ Upto(m)
    BY <1>4, <2>1, <2>2
  <2>4. QED
    <3>1. Grows(Upto(m), list[m + 1], size)
      BY <2>2, <2>3, SlotsAdd
    <3>2. QED
      BY <2>3, <3>1 DEF Grows
<1>7. T = Nat
  <2>1. T \in SUBSET Nat
    OBVIOUS
  <2> HIDE DEF T
  <2>2. QED
    BY <1>5, <1>6, <2>1, SetInduction
<1>8. \A m \in 0..n : IsFiniteSet(Slots(Upto(m), size)) /\ card(m) \in Nat
  <2>1. \A m \in 0..n : IsFiniteSet(Slots(Upto(m), size))
    BY <1>1, <1>7
  <2>2. QED
    BY <2>1, FS_CardinalityType
<1>9. ASSUME NEW i \in 1..n PROVE card(i) = card(i - 1) + Len(chunks[i])
  <2> DEFINE m == i - 1
  <2>1. m \in Nat /\ m + 1 = i /\ m + 1 <= n /\ m \in 0..n
    BY <1>1
  <2> HIDE DEF m
  <2>2. /\ Upto(m + 1) = Upto(m) \cup {list[m + 1]}
        /\ Upto(m) \in SUBSET S /\ list[m + 1] \in S \ Upto(m)
    BY <1>4, <2>1
  <2>3. IsFiniteSet(Slots(Upto(m), size))
    BY <1>8, <2>1
  <2>4. card(m + 1) = card(m) + size[list[m + 1]]
    <3> DEFINE R == Upto(m)
               x == list[m + 1]
    <3>1. R \in SUBSET S /\ x \in S \ R /\ IsFiniteSet(Slots(R, size))
      BY <2>2, <2>3
    <3>2. card(m + 1) = Cardinality(Slots(R \cup {x}, size))
      BY <2>2
    <3> HIDE DEF R, x, card
    <3>3. Grows(R, x, size)
      BY <3>1, SlotsAdd
    <3>4. QED
      BY <3>2, <3>3 DEF Grows, R, x, card
  <2>5. Len(chunks[i]) = size[list[i]]
    BY <1>2
  <2>6. QED
    BY <2>1, <2>4, <2>5 DEF m
<1>10. Spaced(chunks, pos)
  <2>1. pos \in [0..n -> Nat]
    BY <1>8
  <2>2. ASSUME NEW i \in 1..n PROVE pos[i] = pos[i - 1] + Len(chunks[i])
    <3>1. i \in 0..n /\ i - 1 \in 0..n
      BY <1>1
    <3>2. pos[i] = card(i) /\ pos[i - 1] = card(i - 1)
      BY <3>1
    <3>3. QED
      BY <1>9, <3>2
  <2> HIDE DEF pos
  <2>3. QED
    BY <1>2, <2>1, <2>2 DEF Spaced
<1>11. pos[n] + 1 = pos[0] + Len(Counted(chunks))
  <2> HIDE DEF pos
  <2>1. QED
    BY <1>2, <1>10, CountedLength
<1>12. pos[0] = 0 /\ pos[n] = Cardinality(Slots(S, size)) /\ pos[n] \in Nat
  <2>1. 0 \in 0..n /\ n \in 0..n
    BY <1>1
  <2>2. pos[0] = card(0) /\ pos[n] = card(n)
    BY <2>1
  <2>3. QED
    BY <1>1, <1>3, <1>8, <2>1, <2>2, FS_EmptySet
<1>13. Len(Counted(chunks)) \in Nat
  <2>1. Counted(chunks) \in Seq(Nat)
    BY CountedType
  <2>2. QED
    BY <2>1
<1>14. QED
  BY <1>11, <1>12, <1>13

AssetSizes(p) == [x \in p.assets |-> 1]
TrackSizes(p) == [x \in Tracks(p) |-> Len(TrackWords(p, x))]
ClipSizes(p) == [x \in Clips(p) |-> Len(ClipWords(p, x))]

EncodedLength(p) ==
  2 + (1 + Cardinality(Slots(p.assets, AssetSizes(p))))
    + (1 + Cardinality(Slots(Tracks(p), TrackSizes(p))))
    + (1 + Cardinality(Slots(Clips(p), ClipSizes(p))))

\* A project is written in as many words whatever the order of its maps.
LEMMA LengthOfEncoding ==
  ASSUME NEW p \in Project, NEW a, NEW t, NEW k,
         ListOf(a, p.assets), ListOf(t, Tracks(p)), ListOf(k, Clips(p))
  PROVE  Len(EncodeIn(p, a, t, k)) = EncodedLength(p)
<1> DEFINE A == Counted(AssetChunks(a))
           T == Counted(TrackChunks(p, t))
           K == Counted(ClipChunks(p, k))
<1>1. p.assets \subseteq AssetIds
  BY DEF Project
<1>2. /\ a \in Seq(AssetIds) /\ t \in Seq(Tracks(p)) /\ k \in Seq(Clips(p))
      /\ a \in Seq(p.assets)
  BY <1>1, SeqSubset DEF ListOf
<1>3. /\ AssetChunks(a) \in Seq(Seq(Nat)) /\ Len(AssetChunks(a)) = Len(a)
      /\ \A i \in 1..Len(a) : AssetChunks(a)[i] = AssetWords(a[i])
      /\ TrackChunks(p, t) \in Seq(Seq(Nat))
      /\ Len(TrackChunks(p, t)) = Len(t)
      /\ \A i \in 1..Len(t) : TrackChunks(p, t)[i] = TrackWords(p, t[i])
      /\ ClipChunks(p, k) \in Seq(Seq(Nat))
      /\ Len(ClipChunks(p, k)) = Len(k)
      /\ \A i \in 1..Len(k) : ClipChunks(p, k)[i] = ClipWords(p, k[i])
  BY <1>2, ChunksType
<1>4. /\ A \in Seq(Nat) /\ T \in Seq(Nat) /\ K \in Seq(Nat)
      /\ Len(EncodeIn(p, a, t, k)) = 2 + Len(A) + Len(T) + Len(K)
  BY <1>2, EncodedParts
<1>5. Len(A) = 1 + Cardinality(Slots(p.assets, AssetSizes(p)))
  <2>1. AssetSizes(p) \in [p.assets -> Nat]
    BY DEF AssetSizes
  <2>2. ASSUME NEW i \in 1..Len(a)
        PROVE  Len(AssetChunks(a)[i]) = AssetSizes(p)[a[i]]
    <3>1. a[i] \in p.assets
      BY <1>2
    <3>2. AssetChunks(a)[i] = AssetWords(a[i])
      BY <1>3
    <3>3. QED
      BY <3>1, <3>2 DEF AssetWords, AssetSizes
  <2>3. Sized(a, AssetChunks(a), AssetSizes(p))
    BY <1>3, <2>2 DEF Sized
  <2>4. QED
    BY <1>3, <2>1, <2>3, ListLength
<1>6. Len(T) = 1 + Cardinality(Slots(Tracks(p), TrackSizes(p)))
  <2>1. TrackSizes(p) \in [Tracks(p) -> Nat]
    <3>1. \A x \in Tracks(p) : Len(TrackWords(p, x)) \in Nat
      BY ChunkType
    <3>2. QED
      BY <3>1 DEF TrackSizes
  <2>2. ASSUME NEW i \in 1..Len(t)
        PROVE  Len(TrackChunks(p, t)[i]) = TrackSizes(p)[t[i]]
    <3>1. t[i] \in Tracks(p)
      BY <1>2
    <3>2. TrackChunks(p, t)[i] = TrackWords(p, t[i])
      BY <1>3
    <3>3. QED
      BY <3>1, <3>2 DEF TrackSizes
  <2>3. Sized(t, TrackChunks(p, t), TrackSizes(p))
    BY <1>3, <2>2 DEF Sized
  <2>4. QED
    BY <1>3, <2>1, <2>3, ListLength
<1>7. Len(K) = 1 + Cardinality(Slots(Clips(p), ClipSizes(p)))
  <2>1. ClipSizes(p) \in [Clips(p) -> Nat]
    <3>1. \A x \in Clips(p) : Len(ClipWords(p, x)) \in Nat
      BY ChunkType
    <3>2. QED
      BY <3>1 DEF ClipSizes
  <2>2. ASSUME NEW i \in 1..Len(k)
        PROVE  Len(ClipChunks(p, k)[i]) = ClipSizes(p)[k[i]]
    <3>1. k[i] \in Clips(p)
      BY <1>2
    <3>2. ClipChunks(p, k)[i] = ClipWords(p, k[i])
      BY <1>3
    <3>3. QED
      BY <3>1, <3>2 DEF ClipSizes
  <2>3. Sized(k, ClipChunks(p, k), ClipSizes(p))
    BY <1>3, <2>2 DEF Sized
  <2>4. QED
    BY <1>3, <2>1, <2>3, ListLength
<1>8. QED
  BY <1>4, <1>5, <1>6, <1>7 DEF EncodedLength

-----------------------------------------------------------------------------
(* The shape of what was read.                                             *)

\* A reader of values of V, each of its size.
Yields(w, entries, V, size) ==
  \A x \in Positions(w) : entries[x].at # Failed =>
    /\ entries[x].value \in V
    /\ entries[x].at = x + size[entries[x].value]

Steps(pos, at, read, size) ==
  /\ pos \in [0..Len(read.value) -> Nat]
  /\ pos[0] = at + 1 /\ pos[Len(read.value)] = read.at
  /\ \A i \in 1..Len(read.value) : pos[i] = pos[i - 1] + size[read.value[i]]

\* A list that was read has values of the right kind, each of its size.
LEMMA ListShape ==
  ASSUME NEW w \in Seq(Nat), NEW entries, NEW at \in Nat, Reader(w, entries),
         NEW V, NEW size, Yields(w, entries, V, size),
         ReadList(entries, w, at).at # Failed
  PROVE  /\ ReadList(entries, w, at).value \in Seq(V)
         /\ \E pos : Steps(pos, at, ReadList(entries, w, at), size)
<1> DEFINE read == ReadList(entries, w, at)
           n == w[at]
<1>1. n \in Nat /\ \E pos : Reads(entries, w, at, pos)
  BY ReadListReads
<1>2. PICK pos : Reads(entries, w, at, pos)
  BY <1>1
<1>3. /\ pos \in [0..n -> Positions(w) \ {0}] /\ Chain(entries, at, n, pos)
      /\ read = Read(pos[n], Listed(entries, n, pos))
  BY <1>2 DEF Reads
<1> HIDE DEF n, read
<1>4. ASSUME NEW i \in 1..n
      PROVE  /\ entries[pos[i - 1]].value \in V
             /\ pos[i] = pos[i - 1] + size[entries[pos[i - 1]].value]
  <2>1. i - 1 \in 0..n /\ i \in 0..n
    BY <1>1
  <2>2. pos[i - 1] \in Positions(w) /\ pos[i] # 0
    BY <1>3, <2>1
  <2>3. entries[pos[i - 1]].at = pos[i]
    BY <1>3 DEF Chain
  <2>4. QED
    BY <2>2, <2>3 DEF Yields, Failed
<1>5. read.at = pos[n] /\ read.value = [i \in 1..n |-> entries[pos[i - 1]].value]
  BY <1>3 DEF Read, Listed
<1>6. read.value \in [1..n -> V]
  BY <1>4, <1>5
<1>7. read.value \in Seq(V) /\ Len(read.value) = n
  BY <1>1, <1>6, FunctionSeq
<1>8. Positions(w) \subseteq Nat
  BY DEF Positions
<1>9. Steps(pos, at, read, size)
  <2>1. \A i \in 1..n : pos[i] = pos[i - 1] + size[read.value[i]]
    BY <1>4, <1>5
  <2>2. pos[0] = at + 1 /\ pos \in [0..n -> Nat]
    BY <1>3, <1>8 DEF Chain
  <2>3. QED
    BY <1>5, <1>7, <2>1, <2>2 DEF Steps
<1>10. QED
  BY <1>7, <1>9 DEF read

\* Writing it again takes as many words.
LEMMA ListWritten ==
  ASSUME NEW at \in Nat, NEW read, NEW size, NEW pos,
         Steps(pos, at, read, size), NEW chunks \in Seq(Seq(Nat)),
         Len(chunks) = Len(read.value),
         \A i \in 1..Len(chunks) : Len(chunks[i]) = size[read.value[i]]
  PROVE  read.at = at + Len(Counted(chunks))
<1> DEFINE n == Len(chunks)
<1>1. /\ pos \in [0..n -> Nat] /\ pos[0] = at + 1 /\ pos[n] = read.at
      /\ \A i \in 1..n : pos[i] = pos[i - 1] + Len(chunks[i])
  BY DEF Steps
<1>2. Spaced(chunks, pos)
  BY <1>1 DEF Spaced
<1>3. pos[n] + 1 = pos[0] + Len(Counted(chunks))
  BY <1>2, CountedLength
<1>4. Counted(chunks) \in Seq(Nat) /\ n \in Nat
  BY CountedType
<1>5. n \in 0..n
  BY <1>4
<1> HIDE DEF n
<1>6. pos[n] \in Nat
  BY <1>1, <1>5
<1> DEFINE l == Len(Counted(chunks))
<1>7. l \in Nat
  BY <1>4
<1>8. pos[n] + 1 = (at + 1) + l
  BY <1>1, <1>3
<1> DEFINE q == pos[n]
<1> HIDE DEF l, q
<1>9. q = at + l
  <2>1. q \in Nat /\ q + 1 = (at + 1) + l
    BY <1>6, <1>8 DEF q
  <2>2. QED
    BY <1>7, <2>1
<1>10. QED
  BY <1>1, <1>9 DEF l, q

LEMMA UnitSteps ==
  ASSUME NEW n \in Nat, NEW pos \in [0..n -> Nat],
         \A i \in 1..n : pos[i] = pos[i - 1] + 1
  PROVE  pos[n] = pos[0] + n
<1> DEFINE T == {m \in Nat : m <= n => pos[m] = pos[0] + m}
<1>1. 0 \in 0..n
  OBVIOUS
<1>2. 0 \in T
  BY <1>1
<1>3. ASSUME NEW m \in T PROVE m + 1 \in T
  <2>1. SUFFICES ASSUME m + 1 <= n PROVE pos[m + 1] = pos[0] + (m + 1)
    OBVIOUS
  <2>2. m \in 0..n /\ m + 1 \in 1..n /\ m + 1 - 1 = m
    BY <2>1
  <2>3. pos[m] = pos[0] + m /\ pos[0] \in Nat
    BY <1>1, <2>1, <2>2
  <2>4. pos[m + 1] = pos[m] + 1
    <3> DEFINE j == m + 1
    <3>1. j \in 1..n /\ j - 1 = m
      BY <2>2
    <3> HIDE DEF j
    <3>2. pos[j] = pos[j - 1] + 1
      BY <3>1
    <3>3. QED
      BY <3>1, <3>2 DEF j
  <2>5. QED
    BY <2>3, <2>4
<1>4. T = Nat
  <2>1. T \in SUBSET Nat
    OBVIOUS
  <2> HIDE DEF T
  <2>2. QED
    BY <1>2, <1>3, <2>1, SetInduction
<1>5. n \in T
  <2> HIDE DEF T
  <2>1. QED
    BY <1>4
<1>6. n <= n
  OBVIOUS
<1>7. QED
  BY <1>5, <1>6

\* An identity list that was read.
LEMMA IdsShape ==
  ASSUME NEW w \in Seq(Word), NEW at \in Nat, ReadIds(w, at).at # Failed
  PROVE  /\ ReadIds(w, at).value \in Seq(Word)
         /\ ReadIds(w, at).at = at + 1 + Len(ReadIds(w, at).value)
         /\ \E pos : Steps(pos, at, ReadIds(w, at), [x \in Word |-> 1])
<1> DEFINE size == [x \in Word |-> 1]
<1>1. w \in Seq(Nat)
  BY SeqSubset DEF Word, u64
<1>2. ASSUME NEW x \in Positions(w), WordsAt(w)[x].at # Failed
      PROVE  /\ WordsAt(w)[x].value \in Word
             /\ WordsAt(w)[x].at = x + size[WordsAt(w)[x].value]
  <2>1. WordsAt(w)[x] = ReadWord(w, x)
    BY DEF WordsAt
  <2>2. Takes(w, x, 1)
    BY <1>2, <2>1 DEF ReadWord, Fail, Read
  <2>3. x \in 1..Len(w)
    BY <1>1, <2>2 DEF Takes, Failed, Positions
  <2>4. WordsAt(w)[x] = Read(x + 1, w[x]) /\ w[x] \in Word
    BY <2>1, <2>2, <2>3 DEF ReadWord
  <2>5. QED
    BY <2>4 DEF Read
<1>3. Yields(w, WordsAt(w), Word, size)
  BY <1>2 DEF Yields
<1>4. Reader(w, WordsAt(w))
  BY <1>1, WordReader
<1> DEFINE read == ReadIds(w, at)
<1>5. read = ReadList(WordsAt(w), w, at)
  BY DEF ReadIds, WordsAt
<1> HIDE DEF size
<1>6. read.value \in Seq(Word) /\ \E pos : Steps(pos, at, read, size)
  BY <1>1, <1>3, <1>4, <1>5, ListShape
<1>7. PICK pos : Steps(pos, at, read, size)
  BY <1>6
<1> DEFINE n == Len(read.value)
<1>8. /\ n \in Nat /\ \A i \in 1..n : read.value[i] \in Word
  BY <1>6
<1>9. /\ pos \in [0..n -> Nat] /\ pos[0] = at + 1 /\ pos[n] = read.at
      /\ \A i \in 1..n : pos[i] = pos[i - 1] + 1
  BY <1>7, <1>8 DEF Steps, size
<1> HIDE DEF n, read
<1>10. pos[n] = pos[0] + n
  BY <1>8, <1>9, UnitSteps
<1>11. QED
  BY <1>6, <1>9, <1>10 DEF n, read, size

-----------------------------------------------------------------------------
(* What a stream decodes to is a project, and lists its maps.              *)

TrackEntry == [id : Word, clips : Seq(Word)]
ClipEntry == [id : Word, clip : Clip]
TrackSize == [v \in TrackEntry |-> Len(TrackChunk(v.id, v.clips))]
ClipSize == [v \in ClipEntry |-> 7]

LEMMA TrackChunkType ==
  ASSUME NEW id \in Nat, NEW s \in Seq(Nat)
  PROVE  /\ TrackChunk(id, s) \in Seq(Nat)
         /\ Len(TrackChunk(id, s)) = 2 + Len(s)
<1> DEFINE n == Len(s)
           h == <<id, n>>
<1>1. n \in Nat
  OBVIOUS
<1> HIDE DEF n
<1>2. h \in Seq(Nat) /\ Len(h) = 2
  BY <1>1
<1> HIDE DEF h
<1>3. h \o s \in Seq(Nat) /\ Len(h \o s) = Len(h) + Len(s)
  BY <1>2, Concatenation, Zenon
<1>4. TrackChunk(id, s) = h \o s
  BY DEF TrackChunk, h, n
<1>5. QED
  BY <1>2, <1>3, <1>4

\* A track takes the words it is written in ...
LEMMA TracksYield ==
  ASSUME NEW w \in Seq(Word)
  PROVE  Yields(w, TracksAt(w), TrackEntry, TrackSize)
<1>1. ASSUME NEW x \in Positions(w), TracksAt(w)[x].at # Failed
      PROVE  /\ TracksAt(w)[x].value \in TrackEntry
             /\ TracksAt(w)[x].at = x + TrackSize[TracksAt(w)[x].value]
  <2> DEFINE ids == ReadIds(w, x + 1)
             s == ids.value
  <2>1. TracksAt(w)[x] = ReadTrack(w, x)
    BY DEF TracksAt
  <2>2. Takes(w, x, 1) /\ ids.at # Failed
    BY <1>1, <2>1 DEF ReadTrack, Fail, Read
  <2>3. x \in 1..Len(w) /\ x \in Nat /\ x + 1 \in Nat
    BY <2>2 DEF Takes, Failed, Positions
  <2>4. s \in Seq(Word) /\ ids.at = x + 1 + 1 + Len(s)
    BY <2>2, <2>3, IdsShape
  <2>5. TracksAt(w)[x] = Read(ids.at, [id |-> w[x], clips |-> s])
    BY <2>1, <2>2 DEF ReadTrack
  <2> HIDE DEF ids, s
  <2> DEFINE v == [id |-> w[x], clips |-> s]
  <2>6. w[x] \in Word
    BY <2>3
  <2>7. v \in TrackEntry
    BY <2>4, <2>6 DEF TrackEntry
  <2>8. TrackSize[v] = 2 + Len(s)
    <3>1. TrackSize[v] = Len(TrackChunk(w[x], s))
      BY <2>7 DEF TrackSize
    <3>2. w[x] \in Nat /\ s \in Seq(Nat)
      BY <2>4, <2>6, SeqSubset DEF Word, u64
    <3>3. QED
      BY <3>1, <3>2, TrackChunkType
  <2>9. ids.at = x + (2 + Len(s))
    <3> DEFINE l == Len(s)
    <3>1. l \in Nat /\ ids.at = x + 1 + 1 + l
      BY <2>4
    <3> HIDE DEF l
    <3>2. ids.at = x + (2 + l)
      BY <2>3, <3>1
    <3>3. QED
      BY <3>2 DEF l
  <2> HIDE DEF v
  <2>10. QED
    BY <2>5, <2>7, <2>8, <2>9 DEF Read, v
<1>2. QED
  BY <1>1 DEF Yields

\* A value that new makes from a stream is one there is.
LEMMA NewInRationals ==
  ASSUME NEW n \in i64, NEW d \in i64, IsOk(New(n, d))
  PROVE  New(n, d).value \in Rationals
<1> DEFINE v == New(n, d).value
<1>1. n \in Int /\ d \in Int
  BY DEF i64
<1>2. v \in Rational /\ Coprime(v.num, v.den)
  BY <1>1, FromWideSound DEF New
<1> HIDE DEF v
<1> DEFINE m == v.num
           e == v.den
<1>3. m \in i64 /\ e \in 1..MaxInt /\ v = [num |-> m, den |-> e]
  BY <1>2 DEF Rational
<1>4. m \in Int /\ e \in Int \ {0} /\ e \in Nat \ {0} /\ m * e = m * e
  BY <1>3 DEF i64
<1> DEFINE u == New(m, e).value
<1>5. Coprime(m, e)
  BY <1>2
<1>6. u \in Rationals
  BY <1>3 DEF Rationals
<1> HIDE DEF m, e
<1>7. /\ u \in Rational /\ SameValue(u, <<m, e>>)
      /\ Coprime(u.num, u.den)
  BY <1>3, <1>4, FromWideExact DEF New
<1> HIDE DEF u
<1> DEFINE p == u.num
           q == u.den
<1>8. p \in Int /\ q \in Nat \ {0} /\ u = [num |-> p, den |-> q]
  BY <1>7 DEF Rational, i64
<1>9. p * e = m * q
  BY <1>7 DEF SameValue
<1>10. Coprime(p, q)
  BY <1>7
<1> HIDE DEF p, q
<1>11. m = p /\ e = q
  BY <1>4, <1>5, <1>8, <1>9, <1>10, LowestTermsUnique
<1>12. u = v
  BY <1>3, <1>8, <1>11
<1>13. QED
  BY <1>6, <1>12 DEF v

\* A range that was read is one there is.
LEMMA RangeValue ==
  ASSUME NEW w \in Seq(Word), NEW x \in Nat, ReadRange(w, x).at # Failed
  PROVE  ReadRange(w, x).value \in TimeRange
<1> DEFINE start == New(Signed(w[x]), Signed(w[x + 1]))
           end == New(Signed(w[x + 2]), Signed(w[x + 3]))
           s == start.value
           e == end.value
           range == NewRange(s, e)
<1>1. w \in Seq(Nat)
  BY SeqSubset DEF Word, u64
<1>2. Takes(w, x, 4)
  BY <1>1, RangeEnds
<1>3. /\ x \in 1..Len(w) /\ x + 1 \in 1..Len(w)
      /\ x + 2 \in 1..Len(w) /\ x + 3 \in 1..Len(w)
  BY <1>1, <1>2 DEF Takes, Failed
<1>4. /\ Signed(w[x]) \in i64 /\ Signed(w[x + 1]) \in i64
      /\ Signed(w[x + 2]) \in i64 /\ Signed(w[x + 3]) \in i64
  BY <1>3, SignedWord
<1>5. /\ IsOk(start) /\ IsOk(end) /\ IsOk(range)
      /\ ReadRange(w, x).value = range.value
  <2> DEFINE ok == IsOk(start) /\ IsOk(end) /\ IsOk(range)
             value == range.value
  <2>1. ReadRange(w, x) = IF ok THEN Read(x + 4, value) ELSE Fail
    BY <1>2 DEF ReadRange
  <2> HIDE DEF ok, value
  <2>2. ok
    BY <2>1 DEF Fail, Read
  <2>3. ReadRange(w, x).value = value
    BY <2>1, <2>2 DEF Read
  <2>4. QED
    BY <2>2, <2>3 DEF ok, value
<1>6. s \in Rationals /\ e \in Rationals
  BY <1>4, <1>5, NewInRationals
<1> HIDE DEF start, end, s, e
<1>7. ~ LessOrEqual(e, s)
  BY <1>5 DEF NewRange, IsOk, Err
<1>8. range.value = [start |-> s, end |-> e]
  BY <1>7 DEF NewRange, Ok
<1>9. s \in Rational /\ e \in Rational
  BY <1>6, RationalsReduced
<1>10. Less(s, e)
  <2> DEFINE a == s.num * e.den
             b == e.num * s.den
  <2>1. a \in Int /\ b \in Int
    BY <1>9 DEF Rational, i64
  <2>2. ~ (b <= a)
    BY <1>7 DEF LessOrEqual
  <2> HIDE DEF a, b
  <2>3. a < b
    BY <2>1, <2>2
  <2>4. QED
    BY <2>3 DEF Less, a, b
<1> HIDE DEF range
<1>11. range.value \in TimeRange
  BY <1>6, <1>8, <1>10 DEF TimeRange
<1>12. QED
  BY <1>5, <1>11 DEF range, s, e, start, end

\* ... and a clip takes seven.
LEMMA ClipsYield ==
  ASSUME NEW w \in Seq(Word)
  PROVE  Yields(w, ClipsAt(w), ClipEntry, ClipSize)
<1>1. ASSUME NEW x \in Positions(w), ClipsAt(w)[x].at # Failed
      PROVE  /\ ClipsAt(w)[x].value \in ClipEntry
             /\ ClipsAt(w)[x].at = x + ClipSize[ClipsAt(w)[x].value]
  <2> DEFINE range == ReadRange(w, x + 3)
             r == range.value
  <2>1. ClipsAt(w)[x] = ReadClip(w, x)
    BY DEF ClipsAt
  <2>2. Takes(w, x, 3) /\ range.at # Failed
    BY <1>1, <2>1 DEF ReadClip, Fail, Read
  <2>3. w \in Seq(Nat)
    BY SeqSubset DEF Word, u64
  <2>4. /\ x \in Nat /\ x + 3 \in Nat /\ x \in 1..Len(w)
        /\ x + 1 \in 1..Len(w) /\ x + 2 \in 1..Len(w)
    BY <2>2, <2>3 DEF Takes, Failed, Positions
  <2>5. range.at = x + 3 + 4
    BY <2>2, <2>3, <2>4, RangeEnds
  <2>6. r \in TimeRange
    BY <2>2, <2>4, RangeValue
  <2>7. w[x] \in Word /\ w[x + 1] \in Word /\ w[x + 2] \in Word
    BY <2>4
  <2> DEFINE clip == [asset |-> w[x + 1], track |-> w[x + 2], range |-> r]
             v == [id |-> w[x], clip |-> clip]
  <2>8. ReadClip(w, x) = Read(range.at, v)
    BY <2>2 DEF ReadClip
  <2> HIDE DEF range, r
  <2>9. clip \in Clip
    BY <2>6, <2>7, WordAssumption DEF Clip
  <2> HIDE DEF clip
  <2>10. v \in ClipEntry
    BY <2>7, <2>9 DEF ClipEntry
  <2> HIDE DEF v
  <2>11. ClipSize[v] = 7
    BY <2>10 DEF ClipSize
  <2>12. x + 3 + 4 = x + 7
    BY <2>4
  <2>13. QED
    BY <2>1, <2>5, <2>8, <2>10, <2>11, <2>12 DEF Read
<1>2. QED
  BY <1>1 DEF Yields

\* Distinct identities of a set, each with a value that is there.
Inserted(ids, values, keys, V) ==
  /\ Distinct(ids) /\ Absent \notin V
  /\ \A i \in DOMAIN ids : i \in Int /\ ids[i] \in keys /\ values[i] \in V

\* The map that inserting them leaves.
LEMMA MapOfShape ==
  ASSUME NEW ids, NEW values, NEW keys, NEW V, Inserted(ids, values, keys, V)
  PROVE  /\ MapOf(ids, values, keys) \in [keys -> V \cup {Absent}]
         /\ \A i \in DOMAIN ids : MapOf(ids, values, keys)[ids[i]] = values[i]
         /\ {key \in keys : MapOf(ids, values, keys)[key] # Absent} =
              {ids[i] : i \in DOMAIN ids}
<1> DEFINE place(key) == CHOOSE i \in DOMAIN ids : ids[i] = key
           g(key) == IF \E i \in DOMAIN ids : ids[i] = key
                     THEN values[place(key)] ELSE Absent
           f == [key \in keys |-> g(key)]
<1>1. /\ Distinct(ids) /\ Absent \notin V
      /\ \A i \in DOMAIN ids : i \in Int /\ ids[i] \in keys /\ values[i] \in V
  BY DEF Inserted
<1>2. ASSUME NEW i \in DOMAIN ids PROVE f[ids[i]] = values[i]
  <2> DEFINE x == place(ids[i])
  <2>1. x \in DOMAIN ids /\ ids[x] = ids[i]
    OBVIOUS
  <2>2. x = i
    <3> HIDE DEF x
    <3>1. QED
      BY <1>1, <2>1 DEF Distinct
  <2>3. g(ids[i]) = values[i]
    BY <2>2
  <2>4. QED
    BY <1>1, <2>3
<1>3. ASSUME NEW key \in keys, ~ \E i \in DOMAIN ids : ids[i] = key
      PROVE  f[key] = Absent
  BY <1>3
<1>4. f = [key \in keys |-> f[key]]
  OBVIOUS
<1> HIDE DEF f
<1>5. ListsMap(ids, values, keys, f)
  BY <1>1, <1>2, <1>3, <1>4 DEF ListsMap
<1>6. MapOf(ids, values, keys) = f
  BY <1>1, <1>5, MapOfListed
<1>7. ASSUME NEW key \in keys PROVE f[key] \in V \cup {Absent}
  <2>1. CASE \E i \in DOMAIN ids : ids[i] = key
    BY <1>1, <1>2, <2>1
  <2>2. CASE ~ \E i \in DOMAIN ids : ids[i] = key
    BY <1>3, <2>2
  <2>3. QED
    BY <2>1, <2>2
<1>8. f \in [keys -> V \cup {Absent}]
  BY <1>4, <1>7
<1>9. {key \in keys : f[key] # Absent} = {ids[i] : i \in DOMAIN ids}
  <2>1. ASSUME NEW key \in keys, f[key] # Absent
        PROVE  key \in {ids[i] : i \in DOMAIN ids}
    BY <1>3, <2>1
  <2>2. ASSUME NEW i \in DOMAIN ids
        PROVE  ids[i] \in keys /\ f[ids[i]] # Absent
    BY <1>1, <1>2
  <2>3. QED
    BY <2>1, <2>2
<1>10. QED
  BY <1>2, <1>6, <1>8, <1>9

\* What the three lists hold and where they end.
LEMMA ListsRead ==
  ASSUME NEW w \in Seq(Word), IsOk(DecodeProject(w))
  PROVE  /\ ReadAssets(w).value \in Seq(Word)
         /\ \E pos : Steps(pos, 3, ReadAssets(w), [x \in Word |-> 1])
         /\ ReadTracks(w).value \in Seq(TrackEntry)
         /\ \E pos : Steps(pos, ReadAssets(w).at, ReadTracks(w), TrackSize)
         /\ ReadClips(w).value \in Seq(ClipEntry)
         /\ \E pos : Steps(pos, ReadTracks(w).at, ReadClips(w), ClipSize)
<1>1. w \in Seq(Nat)
  BY SeqSubset DEF Word, u64
<1>2. /\ ReadAssets(w).at # Failed /\ ReadTracks(w).at # Failed
      /\ ReadClips(w).at # Failed
      /\ ReadAssets(w).at \in Nat /\ ReadTracks(w).at \in Nat
  BY <1>1, ProjectParts
<1>3. /\ ReadAssets(w).value \in Seq(Word)
      /\ \E pos : Steps(pos, 3, ReadAssets(w), [x \in Word |-> 1])
  BY <1>2, IdsShape, 3 \in Nat DEF ReadAssets
<1>4. /\ ReadTracks(w).value \in Seq(TrackEntry)
      /\ \E pos : Steps(pos, ReadAssets(w).at, ReadTracks(w), TrackSize)
  BY <1>1, <1>2, TrackReader, TracksYield, ListShape DEF ReadTracks
<1>5. /\ ReadClips(w).value \in Seq(ClipEntry)
      /\ \E pos : Steps(pos, ReadTracks(w).at, ReadClips(w), ClipSize)
  BY <1>1, <1>2, ClipReader, ClipsYield, ListShape DEF ReadClips
<1>6. QED
  BY <1>3, <1>4, <1>5

\* A stream that decodes holds a project, and its lists hold the maps.
LEMMA DecodedIsProject ==
  ASSUME NEW w \in Seq(Word), IsOk(DecodeProject(w))
  PROVE  /\ ReadProject(w) \in Project
         /\ ListOf(ReadAssets(w).value, ReadProject(w).assets)
         /\ ListOf(Ids(ReadTracks(w).value), Tracks(ReadProject(w)))
         /\ ListOf(Ids(ReadClips(w).value), Clips(ReadProject(w)))
         /\ ReadTracks(w).value =
              TrackValues(ReadProject(w), Ids(ReadTracks(w).value))
         /\ ReadClips(w).value =
              ClipValues(ReadProject(w), Ids(ReadClips(w).value))
<1> DEFINE a == ReadAssets(w).value
           tv == ReadTracks(w).value
           kv == ReadClips(w).value
           t == Ids(tv)
           k == Ids(kv)
           tracks == [i \in DOMAIN tv |-> tv[i].clips]
           clips == [i \in DOMAIN kv |-> kv[i].clip]
           p == ReadProject(w)
<1>1. w \in Seq(Nat)
  BY SeqSubset DEF Word, u64
<1>2. Distinct(a) /\ Distinct(t) /\ Distinct(k)
  BY <1>1, ProjectParts
<1>3. a \in Seq(Word) /\ tv \in Seq(TrackEntry) /\ kv \in Seq(ClipEntry)
  BY ListsRead
<1>4. p = [assets |-> {a[i] : i \in DOMAIN a},
           tracks |-> MapOf(t, tracks, TrackIds),
           clips |-> MapOf(k, clips, ClipIds)]
  BY DEF ReadProject, Assembled
<1> HIDE DEF a, tv, kv, p
<1>5. /\ DOMAIN tv = 1..Len(tv) /\ DOMAIN kv = 1..Len(kv)
      /\ Len(tv) \in Nat /\ Len(kv) \in Nat
      /\ tv = [i \in 1..Len(tv) |-> tv[i]] /\ kv = [i \in 1..Len(kv) |-> kv[i]]
  BY <1>3
<1>6. /\ \A i \in 1..Len(tv) : tv[i] \in TrackEntry
      /\ \A i \in 1..Len(kv) : kv[i] \in ClipEntry
  BY <1>3
<1>7. /\ DOMAIN t = 1..Len(tv) /\ \A i \in 1..Len(tv) : t[i] = tv[i].id
      /\ DOMAIN k = 1..Len(kv) /\ \A i \in 1..Len(kv) : k[i] = kv[i].id
      /\ \A i \in 1..Len(tv) : tracks[i] = tv[i].clips
      /\ \A i \in 1..Len(kv) : clips[i] = kv[i].clip
  BY <1>5 DEF Ids
<1> HIDE DEF t, k, tracks, clips
<1>8. ASSUME NEW i \in 1..Len(tv)
      PROVE  /\ t[i] \in TrackIds /\ tracks[i] \in Seq(ClipIds)
             /\ tv[i] = [id |-> t[i], clips |-> tracks[i]]
  BY <1>6, <1>7, WordAssumption DEF TrackEntry
<1>9. ASSUME NEW i \in 1..Len(kv)
      PROVE  /\ k[i] \in ClipIds /\ clips[i] \in Clip
             /\ kv[i] = [id |-> k[i], clip |-> clips[i]]
  BY <1>6, <1>7, WordAssumption DEF ClipEntry
<1>10. Inserted(t, tracks, TrackIds, Seq(ClipIds))
  <2>1. \A i \in DOMAIN t : i \in Int
    BY <1>5, <1>7
  <2>2. QED
    BY <1>2, <1>7, <1>8, <2>1, AbsentAssumption DEF Inserted
<1>11. Inserted(k, clips, ClipIds, Clip)
  <2>1. \A i \in DOMAIN k : i \in Int
    BY <1>5, <1>7
  <2>2. QED
    BY <1>2, <1>7, <1>9, <2>1, AbsentAssumption DEF Inserted
<1>12. /\ p.tracks \in [TrackIds -> Seq(ClipIds) \cup {Absent}]
       /\ \A i \in DOMAIN t : p.tracks[t[i]] = tracks[i]
       /\ {key \in TrackIds : p.tracks[key] # Absent} =
            {t[i] : i \in DOMAIN t}
  BY <1>4, <1>10, MapOfShape
<1>13. /\ p.clips \in [ClipIds -> Clip \cup {Absent}]
       /\ \A i \in DOMAIN k : p.clips[k[i]] = clips[i]
       /\ {key \in ClipIds : p.clips[key] # Absent} = {k[i] : i \in DOMAIN k}
  BY <1>4, <1>11, MapOfShape
<1>14. p.assets = {a[i] : i \in DOMAIN a} /\ p.assets \in SUBSET AssetIds
  BY <1>3, <1>4, WordAssumption
<1>15. p \in Project
  <2>1. p = [assets |-> p.assets, tracks |-> p.tracks, clips |-> p.clips]
    BY <1>4
  <2>2. QED
    BY <1>12, <1>13, <1>14, <2>1 DEF Project
<1>16. ListOf(a, p.assets)
  <2>1. \A i \in 1..Len(a) : a[i] \in p.assets
    BY <1>3, <1>14
  <2>2. a \in [1..Len(a) -> p.assets] /\ Len(a) \in Nat
    BY <1>3, <2>1
  <2>3. a \in Seq(p.assets)
    BY <2>2, FunctionSeq
  <2>4. QED
    BY <1>2, <1>14, <2>3 DEF ListOf
<1>17. t = [i \in 1..Len(tv) |-> t[i]] /\ k = [i \in 1..Len(kv) |-> k[i]]
  <2>1. t = [i \in DOMAIN tv |-> tv[i].id] /\ k = [i \in DOMAIN kv |-> kv[i].id]
    BY DEF t, k, Ids
  <2>2. QED
    BY <1>5, <1>7, <2>1
<1>18. ListOf(t, Tracks(p)) /\ Len(t) = Len(tv)
  <2>1. Tracks(p) = {t[i] : i \in DOMAIN t}
    BY <1>12 DEF Tracks, HasTrack
  <2>2. t \in [1..Len(tv) -> Tracks(p)]
    BY <1>7, <1>17, <2>1
  <2>3. t \in Seq(Tracks(p)) /\ Len(t) = Len(tv)
    BY <1>5, <2>2, FunctionSeq
  <2>4. QED
    BY <1>2, <2>1, <2>3 DEF ListOf
<1>19. ListOf(k, Clips(p)) /\ Len(k) = Len(kv)
  <2>1. Clips(p) = {k[i] : i \in DOMAIN k}
    BY <1>13 DEF Clips, HasClip
  <2>2. k \in [1..Len(kv) -> Clips(p)]
    BY <1>7, <1>17, <2>1
  <2>3. k \in Seq(Clips(p)) /\ Len(k) = Len(kv)
    BY <1>5, <2>2, FunctionSeq
  <2>4. QED
    BY <1>2, <2>1, <2>3 DEF ListOf
<1>20. tv = TrackValues(p, t)
  <2>1. \A i \in 1..Len(tv) : tv[i] = [id |-> t[i], clips |-> p.tracks[t[i]]]
    BY <1>7, <1>8, <1>12
  <2>2. QED
    BY <1>5, <1>18, <2>1 DEF TrackValues
<1>21. kv = ClipValues(p, k)
  <2>1. \A i \in 1..Len(kv) : kv[i] = [id |-> k[i], clip |-> p.clips[k[i]]]
    BY <1>7, <1>9, <1>13
  <2>2. QED
    BY <1>5, <1>19, <2>1 DEF ClipValues
<1>22. QED
  BY <1>15, <1>16, <1>18, <1>19, <1>20, <1>21 DEF p, a, t, k, tv, kv

LEMMA ClipLength ==
  ASSUME NEW p \in Project, NEW k \in Clips(p)
  PROVE  Len(ClipWords(p, k)) = 7
<1> DEFINE c == p.clips[k]
           h == <<k, c.asset, c.track>>
           r == RangeWords(c.range)
<1>1. k \in Nat /\ c.asset \in Nat /\ c.track \in Nat /\ c.range \in TimeRange
  BY ClipFields
<1>2. r \in Seq(Nat) /\ Len(r) = 4
  BY <1>1, RangeWordsType
<1>3. h \in Seq(Nat) /\ Len(h) = 3
  BY <1>1
<1>4. ClipWords(p, k) = h \o r
  BY DEF ClipWords
<1> HIDE DEF h, r
<1>5. Len(h \o r) = Len(h) + Len(r)
  BY <1>2, <1>3, Concatenation, Zenon
<1>6. QED
  BY <1>2, <1>3, <1>4, <1>5

\* Writing what was read takes as many words as reading it took.
LEMMA DecodedLength ==
  ASSUME NEW w \in Seq(Word), IsOk(DecodeProject(w))
  PROVE  Len(w) = EncodedLength(ReadProject(w))
<1> DEFINE a == ReadAssets(w).value
           tv == ReadTracks(w).value
           kv == ReadClips(w).value
           t == Ids(tv)
           k == Ids(kv)
           p == ReadProject(w)
           A == AssetChunks(a)
           T == TrackChunks(p, t)
           K == ClipChunks(p, k)
           one == [x \in Word |-> 1]
<1>1. w \in Seq(Nat)
  BY SeqSubset DEF Word, u64
<1>2. /\ ReadClips(w).at = Len(w) + 1
      /\ ReadAssets(w).at \in Nat /\ ReadTracks(w).at \in Nat
  BY <1>1, ProjectParts
<1>3. /\ p \in Project /\ ListOf(a, p.assets)
      /\ ListOf(t, Tracks(p)) /\ ListOf(k, Clips(p))
      /\ tv = TrackValues(p, t) /\ kv = ClipValues(p, k)
  BY DecodedIsProject
<1>4. /\ \E pos : Steps(pos, 3, ReadAssets(w), one)
      /\ \E pos : Steps(pos, ReadAssets(w).at, ReadTracks(w), TrackSize)
      /\ \E pos : Steps(pos, ReadTracks(w).at, ReadClips(w), ClipSize)
      /\ a \in Seq(Word) /\ tv \in Seq(TrackEntry) /\ kv \in Seq(ClipEntry)
  BY ListsRead
<1> HIDE DEF a, tv, kv, t, k, p, one
<1>5. p.assets \subseteq AssetIds
  BY <1>3 DEF Project
<1>6. /\ a \in Seq(AssetIds) /\ t \in Seq(Tracks(p)) /\ k \in Seq(Clips(p))
  BY <1>3, <1>5, SeqSubset DEF ListOf
<1>7. /\ A \in Seq(Seq(Nat)) /\ Len(A) = Len(a)
      /\ \A i \in 1..Len(a) : A[i] = AssetWords(a[i])
      /\ T \in Seq(Seq(Nat)) /\ Len(T) = Len(t)
      /\ \A i \in 1..Len(t) : T[i] = TrackWords(p, t[i])
      /\ K \in Seq(Seq(Nat)) /\ Len(K) = Len(k)
      /\ \A i \in 1..Len(k) : K[i] = ClipWords(p, k[i])
  BY <1>3, <1>6, ChunksType
<1>8. /\ Counted(A) \in Seq(Nat) /\ Counted(T) \in Seq(Nat)
      /\ Counted(K) \in Seq(Nat)
      /\ Len(EncodeIn(p, a, t, k)) =
           2 + Len(Counted(A)) + Len(Counted(T)) + Len(Counted(K))
  BY <1>3, <1>6, EncodedParts
<1> HIDE DEF A, T, K
<1>9. ReadAssets(w).at = 3 + Len(Counted(A))
  <2>1. PICK pos : Steps(pos, 3, ReadAssets(w), one)
    BY <1>4
  <2>2. ASSUME NEW i \in 1..Len(A) PROVE Len(A[i]) = one[a[i]]
    <3>1. i \in 1..Len(a) /\ a[i] \in Word
      BY <1>4, <1>7
    <3>2. A[i] = AssetWords(a[i])
      BY <1>7, <3>1
    <3>3. Len(A[i]) = 1
      BY <3>2 DEF AssetWords
    <3>4. QED
      BY <3>1, <3>3 DEF one
  <2>3. Len(A) = Len(ReadAssets(w).value)
    BY <1>7 DEF a
  <2>4. \A i \in 1..Len(A) : Len(A[i]) = one[ReadAssets(w).value[i]]
    BY <2>2 DEF a
  <2> DEFINE read == ReadAssets(w)
             at == 3
  <2>5. at \in Nat /\ Steps(pos, at, read, one) /\ Len(A) = Len(read.value)
    BY <2>1, <2>3
  <2>6. \A i \in 1..Len(A) : Len(A[i]) = one[read.value[i]]
    BY <2>4
  <2> HIDE DEF read, at
  <2>7. read.at = at + Len(Counted(A))
    BY <1>7, <2>5, <2>6, ListWritten
  <2>8. QED
    BY <2>7 DEF read, at
<1>10. ReadTracks(w).at = ReadAssets(w).at + Len(Counted(T))
  <2>1. PICK pos : Steps(pos, ReadAssets(w).at, ReadTracks(w), TrackSize)
    BY <1>4
  <2>2. DOMAIN t = 1..Len(t) /\ Len(t) \in Nat
    BY <1>6
  <2>3. /\ Len(tv) = Len(t)
        /\ \A i \in 1..Len(t) : tv[i] = [id |-> t[i], clips |-> p.tracks[t[i]]]
    BY <1>3, <2>2 DEF TrackValues
  <2>4. ASSUME NEW i \in 1..Len(T) PROVE Len(T[i]) = TrackSize[tv[i]]
    <3>1. i \in 1..Len(t) /\ tv[i] \in TrackEntry
      BY <1>4, <1>7, <2>3
    <3>2. tv[i].id = t[i] /\ tv[i].clips = p.tracks[t[i]]
      <4> DEFINE x == t[i]
                 c == p.tracks[t[i]]
                 v == tv[i]
      <4>1. v = [id |-> x, clips |-> c]
        BY <2>3, <3>1
      <4> HIDE DEF v, x, c
      <4>2. v.id = x /\ v.clips = c
        BY <4>1
      <4>3. QED
        BY <4>2 DEF v, x, c
    <3>3. TrackSize[tv[i]] = Len(TrackChunk(tv[i].id, tv[i].clips))
      BY <3>1 DEF TrackSize
    <3>4. T[i] = TrackChunk(t[i], p.tracks[t[i]])
      BY <1>7, <3>1 DEF TrackChunk, TrackWords
    <3>5. QED
      BY <3>2, <3>3, <3>4
  <2>5. QED
    BY <1>2, <1>7, <2>1, <2>3, <2>4, ListWritten DEF tv
<1>11. ReadClips(w).at = ReadTracks(w).at + Len(Counted(K))
  <2>1. PICK pos : Steps(pos, ReadTracks(w).at, ReadClips(w), ClipSize)
    BY <1>4
  <2>2. DOMAIN k = 1..Len(k) /\ Len(k) \in Nat
    BY <1>6
  <2>3. Len(kv) = Len(k)
    BY <1>3, <2>2 DEF ClipValues
  <2>4. ASSUME NEW i \in 1..Len(K) PROVE Len(K[i]) = ClipSize[kv[i]]
    <3>1. i \in 1..Len(k) /\ kv[i] \in ClipEntry /\ k[i] \in Clips(p)
      BY <1>4, <1>6, <1>7, <2>3
    <3>2. ClipSize[kv[i]] = 7
      BY <3>1 DEF ClipSize
    <3>3. QED
      BY <1>3, <1>7, <3>1, <3>2, ClipLength
  <2>5. QED
    BY <1>2, <1>7, <2>1, <2>3, <2>4, ListWritten DEF kv
<1>12. Len(EncodeIn(p, a, t, k)) = EncodedLength(p)
  BY <1>3, LengthOfEncoding
<1> DEFINE lA == Len(Counted(A))
           lT == Len(Counted(T))
           lK == Len(Counted(K))
           n == Len(w)
           e == EncodedLength(p)
<1>13. lA \in Nat /\ lT \in Nat /\ lK \in Nat /\ n \in Nat
  BY <1>1, <1>8
<1>14. n + 1 = 3 + lA + lT + lK /\ e = 2 + lA + lT + lK
  BY <1>2, <1>8, <1>9, <1>10, <1>11, <1>12
<1> HIDE DEF lA, lT, lK, n, e
<1>15. n = e
  BY <1>13, <1>14
<1>16. QED
  BY <1>15 DEF n, e, p

\* A stream that decodes is as long as what it decodes to, which is written
\* in a stream that decodes to the same.
LEMMA ProjectAccepted ==
  ASSUME NEW w \in Seq(Word), IsOk(DecodeProject(w))
  PROVE  LET p == DecodeProject(w).value
         IN  /\ p \in Project /\ WellFormed(p)
             /\ Len(EncodeProject(p)) = Len(w)
             /\ DecodeProject(EncodeProject(p)) = Ok(p)
<1> DEFINE p == ReadProject(w)
<1>1. w \in Seq(Nat)
  BY SeqSubset DEF Word, u64
<1>2. DecodeProject(w).value = p /\ WellFormed(p)
  BY <1>1, ProjectParts DEF Ok
<1>3. p \in Project
  BY DecodedIsProject
<1>4. Len(w) = EncodedLength(p)
  BY DecodedLength
<1>5. Len(EncodeProject(p)) = EncodedLength(p)
  BY <1>3, WritersList, LengthOfEncoding DEF EncodeProject
<1>6. DecodeProject(EncodeProject(p)) = Ok(p)
  BY <1>2, <1>3, EncodersDecode
<1> HIDE DEF p
<1>7. QED
  BY <1>2, <1>3, <1>4, <1>5, <1>6

\* A stream that decodes to a command is as long as that command is written.
LEMMA CommandAccepted ==
  ASSUME NEW w \in Seq(Word), IsOk(DecodeCommand(w))
  PROVE  LET c == DecodeCommand(w).value
         IN  /\ c \in Command
             /\ Len(EncodeCommand(c)) = Len(w)
             /\ DecodeCommand(EncodeCommand(c)) = Ok(c)
<1> DEFINE range == CommandRange(w)
           c == CommandOf(w[3], w, range)
           n == Len(w)
<1>1. w \in Seq(Nat)
  BY SeqSubset DEF Word, u64
<1>2. /\ w[3] \in 1..5 /\ Takes(w, 4, IdsAfter(w[3]))
      /\ CommandEnd(w) = n + 1 /\ DecodeCommand(w) = Ok(c)
  BY <1>1, CommandParts
<1>3. n \in Nat /\ \A i \in 1..n : w[i] \in Word
  BY <1>1
<1>4. HasRange(w[3]) => /\ range.value \in TimeRange
                        /\ n + 1 = 4 + IdsAfter(w[3]) + 4
  <2>1. SUFFICES ASSUME HasRange(w[3])
                 PROVE  /\ range.value \in TimeRange
                        /\ n + 1 = 4 + IdsAfter(w[3]) + 4
    OBVIOUS
  <2> DEFINE at == 4 + IdsAfter(w[3])
  <2>2. at \in Nat
    BY DEF IdsAfter
  <2>3. range = ReadRange(w, at) /\ range.at = n + 1
    BY <1>2, <2>1 DEF CommandEnd, CommandRange
  <2>4. range.at # Failed
    BY <1>3, <2>3 DEF Failed
  <2> HIDE DEF range, at
  <2>5. range.value \in TimeRange
    BY <2>2, <2>3, <2>4, RangeValue
  <2>6. range.at = at + 4
    BY <1>1, <2>2, <2>3, <2>4, RangeEnds
  <2>7. QED
    BY <2>3, <2>5, <2>6 DEF at
<1>5. ~ HasRange(w[3]) => n + 1 = 4 + IdsAfter(w[3])
  BY <1>2 DEF CommandEnd
<1> HIDE DEF range, n
<1>6. c \in Command /\ n = CommandLength(c.op)
  <2>1. CASE w[3] = 1
    <3>1. n = 4
      BY <1>3, <1>5, <2>1 DEF HasRange, IdsAfter
    <3>2. w[4] \in Word
      BY <1>3, <3>1
    <3>3. c = [op |-> "AddAsset", asset |-> w[4]]
      BY <2>1 DEF CommandOf
    <3>4. QED
      BY <3>1, <3>2, <3>3, WordAssumption DEF Command, CommandLength
  <2>2. CASE w[3] = 2
    <3>1. n = 4
      BY <1>3, <1>5, <2>2 DEF HasRange, IdsAfter
    <3>2. w[4] \in Word
      BY <1>3, <3>1
    <3>3. c = [op |-> "AddTrack", track |-> w[4]]
      BY <2>2 DEF CommandOf
    <3>4. QED
      BY <3>1, <3>2, <3>3, WordAssumption DEF Command, CommandLength
  <2>3. CASE w[3] = 3
    <3>1. n = 10 /\ range.value \in TimeRange
      BY <1>3, <1>4, <2>3 DEF HasRange, IdsAfter
    <3>2. w[4] \in Word /\ w[5] \in Word /\ w[6] \in Word
      BY <1>3, <3>1
    <3>3. c = [op |-> "AddClip", clip |-> w[4], asset |-> w[5],
               track |-> w[6], range |-> range.value]
      BY <2>3 DEF CommandOf
    <3>4. c \in [op : {"AddClip"}, clip : ClipIds, asset : AssetIds,
                 track : TrackIds, range : Ranges]
      BY <3>1, <3>2, <3>3, WordAssumption
    <3>5. c.op = "AddClip"
      BY <3>3
    <3>6. QED
      BY <3>1, <3>4, <3>5 DEF Command, CommandLength
  <2>4. CASE w[3] = 4
    <3>1. n = 8 /\ range.value \in TimeRange
      BY <1>3, <1>4, <2>4 DEF HasRange, IdsAfter
    <3>2. w[4] \in Word
      BY <1>3, <3>1
    <3>3. c = [op |-> "MoveClip", clip |-> w[4], range |-> range.value]
      BY <2>4 DEF CommandOf
    <3>4. c \in [op : {"MoveClip"}, clip : ClipIds, range : Ranges]
      BY <3>1, <3>2, <3>3, WordAssumption
    <3>5. c.op = "MoveClip"
      BY <3>3
    <3>6. QED
      BY <3>1, <3>4, <3>5 DEF Command, CommandLength
  <2>5. CASE w[3] = 5
    <3>1. n = 4
      BY <1>3, <1>5, <2>5 DEF HasRange, IdsAfter
    <3>2. w[4] \in Word
      BY <1>3, <3>1
    <3>3. c = [op |-> "RemoveClip", clip |-> w[4]]
      BY <2>5 DEF CommandOf
    <3>4. QED
      BY <3>1, <3>2, <3>3, WordAssumption DEF Command, CommandLength
  <2>6. QED
    BY <1>2, <2>1, <2>2, <2>3, <2>4, <2>5
<1>7. DecodeCommand(w).value = c
  BY <1>2 DEF Ok
<1> HIDE DEF c
<1>8. /\ Len(EncodeCommand(c)) = CommandLength(c.op)
      /\ DecodeCommand(EncodeCommand(c)) = Ok(c)
  BY <1>6, CommandEncoded
<1>9. QED
  BY <1>6, <1>7, <1>8 DEF n

-----------------------------------------------------------------------------
(* A cut stream.                                                           *)

LEMMA CutIsPrefix ==
  ASSUME NEW w \in Seq(Nat), NEW i \in 1..Len(w) - 1
  PROVE  /\ SubSeq(w, 1, i) \in Seq(Nat) /\ Len(SubSeq(w, 1, i)) = i
         /\ Prefix(SubSeq(w, 1, i), w) /\ i # Len(w)
BY DEF Prefix

\* No part of a stream that decodes does.
LEMMA PartsDoNotDecode ==
  ASSUME NEW w \in Seq(Nat), NEW i \in 1..Len(w) - 1,
         IsOk(DecodeProject(w)) \/ IsOk(DecodeCommand(w))
  PROVE  /\ ~ IsOk(DecodeProject(SubSeq(w, 1, i)))
         /\ ~ IsOk(DecodeCommand(SubSeq(w, 1, i)))
<1> DEFINE u == SubSeq(w, 1, i)
<1>1. u \in Seq(Nat) /\ Len(u) # Len(w) /\ Prefix(u, w)
  BY CutIsPrefix
<1> HIDE DEF u
<1>2. ~ IsOk(DecodeProject(u)) /\ ~ IsOk(DecodeCommand(u))
  BY <1>1, ProjectPrefix, CommandPrefix, MagicTellsApart
<1>3. QED
  BY <1>2 DEF u

-----------------------------------------------------------------------------
(* The streams of a client.                                                *)

Streams ==
  /\ project \in Project /\ WellFormed(project)
  /\ words \in Seq(Word)
  /\ writer = "encoder" =>
       \/ words = EncodeProject(project)
       \/ /\ project = EmptyProject
          /\ \E c \in Edits : words = EncodeCommand(c)
  /\ writer = "foreign" => words = ForeignOf(project)

LEMMA DamagedType ==
  ASSUME NEW w \in Seq(Word)
  PROVE  /\ \A i \in DOMAIN w, x \in Word : [w EXCEPT ![i] = x] \in Seq(Word)
         /\ \A i \in 0..Len(w) - 1 : SubSeq(w, 1, i) \in Seq(Word)
         /\ \A x \in Word : Append(w, x) \in Seq(Word)
OBVIOUS

\* Writing and damaging a stream keep what is known of it.
LEMMA StreamSteps ==
  ASSUME Streams, [Next]_vars PROVE Streams'
<1>1. CASE UNCHANGED <<project, words, writer>>
  BY <1>1 DEF Streams
<1>2. CASE Edit
  <2>1. PICK c \in Edits : Accepts(project, c) /\ project' = Reduce(project, c)
    BY <1>2 DEF Edit
  <2>2. c \in Command
    BY ContractAssumption
  <2>3. project' \in Project /\ WellFormed(project')
    BY <2>1, <2>2, ReduceType, ReduceWellFormed DEF Streams
  <2>4. words' = words /\ writer' = "none"
    BY <1>2 DEF Edit
  <2>5. QED
    BY <2>3, <2>4 DEF Streams
<1>3. CASE Write
  <2>1. project' = project /\ words' \in Seq(Word)
    BY <1>3 DEF Write
  <2>2. \/ words' = EncodeProject(project) /\ writer' = "encoder"
        \/ words' = ForeignOf(project) /\ writer' = "foreign"
        \/ /\ project = EmptyProject /\ writer' = "encoder"
           /\ \E c \in Edits : words' = EncodeCommand(c)
    BY <1>3 DEF Write, ForeignOf
  <2>3. QED
    BY <2>1, <2>2 DEF Streams
<1>4. CASE Damage
  <2>1. words \in Seq(Word)
    BY DEF Streams
  <2>2. words' \in Seq(Word)
    BY <1>4, <2>1, DamagedType DEF Damage
  <2>3. project' = project /\ writer' = "damaged"
    BY <1>4 DEF Damage
  <2>4. QED
    BY <2>2, <2>3 DEF Streams
<1>5. CASE Discard
  <2>1. words' = <<>> /\ writer' = "none" /\ project' = EmptyProject
    BY <1>5 DEF Discard
  <2>2. QED
    BY <2>1, EmptyProjectType, EmptyProjectWellFormed DEF Streams
<1>6. QED
  BY <1>1, <1>2, <1>3, <1>4, <1>5
     DEF Next, vars, CallNew, CallBinary, CallReciprocal, CallConvert, Called,
         Return, BeginAdapting, AdaptOne, EndAdapting

\* Every stream of a client, whole or damaged.
LEMMA StreamInvariant == Spec => []Streams
<1>1. Init => Streams
  BY EmptyProjectType, EmptyProjectWellFormed DEF Init, Streams
<1>2. Streams /\ [Next]_vars => Streams'
  BY StreamSteps
<1>3. QED
  BY <1>1, <1>2, PTL DEF Spec

\* For every project and command: what the encoder writes decodes to what was
\* written, whatever order the maps were written in a reader takes it for a
\* whole, and no part of it decodes (canonical_bytes, from_canonical_bytes).
THEOREM ContractsDecodeInvertsEncode == Spec => []DecodeInvertsEncode
<1>1. Streams => DecodeInvertsEncode
  <2>1. SUFFICES ASSUME Streams PROVE DecodeInvertsEncode
    OBVIOUS
  <2>2. /\ project \in Project /\ WellFormed(project)
        /\ words \in Seq(Nat)
    BY <2>1, SeqSubset DEF Streams, Word, u64
  <2>3. /\ DecodeProject(EncodeProject(project)) = Ok(project)
        /\ DecodeProject(ForeignOf(project)) = Ok(project)
    BY <2>2, EncodersDecode
  <2>4. ASSUME NEW c \in Edits
        PROVE  DecodeCommand(EncodeCommand(c)) = Ok(c)
    BY ContractAssumption, CommandEncoded
  <2>5. \A value : IsOk(Ok(value))
    BY DEF IsOk, Ok
  <2>6. ASSUME writer = "encoder"
        PROVE  \/ DecodeProject(words) = Ok(project)
               \/ /\ project = EmptyProject
                  /\ \E c \in Edits : /\ words = EncodeCommand(c)
                                      /\ DecodeCommand(words) = Ok(c)
    <3>1. \/ words = EncodeProject(project)
          \/ /\ project = EmptyProject
             /\ \E c \in Edits : words = EncodeCommand(c)
      BY <2>1, <2>6 DEF Streams
    <3>2. QED
      BY <2>3, <2>4, <3>1
  <2>7. ASSUME writer \in {"encoder", "foreign"}
        PROVE  IsOk(DecodeProject(words)) \/ IsOk(DecodeCommand(words))
    <3>1. CASE writer = "encoder"
      BY <2>5, <2>6, <3>1
    <3>2. CASE writer = "foreign"
      <4>1. words = ForeignOf(project)
        BY <2>1, <3>2 DEF Streams
      <4>2. DecodeProject(words) = Ok(project)
        BY <2>3, <4>1
      <4>3. QED
        BY <2>5, <4>2
    <3>3. QED
      BY <2>7, <3>1, <3>2
  <2>8. ASSUME writer \in {"encoder", "foreign"}, NEW i \in 1..Len(words) - 1
        PROVE  /\ ~ IsOk(DecodeProject(SubSeq(words, 1, i)))
               /\ ~ IsOk(DecodeCommand(SubSeq(words, 1, i)))
    BY <2>2, <2>7, <2>8, PartsDoNotDecode
  <2>9. QED
    BY <2>6, <2>8 DEF DecodeInvertsEncode
<1>2. QED
  BY <1>1, StreamInvariant, PTL

\* Every stream that decodes, whoever wrote it and whatever became of it, is
\* used to its last word: its value is well formed, and is written in as many
\* words, which decode to it (from_canonical_bytes, Project::validate).
THEOREM ContractsAcceptedIsWhole == Spec => []AcceptedIsWhole
<1>1. Streams => AcceptedIsWhole
  <2>1. SUFFICES ASSUME Streams PROVE AcceptedIsWhole
    OBVIOUS
  <2>2. words \in Seq(Word)
    BY <2>1 DEF Streams
  <2>3. ASSUME IsOk(DecodeProject(words))
        PROVE  LET value == DecodeProject(words).value
               IN  /\ WellFormed(value)
                   /\ Len(EncodeProject(value)) = Len(words)
                   /\ DecodeProject(EncodeProject(value)) = Ok(value)
    BY <2>2, <2>3, ProjectAccepted
  <2>4. ASSUME IsOk(DecodeCommand(words))
        PROVE  LET value == DecodeCommand(words).value
               IN  /\ Len(EncodeCommand(value)) = Len(words)
                   /\ DecodeCommand(EncodeCommand(value)) = Ok(value)
    BY <2>2, <2>4, CommandAccepted
  <2>5. QED
    BY <2>3, <2>4 DEF AcceptedIsWhole
<1>2. QED
  BY <1>1, StreamInvariant, PTL
=============================================================================
