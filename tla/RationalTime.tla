---------------------------- MODULE RationalTime ----------------------------
(***************************************************************************)
(* The canonical time of crates/contracts: checked, normalised rationals   *)
(* in 64-bit fields computed through 128-bit intermediates, half-open time *)
(* ranges, and the rounding adapters that turn a time into platform ticks. *)
(*                                                                         *)
(* The width is a parameter: i64 is -(MaxInt+1)..MaxInt.  MaxWide is the   *)
(* largest i128 that goes with it: for MaxInt = 2^63 - 1 it is 2^127 - 1.  *)
(* No operator wraps: where the code narrows it refuses, and the theorems  *)
(* of ContractCallsProofs say that nothing wider ever overflows.            *)
(***************************************************************************)
EXTENDS Integers, Sequences

CONSTANT MaxInt

ASSUME MaxIntAssumption == MaxInt \in Nat \ {0}

MaxWide == 2 * (MaxInt + 1) * (MaxInt + 1) - 1

i64 == -(MaxInt + 1)..MaxInt
u64 == 0..2 * MaxInt + 1
i128 == -(MaxWide + 1)..MaxWide

Rational == [num : i64, den : 1..MaxInt]

Zero == [num |-> 0, den |-> 1]

\* Result<T, TimeError>: the error, or "None" and the value.
Ok(value) == [error |-> "None", value |-> value]
Err(error) == [error |-> error, value |-> Zero]
IsOk(result) == result.error = "None"

Abs(n) == IF n < 0 THEN -n ELSE n

\* Euclid's loop, over the pair of left and right.
gcd[pair \in Nat \X Nat] ==
  LET left == pair[1]
      right == pair[2]
  IN  IF right = 0 THEN left ELSE gcd[<<right, left % right>>]

-----------------------------------------------------------------------------
(* Rational::from_i128: reduce, make the denominator positive, and only    *)
(* then narrow.                                                            *)

Narrow(n, d) ==
  IF n \in i64 /\ d \in i64 THEN Ok([num |-> n, den |-> d])
                            ELSE Err("Overflow")

Positive(n, d) == IF d < 0 THEN Narrow(-n, -d) ELSE Narrow(n, d)

\* Mutant: narrowing without a reduction.
MutFromWide(n, d) ==
  IF d = 0 THEN Err("ZeroDenominator")
  ELSE IF n = 0 THEN Ok(Zero) ELSE Positive(n, d)

FromWide(n, d) ==
  IF d = 0 THEN Err("ZeroDenominator")
  ELSE IF n = 0 THEN Ok(Zero)
  ELSE LET divisor == gcd[<<Abs(n), Abs(d)>>]
       IN  Positive(n \div divisor, d \div divisor)

New(n, d) == FromWide(n, d)

\* The values there are: the fields are private, and new makes them all.
Rationals == {New(n, d).value : n \in i64, d \in 1..MaxInt}

\* The numerator and denominator each operation hands to from_i128.
WideSum(a, b) == <<a.num * b.den + b.num * a.den, a.den * b.den>>
WideDifference(a, b) == <<a.num * b.den - b.num * a.den, a.den * b.den>>
WideProduct(a, b) == <<a.num * b.num, a.den * b.den>>

Add(a, b) == FromWide(WideSum(a, b)[1], WideSum(a, b)[2])
Subtract(a, b) == FromWide(WideDifference(a, b)[1], WideDifference(a, b)[2])
Multiply(a, b) == FromWide(WideProduct(a, b)[1], WideProduct(a, b)[2])
Reciprocal(a) == New(a.den, a.num)

\* Ord::cmp.
Less(a, b) == a.num * b.den < b.num * a.den
LessOrEqual(a, b) == a.num * b.den <= b.num * a.den

-----------------------------------------------------------------------------
(* TimeRange: nonempty and half open.                                      *)

TimeRange == {range \in [start : Rationals, end : Rationals] :
                Less(range.start, range.end)}

NewRange(start, end) ==
  IF LessOrEqual(end, start) THEN Err("InvalidRange")
  ELSE Ok([start |-> start, end |-> end])

-----------------------------------------------------------------------------
(* Adapters: a tick rate, a rounding policy, one rounding per timestamp.   *)

Policy == {"Floor", "Ceil", "NearestEven"}

\* AdapterUnit::ticks_per_second of a unit whose rate is given as u64.
TicksPerSecond(rate) ==
  IF rate = 0 THEN Err("InvalidUnit")
  ELSE IF rate > MaxInt THEN Err("Overflow") ELSE Ok(rate)

\* Mutant: a tie is always rounded up.
MutRoundsUp(quotient, remainder, d, policy) ==
  \/ policy = "Ceil" /\ remainder # 0
  \/ policy = "NearestEven" /\ 2 * remainder >= d

\* Whether round_quotient adds one to the Euclidean quotient.
RoundsUp(quotient, remainder, d, policy) ==
  \/ policy = "Ceil" /\ remainder # 0
  \/ policy = "NearestEven" /\ 2 * remainder > d
  \/ policy = "NearestEven" /\ 2 * remainder = d /\ quotient % 2 # 0

\* div_euclid and rem_euclid by a positive number are \div and %.
RoundQuotient(n, d, policy) ==
  IF RoundsUp(n \div d, n % d, d, policy) THEN n \div d + 1 ELSE n \div d

\* The bound each policy promises, n / d being the time in ticks.
WithinPolicy(policy, ticks, n, d) ==
  CASE policy = "Floor" -> ticks * d <= n /\ n < (ticks + 1) * d
    [] policy = "Ceil" -> (ticks - 1) * d < n /\ n <= ticks * d
    [] OTHER -> /\ 2 * Abs(n - ticks * d) <= d
                /\ 2 * Abs(n - ticks * d) = d => ticks % 2 = 0

AdaptedTime == [time : Rational, ticks : i64, error : Rational]

Adapted(time, ticks, error) ==
  IF IsOk(error)
  THEN Ok([time |-> time, ticks |-> ticks, error |-> error.value])
  ELSE Err(error.error)

\* adapt_absolute for a rate that ticks_per_second accepted.
AdaptAt(time, rate, policy) ==
  LET ticks == RoundQuotient(time.num * rate, time.den, policy)
  IN  IF ticks \notin i64 THEN Err("Overflow")
      ELSE LET represented == New(ticks, rate)
           IN  IF ~ IsOk(represented) THEN Err(represented.error)
               ELSE Adapted(time, ticks, Subtract(time, represented.value))

AdaptAbsolute(time, rate, policy) ==
  IF IsOk(TicksPerSecond(rate))
  THEN AdaptAt(time, TicksPerSecond(rate).value, policy)
  ELSE Err(TicksPerSecond(rate).error)

\* One pass of the loop of adapt_absolute_sequence: the entry for the next
\* time after those already adapted, or the reason to give up.
AdaptNext(adapted, time, rate, policy) ==
  LET next == AdaptAbsolute(time, rate, policy)
      last == adapted[Len(adapted)]
  IN  CASE adapted # <<>> /\ LessOrEqual(time, last.time) -> Err("InvalidRange")
        [] OTHER ->
             IF IsOk(next) /\ adapted # <<>> /\ next.value.ticks <= last.ticks
             THEN Err("NonMonotonicAdaptedTicks") ELSE next
=============================================================================
