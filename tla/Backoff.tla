------------------------------ MODULE Backoff ------------------------------
(***************************************************************************)
(* retryDelay of dispatcher.go as an operator: which delays a call may     *)
(* return.  Durations are integers of Bits bits, and the exponential       *)
(* strategies go through a float of Mantissa significant bits, as 64 and   *)
(* 53 in Go.  The exponent of a float is not bounded: a float beyond the   *)
(* integers and +Inf are alike to what the code does with them.            *)
(***************************************************************************)
EXTENDS Integers

CONSTANTS
    Bits,      \* width of a time.Duration
    Mantissa   \* significant bits of a float64

ASSUME WidthAssumption ==
    /\ Mantissa \in Nat \ {0}
    /\ Bits \in Nat
    /\ Mantissa < Bits - 1

MaxInt == 2^(Bits - 1) - 1
MinInt == -(2^(Bits - 1))
Durations == MinInt .. MaxInt

Strategies == {"constant", "linear", "exponential", "exponential-jitter"}

-----------------------------------------------------------------------------
\* Fault: the result stays in a wider type.
Widened(n) == n

\* Integer arithmetic wraps around.
Wrapped(n) == ((n + 2^(Bits - 1)) % 2^Bits) - 2^(Bits - 1)

\* The distance of neighbouring floats around n, for 0 <= n <= MaxInt.
Spacing(n) ==
    2^(CHOOSE e \in 0 .. Bits :
        /\ n < 2^(Mantissa + e)
        /\ e = 0 \/ n >= 2^(Mantissa + e - 1))

\* float64(n): the nearest float, the one with the even mantissa of two.
AsFloat(n) ==
    LET gap  == Spacing(n)
        down == n - (n % gap)
        up   == 2 * (n % gap) > gap \/ (2 * (n % gap) = gap /\ (down \div gap) % 2 = 1)
    IN  IF up THEN down + gap ELSE down

\* int64(x) of a float with an integral value.  Beyond the integers Go leaves
\* the result to the platform: amd64 gives MinInt, arm64 MaxInt.
AsInts(x) == IF x <= MaxInt THEN {x} ELSE {MinInt, MaxInt}

-----------------------------------------------------------------------------
\* Fault: the cap is applied before the doubling.
CappedFirst(base, cap, attempt) ==
    (IF cap > 0 /\ base > cap THEN AsFloat(cap) ELSE AsFloat(base)) * 2^attempt

\* Fault: the cap is forgotten.
Uncapped(base, cap, attempt) == AsFloat(base) * 2^attempt

\* What both exponential strategies compute: base * 2^attempt, where the
\* multiplication is exact, and the cap if there is one.
Capped(base, cap, attempt) ==
    LET exp == AsFloat(base) * 2^attempt
    IN  IF cap > 0 /\ exp > AsFloat(cap) THEN AsFloat(cap) ELSE exp

\* Fault: the attempt is taken as it is counted.
StepsFromZero(base, attempt) == Wrapped(base * attempt)

\* Linear: attempt counts from 0, the first retry waits base.
Steps(base, attempt) == Wrapped(base * (attempt + 1))

\* The delays retryDelay(base, cap, attempt, strategy) may return.  A jitter is
\* drawn by rand.Int63n, from the numbers below the bound.
DelaysOf(base, cap, attempt, strategy) ==
    CASE base <= 0 -> {0}
      [] base > 0 /\ strategy = "constant" -> {base}
      [] base > 0 /\ strategy = "linear" -> {Steps(base, attempt)}
      [] base > 0 /\ strategy = "exponential" -> AsInts(Capped(base, cap, attempt))
      [] base > 0 /\ strategy = "exponential-jitter" ->
            UNION {0 .. n - 1 : n \in AsInts(Capped(base, cap, attempt))}
      [] OTHER -> {0}

\* Fault: the bound of the draw is one less.
MayPanicBelowTwo(base, cap, attempt, strategy) ==
    /\ base > 0
    /\ strategy = "exponential-jitter"
    /\ \E n \in AsInts(Capped(base, cap, attempt)) : n - 1 <= 0

\* rand.Int63n panics when its bound is not positive.
MayPanic(base, cap, attempt, strategy) ==
    /\ base > 0
    /\ strategy = "exponential-jitter"
    /\ \E n \in AsInts(Capped(base, cap, attempt)) : n <= 0

-----------------------------------------------------------------------------
\* The reference: the formulas of config.go:24-79 in plain integers, for the
\* n-th retry, n counted from 1, with the cap of dispatcher.go:433-439.
Least(m, n) == IF m <= n THEN m ELSE n

Formula(base, cap, n, strategy) ==
    CASE strategy = "constant" -> base
      [] strategy = "linear" -> base * n
      [] strategy \in {"exponential", "exponential-jitter"} ->
            IF cap > 0 THEN Least(cap, base * 2^(n - 1)) ELSE base * 2^(n - 1)

\* Integers that are floats.
Exact(n) == n % Spacing(n) = 0
============================================================================
