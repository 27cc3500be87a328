------------------------- MODULE QueueConfigProofs -------------------------
(* Theorems about Backoff and QueueConfig, for every width of an integer,  *)
(* every precision of a float and every configuration.                     *)
EXTENDS QueueConfig, CountingProofs

(* Integers of a width and floats.                                         *)

LEMMA WidthFacts ==
    /\ MaxInt \in Nat /\ MaxInt > 0
    /\ MinInt = -MaxInt - 1
    /\ 2^(Bits - 1) = MaxInt + 1
    /\ 2^Bits = 2 * (MaxInt + 1)
<1>1. Bits - 1 \in Nat /\ Bits - 1 >= 1
  BY WidthAssumption
<1>2. 2^(Bits - 1) \in Nat
  BY <1>1, PowerType
<1>3. 2^1 <= 2^(Bits - 1)
  BY <1>1, PowerMonotone
<1>4. 2^1 = 2
  OBVIOUS
<1>5. 2^Bits = 2 * 2^(Bits - 1)
  <2>1. 2^((Bits - 1) + 1) = 2 * 2^(Bits - 1)
    BY <1>1, PowerDoubles
  <2>2. (Bits - 1) + 1 = Bits
    BY WidthAssumption
  <2> QED BY <2>1, <2>2
<1> QED BY <1>2, <1>3, <1>4, <1>5 DEF MaxInt, MinInt

\* A conversion to a Duration stays one, and is exact on durations.
LEMMA WrappedType ==
    ASSUME NEW n \in Int
    PROVE  /\ Wrapped(n) \in Durations
           /\ n \in Durations => Wrapped(n) = n
<1> DEFINE h == MaxInt + 1
<1>1. h \in Nat /\ h > 0 /\ MinInt = -h /\ MaxInt = h - 1 /\ Wrapped(n) = ((n + h) % (2 * h)) - h
  BY WidthFacts DEF Wrapped
<1> HIDE DEF h
<1>2. (n + h) % (2 * h) \in 0 .. 2 * h - 1
  BY <1>1
<1>3. n \in MinInt .. MaxInt => (n + h) % (2 * h) = n + h
  BY <1>1
<1> QED BY <1>1, <1>2, <1>3 DEF Durations

\* The floats around a positive duration are a power of two apart, and not
\* farther apart than the duration is large.
LEMMA SpacingFacts ==
    ASSUME NEW n \in 1 .. MaxInt
    PROVE  Spacing(n) \in Nat /\ Spacing(n) > 0 /\ Spacing(n) <= n
<1> DEFINE Fits(e) == n < 2^(Mantissa + e)
           T == {e \in 0 .. Bits : Fits(e)}
<1>1. Mantissa \in Nat /\ Mantissa > 0 /\ Bits \in Nat
  BY WidthAssumption
<1>2. Bits \in T
  <2>1. 2^(Bits - 1) <= 2^(Mantissa + Bits)
    BY WidthAssumption, PowerMonotone
  <2>2. 2^(Mantissa + Bits) \in Nat
    BY <1>1, PowerType
  <2> QED BY <1>1, <2>1, <2>2, WidthFacts
<1>3. PICK d \in T : \A e \in T : ~(e < d)
  <2>1. T \subseteq Nat /\ T # {}
    BY <1>1, <1>2
  <2> HIDE DEF T
  <2> QED BY <2>1, LeastNumber
<1> DEFINE Good(e) == n < 2^(Mantissa + e) /\ (e = 0 \/ n >= 2^(Mantissa + e - 1))
<1>4. d \in 0 .. Bits /\ Good(d)
  <2>1. CASE d = 0
    BY <2>1, <1>3
  <2>2. CASE d # 0
    <3>1. d - 1 \in 0 .. Bits /\ d - 1 < d /\ Mantissa + (d - 1) = Mantissa + d - 1
      BY <1>1, <1>3, <2>2
    <3>2. ~(n < 2^(Mantissa + d - 1))
      BY <1>3, <3>1
    <3>3. 2^(Mantissa + d - 1) \in Nat
      BY <1>1, <3>1, PowerType
    <3> QED BY <1>3, <3>2, <3>3
  <2> QED BY <2>1, <2>2
<1>5. PICK e \in 0 .. Bits : Good(e) /\ Spacing(n) = 2^e
  <2> DEFINE c == CHOOSE e \in 0 .. Bits : Good(e)
  <2>1. c \in 0 .. Bits /\ Good(c)
    <3> HIDE DEF Good
    <3> QED BY <1>4
  <2>2. Spacing(n) = 2^c
    BY DEF Spacing
  <2> QED BY <2>1, <2>2
<1>6. e \in Nat /\ 2^e \in Nat /\ 2^e > 0
  BY <1>1, <1>5, PowerType
<1>7. 2^e <= n
  <2>1. CASE e = 0
    <3>1. 2^0 = 1
      OBVIOUS
    <3> QED BY <2>1, <3>1
  <2>2. CASE e # 0
    <3>1. 2^e <= 2^(Mantissa + e - 1)
      BY <1>1, <1>6, PowerMonotone
    <3>2. Mantissa + e - 1 \in Nat
      BY <1>1, <1>6
    <3>3. 2^(Mantissa + e - 1) \in Nat
      BY <3>2, PowerType
    <3>4. n >= 2^(Mantissa + e - 1)
      BY <1>5, <2>2
    <3> QED BY <1>6, <3>1, <3>3, <3>4, WidthFacts
  <2> QED BY <2>1, <2>2
<1> QED BY <1>5, <1>6, <1>7

\* Rounding keeps a positive duration positive, and an integer that is a float
\* as it is.
LEMMA AsFloatFacts ==
    ASSUME NEW n \in 1 .. MaxInt
    PROVE  /\ AsFloat(n) \in Nat /\ AsFloat(n) > 0
           /\ Exact(n) => AsFloat(n) = n
<1> DEFINE gap == Spacing(n)
           rest == n % gap
<1>1. gap \in Nat /\ gap > 0 /\ gap <= n /\ n \in Nat
  BY SpacingFacts, WidthFacts
<1>2. AsFloat(n) \in {n - rest, (n - rest) + gap}
  BY DEF AsFloat
<1>3. rest = 0 => AsFloat(n) = n
  <2> SUFFICES ASSUME rest = 0 PROVE AsFloat(n) = n
    OBVIOUS
  <2>1. ~(2 * rest > gap) /\ ~(2 * rest = gap) /\ n - rest = n
    <3> HIDE DEF gap, rest
    <3> QED BY <1>1
  <2> QED BY <2>1 DEF AsFloat
<1>4. Exact(n) <=> rest = 0
  BY DEF Exact
<1> HIDE DEF gap
<1>5. rest \in 0 .. gap - 1
  BY <1>1
<1> HIDE DEF rest
<1> QED BY <1>1, <1>2, <1>3, <1>4, <1>5

---------------------------------------------------------------------------
(* The delays.                                                             *)

LEMMA CappedFacts ==
    ASSUME NEW base \in 1 .. MaxInt, NEW cap \in Durations, NEW a \in Nat
    PROVE  /\ Capped(base, cap, a) \in Nat /\ Capped(base, cap, a) > 0
           /\ cap > 0 => AsFloat(cap) \in Nat /\ Capped(base, cap, a) <= AsFloat(cap)
           /\ Capped(base, cap, a) <= Capped(base, cap, a + 1)
<1> DEFINE x == AsFloat(base)
           p == 2^a
           y == AsFloat(cap)
<1>1. x \in Nat /\ x > 0
  BY AsFloatFacts
<1>2. p \in Nat /\ p > 0 /\ 2^(a + 1) = 2 * p
  BY PowerType, PowerDoubles
<1>3. cap > 0 => y \in Nat /\ y > 0
  <2>1. cap > 0 => cap \in 1 .. MaxInt
    BY WidthFacts DEF Durations
  <2> QED BY <2>1, AsFloatFacts
<1>4. /\ Capped(base, cap, a) = IF cap > 0 /\ x * p > y THEN y ELSE x * p
      /\ Capped(base, cap, a + 1) = IF cap > 0 /\ x * (2 * p) > y THEN y ELSE x * (2 * p)
  BY <1>2 DEF Capped
<1> HIDE DEF x, p, y
<1> DEFINE e == x * p
<1>5. e \in Nat /\ e > 0 /\ x * (2 * p) = 2 * e
  BY <1>1, <1>2
<1> HIDE DEF e
<1>6. /\ Capped(base, cap, a) = IF cap > 0 /\ e > y THEN y ELSE e
      /\ Capped(base, cap, a + 1) = IF cap > 0 /\ 2 * e > y THEN y ELSE 2 * e
  BY <1>4, <1>5 DEF e
<1>7. cap > 0 => y = AsFloat(cap)
  BY DEF y
<1> QED BY <1>3, <1>5, <1>6, <1>7 DEF y

\* retryDelay for each strategy and a positive base.
LEMMA DelaysByStrategy ==
    ASSUME NEW base \in Durations, NEW cap, NEW a, NEW s
    PROVE  /\ base <= 0 => DelaysOf(base, cap, a, s) = {0}
           /\ base > 0 /\ s = "constant" => DelaysOf(base, cap, a, s) = {base}
           /\ base > 0 /\ s = "linear" => DelaysOf(base, cap, a, s) = {Steps(base, a)}
           /\ base > 0 /\ s = "exponential" =>
                DelaysOf(base, cap, a, s) = AsInts(Capped(base, cap, a))
           /\ base > 0 /\ s = "exponential-jitter" =>
                DelaysOf(base, cap, a, s) = UNION {0 .. n - 1 : n \in AsInts(Capped(base, cap, a))}
           /\ base > 0 /\ s \notin Strategies => DelaysOf(base, cap, a, s) = {0}
<1>1. base \in Int
  BY WidthFacts DEF Durations
<1> DEFINE lin == {Steps(base, a)}
           ints == AsInts(Capped(base, cap, a))
           jit == UNION {0 .. n - 1 : n \in ints}
<1>2. DelaysOf(base, cap, a, s) =
        CASE base <= 0 -> {0}
          [] base > 0 /\ s = "constant" -> {base}
          [] base > 0 /\ s = "linear" -> lin
          [] base > 0 /\ s = "exponential" -> ints
          [] base > 0 /\ s = "exponential-jitter" -> jit
          [] OTHER -> {0}
  BY DEF DelaysOf
<1> HIDE DEF lin, ints, jit
<1>3. ~(base <= 0 /\ base > 0)
  BY <1>1
<1>4. /\ base <= 0 => DelaysOf(base, cap, a, s) = {0}
      /\ base > 0 /\ s = "constant" => DelaysOf(base, cap, a, s) = {base}
      /\ base > 0 /\ s = "linear" => DelaysOf(base, cap, a, s) = lin
      /\ base > 0 /\ s = "exponential" => DelaysOf(base, cap, a, s) = ints
      /\ base > 0 /\ s = "exponential-jitter" => DelaysOf(base, cap, a, s) = jit
      /\ base > 0 /\ s \notin Strategies => DelaysOf(base, cap, a, s) = {0}
  BY <1>2, <1>3 DEF Strategies
<1> QED BY <1>4 DEF lin, ints, jit

\* Whatever the platform makes of an overflow, a delay is a duration.
LEMMA DelaysType ==
    ASSUME NEW base \in Durations, NEW cap \in Durations, NEW a \in Nat, NEW s
    PROVE  DelaysOf(base, cap, a, s) \subseteq Durations
<1>1. 0 \in Durations /\ base \in Int
  BY WidthFacts DEF Durations
<1>2. CASE base <= 0 \/ s \notin Strategies
  BY <1>1, <1>2, DelaysByStrategy
<1>3. CASE base > 0 /\ s = "constant"
  BY <1>3, DelaysByStrategy
<1>4. CASE base > 0 /\ s = "linear"
  <2>1. base * (a + 1) \in Int
    BY <1>1
  <2> QED BY <1>4, <2>1, DelaysByStrategy, WrappedType DEF Steps
<1>5. CASE base > 0 /\ s \in {"exponential", "exponential-jitter"}
  <2> DEFINE x == Capped(base, cap, a)
  <2>1. x \in Nat /\ x > 0
    BY <1>1, <1>5, CappedFacts, WidthFacts DEF Durations
  <2>2. DelaysOf(base, cap, a, s) = AsInts(x)
          \/ DelaysOf(base, cap, a, s) = UNION {0 .. n - 1 : n \in AsInts(x)}
    BY <1>5, DelaysByStrategy
  <2> HIDE DEF x
  <2>3. AsInts(x) \subseteq Durations
    BY <2>1, WidthFacts DEF AsInts, Durations
  <2>4. \A n \in Durations : 0 .. n - 1 \subseteq Durations
    BY WidthFacts DEF Durations
  <2> QED BY <2>2, <2>3, <2>4
<1> QED BY <1>1, <1>2, <1>3, <1>4, <1>5 DEF Strategies

\* A cap that is a float of the range.
CapFits(cap) == cap > 0 /\ AsFloat(cap) <= MaxInt

\* With such a cap the delay of an exponential strategy is the float computed,
\* and the bound of the jitter is positive.
LEMMA CappedDelays ==
    ASSUME NEW base \in 1 .. MaxInt, NEW cap \in Durations, NEW a \in Nat, CapFits(cap)
    PROVE  AsInts(Capped(base, cap, a)) = {Capped(base, cap, a)}
<1>1. Capped(base, cap, a) <= MaxInt
  BY CappedFacts, WidthFacts DEF CapFits
<1> QED BY <1>1 DEF AsInts

LEMMA CappedNeverPanics ==
    ASSUME NEW base \in Durations, NEW cap \in Durations, NEW a \in Nat, NEW s, CapFits(cap)
    PROVE  ~MayPanic(base, cap, a, s)
<1> SUFFICES ASSUME base > 0 PROVE ~\E n \in AsInts(Capped(base, cap, a)) : n <= 0
  BY DEF MayPanic
<1>1. base \in 1 .. MaxInt
  BY WidthFacts DEF Durations
<1> QED BY <1>1, CappedDelays, CappedFacts

LEMMA CappedInRange ==
    ASSUME NEW base \in Durations, NEW cap \in Durations, NEW a \in Nat, CapFits(cap),
           NEW s \in {"exponential", "exponential-jitter"}, NEW d \in DelaysOf(base, cap, a, s)
    PROVE  d \in 0 .. AsFloat(cap)
<1>1. base \in Int /\ cap \in 1 .. MaxInt
  BY WidthFacts DEF Durations, CapFits
<1>2. AsFloat(cap) \in Nat
  BY <1>1, AsFloatFacts
<1>3. CASE base <= 0
  BY <1>2, <1>3, DelaysByStrategy
<1>4. CASE base > 0
  <2> DEFINE x == Capped(base, cap, a)
  <2>1. base \in 1 .. MaxInt
    BY <1>1, <1>4, WidthFacts DEF Durations
  <2>2. x \in Nat /\ x <= AsFloat(cap)
    BY <1>1, <2>1, CappedFacts
  <2>3. AsInts(x) = {x}
    BY <2>1, CappedDelays
  <2>4. d \in AsInts(x) \/ d \in UNION {0 .. n - 1 : n \in AsInts(x)}
    BY <1>4, DelaysByStrategy
  <2> HIDE DEF x
  <2>5. d = x \/ d \in 0 .. x - 1
    BY <2>3, <2>4
  <2> QED BY <1>2, <2>2, <2>5
<1> QED BY <1>1, <1>3, <1>4

\* The delays of one strategy from one attempt to the next.
LEMMA ConstantStays ==
    ASSUME NEW base \in Durations, NEW cap, NEW a, NEW b,
           NEW d \in DelaysOf(base, cap, a, "constant"), NEW e \in DelaysOf(base, cap, b, "constant")
    PROVE  e >= d
<1>1. base \in Int
  BY WidthFacts DEF Durations
<1>2. \E x \in Int : d = x /\ e = x
  BY <1>1, DelaysByStrategy
<1> QED BY <1>2

LEMMA LinearGrows ==
    ASSUME NEW base \in Durations, NEW cap, NEW a \in Nat, base * (a + 2) <= MaxInt,
           NEW d \in DelaysOf(base, cap, a, "linear"), NEW e \in DelaysOf(base, cap, a + 1, "linear")
    PROVE  e >= d
<1>1. base \in Int /\ a + 1 \in Nat
  BY WidthFacts DEF Durations
<1>2. CASE base <= 0
  BY <1>1, <1>2, DelaysByStrategy
<1>3. CASE base > 0
  <2> DEFINE p == base * (a + 1)
  <2>1. p \in Nat /\ base * (a + 2) = p + base
    BY <1>1, <1>3
  <2>2. d = Wrapped(p) /\ e = Wrapped(base * ((a + 1) + 1))
    BY <1>3, DelaysByStrategy DEF Steps
  <2>3. base * ((a + 1) + 1) = p + base
    BY <1>1, <2>1
  <2> HIDE DEF p
  <2>4. p \in Durations /\ p + base \in Durations /\ p \in Int /\ p + base \in Int
    BY <1>1, <1>3, <2>1, WidthFacts DEF Durations
  <2>5. d = p /\ e = p + base
    BY <2>2, <2>3, <2>4, WrappedType
  <2> QED BY <1>1, <1>3, <2>1, <2>5
<1> QED BY <1>1, <1>2, <1>3

LEMMA ExponentialGrows ==
    ASSUME NEW base \in Durations, NEW cap \in Durations, NEW a \in Nat, CapFits(cap),
           NEW d \in DelaysOf(base, cap, a, "exponential"),
           NEW e \in DelaysOf(base, cap, a + 1, "exponential")
    PROVE  e >= d
<1>1. base \in Int
  BY WidthFacts DEF Durations
<1>2. CASE base <= 0
  <2>1. d = 0 /\ e = 0
    BY <1>2, DelaysByStrategy
  <2> QED BY <2>1
<1>3. CASE base > 0
  <2>1. base \in 1 .. MaxInt
    BY <1>1, <1>3, WidthFacts DEF Durations
  <2>2. a + 1 \in Nat
    OBVIOUS
  <2>3. \A n \in Nat : DelaysOf(base, cap, n, "exponential") = AsInts(Capped(base, cap, n))
    BY <1>3, DelaysByStrategy
  <2>4. \A n \in Nat : AsInts(Capped(base, cap, n)) = {Capped(base, cap, n)}
    BY <2>1, CappedDelays
  <2>5. d = Capped(base, cap, a)
    BY <2>3, <2>4
  <2>6. e = Capped(base, cap, a + 1)
    BY <2>2, <2>3, <2>4
  <2>7. d \in Nat /\ e \in Nat /\ d <= e
    BY <2>1, <2>2, <2>5, <2>6, CappedFacts
  <2> QED BY <2>7
<1> QED BY <1>1, <1>2, <1>3

\* The value of an exponential strategy, exact as long as everything fits.
LEMMA CappedFormula ==
    ASSUME NEW base \in 1 .. MaxInt, NEW cap \in Durations, NEW n \in Nat, n > 0,
           NEW s \in {"exponential", "exponential-jitter"},
           Exact(base), Exact(cap)
    PROVE  Formula(base, cap, n, s) = Capped(base, cap, n - 1)
<1> DEFINE e == base * 2^(n - 1)
<1>1. AsFloat(base) = base
  BY AsFloatFacts
<1>2. cap > 0 => AsFloat(cap) = cap
  <2>1. cap > 0 => cap \in 1 .. MaxInt
    BY WidthFacts DEF Durations
  <2> QED BY <2>1, AsFloatFacts
<1>3. Formula(base, cap, n, s) = IF cap > 0 THEN Least(cap, e) ELSE e
  BY DEF Formula
<1>4. Capped(base, cap, n - 1) = IF cap > 0 /\ e > AsFloat(cap) THEN AsFloat(cap) ELSE e
  BY <1>1 DEF Capped
<1>5. e \in Int /\ cap \in Int
  <2>1. n - 1 \in Nat
    OBVIOUS
  <2>2. 2^(n - 1) \in Nat
    BY <2>1, PowerType
  <2>3. base \in Int
    OBVIOUS
  <2> QED BY <2>2, <2>3, WidthFacts DEF Durations
<1> HIDE DEF e
<1> QED BY <1>2, <1>3, <1>4, <1>5 DEF Least

\* retryDelay follows the formula of its strategy.
LEMMA DelaysFormula ==
    ASSUME NEW base \in 0 .. MaxInt, NEW cap \in Durations, NEW n \in Nat, n > 0,
           NEW s \in Strategies, NEW d \in DelaysOf(base, cap, n - 1, s),
           Formula(base, cap, n, s) <= MaxInt, Exact(base), Exact(cap)
    PROVE  IF s = "exponential-jitter" /\ base > 0
           THEN d \in 0 .. Formula(base, cap, n, s) - 1
           ELSE d = Formula(base, cap, n, s)
<1> DEFINE wanted == Formula(base, cap, n, s)
<1>1. base \in Int /\ base \in Durations /\ n - 1 \in Nat /\ 2^(n - 1) \in Nat
  <2>1. n - 1 \in Nat
    OBVIOUS
  <2> QED BY <2>1, PowerType, WidthFacts DEF Durations
<1>2. CASE s = "constant"
  <2>1. wanted = base
    BY <1>2 DEF Formula
  <2> QED BY <1>1, <1>2, <2>1, DelaysByStrategy
<1>3. CASE s = "linear"
  <2>1. wanted = base * n
    BY <1>3 DEF Formula
  <2>2. base * n \in Nat
    OBVIOUS
  <2>3. base * n \in Durations
    BY <2>1, <2>2, WidthFacts DEF Durations
  <2>4. (n - 1) + 1 = n
    OBVIOUS
  <2>5. Steps(base, n - 1) = base * n
    BY <2>2, <2>3, <2>4, WrappedType DEF Steps
  <2>6. CASE base > 0
    BY <1>1, <1>3, <2>1, <2>5, <2>6, DelaysByStrategy
  <2>7. CASE base = 0
    BY <1>1, <1>3, <2>1, <2>7, DelaysByStrategy
  <2> QED BY <1>1, <2>6, <2>7
<1>4. CASE s \in {"exponential", "exponential-jitter"} /\ base = 0
  <2>1. 0 * 2^(n - 1) = 0
    BY <1>1
  <2>2. wanted = IF cap > 0 THEN Least(cap, 0) ELSE 0
    BY <1>4, <2>1 DEF Formula
  <2>3. wanted = 0
    BY <2>2, WidthFacts DEF Least, Durations
  <2> QED BY <1>1, <1>4, <2>3, DelaysByStrategy
<1>5. CASE s \in {"exponential", "exponential-jitter"} /\ base > 0
  <2> DEFINE x == Capped(base, cap, n - 1)
  <2>1. base \in 1 .. MaxInt
    BY <1>5, WidthFacts
  <2>2. wanted = x /\ x \in Nat
    BY <1>1, <1>5, <2>1, CappedFormula, CappedFacts
  <2>3. AsInts(x) = {x}
    BY <2>2 DEF AsInts
  <2>4. /\ s = "exponential" => DelaysOf(base, cap, n - 1, s) = AsInts(x)
        /\ s = "exponential-jitter" =>
             DelaysOf(base, cap, n - 1, s) = UNION {0 .. m - 1 : m \in AsInts(x)}
    BY <1>1, <1>5, DelaysByStrategy
  <2> HIDE DEF x
  <2>5. IF s = "exponential-jitter" THEN d \in 0 .. x - 1 ELSE d = x
    BY <1>5, <2>3, <2>4
  <2> QED BY <1>5, <2>2, <2>5
<1> QED BY <1>1, <1>2, <1>3, <1>4, <1>5 DEF Strategies

---------------------------------------------------------------------------
(* The life of a queue.                                                    *)

\* The settings have the types of their fields, and a queue that is open has
\* valid ones.
Settings ==
    /\ \A f \in {"retryDelay", "maxRetryDelay", "jobTimeout", "shutdownTimeout"} :
          cfg[f] \in Durations
    /\ \A f \in {"workerCount", "queueSize", "maxRetries"} : cfg[f] \in Int
    /\ queue = "open" => Valid(cfg)

\* A task is executed by a live worker of an open queue, and its last delay is
\* one that retryDelay returned for the attempt before.  The workers can only
\* be fewer than configured without a cap that fits.
Execution ==
    /\ busy => queue = "open" /\ workers > 0
    /\ busy => IF attempt = 0
               THEN delay = 0
               ELSE delay \in DelaysOf(Base, cfg.maxRetryDelay, attempt - 1, cfg.backoff)
    /\ CapKeepsWorkers

QueueInv == TypeOK /\ Settings /\ Execution

LEMMA InitQueueInv == Init => QueueInv
<1> SUFFICES ASSUME Init PROVE QueueInv
  OBVIOUS
<1>1. TypeOK
  <2>1. delay \in Durations
    BY WidthFacts DEF Init, Durations
  <2>2. task.maxRetries = Unset /\ task.retryDelay = Unset
    BY DEF Init, NoOverrides
  <2>3. options \in 0 .. MaxOptions /\ attempt \in 0 .. MaxAttempts
    BY ConfigAssumption DEF Init
  <2>4. DOMAIN cfg = Fields
    BY ConfigAssumption DEF Init
  <2> QED BY <2>1, <2>2, <2>3, <2>4 DEF Init, TypeOK
<1>2. Settings
  BY ConfigAssumption DEF Init, Settings
<1>3. Execution
  BY DEF Init, Execution, CapKeepsWorkers
<1> QED BY <1>1, <1>2, <1>3 DEF QueueInv

\* What execute uses for a task are durations and numbers.
LEMMA BaseType ==
    ASSUME QueueInv
    PROVE  Base \in Durations /\ Limit \in Int /\ cfg.maxRetryDelay \in Durations
<1>1. cfg["retryDelay"] \in Durations /\ cfg["maxRetryDelay"] \in Durations /\ cfg["maxRetries"] \in Int
  BY DEF QueueInv, Settings
<1>2. Base \in Durations
  BY <1>1, ConfigAssumption DEF Base, QueueInv, TypeOK
<1>3. Limit \in Int
  BY <1>1, ConfigAssumption DEF Limit, QueueInv, TypeOK
<1> QED BY <1>1, <1>2, <1>3

LEMMA NextQueueInv == QueueInv /\ [Next]_vars => QueueInv'
<1> SUFFICES ASSUME QueueInv, [Next]_vars PROVE QueueInv'
  OBVIOUS
<1>1. TypeOK /\ Settings /\ Execution
  BY DEF QueueInv
<1>2. ASSUME NEW field \in Fields, ApplyOption(field) PROVE QueueInv'
  <2>1. PICK value \in Values[field] : cfg' = [cfg EXCEPT ![field] = value]
    BY <1>2 DEF ApplyOption
  <2>2. DOMAIN cfg = Fields
    BY <1>1 DEF TypeOK
  <2>3. DOMAIN cfg' = Fields /\ \A f \in Fields : cfg'[f] = IF f = field THEN value ELSE cfg[f]
    BY <2>1, <2>2
  <2>4. options + 1 \in 0 .. MaxOptions
    BY <1>1, <1>2, ConfigAssumption DEF ApplyOption, TypeOK
  <2>5. queue = "none" /\ UNCHANGED <<queue, workers, task, busy, attempt, delay>> /\ options' = options + 1
    BY <1>2 DEF ApplyOption
  <2>6. TypeOK'
    BY <1>1, <2>3, <2>4, <2>5 DEF TypeOK
  <2>7. Settings'
    <3>1. \A f \in {"retryDelay", "maxRetryDelay", "jobTimeout", "shutdownTimeout"} : cfg'[f] \in Durations
      BY <1>1, <2>3, ConfigAssumption DEF Settings, Fields
    <3>2. \A f \in {"workerCount", "queueSize", "maxRetries"} : cfg'[f] \in Int
      BY <1>1, <2>3, ConfigAssumption DEF Settings, Fields
    <3> QED BY <2>5, <3>1, <3>2 DEF Settings
  <2>8. Execution'
    BY <1>1, <2>5 DEF Execution, CapKeepsWorkers
  <2> QED BY <2>6, <2>7, <2>8 DEF QueueInv
<1>3. ASSUME NewQueue PROVE QueueInv'
  <2>1. queue = "none" /\ UNCHANGED <<cfg, options, task, busy, attempt, delay>>
    BY <1>3 DEF NewQueue
  <2>2. ~busy
    BY <1>1, <2>1 DEF Execution
  <2>3. CASE Valid(cfg)
    <3>1. queue' = "open" /\ workers' = cfg.workerCount
      BY <1>3, <2>3 DEF NewQueue
    <3>2. cfg.workerCount \in Nat
      <4>1. cfg["workerCount"] \in Int /\ cfg.workerCount > 0
        BY <1>1, <2>3 DEF Settings, Valid
      <4> QED BY <4>1
    <3>3. TypeOK'
      BY <1>1, <2>1, <3>1, <3>2 DEF TypeOK
    <3>4. Settings'
      BY <1>1, <2>1, <2>3 DEF Settings, Valid
    <3>5. Execution'
      BY <2>1, <2>2, <3>1 DEF Execution, CapKeepsWorkers
    <3> QED BY <3>3, <3>4, <3>5 DEF QueueInv
  <2>4. CASE ~Valid(cfg)
    <3>1. queue' = "refused" /\ UNCHANGED workers
      BY <1>3, <2>4 DEF NewQueue
    <3> QED BY <1>1, <2>1, <2>2, <3>1 DEF QueueInv, TypeOK, Settings, Execution, CapKeepsWorkers
  <2> QED BY <2>3, <2>4
<1>4. ASSUME Submit PROVE QueueInv'
  <2>1. /\ queue = "open" /\ workers > 0
        /\ busy' = TRUE /\ attempt' = 0 /\ delay' = 0
        /\ UNCHANGED <<cfg, options, queue, workers>>
    BY <1>4 DEF Submit
  <2>2. task'.maxRetries \in RetryOverrides \cup {Unset} /\ task'.retryDelay \in DelayOverrides \cup {Unset}
    BY <1>4 DEF Submit
  <2>3. TypeOK'
    BY <1>1, <2>1, <2>2, ConfigAssumption, WidthFacts DEF TypeOK, Durations
  <2>4. Settings'
    BY <1>1, <2>1 DEF Settings, Valid
  <2>5. Execution'
    BY <1>1, <2>1 DEF Execution, CapKeepsWorkers
  <2> QED BY <2>3, <2>4, <2>5 DEF QueueInv
<1>5. ASSUME Retry PROVE QueueInv'
  <2>1. /\ busy /\ attempt < MaxAttempts
        /\ delay' \in DelaysOf(Base, cfg.maxRetryDelay, attempt, cfg.backoff)
        /\ attempt' = attempt + 1
        /\ UNCHANGED <<cfg, options, queue, workers, task, busy>>
    BY <1>5 DEF Retry
  <2>2. attempt \in Nat /\ attempt' \in 0 .. MaxAttempts /\ attempt' # 0 /\ attempt' - 1 = attempt
    BY <1>1, <2>1, ConfigAssumption DEF TypeOK
  <2>3. delay' \in Durations
    BY <2>1, <2>2, BaseType, DelaysType
  <2>4. TypeOK'
    BY <1>1, <2>1, <2>2, <2>3 DEF TypeOK
  <2>5. Settings'
    BY <1>1, <2>1 DEF Settings, Valid
  <2>6. Base' = Base
    BY <2>1 DEF Base
  <2>7. Execution'
    BY <1>1, <2>1, <2>2, <2>6 DEF Execution, CapKeepsWorkers
  <2> QED BY <2>4, <2>5, <2>7 DEF QueueInv
<1>6. ASSUME RetryPanics PROVE QueueInv'
  <2>1. /\ busy /\ busy' = FALSE /\ workers' = workers - 1
        /\ MayPanic(Base, cfg.maxRetryDelay, attempt, cfg.backoff)
        /\ UNCHANGED <<cfg, options, queue, task, attempt, delay>>
    BY <1>6 DEF RetryPanics
  <2>2. workers' \in Nat
    BY <1>1, <2>1 DEF TypeOK, Execution
  <2>3. ~CapFits(cfg.maxRetryDelay)
    <3>1. attempt \in Nat
      BY <1>1, ConfigAssumption DEF TypeOK
    <3> QED BY <2>1, <3>1, BaseType, CappedNeverPanics
  <2>4. TypeOK'
    BY <1>1, <2>1, <2>2 DEF TypeOK
  <2>5. Settings'
    BY <1>1, <2>1 DEF Settings, Valid
  <2>6. Execution'
    BY <2>1, <2>3 DEF Execution, CapKeepsWorkers, CapFits
  <2> QED BY <2>4, <2>5, <2>6 DEF QueueInv
<1>7. ASSUME Settle PROVE QueueInv'
  <2>1. busy' = FALSE /\ UNCHANGED <<cfg, options, queue, workers, task, attempt, delay>>
    BY <1>7 DEF Settle
  <2> QED BY <1>1, <2>1 DEF QueueInv, TypeOK, Settings, Valid, Execution, CapKeepsWorkers
<1>8. CASE UNCHANGED vars
  <2>1. UNCHANGED <<cfg, options, queue, workers, task, busy, attempt, delay>>
    BY <1>8 DEF vars
  <2>2. Base' = Base
    BY <2>1 DEF Base
  <2> QED BY <1>1, <2>1, <2>2 DEF QueueInv, TypeOK, Settings, Valid, Execution, CapKeepsWorkers
<1> QED BY <1>2, <1>3, <1>4, <1>5, <1>6, <1>7, <1>8 DEF Next, Terminated

THEOREM QueueInvariant == Spec => []QueueInv
BY InitQueueInv, NextQueueInv, PTL DEF Spec

\* The variables keep their types: whatever the settings, a delay is a duration
\* and no worker is lost that was not there.
THEOREM QueueTypeCorrect == Spec => []TypeOK
<1>1. QueueInv => TypeOK
  BY DEF QueueInv
<1> QED BY <1>1, QueueInvariant, PTL

\* No worker is lost to the jitter as long as the cap fits.
THEOREM CapKeeps == Spec => []CapKeepsWorkers
<1>1. QueueInv => CapKeepsWorkers
  BY DEF QueueInv, Execution
<1> QED BY <1>1, QueueInvariant, PTL

\* MaxRetryDelay keeps the exponential strategies from overflowing, however
\* many attempts a task makes and however wide an integer is.
THEOREM CapBounds == Spec => []CapBoundsDelays
<1>1. QueueInv => CapBoundsDelays
  <2> SUFFICES ASSUME QueueInv, busy, cfg.backoff \in {"exponential", "exponential-jitter"},
                      CapFits(cfg.maxRetryDelay)
               PROVE  delay \in 0 .. AsFloat(cfg.maxRetryDelay)
    BY DEF CapBoundsDelays, CapFits
  <2>1. Base \in Durations /\ cfg.maxRetryDelay \in Durations /\ attempt \in Nat
    BY BaseType, ConfigAssumption DEF QueueInv, TypeOK
  <2>2. CASE attempt = 0
    <3>1. delay = 0
      BY <2>2 DEF QueueInv, Execution
    <3>2. cfg.maxRetryDelay \in 1 .. MaxInt
      BY <2>1, WidthFacts DEF CapFits, Durations
    <3>3. AsFloat(cfg.maxRetryDelay) \in Nat
      BY <3>2, AsFloatFacts
    <3> QED BY <3>1, <3>3
  <2>3. CASE attempt # 0
    <3>1. attempt - 1 \in Nat
      BY <2>1, <2>3
    <3>2. delay \in DelaysOf(Base, cfg.maxRetryDelay, attempt - 1, cfg.backoff)
      BY <2>3 DEF QueueInv, Execution
    <3> QED BY <2>1, <3>1, <3>2, CappedInRange
  <2> QED BY <2>2, <2>3
<1> QED BY <1>1, QueueInvariant, PTL

\* A retry waits what the formula of its strategy says.
THEOREM FormulaFollowed == Spec => []DelaysFollowFormula
<1>1. QueueInv => DelaysFollowFormula
  <2> SUFFICES ASSUME QueueInv, busy, attempt > 0, Base >= 0,
                      Formula(Base, cfg.maxRetryDelay, attempt, cfg.backoff) <= MaxInt,
                      Exact(Base), Exact(cfg.maxRetryDelay)
               PROVE  IF cfg.backoff = "exponential-jitter" /\ Base > 0
                      THEN delay \in 0 .. Formula(Base, cfg.maxRetryDelay, attempt, cfg.backoff) - 1
                      ELSE delay = Formula(Base, cfg.maxRetryDelay, attempt, cfg.backoff)
    BY DEF DelaysFollowFormula
  <2>1. Base \in 0 .. MaxInt /\ cfg.maxRetryDelay \in Durations /\ attempt \in Nat
    BY BaseType, ConfigAssumption, WidthFacts DEF QueueInv, TypeOK, Durations
  <2>2. cfg.backoff \in Strategies
    BY DEF QueueInv, Execution, Settings, Valid
  <2>3. delay \in DelaysOf(Base, cfg.maxRetryDelay, attempt - 1, cfg.backoff)
    BY <2>1 DEF QueueInv, Execution
  <2> QED BY <2>1, <2>2, <2>3, DelaysFormula
<1> QED BY <1>1, QueueInvariant, PTL

\* As long as nothing overflows, a strategy without jitter never waits less than
\* before: Exponential under a cap that fits, Linear while its product does.
THEOREM NeverSpeedUp == Spec => RetriesNeverSpeedUp
<1>1. ASSUME QueueInv, [Next]_vars, attempt > 0, attempt' = attempt + 1, Steady(attempt')
      PROVE  delay' >= delay
  <2>1. attempt \in Nat
    BY <1>1, ConfigAssumption DEF QueueInv, TypeOK
  <2>2. attempt' # attempt /\ attempt' # 0
    BY <1>1, <2>1
  <2>3. Retry
    BY <1>1, <2>2 DEF Next, vars, ApplyOption, NewQueue, Submit, RetryPanics, Settle, Terminated
  <2>4. busy /\ delay' \in DelaysOf(Base, cfg.maxRetryDelay, attempt, cfg.backoff)
    BY <2>3 DEF Retry
  <2>5. delay \in DelaysOf(Base, cfg.maxRetryDelay, attempt - 1, cfg.backoff)
    BY <1>1, <2>1, <2>4 DEF QueueInv, Execution
  <2>6. attempt - 1 \in Nat /\ (attempt - 1) + 1 = attempt
    BY <1>1, <2>1
  <2>7. Base \in Durations /\ cfg.maxRetryDelay \in Durations
    BY <1>1, BaseType
  <2>8. UNCHANGED <<cfg, task>>
    BY <2>3 DEF Retry
  <2>9. \/ cfg.backoff = "constant"
        \/ cfg.backoff = "linear" /\ Base * (attempt + 1) <= MaxInt
        \/ cfg.backoff = "exponential" /\ CapFits(cfg.maxRetryDelay)
    BY <1>1, <2>8 DEF Steady, Base, CapFits
  <2>10. CASE cfg.backoff = "constant"
    BY <2>4, <2>5, <2>7, <2>10, ConstantStays
  <2>11. CASE cfg.backoff = "linear" /\ Base * (attempt + 1) <= MaxInt
    BY <2>4, <2>5, <2>6, <2>7, <2>11, LinearGrows
  <2>12. CASE cfg.backoff = "exponential" /\ CapFits(cfg.maxRetryDelay)
    BY <2>4, <2>5, <2>6, <2>7, <2>12, ExponentialGrows
  <2> QED BY <2>9, <2>10, <2>11, <2>12
<1>2. QueueInv /\ [Next]_vars =>
        [attempt > 0 /\ attempt' = attempt + 1 /\ Steady(attempt') => delay' >= delay]_vars
  BY <1>1
<1> QED BY <1>2, QueueInvariant, PTL DEF Spec, RetriesNeverSpeedUp
===========================================================================
