---------------------------- MODULE Timer32Proofs ----------------------------
(***************************************************************************)
(* What holds of Timer32 for every number of channels, every frequency and *)
(* every width of the counters.  The safety properties rest on one         *)
(* inductive invariant; what carries it is that clocks are told apart in   *)
(* whole counts: the clocks at which a counter starts and at which a timer *)
(* fires are multiples of Fd, so that one that lies before the other lies  *)
(* before it by a whole count.                                             *)
(***************************************************************************)
EXTENDS Timer32, WellFoundedInduction, TLAPS

(* A counter has been started at a tick, and it has counted no more than the   *)
(* clocks that have passed since; before the device is served, fewer.          *)
CounterBehind(c) ==
  LET t == timer[c]
  IN  /\ t.start % Fd = 0
      /\ t.cnt * Fd + t.start <= clock
      /\ t.start <= clock
      /\ turn = "device" /\ clock # 0 =>
           /\ t.cnt * Fd + t.start < clock
           /\ t.start < clock

(* The clock at which a running timer reaches its compare value has not come,  *)
(* and no skip that the bound allows goes past it.                             *)
Due(c) == timer[c].start + timer[c].compare0 * Fd
AheadOfClock(c) ==
  timer[c].state = "running" /\ timer[c].cnt < timer[c].compare0 =>
    /\ turn = "device" => clock <= Due(c)
    /\ turn # "device" =>
         /\ clock + 1 <= Due(c)
         /\ bound # NoBound => clock + bound <= Due(c)

(* Since a timer has fired, it has been started anew or it has not got below   *)
(* its compare value.                                                          *)
FiredBefore(c) ==
  last[c] # -1 =>
    /\ last[c] % Fd = 0
    /\ last[c] <= clock
    /\ turn = "device" => last[c] < clock
    /\ \/ timer[c].start >= last[c] + Fd
       \/ timer[c].cnt >= timer[c].compare0

(* The inductive invariant.                                                    *)
IInv ==
  /\ TypeOK
  /\ \A c \in Channels : CounterBehind(c) /\ AheadOfClock(c) /\ FiredBefore(c)

-----------------------------------------------------------------------------
(* Arithmetic of counts.                                                       *)

(* A smaller count is smaller by at least one.                                 *)
LEMMA OneCountLess ==
  ASSUME NEW f \in Nat \ {0}, NEW a \in Nat, NEW b \in Nat, a < b
  PROVE  a * f + f <= b * f
<1> DEFINE d == b - a - 1
<1>1. d \in Nat /\ b = a + 1 + d
  BY SMT
<1> HIDE DEF d
<1>2. b * f = a * f + f + d * f
  BY <1>1, SMT
<1>3. d * f >= 0 /\ a * f \in Nat /\ d * f \in Nat
  BY <1>1, SMT
<1> QED
  BY <1>2, <1>3, SMT

(* What a multiple is.                                                         *)
LEMMA Divided ==
  ASSUME NEW f \in Nat \ {0}, NEW n \in Nat
  PROVE  /\ n \div f \in Nat
         /\ n % f \in 0 .. f - 1
         /\ n = (n \div f) * f + (n % f)
<1>1. n % f \in 0 .. f - 1
  BY SMT
<1>2. n = f * (n \div f) + (n % f)
  BY SMT
<1>3. n \div f \in Nat
  BY SMT
<1>4. f * (n \div f) = (n \div f) * f
  BY <1>3, SMT
<1> QED
  BY <1>1, <1>2, <1>3, <1>4

LEMMA ProductIsMultiple ==
  ASSUME NEW f \in Nat \ {0}, NEW k \in Nat
  PROVE  (k * f) % f = 0 /\ (k * f) \div f = k
<1> DEFINE n == k * f
           q == n \div f
           r == n % f
<1>1. n \in Nat
  BY SMT
<1>2. q \in Nat /\ r \in 0 .. f - 1 /\ n = q * f + r
  BY <1>1, Divided
<1>3. n = k * f
  OBVIOUS
<1> HIDE DEF n, q, r
<1>4. q * f \in Nat /\ k * f \in Nat
  BY <1>2, SMT
<1>5. ~ (q < k)
  <2>1. ASSUME q < k
        PROVE  q * f + f <= k * f
    BY <1>2, <2>1, OneCountLess
  <2> QED
    BY <1>2, <1>3, <1>4, <2>1, SMT
<1>6. ~ (k < q)
  <2>1. ASSUME k < q
        PROVE  k * f + f <= q * f
    BY <1>2, <2>1, OneCountLess
  <2> QED
    BY <1>2, <1>3, <1>4, <2>1, SMT
<1>7. q = k
  BY <1>2, <1>5, <1>6, SMT
<1>8. r = 0
  BY <1>2, <1>3, <1>4, <1>7, SMT
<1> QED
  BY <1>7, <1>8 DEF n, q, r

LEMMA SumOfMultiples ==
  ASSUME NEW f \in Nat \ {0}, NEW a \in Nat, NEW b \in Nat, a % f = 0, b % f = 0
  PROVE  (a + b) % f = 0
<1> DEFINE i == a \div f
           j == b \div f
<1>1. i \in Nat /\ j \in Nat /\ a = i * f + 0 /\ b = j * f + 0
  BY Divided
<1> HIDE DEF i, j
<1>2. i + j \in Nat /\ a + b = (i + j) * f
  BY <1>1, SMT
<1> QED
  BY <1>2, ProductIsMultiple

(* Of two multiples, the smaller is smaller by at least f.                     *)
LEMMA MultiplesApart ==
  ASSUME NEW f \in Nat \ {0}, NEW a \in Nat, NEW b \in Nat,
         a % f = 0, b % f = 0, a < b
  PROVE  a + f <= b
<1> DEFINE i == a \div f
           j == b \div f
<1>1. i \in Nat /\ j \in Nat /\ a = i * f + 0 /\ b = j * f + 0
  BY Divided
<1> HIDE DEF i, j
<1>2. a = i * f /\ b = j * f /\ i * f \in Nat /\ j * f \in Nat
  BY <1>1, SMT
<1>3. i < j
  <2>1. ASSUME j < i
        PROVE  j * f + f <= i * f
    BY <1>1, <2>1, OneCountLess
  <2> QED
    BY <1>1, <1>2, <2>1, SMT
<1>4. i * f + f <= j * f
  BY <1>1, <1>3, OneCountLess
<1> QED
  BY <1>2, <1>4

(* The difference of two multiples, in counts.                                 *)
LEMMA CountsBetween ==
  ASSUME NEW f \in Nat \ {0}, NEW a \in Nat, NEW b \in Nat,
         a % f = 0, b % f = 0, a <= b
  PROVE  /\ (b - a) \div f \in Nat
         /\ a + ((b - a) \div f) * f = b
<1> DEFINE i == a \div f
           j == b \div f
<1>1. i \in Nat /\ j \in Nat /\ a = i * f + 0 /\ b = j * f + 0
  BY Divided
<1> HIDE DEF i, j
<1>2. a = i * f /\ b = j * f /\ i * f \in Nat /\ j * f \in Nat
  BY <1>1, SMT
<1>3. i <= j
  <2>1. ASSUME j < i
        PROVE  j * f + f <= i * f
    BY <1>1, <2>1, OneCountLess
  <2> QED
    BY <1>1, <1>2, <2>1, SMT
<1> DEFINE d == j - i
<1>4. d \in Nat /\ j = i + d
  BY <1>1, <1>3, SMT
<1> HIDE DEF d
<1>5. b - a = d * f /\ a + d * f = b
  BY <1>1, <1>2, <1>4, SMT
<1>6. (b - a) \div f = d
  BY <1>4, <1>5, ProductIsMultiple
<1> QED
  BY <1>4, <1>5, <1>6

(* A set of natural numbers that is not empty has a least element.             *)
LEMMA LeastNatural ==
  ASSUME NEW T, T \subseteq Nat, T # {}
  PROVE  Min(T) \in T /\ \A y \in T : Min(T) <= y
<1>1. PICK x \in T : \A y \in T : ~ (<<y, x>> \in OpToRel(<, Nat))
  BY NatLessThanWellFounded, WFMin
<1>2. \A y \in T : ~ (y < x)
  BY <1>1 DEF OpToRel
<1>3. \A y \in T : x <= y
  BY <1>2
<1> QED
  BY <1>3 DEF Min

-----------------------------------------------------------------------------
(* The timer at one tick.                                                      *)

(* The constants, and what a timer is made of.                                 *)
LEMMA Parts ==
  ASSUME TypeOK, NEW c \in Channels
  PROVE  /\ Fd \in Nat \ {0} /\ Wrap \in Nat \ {0} /\ MaxClock \in Nat /\ NoBound = Wrap
         /\ clock \in Nat /\ clock <= MaxClock
         /\ timer[c] \in TimerType
         /\ timer[c].cnt \in Nat /\ timer[c].compare0 \in Nat /\ timer[c].start \in Nat
         /\ timer[c].compare0 < Wrap
         /\ last[c] \in Int /\ last[c] <= MaxClock /\ last[c] >= -1
         /\ last[c] # -1 => last[c] \in Nat
<1>1. timer[c] \in TimerType /\ last[c] \in -1 .. MaxClock /\ clock \in 0 .. MaxClock
  BY DEF TypeOK
<1>2. Fd \in Nat \ {0} /\ Wrap \in Nat \ {0} /\ MaxClock \in Nat /\ NoBound = Wrap
  BY TimerAssumption DEF NoBound
<1> QED
  BY <1>1, <1>2 DEF TimerType

(* The new start is a tick that has come, no earlier than the old one.         *)
LEMMA StartIsATick ==
  ASSUME IInv, turn = "device", Tick, NEW c \in Channels
  PROVE  /\ Start(timer[c]) \in Nat
         /\ Start(timer[c]) % Fd = 0
         /\ Start(timer[c]) <= clock
         /\ timer[c].start <= Start(timer[c])
         /\ \/ Start(timer[c]) \in {timer[c].start, timer[c].start + Fd}
            \/ Start(timer[c]) = clock /\ timer[c].state = "ready"
<1>1. /\ Fd \in Nat \ {0} /\ clock \in Nat /\ timer[c].start \in Nat
      /\ timer[c].cnt \in Nat
  BY Parts DEF IInv
<1>2. clock % Fd = 0
  BY DEF Tick
<1>3. /\ timer[c].start % Fd = 0
      /\ timer[c].start <= clock
      /\ clock # 0 => timer[c].start < clock
  BY DEF IInv, CounterBehind
<1>4. CASE timer[c].state = "stop" /\ timer[c].mode = "freerun" /\ timer[c].start # 0
  <2>1. timer[c].start < clock
    BY <1>1, <1>3, <1>4, SMT
  <2>2. timer[c].start + Fd <= clock
    BY <1>1, <1>2, <1>3, <2>1, MultiplesApart
  <2>3. Fd % Fd = 0
    <3>1. (1 * Fd) % Fd = 0
      BY <1>1, ProductIsMultiple
    <3>2. 1 * Fd = Fd
      BY <1>1, SMT
    <3> QED
      BY <3>1, <3>2
  <2>4. (timer[c].start + Fd) % Fd = 0
    <3>1. Fd \in Nat
      BY <1>1
    <3> QED
      BY <1>1, <1>3, <2>3, <3>1, SumOfMultiples
  <2>5. Start(timer[c]) = timer[c].start + Fd
    BY <1>4 DEF Start
  <2> QED
    BY <1>1, <2>2, <2>4, <2>5
<1>5. CASE ~ (timer[c].state = "stop" /\ timer[c].mode = "freerun" /\ timer[c].start # 0)
  <2>1. \/ Start(timer[c]) = clock /\ timer[c].state = "ready"
        \/ Start(timer[c]) = timer[c].start
    BY <1>5 DEF Start
  <2> QED
    BY <1>1, <1>2, <1>3, <2>1
<1> QED
  BY <1>4, <1>5

(* The counter is what has passed since, whole and unwrapped.                  *)
LEMMA CountIsExact ==
  ASSUME IInv, turn = "device", Tick, NEW c \in Channels
  PROVE  /\ Count(timer[c]) \in 0 .. Wrap - 1
         /\ Start(timer[c]) + Count(timer[c]) * Fd = clock
<1> DEFINE s == Start(timer[c])
           q == (clock - s) \div Fd
<1>1. /\ Fd \in Nat \ {0} /\ Wrap \in Nat \ {0} /\ MaxClock \in Nat
      /\ clock \in Nat /\ clock <= MaxClock
  BY Parts DEF IInv
<1>2. s \in Nat /\ s % Fd = 0 /\ s <= clock
  BY StartIsATick
<1>3. clock % Fd = 0
  BY DEF Tick
<1>4. q \in Nat /\ s + q * Fd = clock
  <2> HIDE DEF s
  <2> QED
    BY <1>1, <1>2, <1>3, CountsBetween
<1>5. Count(timer[c]) = q % Wrap
  BY DEF Count
<1> HIDE DEF q, s
<1>6. q < Wrap
  <2>1. q * Fd \in Nat /\ Wrap * Fd \in Nat
    BY <1>1, <1>4, SMT
  <2>2. q * Fd < Wrap * Fd
    BY <1>1, <1>2, <1>4, <2>1, TimerAssumption, SMT
  <2>3. ASSUME Wrap < q
        PROVE  FALSE
    <3>1. Wrap * Fd + Fd <= q * Fd
      BY <1>1, <1>4, <2>3, OneCountLess
    <3> QED
      BY <1>1, <2>1, <2>2, <3>1, SMT
  <2>4. Wrap # q
    BY <2>1, <2>2, SMT
  <2> QED
    BY <1>1, <1>4, <2>3, <2>4, SMT
<1>7. q % Wrap = q
  BY <1>1, <1>4, <1>6, SMT
<1>8. s + Count(timer[c]) * Fd = clock
  BY <1>4, <1>5, <1>7
<1> QED
  BY <1>1, <1>4, <1>5, <1>6, <1>7, <1>8, SMT DEF s

(* A counter that is not started anew does not go back.                        *)
LEMMA CountGrows ==
  ASSUME IInv, turn = "device", Tick, NEW c \in Channels,
         Start(timer[c]) \in {timer[c].start, timer[c].start + Fd}
  PROVE  timer[c].cnt <= Count(timer[c])
<1> DEFINE s == Start(timer[c])
           n == Count(timer[c])
           k == timer[c].cnt
           a == timer[c].start
<1>1. /\ Fd \in Nat \ {0} /\ Wrap \in Nat \ {0} /\ clock \in Nat
      /\ k \in Nat /\ a \in Nat
  BY Parts DEF IInv
<1>2. s \in Nat /\ s + n * Fd = clock /\ n \in Nat /\ s \in {a, a + Fd}
  BY <1>1, CountIsExact, StartIsATick
<1>3. /\ k * Fd + a <= clock
      /\ clock # 0 => k * Fd + a < clock
  BY DEF IInv, CounterBehind
<1>4. k * Fd \in Nat /\ n * Fd \in Nat
  BY <1>1, <1>2, SMT
<1>5. ASSUME n < k
      PROVE  FALSE
  <2> HIDE DEF s, n, k, a
  <2>1. n * Fd + Fd <= k * Fd
    BY <1>1, <1>2, <1>5, OneCountLess
  <2> QED
    BY <1>1, <1>2, <1>3, <1>4, <2>1, SMT
<1> QED
  BY <1>1, <1>2, <1>5, SMT

(* The idle time that a timer allows ends no later than it reaches its compare *)
(* value, although it is computed in a word: what the word loses only makes it *)
(* shorter, and a product of 0 is at least a whole turn of the word.           *)
LEMMA IntervalIsSafe ==
  ASSUME NEW t \in TimerType
  PROVE  /\ Interval(t) \in 1 .. Wrap
         /\ t.cnt < t.compare0 => Interval(t) <= (t.compare0 - t.cnt) * Fd
<1>1. /\ Fd \in Nat \ {0} /\ Wrap \in Nat \ {0} /\ NoBound = Wrap
      /\ t.cnt \in Nat /\ t.compare0 \in Nat
  BY TimerAssumption DEF TimerType, NoBound
<1>2. CASE ~ (t.cnt < t.compare0)
  BY <1>1, <1>2 DEF Interval
<1>3. CASE t.cnt < t.compare0
  <2> DEFINE k == t.compare0 - t.cnt
             p == k * Fd
             d == p % Wrap
  <2>1. k \in Nat \ {0}
    BY <1>1, <1>3, SMT
  <2>2. p \in Nat \ {0}
    <3> HIDE DEF k
    <3> QED
      BY <1>1, <2>1, SMT
  <2>3. Interval(t) = IF d > 0 THEN d ELSE Wrap
    BY <1>1, <1>3 DEF Interval
  <2> HIDE DEF p
  <2>4. p \div Wrap \in Nat /\ d \in 0 .. Wrap - 1 /\ p = (p \div Wrap) * Wrap + d
    BY <1>1, <2>2, Divided
  <2> DEFINE q == p \div Wrap
  <2>5. q \in Nat /\ p = q * Wrap + d
    BY <2>4
  <2> HIDE DEF d, q
  <2>6. q * Wrap \in Nat
    BY <1>1, <2>5, SMT
  <2>7. d <= p
    BY <2>2, <2>4, <2>5, <2>6, SMT
  <2>8. ASSUME d = 0
        PROVE  Wrap <= p
    <3>1. q # 0
      <4>1. ASSUME q = 0
            PROVE  FALSE
        BY <1>1, <2>2, <2>5, <2>8, <4>1, SMT
      <4> QED
        BY <4>1
    <3>2. 0 * Wrap + Wrap <= q * Wrap
      <4>1. 0 < q /\ 0 \in Nat
        BY <2>5, <3>1, SMT
      <4> QED
        BY <1>1, <2>5, <4>1, OneCountLess
    <3> QED
      BY <1>1, <2>5, <2>6, <2>8, <3>2, SMT
  <2>9. Interval(t) \in 1 .. Wrap /\ Interval(t) <= p
    BY <1>1, <2>2, <2>3, <2>4, <2>7, <2>8, SMT
  <2> QED
    BY <2>9 DEF p
<1> QED
  BY <1>2, <1>3

(* A timer after a tick.                                                       *)
LEMMA UpdatedTimer ==
  ASSUME IInv, turn = "device", Tick, NEW c \in Channels
  PROVE  /\ Updated(timer[c]) \in TimerType
         /\ Updated(timer[c]).start = Start(timer[c])
         /\ Updated(timer[c]).cnt = Count(timer[c])
         /\ Updated(timer[c]).compare0 = timer[c].compare0
<1>1. timer[c] \in TimerType /\ clock \in Nat /\ MaxClock \in Nat /\ clock <= MaxClock
  BY Parts DEF IInv
<1>2. Start(timer[c]) \in 0 .. MaxClock
  BY <1>1, StartIsATick
<1>3. Count(timer[c]) \in 0 .. Wrap - 1
  BY CountIsExact
<1> QED
  BY <1>1, <1>2, <1>3 DEF Updated, TimerType

(* The timers that the core and the loop see.                                  *)
LEMMA TickedTimers ==
  ASSUME IInv, turn = "device"
  PROVE  Ticked \in [Channels -> TimerType]
<1>1. ASSUME NEW c \in Channels
      PROVE  Ticked[c] \in TimerType
  BY <1>1, UpdatedTimer, Parts DEF Ticked, IInv
<1> QED
  BY <1>1 DEF Ticked

(* The bound that the device keeps is within that of every timer.              *)
LEMMA BoundIsLeast ==
  ASSUME IInv, turn = "device"
  PROVE  LET b == Min({NoBound} \cup {Interval(Ticked[c]) : c \in Channels})
         IN  /\ b \in 1 .. NoBound
             /\ \A c \in Channels : b <= Interval(Ticked[c])
<1> DEFINE T == {NoBound} \cup {Interval(Ticked[c]) : c \in Channels}
<1>1. \A c \in Channels : Interval(Ticked[c]) \in 1 .. Wrap
  BY TickedTimers, IntervalIsSafe
<1>2. Wrap \in Nat \ {0} /\ NoBound = Wrap
  BY TimerAssumption DEF NoBound
<1>3. T \subseteq 1 .. Wrap /\ T # {}
  BY <1>1, <1>2
<1>4. T \subseteq Nat
  BY <1>2, <1>3
<1>5. Min(T) \in T /\ \A y \in T : Min(T) <= y
  BY <1>3, <1>4, LeastNatural
<1> HIDE DEF T
<1>6. Min(T) \in 1 .. NoBound
  BY <1>2, <1>3, <1>5
<1>7. \A c \in Channels : Interval(Ticked[c]) \in T
  BY DEF T
<1>8. \A c \in Channels : Min(T) <= Interval(Ticked[c])
  BY <1>5, <1>7
<1> QED
  BY <1>6, <1>8 DEF T

-----------------------------------------------------------------------------
(* Every step keeps the invariant.                                             *)

LEMMA TypeKept ==
  ASSUME IInv, [Next]_vars
  PROVE  TypeOK'
<1> USE TimerAssumption
<1>1. TypeOK
  BY DEF IInv
<1>2. ASSUME SupplyClock
      PROVE  TypeOK'
  <2>1. turn = "device" /\ timer' = Ticked /\ turn' = "core" /\ clock' = clock
    BY <1>2 DEF SupplyClock
  <2>2. timer' \in [Channels -> TimerType]
    BY <2>1, TickedTimers
  <2>3. bound' \in 1 .. NoBound
    <3>1. NoBound \in 1 .. NoBound
      BY DEF NoBound
    <3>2. Min({NoBound} \cup {Interval(Ticked[c]) : c \in Channels}) \in 1 .. NoBound
      BY <2>1, BoundIsLeast
    <3> QED
      BY <1>2, <3>1, <3>2 DEF SupplyClock
  <2>4. halted' \in BOOLEAN
    BY <1>1, <1>2 DEF SupplyClock, TypeOK
  <2>5. last' \in [Channels -> -1 .. MaxClock]
    <3>1. clock \in -1 .. MaxClock
      BY <1>1 DEF TypeOK
    <3>2. last' = [c \in Channels |-> IF c \in Firing THEN clock ELSE last[c]]
      BY <1>2 DEF SupplyClock
    <3> QED
      BY <1>1, <3>1, <3>2 DEF TypeOK
  <2> QED
    BY <1>1, <2>1, <2>2, <2>3, <2>4, <2>5 DEF TypeOK
<1>3. ASSUME NEW c \in Channels, NEW t \in TimerType, NEW h \in BOOLEAN,
             NEW l \in -1 .. MaxClock, Core(c, t, h, l)
      PROVE  TypeOK'
  BY <1>1, <1>3 DEF Core, TypeOK
<1>4. ASSUME NEW c \in Channels, NEW on \in BOOLEAN, WriteCTL0(c, on)
      PROVE  TypeOK'
  <2>1. [timer[c] EXCEPT !.state = IF on THEN "ready" ELSE "stop"] \in TimerType
    BY <1>1 DEF TypeOK, TimerType
  <2>2. last[c] \in -1 .. MaxClock
    BY <1>1 DEF TypeOK
  <2> QED
    BY <1>3, <1>4, <2>1, <2>2 DEF WriteCTL0
<1>5. ASSUME NEW c \in Channels, NEW m \in {"freerun", "interval"}, WriteCTL1(c, m)
      PROVE  TypeOK'
  <2>1. [timer[c] EXCEPT !.mode = m] \in TimerType
    BY <1>1 DEF TypeOK, TimerType
  <2>2. last[c] \in -1 .. MaxClock
    BY <1>1 DEF TypeOK
  <2> QED
    BY <1>3, <1>5, <2>1, <2>2 DEF WriteCTL1
<1>6. ASSUME NEW c \in Channels, NEW v \in Compares, WriteCCR0(c, v)
      PROVE  TypeOK'
  <2>1. [timer[c] EXCEPT !.compare0 = v, !.state = "ready"] \in TimerType
    BY <1>1 DEF TypeOK, TimerType
  <2>2. -1 \in -1 .. MaxClock
    OBVIOUS
  <2> QED
    BY <1>3, <1>6, <2>1, <2>2 DEF WriteCCR0
<1>7. ASSUME OtherInstruction
      PROVE  TypeOK'
  BY <1>1, <1>7 DEF OtherInstruction, TypeOK
<1>8. ASSUME Advance
      PROVE  TypeOK'
  <2>1. clock \in Nat /\ bound \in Nat
    BY <1>1 DEF TypeOK, NoBound
  <2>2. clock' \in 0 .. MaxClock
    BY <1>8, <2>1 DEF Advance
  <2> QED
    BY <1>1, <1>8, <2>2 DEF Advance, TypeOK
<1>9. ASSUME DeviceReset
      PROVE  TypeOK'
  <2>1. NewTimer \in TimerType
    BY DEF NewTimer, TimerType
  <2>2. NoBound \in 1 .. NoBound /\ 0 \in 0 .. MaxClock /\ -1 \in -1 .. MaxClock
    BY DEF NoBound
  <2> QED
    BY <1>1, <1>9, <2>1, <2>2 DEF DeviceReset, TypeOK
<1>10. CASE UNCHANGED vars
  BY <1>1, <1>10 DEF TypeOK, vars
<1> QED
  BY <1>2, <1>4, <1>5, <1>6, <1>7, <1>8, <1>9, <1>10 DEF Next

(* The part of the invariant that speaks of one channel.                       *)
Channel(c) == CounterBehind(c) /\ AheadOfClock(c) /\ FiredBefore(c)

(* A tick: every counter is made exact, so it is not past its compare value    *)
(* and the bound leaves room; a timer that fires stands at its compare value,  *)
(* and one that is started anew has left the firing behind by a whole count.   *)
LEMMA KeptAtTick ==
  ASSUME IInv, SupplyClock, Tick, TypeOK', NEW c \in Channels
  PROVE  Channel(c)'
<1> DEFINE t == timer[c]
           u == timer'[c]
<1>1. turn = "device" /\ turn' = "core" /\ clock' = clock /\ timer' = Ticked
  BY DEF SupplyClock
<1>2. /\ Fd \in Nat \ {0} /\ Wrap \in Nat \ {0} /\ NoBound = Wrap
      /\ clock \in Nat /\ t.start \in Nat /\ t.cnt \in Nat /\ t.compare0 \in Nat
      /\ last[c] \in Int /\ (last[c] # -1 => last[c] \in Nat)
  BY Parts DEF IInv
<1>3. u = Updated(t)
  BY <1>1 DEF Ticked
<1>4. u.start = Start(t) /\ u.cnt = Count(t) /\ u.compare0 = t.compare0 /\ u \in TimerType
  BY <1>1, <1>3, UpdatedTimer
<1>5. /\ u.start \in Nat /\ u.start % Fd = 0 /\ u.start <= clock /\ t.start <= u.start
      /\ u.start \in {t.start, t.start + Fd} \/ u.start = clock
  BY <1>1, <1>4, StartIsATick
<1>6. u.cnt \in Nat /\ u.start + u.cnt * Fd = clock
  BY <1>1, <1>2, <1>4, CountIsExact
<1>7. u.start \in {t.start, t.start + Fd} => t.cnt <= u.cnt
  BY <1>1, <1>4, CountGrows
<1>8. clock % Fd = 0
  BY DEF Tick
<1>9. last'[c] = IF c \in Firing THEN clock ELSE last[c]
  BY DEF SupplyClock
<1> HIDE DEF t, u
<1>10. u.cnt * Fd \in Nat
  BY <1>2, <1>6, SMT
<1>11. CounterBehind(c)'
  BY <1>1, <1>2, <1>5, <1>6, <1>10, SMT DEF CounterBehind, u
<1>12. AheadOfClock(c)'
  <2> SUFFICES ASSUME u.cnt < u.compare0
               PROVE  /\ clock + 1 <= u.start + u.compare0 * Fd
                      /\ clock + bound' <= u.start + u.compare0 * Fd
    BY <1>1 DEF AheadOfClock, Due, u
  <2>1. bound' = Min({NoBound} \cup {Interval(Ticked[d]) : d \in Channels})
    BY DEF SupplyClock
  <2>2. bound' \in 1 .. NoBound /\ bound' <= Interval(u)
    BY <1>1, <2>1, BoundIsLeast DEF u
  <2>3. Interval(u) \in 1 .. Wrap /\ Interval(u) <= (u.compare0 - u.cnt) * Fd
    BY <1>4, IntervalIsSafe
  <2> DEFINE k == u.compare0 - u.cnt
  <2>4. k \in Nat \ {0} /\ u.compare0 = u.cnt + k
    BY <1>2, <1>4, <1>6, SMT
  <2>5. Interval(u) <= k * Fd
    BY <2>3
  <2> HIDE DEF k
  <2>6. u.compare0 * Fd = u.cnt * Fd + k * Fd /\ k * Fd \in Nat
    BY <1>2, <1>6, <2>4, SMT
  <2>7. Interval(u) \in Nat /\ bound' \in Nat /\ bound' >= 1
    BY <1>2, <2>2, <2>3
  <2>8. bound' <= k * Fd
    BY <2>2, <2>5, <2>6, <2>7, SMT
  <2> QED
    BY <1>2, <1>5, <1>6, <1>10, <2>6, <2>7, <2>8, SMT
<1>13. FiredBefore(c)'
  <2>1. CASE c \in Firing
    <3>1. u.cnt = u.compare0
      BY <1>4, <2>1 DEF Firing, Fires, t
    <3> QED
      BY <1>1, <1>2, <1>6, <1>8, <1>9, <2>1, <3>1, SMT DEF FiredBefore, u
  <2>2. CASE c \notin Firing /\ last[c] # -1
    <3>1. /\ last[c] \in Nat /\ last[c] % Fd = 0 /\ last[c] < clock
          /\ t.start >= last[c] + Fd \/ t.cnt >= t.compare0
      BY <1>1, <1>2, <2>2 DEF IInv, FiredBefore, t
    <3>2. last[c] + Fd <= clock
      BY <1>2, <1>8, <3>1, MultiplesApart
    <3>3. u.start >= last[c] + Fd \/ u.cnt >= u.compare0
      <4>1. CASE u.start = clock
        BY <3>2, <4>1
      <4>2. CASE u.start \in {t.start, t.start + Fd}
        BY <1>2, <1>4, <1>5, <1>6, <1>7, <3>1, <4>2, SMT
      <4> QED
        BY <1>5, <4>1, <4>2
    <3> QED
      BY <1>1, <1>2, <1>9, <2>2, <3>1, <3>3, SMT DEF FiredBefore, u
  <2>3. CASE c \notin Firing /\ last[c] = -1
    BY <1>9, <2>3 DEF FiredBefore
  <2> QED
    BY <2>1, <2>2, <2>3
<1> QED
  BY <1>11, <1>12, <1>13 DEF Channel

(* Between two ticks no timer is served and no timer bounds the idle time; the *)
(* next clock is still free, because timers fall due at ticks only.            *)
LEMMA KeptBetweenTicks ==
  ASSUME IInv, SupplyClock, ~ Tick, NEW c \in Channels
  PROVE  Channel(c)'
<1>1. /\ turn = "device" /\ turn' = "core" /\ clock' = clock /\ bound' = NoBound
      /\ timer'[c] = timer[c] /\ last'[c] = last[c]
  BY DEF SupplyClock, Ticked, Firing
<1>2. /\ Fd \in Nat \ {0} /\ clock \in Nat
      /\ timer[c].start \in Nat /\ timer[c].compare0 \in Nat
      /\ last[c] \in Int
  BY Parts DEF IInv
<1>3. CounterBehind(c)'
  BY <1>1 DEF IInv, CounterBehind
<1>4. AheadOfClock(c)'
  <2>1. clock # Due(c)
    <3>1. (timer[c].compare0 * Fd) % Fd = 0 /\ timer[c].compare0 * Fd \in Nat
      BY <1>2, ProductIsMultiple, SMT
    <3>2. timer[c].start % Fd = 0
      BY DEF IInv, CounterBehind
    <3>3. Due(c) % Fd = 0
      BY <1>2, <3>1, <3>2, SumOfMultiples DEF Due
    <3> QED
      BY <3>3 DEF Tick
  <2>2. Due(c) \in Nat
    BY <1>2, SMT DEF Due
  <2>3. Due(c)' = Due(c)
    BY <1>1 DEF Due
  <2>4. timer[c].state = "running" /\ timer[c].cnt < timer[c].compare0 => clock <= Due(c)
    BY <1>1 DEF IInv, AheadOfClock
  <2>5. clock <= Due(c) => clock + 1 <= Due(c)
    BY <1>2, <2>1, <2>2, SMT
  <2> QED
    BY <1>1, <2>3, <2>4, <2>5 DEF AheadOfClock
<1>5. FiredBefore(c)'
  BY <1>1 DEF IInv, FiredBefore
<1> QED
  BY <1>3, <1>4, <1>5 DEF Channel

(* The core leaves counters and their starts alone; what it sets going it      *)
(* makes ready, and a new compare value forgets when the timer fired.          *)
LEMMA KeptByCore ==
  ASSUME IInv, NEW d \in Channels, NEW t, NEW h, NEW l, Core(d, t, h, l),
         t.start = timer[d].start, t.cnt = timer[d].cnt,
         t.state = "running" =>
           timer[d].state = "running" /\ t.compare0 = timer[d].compare0,
         l # -1 => l = last[d] /\ t.compare0 = timer[d].compare0,
         NEW c \in Channels
  PROVE  Channel(c)'
<1>1. /\ turn = "core" /\ turn' = "loop" /\ clock' = clock /\ bound' = bound
      /\ timer' = [timer EXCEPT ![d] = t] /\ last' = [last EXCEPT ![d] = l]
  BY DEF Core
<1>2. timer'[c] = (IF c = d THEN t ELSE timer[c]) /\ last'[c] = (IF c = d THEN l ELSE last[c])
  BY <1>1 DEF IInv, TypeOK
<1>3. timer'[c].start = timer[c].start /\ timer'[c].cnt = timer[c].cnt
  BY <1>2
<1>4. CounterBehind(c)'
  BY <1>1, <1>3 DEF IInv, CounterBehind
<1>5. AheadOfClock(c)'
  <2> SUFFICES ASSUME timer'[c].state = "running", timer'[c].cnt < timer'[c].compare0
               PROVE  clock + 1 <= Due(c)' /\ (bound # NoBound => clock + bound <= Due(c)')
    BY <1>1 DEF AheadOfClock
  <2>1. timer[c].state = "running" /\ timer'[c].compare0 = timer[c].compare0
    BY <1>2
  <2>2. Due(c)' = Due(c) /\ timer[c].cnt < timer[c].compare0
    BY <1>3, <2>1 DEF Due
  <2> QED
    BY <1>1, <2>1, <2>2 DEF IInv, AheadOfClock
<1>6. FiredBefore(c)'
  <2>1. last'[c] # -1 => last'[c] = last[c] /\ timer'[c].compare0 = timer[c].compare0
    BY <1>2
  <2> QED
    BY <1>1, <1>3, <2>1 DEF IInv, FiredBefore
<1> QED
  BY <1>4, <1>5, <1>6 DEF Channel

(* The loop goes no further than every running timer allows.                   *)
LEMMA KeptByAdvance ==
  ASSUME IInv, Advance, NEW c \in Channels
  PROVE  Channel(c)'
<1>1. /\ turn = "loop" /\ turn' = "device" /\ bound' = bound
      /\ timer'[c] = timer[c] /\ last'[c] = last[c]
  BY DEF Advance
<1>2. clock \in Nat /\ bound \in Nat /\ last[c] \in Int
  BY Parts, TimerAssumption DEF IInv, TypeOK, NoBound
<1>3. clock' \in Nat /\ clock < clock' /\ (clock' <= clock + 1 \/ (bound # NoBound /\ clock' <= clock + bound))
  BY <1>2, SMT DEF Advance
<1>4. timer[c].start \in Nat /\ timer[c].cnt * Fd \in Nat /\ Due(c) \in Nat
  <2>1. timer[c].start \in Nat /\ timer[c].cnt \in Nat /\ timer[c].compare0 \in Nat /\ Fd \in Nat
    BY Parts DEF IInv
  <2> QED
    BY <2>1, SMT DEF Due
<1>5. CounterBehind(c)'
  <2>1. /\ timer[c].start % Fd = 0
        /\ timer[c].cnt * Fd + timer[c].start <= clock
        /\ timer[c].start <= clock
    BY DEF IInv, CounterBehind
  <2>2. /\ timer[c].cnt * Fd + timer[c].start < clock'
        /\ timer[c].start < clock'
    BY <1>2, <1>3, <1>4, <2>1, SMT
  <2>3. /\ timer[c].cnt * Fd + timer[c].start <= clock'
        /\ timer[c].start <= clock'
    BY <1>2, <1>3, <1>4, <2>2, SMT
  <2> QED
    BY <1>1, <2>1, <2>2, <2>3 DEF CounterBehind
<1>6. AheadOfClock(c)'
  <2>1. timer[c].state = "running" /\ timer[c].cnt < timer[c].compare0 =>
          clock + 1 <= Due(c) /\ (bound # NoBound => clock + bound <= Due(c))
    BY <1>1 DEF IInv, AheadOfClock
  <2>2. Due(c)' = Due(c)
    BY <1>1 DEF Due
  <2>3. timer[c].state = "running" /\ timer[c].cnt < timer[c].compare0 => clock' <= Due(c)
    BY <1>2, <1>3, <1>4, <2>1, SMT
  <2> QED
    BY <1>1, <2>2, <2>3 DEF AheadOfClock
<1>7. FiredBefore(c)'
  <2>1. last[c] # -1 => last[c] % Fd = 0 /\ last[c] <= clock
                        /\ (timer[c].start >= last[c] + Fd \/ timer[c].cnt >= timer[c].compare0)
    BY DEF IInv, FiredBefore
  <2>2. last[c] # -1 => last[c] <= clock' /\ last[c] < clock'
    BY <1>2, <1>3, <2>1, SMT
  <2> QED
    BY <1>1, <2>1, <2>2 DEF FiredBefore
<1> QED
  BY <1>5, <1>6, <1>7 DEF Channel

(* A fresh device.                                                             *)
LEMMA FreshChannel ==
  ASSUME NEW c \in Channels, clock = 0, timer[c] = NewTimer, last[c] = -1, turn = "device"
  PROVE  Channel(c)
<1>1. 0 % Fd = 0 /\ 0 * Fd = 0
  BY TimerAssumption, SMT
<1> QED
  BY <1>1 DEF Channel, CounterBehind, AheadOfClock, FiredBefore, NewTimer

LEMMA InitIInv ==
  ASSUME Init
  PROVE  IInv
<1>1. NewTimer \in TimerType
  BY TimerAssumption DEF NewTimer, TimerType
<1>2. TypeOK
  <2>1. 0 \in 0 .. MaxClock /\ -1 \in -1 .. MaxClock /\ NoBound \in 1 .. NoBound
    BY TimerAssumption, SMT DEF NoBound
  <2>2. timer \in [Channels -> TimerType] /\ last \in [Channels -> -1 .. MaxClock]
    BY <1>1, <2>1 DEF Init
  <2> QED
    BY <2>1, <2>2 DEF Init, TypeOK
<1>3. \A c \in Channels : Channel(c)
  BY FreshChannel DEF Init
<1> QED
  BY <1>2, <1>3 DEF IInv, Channel

LEMMA NextIInv ==
  ASSUME IInv, [Next]_vars
  PROVE  IInv'
<1>1. TypeOK'
  BY TypeKept
<1>2. ASSUME NEW c \in Channels
      PROVE  Channel(c)'
  <2>1. CASE SupplyClock
    BY <1>1, <1>2, <2>1, KeptAtTick, KeptBetweenTicks
  <2>2. ASSUME NEW d \in Channels, NEW on \in BOOLEAN, WriteCTL0(d, on)
        PROVE  Channel(c)'
    <3> DEFINE t == [timer[d] EXCEPT !.state = IF on THEN "ready" ELSE "stop"]
    <3>1. /\ t.start = timer[d].start /\ t.cnt = timer[d].cnt
          /\ t.compare0 = timer[d].compare0 /\ t.state # "running"
      BY DEF IInv, TypeOK, TimerType
    <3>2. Core(d, t, FALSE, last[d])
      BY <2>2 DEF WriteCTL0
    <3> HIDE DEF t
    <3> QED
      BY <1>2, <3>1, <3>2, KeptByCore
  <2>3. ASSUME NEW d \in Channels, NEW m \in {"freerun", "interval"}, WriteCTL1(d, m)
        PROVE  Channel(c)'
    <3> DEFINE t == [timer[d] EXCEPT !.mode = m]
    <3>1. /\ t.start = timer[d].start /\ t.cnt = timer[d].cnt
          /\ t.compare0 = timer[d].compare0 /\ t.state = timer[d].state
      BY DEF IInv, TypeOK, TimerType
    <3>2. Core(d, t, FALSE, last[d])
      BY <2>3 DEF WriteCTL1
    <3> HIDE DEF t
    <3> QED
      BY <1>2, <3>1, <3>2, KeptByCore
  <2>4. ASSUME NEW d \in Channels, NEW v \in Compares, WriteCCR0(d, v)
        PROVE  Channel(c)'
    <3> DEFINE t == [timer[d] EXCEPT !.compare0 = v, !.state = "ready"]
    <3>1. /\ t.start = timer[d].start /\ t.cnt = timer[d].cnt /\ t.state # "running"
      BY DEF IInv, TypeOK, TimerType
    <3>2. Core(d, t, FALSE, -1)
      BY <2>4 DEF WriteCCR0
    <3> HIDE DEF t
    <3> QED
      BY <1>2, <3>1, <3>2, KeptByCore
  <2>5. CASE OtherInstruction
    <3>1. turn = "core" /\ turn' = "loop" /\ UNCHANGED <<clock, timer, bound, last>>
      BY <2>5 DEF OtherInstruction
    <3> QED
      BY <1>2, <3>1 DEF IInv, Channel, CounterBehind, AheadOfClock, FiredBefore, Due
  <2>6. CASE Advance
    BY <1>2, <2>6, KeptByAdvance
  <2>7. CASE DeviceReset
    <3>1. clock' = 0 /\ timer'[c] = NewTimer /\ last'[c] = -1 /\ turn' = "device"
      BY <1>2, <2>7 DEF DeviceReset
    <3>2. 0 % Fd = 0 /\ 0 * Fd = 0
      BY TimerAssumption, SMT
    <3> QED
      BY <3>1, <3>2 DEF Channel, CounterBehind, AheadOfClock, FiredBefore, NewTimer
  <2>8. CASE UNCHANGED vars
    BY <1>2, <2>8 DEF IInv, Channel, CounterBehind, AheadOfClock, FiredBefore, Due, vars
  <2> QED
    BY <2>1, <2>2, <2>3, <2>4, <2>5, <2>6, <2>7, <2>8 DEF Next
<1> QED
  BY <1>1, <1>2 DEF IInv, Channel

LEMMA Invariant == Spec => []IInv
<1>1. Init => IInv
  BY InitIInv
<1>2. IInv /\ [Next]_vars => IInv'
  BY NextIInv
<1> QED
  BY <1>1, <1>2, PTL DEF Spec

-----------------------------------------------------------------------------
(* Every variable keeps its type; so the subtraction from the clock never      *)
(* borrows, no counter wraps and every idle time is at least one clock.        *)
THEOREM TypeCorrect == Spec => []TypeOK
<1>1. IInv => TypeOK
  BY DEF IInv
<1> QED
  BY <1>1, Invariant, PTL

(* A skipped clock never jumps over the one at which a running interval timer  *)
(* is to fire, for any number of channels and any width of the bound.          *)
THEOREM NeverOverdue == Spec => []NotOverdue
<1>1. IInv => NotOverdue
  <2> SUFFICES ASSUME IInv, NEW c \in Channels,
                      timer[c].state = "running", timer[c].cnt < timer[c].compare0
               PROVE  clock <= Due(c)
    BY DEF NotOverdue, Due
  <2>1. clock \in Nat /\ Due(c) \in Nat
    <3>1. clock \in Nat /\ timer[c].start \in Nat /\ timer[c].compare0 \in Nat /\ Fd \in Nat
      BY Parts DEF IInv
    <3> QED
      BY <3>1, SMT DEF Due
  <2>2. clock <= Due(c) \/ clock + 1 <= Due(c)
    BY DEF IInv, AheadOfClock
  <2> QED
    BY <2>1, <2>2, SMT
<1> QED
  BY <1>1, Invariant, PTL

(* An interval timer that has fired does not fire again before compare0 + 1    *)
(* counts are over, unless its compare register is written.                    *)
THEOREM TimeBaseNeverFast == Spec => NoEarlyFiring
<1>1. ASSUME IInv, SupplyClock, NEW c \in Channels, c \in Firing, last[c] # -1
      PROVE  clock - last[c] >= (timer[c].compare0 + 1) * Fd
  <2> DEFINE t == timer[c]
             v == t.compare0
             l == last[c]
  <2>1. turn = "device"
    BY <1>1 DEF SupplyClock
  <2>2. Tick /\ t.mode = "interval" /\ Count(t) = v
    BY <1>1 DEF Firing, Fires
  <2>3. /\ Fd \in Nat \ {0} /\ clock \in Nat /\ v \in Nat /\ l \in Nat
        /\ t.start \in Nat /\ t.cnt \in Nat
    BY <1>1, Parts DEF IInv
  <2>4. Start(t) \in Nat /\ Start(t) + v * Fd = clock
    BY <1>1, <2>1, <2>2, StartIsATick, CountIsExact
  <2>5. l % Fd = 0 /\ l < clock /\ (t.start >= l + Fd \/ t.cnt >= v)
    BY <1>1, <2>1 DEF IInv, FiredBefore
  <2>6. Start(t) = clock \/ Start(t) = t.start
    BY <2>2 DEF Start
  <2>7. clock % Fd = 0
    BY <2>2 DEF Tick
  <2>8. l + Fd <= clock
    <3> HIDE DEF l
    <3> QED
      BY <2>3, <2>5, <2>7, MultiplesApart
  <2>9. t.cnt * Fd + t.start < clock
    <3>1. clock # 0
      BY <2>3, <2>5, SMT
    <3> QED
      BY <1>1, <2>1, <3>1 DEF IInv, CounterBehind
  <2>10. (v + 1) * Fd = v * Fd + Fd /\ v * Fd \in Nat /\ t.cnt * Fd \in Nat
    BY <2>3, SMT
  <2>11. Start(t) >= l + Fd
    <3>1. CASE Start(t) = clock
      BY <2>8, <3>1
    <3>2. CASE Start(t) = t.start /\ t.start >= l + Fd
      BY <3>2
    <3>3. CASE Start(t) = t.start /\ t.cnt >= v
      <4> DEFINE k == t.cnt
                 a == t.start
      <4>1. k * Fd + a < clock /\ a + v * Fd = clock
        BY <2>4, <2>9, <3>3
      <4>2. k \in Nat /\ a \in Nat /\ k >= v /\ k * Fd \in Nat
        BY <2>3, <2>10, <3>3
      <4> HIDE DEF k, a, v
      <4>3. k # v
        BY <2>3, <2>10, <4>1, <4>2, SMT
      <4>4. v * Fd + Fd <= k * Fd
        <5>1. v < k
          BY <2>3, <4>2, <4>3, SMT
        <5> QED
          BY <2>3, <4>2, <5>1, OneCountLess
      <4> QED
        BY <2>3, <2>10, <4>1, <4>2, <4>4, SMT
    <3> QED
      BY <2>5, <2>6, <3>1, <3>2, <3>3
  <2> HIDE DEF t, v, l
  <2>12. clock - l >= (v + 1) * Fd
    BY <2>3, <2>4, <2>10, <2>11, SMT
  <2> QED
    BY <2>12 DEF t, v, l
<1>2. IInv => [\A c \in Channels :
                 SupplyClock /\ c \in Firing /\ last[c] # -1
                   => clock - last[c] >= (timer[c].compare0 + 1) * Fd]_vars
  BY <1>1
<1> QED
  BY <1>2, Invariant, PTL DEF NoEarlyFiring

(* The counter that a program reads goes back only where the timer starts anew *)
(* or the device is reset.                                                     *)
THEOREM CounterNeverBackwards == Spec => NeverBackwards
<1>1. ASSUME IInv, Next, NEW c \in Channels, timer'[c].cnt < timer[c].cnt
      PROVE  timer[c].state = "ready" \/ DeviceReset
  <2>1. timer[c].cnt \in Nat
    BY <1>1, Parts DEF IInv
  <2>2. ASSUME timer'[c].cnt = timer[c].cnt
        PROVE  FALSE
    BY <1>1, <2>1, <2>2, SMT
  <2>3. CASE SupplyClock
    <3>1. turn = "device" /\ timer'[c] = IF Tick THEN Updated(timer[c]) ELSE timer[c]
      BY <1>1, <2>3 DEF SupplyClock, Ticked
    <3>2. Tick
      BY <2>2, <3>1
    <3>3. timer'[c].cnt = Count(timer[c]) /\ Count(timer[c]) \in Nat
      BY <1>1, <3>1, <3>2, UpdatedTimer, CountIsExact, TimerAssumption
    <3>4. ASSUME timer[c].state # "ready"
          PROVE  FALSE
      <4>1. Start(timer[c]) \in {timer[c].start, timer[c].start + Fd}
        BY <1>1, <3>1, <3>2, <3>4, StartIsATick
      <4>2. timer[c].cnt <= Count(timer[c])
        BY <1>1, <3>1, <3>2, <4>1, CountGrows
      <4> QED
        BY <1>1, <2>1, <3>3, <4>2, SMT
    <3> QED
      BY <3>4
  <2>4. ASSUME NEW d \in Channels, NEW t, NEW h, NEW l, Core(d, t, h, l), t.cnt = timer[d].cnt
        PROVE  FALSE
    BY <1>1, <2>2, <2>4 DEF Core, IInv, TypeOK
  <2>5. ASSUME NEW d \in Channels, NEW on \in BOOLEAN, WriteCTL0(d, on)
        PROVE  FALSE
    <3>1. [timer[d] EXCEPT !.state = IF on THEN "ready" ELSE "stop"].cnt = timer[d].cnt
      BY <1>1 DEF IInv, TypeOK, TimerType
    <3> QED
      BY <2>4, <2>5, <3>1 DEF WriteCTL0
  <2>6. ASSUME NEW d \in Channels, NEW m \in {"freerun", "interval"}, WriteCTL1(d, m)
        PROVE  FALSE
    <3>1. [timer[d] EXCEPT !.mode = m].cnt = timer[d].cnt
      BY <1>1 DEF IInv, TypeOK, TimerType
    <3> QED
      BY <2>4, <2>6, <3>1 DEF WriteCTL1
  <2>7. ASSUME NEW d \in Channels, NEW v \in Compares, WriteCCR0(d, v)
        PROVE  FALSE
    <3>1. [timer[d] EXCEPT !.compare0 = v, !.state = "ready"].cnt = timer[d].cnt
      BY <1>1 DEF IInv, TypeOK, TimerType
    <3> QED
      BY <2>4, <2>7, <3>1 DEF WriteCCR0
  <2>8. CASE OtherInstruction \/ Advance
    BY <2>2, <2>8 DEF OtherInstruction, Advance
  <2> QED
    BY <1>1, <2>3, <2>5, <2>6, <2>7, <2>8 DEF Next
<1>2. IInv /\ [Next]_vars =>
        [\A c \in Channels :
           timer'[c].cnt < timer[c].cnt => timer[c].state = "ready" \/ DeviceReset]_vars
  BY <1>1
<1> QED
  BY <1>2, Invariant, PTL DEF NeverBackwards, Spec
=============================================================================
