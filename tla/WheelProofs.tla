---------------------------- MODULE WheelProofs -----------------------------
(***************************************************************************)
(* A wheel: its encoder, its controller and the bridge of its motor.       *)
(* For every width of the counters: the counters follow the wheels, and    *)
(* the odometry adds up what the ticks saw.  For all pins and any number   *)
(* of changes of the parameters: no pin stays driven, and each tick        *)
(* reaches the motors.                                                     *)
(***************************************************************************)
EXTENDS Encoder, HBridge, JointController, TLAPS

-----------------------------------------------------------------------------
(* Remainders *)

\* An integer is a multiple of n and a remainder.
LEMMA Quotient ==
  ASSUME NEW n \in Nat \ {0}, NEW a \in Int
  PROVE  \E k \in Int, r \in 0 .. n - 1 : a = n * k + r /\ a % n = r /\ a \div n = k
<1>1. a = n * (a \div n) + (a % n)
  OBVIOUS
<1>2. a \div n \in Int /\ a % n \in 0 .. n - 1
  OBVIOUS
<1> QED BY <1>1, <1>2

\* The remainder is that of the integer.
LEMMA Remainder ==
  ASSUME NEW n \in Nat \ {0}, NEW k \in Int, NEW r \in 0 .. n - 1
  PROVE  (n * k + r) % n = r
OBVIOUS

\* Multiplication distributes over the differences used here.
LEMMA Distributes ==
  ASSUME NEW n \in Int, NEW k \in Int, NEW j \in Int
  PROVE  n * k + n * j = n * (k + j) /\ n * k \in Int /\ n * j \in Int
OBVIOUS

\* A multiple of n more has the same remainder.
LEMMA AddMultiple ==
  ASSUME NEW n \in Nat \ {0}, NEW a \in Int, NEW k \in Int
  PROVE  (a + n * k) % n = a % n
<1>1. PICK j \in Int, r \in 0 .. n - 1 : a = n * j + r /\ a % n = r
  BY Quotient
<1>2. n * j \in Int /\ n * k \in Int /\ n * j + n * k = n * (j + k)
  BY Distributes
<1>3. a + n * k = n * (j + k) + r /\ j + k \in Int
  BY <1>1, <1>2
<1> QED BY <1>1, <1>3, Remainder

\* The remainder of a sum is that of the sum of the remainders.
LEMMA AddRemainder ==
  ASSUME NEW n \in Nat \ {0}, NEW a \in Int, NEW b \in Int
  PROVE  ((a % n) + b) % n = (a + b) % n
<1>1. PICK j \in Int, r \in 0 .. n - 1 : a = n * j + r /\ a % n = r
  BY Quotient
<1>2. n * j \in Int
  BY Distributes
<1>3. a + b = (r + b) + n * j /\ r + b \in Int
  BY <1>1, <1>2
<1>4. ((r + b) + n * j) % n = (r + b) % n
  BY <1>3, AddMultiple
<1> QED BY <1>1, <1>3, <1>4

\* Two numbers of the same remainder that are less than n apart are equal.
LEMMA SameRemainder ==
  ASSUME NEW n \in Nat \ {0}, NEW a \in Int, NEW b \in Int,
         a % n = b % n, a - b < n, b - a < n
  PROVE  a = b
<1>1. PICK j \in Int, r \in 0 .. n - 1 : a = n * j + r /\ a % n = r
  BY Quotient
<1>2. PICK k \in Int, s \in 0 .. n - 1 : b = n * k + s /\ b % n = s
  BY Quotient
<1>3. n * j \in Int /\ n * k \in Int /\ n * j - n * k < n /\ n * k - n * j < n
  BY <1>1, <1>2, Distributes
<1>4. j - k >= 1 => n * j - n * k >= n
  OBVIOUS
<1>5. k - j >= 1 => n * k - n * j >= n
  OBVIOUS
<1>6. j = k
  BY <1>3, <1>4, <1>5
<1> QED BY <1>1, <1>2, <1>6

-----------------------------------------------------------------------------
(* Counters *)

\* A counter has an even number of values, for a byte has.
LEMMA ValuesType ==
  /\ Byte \in Nat \ {0} /\ Values \in Nat \ {0} /\ Values >= Byte
  /\ Values \div 2 \in Nat /\ Values = 2 * (Values \div 2)
<1>1. PICK k \in Int, r \in 0 .. 1 : Byte = 2 * k + r /\ Byte % 2 = r
  BY EncoderAssumption, Quotient
<1>2. Byte = 2 * k /\ k \in Nat \ {0}
  BY <1>1, EncoderAssumption
<1>3. Values = 2 * (k * Byte) /\ k * Byte \in Nat
  BY <1>2, EncoderAssumption DEF Values
<1>4. Values \div 2 = k * Byte
  BY <1>3
<1>5. Values >= Byte
  BY EncoderAssumption DEF Values
<1> QED BY <1>3, <1>4, <1>5, EncoderAssumption

\* A counter's lowest bit is that of the number it stands for.
LEMMA Parity == ASSUME NEW a \in Int PROVE (a % Values) % 2 = a % 2
<1>1. PICK k \in Int, r \in 0 .. Values - 1 : a = Values * k + r /\ a % Values = r
  BY ValuesType, Quotient
<1> DEFINE h == Values \div 2
<1>2. Values * k = 2 * (h * k) /\ h * k \in Int
  BY ValuesType
<1>3. a = r + 2 * (h * k) /\ r \in Int
  BY <1>1, <1>2, ValuesType
<1>4. (r + 2 * (h * k)) % 2 = r % 2
  BY <1>2, <1>3, AddMultiple
<1> QED BY <1>1, <1>3, <1>4

\* The difference of two counters is the difference of what they stand for, unless that is
\* half their range or more.
LEMMA DifferenceExact ==
  ASSUME NEW a \in Int, NEW b \in Int, a - b < Values \div 2, b - a <= Values \div 2
  PROVE  Difference(a % Values, b % Values) = a - b
<1> DEFINE h == Values \div 2
<1>1. a % Values \in Int /\ b % Values \in Int /\ h \in Nat
  BY ValuesType
<1>2. PICK j \in Int, r \in 0 .. Values - 1 : b = Values * j + r /\ b % Values = r
  BY ValuesType, Quotient
<1>3. PICK c \in Int, d \in Int : c = h - r /\ d = a - b + h
  BY <1>1, <1>2
<1>4. ((a % Values) + c) % Values = (a + c) % Values
  BY ValuesType, AddRemainder
<1>5. a + c = d + Values * j
  BY <1>1, <1>2, <1>3, ValuesType
<1>6. (d + Values * j) % Values = d % Values
  BY ValuesType, AddMultiple
<1>7. d % Values = d
  BY <1>1, <1>3, ValuesType
<1>8. (a % Values) - (b % Values) + h = (a % Values) + c
  BY <1>1, <1>2, <1>3, ValuesType
<1> QED BY <1>1, <1>3, <1>4, <1>5, <1>6, <1>7, <1>8 DEF Difference

\* What the transition table makes of two readings of the pins: a quarter turn is counted,
\* two are not, three for one the other way.
LEMMA TransitionCounts ==
  ASSUME NEW a \in Int, NEW b \in Int
  PROVE  /\ Transition(Pins(a), Pins(b)) \in {-1, 0, 1}
         /\ b - a \in {-1, 0, 1} => Transition(Pins(a), Pins(b)) = b - a
         /\ (a + Transition(Pins(a), Pins(b))) % 2 = b % 2
<1> DEFINE Pair(m) == <<<<0, 0>>, <<0, 1>>, <<1, 1>>, <<1, 0>>>>[m + 1]
<1>1. PICK j \in Int, m \in 0 .. 3 : a = 4 * j + m /\ a % 4 = m
  BY Quotient
<1>2. PICK k \in Int, n \in 0 .. 3 : b = 4 * k + n /\ b % 4 = n
  BY Quotient
<1>3. Pins(a) = Pair(m) /\ Pins(b) = Pair(n)
  BY <1>1, <1>2 DEF Pins
<1>4. Pair(0) = <<0, 0>> /\ Pair(1) = <<0, 1>> /\ Pair(2) = <<1, 1>> /\ Pair(3) = <<1, 0>>
  OBVIOUS
<1>5. /\ n - m \in {1, -3} => Transition(Pair(m), Pair(n)) = 1
      /\ n - m \in {-1, 3} => Transition(Pair(m), Pair(n)) = -1
      /\ n - m \in {0, 2, -2} => Transition(Pair(m), Pair(n)) = 0
  <2> HIDE DEF Pair
  <2>1. (m = 0 \/ m = 1 \/ m = 2 \/ m = 3) /\ (n = 0 \/ n = 1 \/ n = 2 \/ n = 3)
    OBVIOUS
  <2> QED BY <1>4, <2>1 DEF Transition, Forward
<1> HIDE DEF Pair
<1>6. n - m \in {1, -3} \/ n - m \in {-1, 3} \/ n - m \in {0, 2, -2}
  OBVIOUS
<1> QED BY <1>1, <1>2, <1>3, <1>5, <1>6
-----------------------------------------------------------------------------
(* CountsTurns *)

\* Where the wheels can be
Positions == -Reach .. Reach + 3

\* The interrupt saw the pins of the position it last served, and at first those of phase 0;
\* it is not behind by two quarter turns while late is 0.
CountInv ==
  /\ phase \in [Encoders -> 0 .. 3]
  /\ wheel \in [Encoders -> Positions] /\ served \in [Encoders -> Positions]
  /\ \A e \in Encoders : wheel[e] - phase[e] \in -Reach .. Reach
  /\ current \in [Encoders -> Counts] /\ slip \in [Encoders -> Int]
  /\ interrupted \in BOOLEAN /\ late \in Nat
  /\ IF interrupted THEN encoder_status = [e \in Encoders |-> Pins(served[e])]
     ELSE /\ encoder_status = [e \in Encoders |-> Pins(0)]
          /\ served = phase /\ slip = Zeros /\ current = Zeros
  /\ late = 0 => \A e \in Encoders : wheel[e] - served[e] \in {-1, 0, 1}
  /\ CountsTurns

\* The pins of an even phase are equal.
LEMMA PinsParity == \A n \in Int : (Pins(n)[1] + Pins(n)[2]) % 2 = n % 2
<1> SUFFICES ASSUME NEW n \in Int PROVE (Pins(n)[1] + Pins(n)[2]) % 2 = n % 2
  OBVIOUS
<1>1. PICK k \in Int, m \in 0 .. 3 : n = 4 * k + m /\ n % 4 = m
  BY Quotient
<1>2. /\ m = 0 => Pins(n) = <<0, 0>>
      /\ m = 1 => Pins(n) = <<0, 1>>
      /\ m = 2 => Pins(n) = <<1, 1>>
      /\ m = 3 => Pins(n) = <<1, 0>>
  BY <1>1 DEF Pins
<1>3. m = 0 \/ m = 1 \/ m = 2 \/ m = 3
  OBVIOUS
<1> QED BY <1>1, <1>2, <1>3

\* The wheels start anywhere, the counters and the stored status at 0.
LEMMA CountInit == EncoderInit => CountInv
<1> SUFFICES ASSUME EncoderInit PROVE CountInv
  OBVIOUS
<1>1. 0 \in Counts /\ 0 % Values = 0 /\ 0 % 2 = 0 /\ 0 % 4 = 0 /\ Reach \in Nat
  BY EncoderAssumption, ValuesType DEF Counts
<1>2. Pins(0) = <<0, 0>>
  BY <1>1 DEF Pins
<1>3. phase \in [Encoders -> Positions] /\ phase \in [Encoders -> 0 .. 3]
  BY <1>1 DEF EncoderInit, Positions
<1>4. \A e \in Encoders : phase[e] - phase[e] = 0
  BY <1>3
<1>5. CountsTurns
  BY <1>1, <1>4 DEF EncoderInit, CountsTurns, TurnsCounted, Zeros
<1>6. /\ wheel = phase /\ served = phase /\ current = Zeros /\ slip = Zeros /\ late = 0
      /\ interrupted = FALSE /\ encoder_status = [e \in Encoders |-> Pins(0)]
  BY <1>2 DEF EncoderInit
<1>7. Zeros \in [Encoders -> Counts] /\ Zeros \in [Encoders -> Int]
  BY <1>1 DEF Zeros
<1>8. \A e \in Encoders : /\ wheel[e] - phase[e] \in -Reach .. Reach
                          /\ wheel[e] - served[e] \in {-1, 0, 1}
  BY <1>1, <1>4, <1>6
<1> QED BY <1>3, <1>5, <1>6, <1>7, <1>8 DEF CountInv

\* The counters are numbers, and the stored status is that of pins.
LEMMA CountTyped ==
  ASSUME CountInv, NEW e \in Encoders
  PROVE  /\ wheel[e] \in Int /\ served[e] \in Int /\ phase[e] \in 0 .. 3
         /\ current[e] \in Int /\ slip[e] \in Int /\ interrupted \in BOOLEAN /\ late \in Nat
         /\ TurnsCounted(e) \in Int
         /\ encoder_status[e] = Pins(IF interrupted THEN served[e] ELSE 0)
<1>1. /\ wheel[e] \in Int /\ served[e] \in Int /\ phase[e] \in 0 .. 3
      /\ current[e] \in Int /\ slip[e] \in Int /\ interrupted \in BOOLEAN /\ late \in Nat
  BY EncoderAssumption, ValuesType DEF CountInv, Positions, Counts
<1>2. encoder_status[e] = Pins(IF interrupted THEN served[e] ELSE 0)
  BY DEF CountInv
<1>3. TurnsCounted(e) \in Int
  BY <1>1 DEF TurnsCounted
<1> QED BY <1>1, <1>2, <1>3

\* A counter's remainder, and one more
LEMMA AddCount ==
  ASSUME NEW n \in Int, NEW t \in Int
  PROVE  ((n % Values) + t) % Values = (n + t) % Values
<1>1. Values \in Nat \ {0}
  BY ValuesType
<1> QED BY <1>1, AddRemainder

\* What the first service of the interrupt, and any other, counts
LEMMA CountServed ==
  ASSUME CountInv, PinChange, NEW e \in Encoders
  PROVE  /\ current'[e] \in Counts /\ slip'[e] \in Int
         /\ late = 0 => /\ current'[e] = TurnsCounted(e)' % Values
                        /\ slip'[e] \in -2 .. 2 /\ (phase[e] = 0 => slip'[e] = 0)
         /\ current'[e] % 2 = wheel[e] % 2
<1> USE ValuesType
<1>1. PICK w \in Int, s \in Int, p \in 0 .. 3, c \in Int, g \in Int :
        w = wheel[e] /\ s = served[e] /\ p = phase[e] /\ c = current[e] /\ g = slip[e]
  BY CountTyped
<1>2. PICK a \in Int : encoder_status[e] = Pins(a) /\ a = (IF interrupted THEN s ELSE 0)
  BY <1>1, CountTyped
<1>3. PICK t \in {-1, 0, 1} : t = Counted(e)
  BY <1>1, <1>2, TransitionCounts DEF Counted
<1>4. (w - a \in {-1, 0, 1} => t = w - a) /\ (a + t) % 2 = w % 2
  <2>1. t = Transition(Pins(a), Pins(w))
    BY <1>1, <1>2, <1>3 DEF Counted
  <2> QED BY <2>1, TransitionCounts
<1>5. /\ current'[e] = (c + t) % Values /\ served'[e] = w /\ phase'[e] = p
      /\ slip'[e] = (IF interrupted THEN g ELSE t - (w - p))
  BY <1>1, <1>3 DEF PinChange, turns
<1>6. current'[e] \in Counts /\ slip'[e] \in Int
  <2>1. slip'[e] \in Int
    BY <1>1, <1>5
  <2>2. PICK n \in Int : n = c + t
    BY <1>1
  <2> QED BY <1>5, <2>1, <2>2 DEF Counts
<1>7. TurnsCounted(e)' = (IF interrupted THEN w - p + g ELSE t)
  BY <1>1, <1>5 DEF TurnsCounted
<1>8. ASSUME late = 0
      PROVE  /\ current'[e] = TurnsCounted(e)' % Values
             /\ slip'[e] \in -2 .. 2 /\ (phase[e] = 0 => slip'[e] = 0)
  <2>1. w - s \in {-1, 0, 1}
    BY <1>1, <1>8 DEF CountInv
  <2>2. CASE interrupted
    <3>1. t = w - s /\ c = (s - p + g) % Values /\ g \in -2 .. 2 /\ (p = 0 => g = 0)
      BY <1>1, <1>2, <1>4, <1>8, <2>1, <2>2 DEF CountInv, CountsTurns, TurnsCounted
    <3>2. PICK n \in Int : n = s - p + g
      BY <1>1
    <3>3. ((n % Values) + t) % Values = (n + t) % Values
      <4>1. t \in Int
        OBVIOUS
      <4> HIDE ValuesType
      <4> QED BY <4>1, AddCount, Zenon
    <3>4. n + t = w - p + g
      BY <3>1, <3>2
    <3> QED BY <1>1, <1>5, <1>7, <2>2, <3>1, <3>2, <3>3, <3>4
  <2>3. CASE ~interrupted
    <3>1. c = 0 /\ s = p
      BY <1>1, <2>3 DEF CountInv, Zeros
    <3>2. slip'[e] = t - (w - p) /\ w - p \in {-1, 0, 1}
      BY <1>5, <2>1, <2>3, <3>1
    <3>3. p = 0 => t = w - p
      BY <1>2, <1>4, <2>3, <3>2
    <3> QED BY <1>1, <1>5, <1>7, <2>3, <3>1, <3>2, <3>3
  <2> QED BY <2>2, <2>3
<1>9. current'[e] % 2 = w % 2
  <2>1. PICK u \in Int : u = c + t
    BY <1>1
  <2>2. current'[e] % 2 = u % 2
    BY <1>5, <2>1, Parity
  <2>3. c % 2 = a % 2
    BY <1>1, <1>2, PinsParity DEF CountInv, CountsTurns
  <2>4. ((c % 2) + t) % 2 = (c + t) % 2 /\ ((a % 2) + t) % 2 = (a + t) % 2
    BY <1>1, AddRemainder
  <2> QED BY <1>4, <2>1, <2>2, <2>3, <2>4
<1> QED BY <1>1, <1>6, <1>8, <1>9

\* The wheels turn, the interrupt serves them: the counters follow.
LEMMA CountStep == CountInv /\ [EncoderNext]_encoderVars => CountInv'
<1> SUFFICES ASSUME CountInv, [EncoderNext]_encoderVars PROVE CountInv'
  OBVIOUS
<1> USE ValuesType, EncoderAssumption DEF CountInv
<1>1. ASSUME NEW e \in Moving, NEW by \in {-1, 1}, Turn(e, by) PROVE CountInv'
  <2>1. e \in Encoders /\ UNCHANGED <<phase, served, slip, interrupted, encoder_status, current>>
    BY <1>1 DEF Turn, isr, Encoders
  <2>2. wheel' = [wheel EXCEPT ![e] = wheel[e] + by] /\ wheel'[e] - phase[e] \in -Reach .. Reach
        /\ late' \in Nat /\ (late' = 0 => late = 0)
    BY <1>1 DEF Turn
  <2>3. wheel' \in [Encoders -> Positions]
        /\ \A f \in Encoders : wheel'[f] - phase[f] \in -Reach .. Reach
    <3>1. wheel[e] \in Int /\ phase[e] \in 0 .. 3
      BY <2>1 DEF Positions
    <3>2. wheel'[e] \in Positions
      BY <2>1, <2>2, <3>1 DEF Positions
    <3> QED BY <2>1, <2>2, <3>2
  <2>4. late' = 0 => \A f \in Encoders : wheel'[f] - served[f] \in {-1, 0, 1}
    <3> SUFFICES ASSUME late' = 0, NEW f \in Encoders
                 PROVE  wheel'[f] - served[f] \in {-1, 0, 1}
      OBVIOUS
    <3>1. late = 0 /\ late' = late
      BY <2>2
    <3>2. CASE f # e
      BY <2>1, <2>2, <3>1, <3>2
    <3>3. CASE f = e
      <4>1. PICK w \in Int, s \in Int, v \in Int :
              w = wheel[e] /\ s = served[e] /\ v = wheel'[e] /\ v = w + by
        BY <2>1, <2>2 DEF Positions
      <4>2. ~(Distance(w, s) = 1 /\ Distance(v, s) = 2)
        BY <1>1, <3>1, <4>1 DEF Turn
      <4>3. w - s \in {-1, 0, 1}
        BY <2>1, <3>1, <4>1
      <4>4. v - s \in {-1, 0, 1}
        BY <4>1, <4>2, <4>3 DEF Distance
      <4> QED BY <3>3, <4>1, <4>4
    <3> QED BY <3>2, <3>3
  <2>5. CountsTurns'
    BY <2>1, <2>2 DEF CountsTurns, TurnsCounted
  <2> QED BY <2>1, <2>2, <2>3, <2>4, <2>5
<1>2. CASE PinChange
  <2>1. served' = wheel /\ wheel' = wheel /\ phase' = phase /\ late' = late /\ interrupted' = TRUE
        /\ encoder_status' = [e \in Encoders |-> Pins(wheel[e])]
    BY <1>2 DEF PinChange, turns
  <2>2. current' \in [Encoders -> Counts] /\ slip' \in [Encoders -> Int]
    <3>1. DOMAIN current' = Encoders /\ current' = [e \in Encoders |-> current'[e]]
      BY <1>2 DEF PinChange
    <3>2. slip' = [e \in Encoders |-> slip'[e]]
      BY <1>2 DEF PinChange
    <3>3. \A e \in Encoders : current'[e] \in Counts /\ slip'[e] \in Int
      BY <1>2, CountServed
    <3> QED BY <3>1, <3>2, <3>3
  <2>3. CountsTurns'
    <3>1. ASSUME NEW e \in Encoders
          PROVE  /\ late' = 0 => /\ current'[e] = TurnsCounted(e)' % Values
                                 /\ slip'[e] \in -2 .. 2 /\ (phase'[e] = 0 => slip'[e] = 0)
                 /\ current'[e] % 2 = (encoder_status'[e][1] + encoder_status'[e][2]) % 2
      <4>1. wheel[e] \in Int /\ encoder_status'[e] = Pins(wheel[e])
        BY <2>1 DEF Positions
      <4>2. (Pins(wheel[e])[1] + Pins(wheel[e])[2]) % 2 = wheel[e] % 2
        BY <4>1, PinsParity
      <4> QED BY <1>2, <2>1, <4>1, <4>2, CountServed
    <3> QED BY <3>1 DEF CountsTurns
  <2>4. \A e \in Encoders : wheel[e] - wheel[e] \in {-1, 0, 1}
    BY DEF Positions
  <2> QED BY <2>1, <2>2, <2>3, <2>4
<1>3. CASE UNCHANGED <<turns, isr>>
  BY <1>3 DEF turns, isr, CountsTurns, TurnsCounted
<1>4. CASE EncoderTick \/ ReadLow \/ ReadHigh \/ AddTicks \/ Reset \/ UNCHANGED encoderVars
  BY <1>3, <1>4 DEF EncoderTick, ReadLow, ReadHigh, AddTicks, Reset, encoderVars
<1> QED BY <1>1, <1>2, <1>4 DEF EncoderNext

\* A counter whose interrupt is never late by two quarter turns is the position
\* of its wheel, across 0 and both ways, up to the two quarter turns its first
\* service may miscount, and it never leaves its phase (encoder.c:24, 49-87).
THEOREM EncoderCounts == EncoderSpec => []CountsTurns
<1>1. CountInv => CountsTurns
  BY DEF CountInv
<1> QED BY CountInit, CountStep, <1>1, PTL DEF EncoderSpec

-----------------------------------------------------------------------------
(* OdometryCatchesUp *)

\* What a wheel turns between two readings, with two bytes and two first services that may
\* be wrong, is less than half a counter's values: at most 32250 quarter turns with counters
\* of 16 bits.
OdometryFits == Span + 6 + 2 * Byte <= Values \div 2

\* Two positions are less than a byte apart.
Close(m, n) == m - n < Byte /\ n - m < Byte

\* The same, where one counts from the phase that e started on and the other may have
\* slipped
Within(m, e) == m - (origin[e] - phase[e]) < Byte + 2 /\ (origin[e] - phase[e]) - m < Byte + 2

\* A counter that stands for a position less than a byte away from n
Near(v, n) == \E m \in Int : Close(m, n) /\ v = m % Values

\* A wheel, the tick's sample of it and what main last read are no further apart than it
\* turns between two readings.
SpanInv ==
  /\ atTick \in [Encoders -> Positions] /\ origin \in [Encoders -> Positions]
  /\ sampled \in [Encoders -> Int]
  /\ late = 0 => \A e \in Encoders : /\ Distance(wheel[e], atTick[e]) <= Span + 1
                                     /\ Distance(wheel[e], origin[e]) <= Span + 1
                                     /\ Distance(atTick[e], origin[e]) <= Span + 2
                                     /\ sampled[e] - (atTick[e] - phase[e]) \in -2 .. 2

\* main has read the position of e in this call.
Taken(e) == mainPc = 4 \/ (mainPc \in {2, 3} /\ e = Order(call)[1])

\* The reset read m for a position that was zero[e].
BeganAt(e, m) == Close(m, zero[e]) /\ (e \notin spoilt => m = zero[e])

\* What the odometry of e has added up since it began at b is what main last read, wrong by
\* less than a byte; a position that waits to be added is less than half a counter's values
\* away from it.
Follows(e, b) ==
  /\ BeganAt(e, b) /\ ticks[e] \in Int /\ previous[e] = (ticks[e] + b) % Values
  /\ IF Taken(e)
       THEN \E m \in Int : /\ Within(m, e) /\ read[e] = m % Values
                           /\ m - (ticks[e] + b) < Values \div 2
                           /\ (ticks[e] + b) - m < Values \div 2
       ELSE Within(ticks[e] + b, e)

\* What the reset has read, of each wheel
ResetInv ==
  /\ mainPc \in {1, 3} /\ Wheel(call) \notin spoilt
       => read[Wheel(call)] = encoder_position[Wheel(call)] % Byte
  /\ \A e \in Encoders : Taken(e) =>
       \E m \in Int : BeganAt(e, m) /\ Within(m, e) /\ read[e] = m % Values

\* The byte read first, while the other is to come
HalfRead == mainPc \in {1, 3} => read[Wheel(call)] \in 0 .. Byte - 1

\* The tick's positions are the wheels', and the odometry follows them.
OdometryInv ==
  /\ CountInv /\ SpanInv /\ HalfRead
  /\ call \in {"none", "update", "reset"} /\ mainPc \in 0 .. 4 /\ (mainPc = 0 <=> call = "none")
  /\ encoder_position \in [Encoders -> Counts] /\ DOMAIN read = Encoders
  /\ zero \in [Encoders -> Int] /\ spoilt \subseteq Encoders
  /\ late = 0 => /\ \A e \in Encoders : encoder_position[e] = sampled[e] % Values
                 /\ IF call = "reset" THEN ResetInv
                    ELSE \A e \in Encoders : \E b \in Int : Follows(e, b)

\* The two bytes of a position
LEMMA HighByte ==
  ASSUME NEW p \in Counts
  PROVE  \E k \in 0 .. Byte - 1, r \in 0 .. Byte - 1 :
           p = Byte * k + r /\ p % Byte = r /\ p \div Byte = k
<1>1. PICK k \in Int, r \in 0 .. Byte - 1 : p = Byte * k + r /\ p % Byte = r /\ p \div Byte = k
  BY Quotient, ValuesType DEF Counts
<1>2. k >= Byte => Byte * k >= Values
  BY ValuesType DEF Values
<1>3. k <= -1 => Byte * k <= -Byte
  BY ValuesType
<1>4. Byte * k \in Int
  BY ValuesType
<1> QED BY <1>1, <1>2, <1>3, <1>4, ValuesType DEF Counts

\* The low byte of one position and the high byte of another one, a, are less than a byte
\* away from a.
LEMMA TornIsNear ==
  ASSUME NEW a \in Int, NEW low \in 0 .. Byte - 1
  PROVE  Near(low + Byte * ((a % Values) \div Byte), a)
<1>1. a % Values \in Counts
  BY ValuesType DEF Counts
<1>2. PICK k \in 0 .. Byte - 1, r \in 0 .. Byte - 1 :
        a % Values = Byte * k + r /\ (a % Values) \div Byte = k
  BY <1>1, HighByte
<1>3. PICK b \in Int : b = Byte * k
  BY ValuesType
<1>4. b >= 0 /\ b <= Values - Byte
  <2>1. k >= 0 => Byte * k >= 0
    BY ValuesType
  <2>2. k <= Byte - 1 => Byte * k <= Byte * (Byte - 1)
    BY ValuesType
  <2>3. Byte * (Byte - 1) = Values - Byte
    BY ValuesType DEF Values
  <2> QED BY <1>3, <2>1, <2>2, <2>3, ValuesType
<1>5. PICK d \in Int, n \in Int : d = low - r /\ n = a + d
  BY <1>1, ValuesType
<1>6. Close(n, a)
  BY <1>5, ValuesType DEF Close
<1>7. ((a % Values) + d) % Values = (a + d) % Values
  BY <1>1, ValuesType, AddRemainder
<1>8. (a % Values) + d = low + b /\ low + b \in Counts
  BY <1>1, <1>2, <1>3, <1>4, <1>5, ValuesType DEF Counts
<1>9. (low + b) % Values = low + b
  BY <1>8, ValuesType DEF Counts
<1> QED BY <1>2, <1>3, <1>5, <1>6, <1>7, <1>8, <1>9 DEF Near

\* The bytes of two positions make a counter.
LEMMA CounterTypes ==
  /\ \A p \in Counts : p % Byte \in 0 .. Byte - 1 /\ p % Byte \in Counts
  /\ \A p \in Counts : \A low \in 0 .. Byte - 1 : low + Byte * (p \div Byte) \in Counts
  /\ \A n \in Int : Pins(n) \in {0, 1} \X {0, 1}
<1>1. ASSUME NEW p \in Counts
      PROVE  p % Byte \in 0 .. Byte - 1 /\ p % Byte \in Counts
  BY <1>1, ValuesType DEF Counts
<1>2. ASSUME NEW p \in Counts, NEW low \in 0 .. Byte - 1
      PROVE  low + Byte * (p \div Byte) \in Counts
  <2>1. PICK k \in 0 .. Byte - 1 : p \div Byte = k
    BY HighByte
  <2>2. Byte * k >= 0 /\ Byte * k <= Byte * (Byte - 1) /\ Byte * k \in Int
    BY ValuesType
  <2>3. Byte * (Byte - 1) = Values - Byte
    BY ValuesType DEF Values
  <2> QED BY <2>1, <2>2, <2>3, ValuesType DEF Counts
<1>3. ASSUME NEW n \in Int PROVE Pins(n) \in {0, 1} \X {0, 1}
  <2>1. n % 4 \in 0 .. 3
    OBVIOUS
  <2> QED BY <2>1 DEF Pins
<1> QED BY <1>1, <1>2, <1>3

\* Each call reads both wheels, one after the other.
LEMMA WheelsAre ==
  /\ left \in Encoders /\ right \in Encoders /\ left # right /\ Encoders = {left, right}
  /\ \A c : Order(c)[1] \in Encoders /\ Order(c)[2] \in Encoders /\ Order(c)[1] # Order(c)[2]
            /\ Encoders = {Order(c)[1], Order(c)[2]}
  /\ mainPc \in {0, 1} => \A c : Wheel(c) = Order(c)[1]
  /\ mainPc \in {2, 3} => \A c : Wheel(c) = Order(c)[2]
<1>1. left \in Encoders /\ right \in Encoders /\ left # right /\ Encoders = {left, right}
  BY EncoderAssumption DEF Encoders
<1>2. \A c : Order(c) = <<right, left>> \/ Order(c) = <<left, right>>
  BY DEF Order
<1>3. 0 \div 2 + 1 = 1 /\ 1 \div 2 + 1 = 1 /\ 2 \div 2 + 1 = 2 /\ 3 \div 2 + 1 = 2
  OBVIOUS
<1>4. \A c : Order(c)[1] \in Encoders /\ Order(c)[2] \in Encoders /\ Order(c)[1] # Order(c)[2]
            /\ Encoders = {Order(c)[1], Order(c)[2]}
  BY <1>1, <1>2
<1>5. mainPc \in {0, 1} => mainPc \div 2 + 1 = 1
  BY <1>3
<1>6. mainPc \in {2, 3} => mainPc \div 2 + 1 = 2
  BY <1>3
<1> QED BY <1>1, <1>4, <1>5, <1>6 DEF Wheel

\* While main reads a position, its call and the wheel stay.
LEMMA WheelStays ==
  ASSUME UNCHANGED <<call, mainPc>>
  PROVE  /\ \A c : Wheel(c)' = Wheel(c)
         /\ Wheel(call)' = Wheel(call) /\ \A e : Taken(e)' = Taken(e)
BY DEF Wheel, Taken, Order

\* Interrupt, tick and odometry hold counters of 16 bits, also of positions that were torn
\* (encoder.c:49-87, orazio_joints.c, orazio_drive_internal.c).
THEOREM EncoderTypes == EncoderSpec => []EncoderTypeOK
<1> DEFINE Inv == CountInv /\ EncoderTypeOK /\ HalfRead
<1>1. EncoderInit => Inv
  <2>1. 0 \in Counts /\ 0 \in Int /\ Reach \in Nat
    BY EncoderAssumption, ValuesType DEF Counts
  <2>2. ASSUME EncoderInit PROVE EncoderTypeOK /\ HalfRead
    <3>1. /\ {wheel, served, atTick, origin} \subseteq [Encoders -> -Reach .. Reach + 3]
          /\ {current, encoder_position, read, previous} \subseteq [Encoders -> Counts]
          /\ {slip, sampled, zero} \subseteq [Encoders -> Int]
      <4>1. phase \in [Encoders -> -Reach .. Reach + 3]
        BY <2>1, <2>2 DEF EncoderInit
      <4> QED BY <2>1, <2>2, <4>1 DEF EncoderInit, Zeros
    <3>2. encoder_status \in [Encoders -> {0, 1} \X {0, 1}]
      BY <2>2 DEF EncoderInit
    <3>3. mainPc = 0 /\ mainPc \in 0 .. 4 /\ call \in {"none", "update", "reset"}
      BY <2>2 DEF EncoderInit
    <3>4. late \in 0 .. MaxLate
      BY <2>2, EncoderAssumption DEF EncoderInit
    <3>5. phase \in [Encoders -> 0 .. 3] /\ spoilt \subseteq Encoders /\ interrupted \in BOOLEAN
      BY <2>2 DEF EncoderInit
    <3> QED BY <3>1, <3>2, <3>3, <3>4, <3>5 DEF EncoderTypeOK, HalfRead
  <2> QED BY <2>2, CountInit
<1>2. Inv /\ [EncoderNext]_encoderVars => Inv'
  <2> SUFFICES ASSUME Inv, [EncoderNext]_encoderVars
               PROVE  EncoderTypeOK' /\ HalfRead'
    BY CountStep
  <2> USE EncoderAssumption, CounterTypes
  <2>0. /\ phase' \in [Encoders -> 0 .. 3] /\ slip' \in [Encoders -> Int]
        /\ wheel' \in [Encoders -> -Reach .. Reach + 3]
        /\ served' \in [Encoders -> -Reach .. Reach + 3]
        /\ current' \in [Encoders -> Counts] /\ late' \in Nat /\ interrupted' \in BOOLEAN
    BY CountStep DEF CountInv, Positions
  <2>1. encoder_status' \in [Encoders -> {0, 1} \X {0, 1}]
    <3>1. \/ encoder_status' = [e \in Encoders |-> Pins(served'[e])]
          \/ encoder_status' = [e \in Encoders |-> Pins(0)]
      BY CountStep DEF CountInv
    <3>2. \A e \in Encoders : served'[e] \in Int
      BY <2>0
    <3> QED BY <3>1, <3>2
  <2>2. CASE (\E e \in Moving, by \in {-1, 1} : Turn(e, by)) \/ PinChange
    <3>1. late' \in 0 .. MaxLate
      BY <2>0, <2>2 DEF Turn, PinChange, turns, EncoderTypeOK
    <3>2. UNCHANGED <<joint, drive, spoilt>>
      BY <2>2 DEF Turn, PinChange
    <3>3. HalfRead'
      BY <3>2, WheelStays DEF drive, HalfRead
    <3> QED BY <2>0, <2>1, <3>1, <3>2, <3>3 DEF joint, drive, EncoderTypeOK
  <2>3. CASE EncoderTick
    <3>1. encoder_position' \in [Encoders -> Counts] /\ atTick' \in [Encoders -> -Reach .. Reach + 3]
      BY <2>3 DEF EncoderTick, EncoderTypeOK
    <3>2. sampled' \in [Encoders -> Int]
      <4>1. ASSUME NEW e \in Encoders PROVE TurnsCounted(e) \in Int
        <5>1. served[e] \in Int /\ phase[e] \in Int /\ slip[e] \in Int
          <6>1. /\ served \in [Encoders -> -Reach .. Reach + 3]
                /\ phase \in [Encoders -> 0 .. 3] /\ slip \in [Encoders -> Int]
            BY DEF EncoderTypeOK
          <6>2. Reach \in Nat
            BY EncoderAssumption
          <6> HIDE DEF EncoderTypeOK
          <6> QED BY <6>1, <6>2
        <5> QED BY <5>1 DEF TurnsCounted
      <4> QED BY <2>3, <4>1 DEF EncoderTick
    <3>3. UNCHANGED <<turns, drive>>
      BY <2>3 DEF EncoderTick
    <3>4. spoilt' \subseteq Encoders
      <4>1. mainPc \in {1, 3} => Wheel(call) \in Encoders
        BY WheelsAre
      <4> QED BY <2>3, <4>1 DEF EncoderTick, EncoderTypeOK
    <3>5. HalfRead'
      BY <3>3, WheelStays DEF drive, HalfRead
    <3> QED BY <2>0, <2>1, <3>1, <3>2, <3>3, <3>4, <3>5 DEF turns, drive, EncoderTypeOK
  <2>4. CASE ReadLow
    <3>1. PICK e \in Encoders :
            /\ read' = [read EXCEPT ![e] = encoder_position[e] % Byte] /\ mainPc' = mainPc + 1
            /\ e = Wheel(call')
      BY <2>4, WheelsAre DEF ReadLow
    <3>2. mainPc' \in {1, 3} /\ Wheel(call)' = e
      <4>1. CASE mainPc = 0
        <5>1. (mainPc' \div 2) + 1 = mainPc \div 2 + 1
          BY <3>1, <4>1
        <5> QED BY <3>1, <4>1, <5>1 DEF Wheel
      <4>2. CASE mainPc = 2
        <5>1. (mainPc' \div 2) + 1 = mainPc \div 2 + 1
          BY <3>1, <4>2
        <5> QED BY <3>1, <4>2, <5>1 DEF Wheel
      <4> QED BY <2>4, <4>1, <4>2 DEF ReadLow
    <3>3. read' \in [Encoders -> Counts] /\ HalfRead'
      <4>1. encoder_position[e] % Byte \in 0 .. Byte - 1 /\ encoder_position[e] % Byte \in Counts
        BY <3>1 DEF EncoderTypeOK
      <4>2. read' \in [Encoders -> Counts] /\ read'[e] \in 0 .. Byte - 1
        BY <3>1, <4>1 DEF EncoderTypeOK
      <4> QED BY <3>2, <4>2 DEF HalfRead
    <3>4. /\ mainPc' \in 0 .. 4 /\ call' \in {"none", "update", "reset"} /\ late' \in 0 .. MaxLate
          /\ UNCHANGED <<encoder_position, atTick, sampled, previous, origin, zero>>
          /\ spoilt' \subseteq Encoders
      BY <2>4, <3>2 DEF ReadLow, turns, joint, EncoderTypeOK
    <3> QED BY <2>0, <2>1, <3>3, <3>4 DEF EncoderTypeOK
  <2>5. CASE ReadHigh
    <3>1. mainPc = 1 \/ mainPc = 3
      BY <2>5 DEF ReadHigh
    <3>2. PICK e \in Encoders :
            /\ read' = [read EXCEPT ![e] = @ + Byte * (encoder_position[e] \div Byte)]
            /\ origin' = [origin EXCEPT ![e] = atTick[e]] /\ mainPc' = mainPc + 1
            /\ zero' = (IF call = "reset" THEN [zero EXCEPT ![e] = sampled[e]] ELSE zero)
            /\ e = Wheel(call)
      BY <2>5, <3>1, WheelsAre DEF ReadHigh
    <3>3. read[e] \in 0 .. Byte - 1 /\ encoder_position[e] \in Counts
      BY <3>1, <3>2 DEF EncoderTypeOK, HalfRead
    <3>4. read' \in [Encoders -> Counts] /\ origin' \in [Encoders -> -Reach .. Reach + 3]
          /\ zero' \in [Encoders -> Int]
      <4>1. read[e] + Byte * (encoder_position[e] \div Byte) \in Counts
        BY <3>3
      <4> QED BY <3>2, <4>1 DEF EncoderTypeOK
    <3>5. /\ mainPc' \in {2, 4} /\ late' \in 0 .. MaxLate
          /\ UNCHANGED <<encoder_position, atTick, sampled, call, previous, spoilt>>
      BY <2>5, <3>1, <3>2 DEF ReadHigh, turns, joint, EncoderTypeOK
    <3>6. HalfRead' /\ mainPc' \in 0 .. 4
      BY <3>5 DEF HalfRead
    <3> QED BY <2>0, <2>1, <3>4, <3>5, <3>6 DEF EncoderTypeOK
  <2>6. CASE AddTicks \/ Reset
    <3>1. previous' = read /\ mainPc' = 0 /\ read' = Zeros /\ call' = "none"
          /\ UNCHANGED <<encoder_position, atTick, sampled, origin, zero, spoilt, late>>
      BY <2>6 DEF AddTicks, Reset, turns, joint
    <3>2. Zeros \in [Encoders -> Counts]
      BY ValuesType DEF Zeros, Counts
    <3>3. mainPc' \in 0 .. 4 /\ HalfRead'
      BY <3>1 DEF HalfRead
    <3> QED BY <2>0, <2>1, <3>1, <3>2, <3>3 DEF EncoderTypeOK
  <2>7. CASE UNCHANGED encoderVars
    <3>1. HalfRead'
      BY <2>7, WheelStays DEF encoderVars, drive, HalfRead
    <3> QED BY <2>0, <2>1, <2>7, <3>1 DEF encoderVars, turns, joint, drive, EncoderTypeOK
  <2> QED BY <2>2, <2>3, <2>4, <2>5, <2>6, <2>7 DEF EncoderNext
<1> QED BY <1>1, <1>2, PTL DEF EncoderSpec

\* Nothing has been read or added up.
LEMMA OdometryInit == EncoderInit => OdometryInv
<1> SUFFICES ASSUME EncoderInit PROVE OdometryInv
  OBVIOUS
<1>1. 0 \in Counts /\ 0 % Values = 0 /\ Span \in Nat /\ Byte \in Nat \ {0}
  BY EncoderAssumption, ValuesType DEF Counts
<1>2. CountInv
  BY CountInit
<1>3. /\ atTick = phase /\ origin = phase /\ wheel = phase /\ sampled = Zeros /\ zero = Zeros
      /\ ticks = Zeros /\ previous = Zeros /\ encoder_position = Zeros /\ spoilt = {}
      /\ mainPc = 0 /\ call = "none" /\ read = Zeros
  BY DEF EncoderInit
<1>4. ASSUME NEW e \in Encoders
      PROVE  /\ Distance(phase[e], phase[e]) = 0 /\ phase[e] - phase[e] = 0
             /\ phase[e] \in Positions
  BY <1>2, <1>3 DEF CountInv, Distance
<1>5. SpanInv
  BY <1>1, <1>2, <1>3, <1>4 DEF SpanInv, CountInv, Zeros
<1>6. ASSUME NEW e \in Encoders PROVE Follows(e, 0)
  BY <1>1, <1>3, <1>4 DEF Follows, BeganAt, Close, Within, Taken, Zeros
<1> QED BY <1>1, <1>2, <1>3, <1>5, <1>6 DEF OdometryInv, HalfRead, Zeros

\* A distance is that of both differences.
LEMMA DistanceBounds ==
  ASSUME NEW m \in Int, NEW n \in Int, NEW d \in Int
  PROVE  Distance(m, n) <= d <=> m - n <= d /\ n - m <= d
BY DEF Distance

\* The wheels turn, are sampled and read: none gets too far ahead.
LEMMA SpanStep ==
  ASSUME CountInv, CountInv', SpanInv, [EncoderNext]_encoderVars, mainPc \in 0 .. 4
  PROVE  SpanInv'
<1> USE EncoderAssumption DEF SpanInv
<1>1. ASSUME NEW e \in Moving, NEW by \in {-1, 1}, Turn(e, by) PROVE SpanInv'
  <2>1. UNCHANGED <<phase, atTick, sampled, origin>> /\ (late' = 0 => late = 0) /\ e \in Encoders
    BY <1>1 DEF Turn, joint, drive, CountInv, Encoders
  <2>2. Distance(wheel'[e], atTick[e]) <= Span /\ Distance(wheel'[e], origin[e]) <= Span
    BY <1>1 DEF Turn
  <2>3. Distance(wheel'[e], atTick[e]) <= Span + 1 /\ Distance(wheel'[e], origin[e]) <= Span + 1
    <3>1. wheel'[e] \in Int /\ atTick[e] \in Int /\ origin[e] \in Int
      BY <2>1 DEF CountInv, Positions
    <3> QED BY <2>2, <3>1 DEF Distance
  <2>4. \A f \in Encoders : f # e => wheel'[f] = wheel[f]
    BY <1>1 DEF Turn, CountInv
  <2> QED BY <2>1, <2>3, <2>4
<1>2. CASE PinChange
  BY <1>2 DEF PinChange, turns, joint, drive
<1>3. CASE EncoderTick
  <2>1. /\ atTick' = served /\ sampled' = [e \in Encoders |-> TurnsCounted(e)]
        /\ UNCHANGED <<phase, wheel, late, origin>>
    BY <1>3 DEF EncoderTick, turns, drive
  <2>2. atTick' \in [Encoders -> Positions] /\ sampled' \in [Encoders -> Int]
    BY <2>1 DEF CountInv, TurnsCounted, Positions
  <2>3. ASSUME late = 0, NEW e \in Encoders
        PROVE  /\ Distance(wheel[e], served[e]) <= Span + 1
               /\ Distance(served[e], origin[e]) <= Span + 2
               /\ sampled'[e] - (served[e] - phase[e]) \in -2 .. 2
    <3>1. PICK w \in Int, s \in Int, o \in Int, p \in Int, g \in -2 .. 2 :
            w = wheel[e] /\ s = served[e] /\ o = origin[e] /\ p = phase[e] /\ g = slip[e]
      <4>1. slip[e] \in -2 .. 2
        BY <2>3 DEF CountInv, CountsTurns
      <4>2. origin[e] \in Int
        BY <2>3 DEF Positions
      <4>3. wheel[e] \in Int /\ served[e] \in Int /\ phase[e] \in Int
        BY <2>3, CountTyped
      <4> HIDE DEF SpanInv
      <4> QED BY <4>1, <4>2, <4>3
    <3>2. w - s \in {-1, 0, 1}
      BY <2>3, <3>1 DEF CountInv
    <3>3. w - o <= Span + 1 /\ o - w <= Span + 1
      BY <2>3, <3>1, DistanceBounds
    <3>4. w - s <= Span + 1 /\ s - w <= Span + 1 /\ s - o <= Span + 2 /\ o - s <= Span + 2
      BY <3>2, <3>3
    <3>5. sampled'[e] = s - p + g
      BY <2>1, <3>1 DEF TurnsCounted
    <3>6. Distance(w, s) <= Span + 1 /\ Distance(s, o) <= Span + 2
      BY <3>4 DEF Distance
    <3>7. (s - p + g) - (s - p) \in -2 .. 2
      OBVIOUS
    <3> HIDE DEF SpanInv
    <3> QED BY <3>1, <3>5, <3>6, <3>7
  <2> QED BY <2>1, <2>2, <2>3
<1>4. CASE ReadHigh
  <2>1. UNCHANGED <<phase, wheel, late, atTick, sampled>>
    BY <1>4 DEF ReadHigh, turns, joint
  <2>2. origin' \in [Encoders -> Positions]
        /\ \A e \in Encoders : origin'[e] = origin[e] \/ origin'[e] = atTick[e]
    <3>1. Wheel(call) \in Encoders
      BY <1>4, WheelsAre DEF ReadHigh
    <3> QED BY <1>4, <3>1 DEF ReadHigh
  <2>3. \A e \in Encoders : Distance(atTick[e], atTick[e]) <= Span + 2
    BY DEF Distance, Positions
  <2> QED BY <2>1, <2>2, <2>3
<1>5. CASE ReadLow \/ AddTicks \/ Reset \/ UNCHANGED encoderVars
  BY <1>5 DEF ReadLow, AddTicks, Reset, encoderVars, turns, joint, drive
<1> QED BY <1>1, <1>2, <1>3, <1>4, <1>5 DEF EncoderNext

\* Both bytes of a position: they are the tick's, unless it came in between.
LEMMA BothBytes ==
  ASSUME NEW a \in Int, NEW low \in 0 .. Byte - 1
  PROVE  \E m \in Int : /\ Close(m, a) /\ low + Byte * ((a % Values) \div Byte) = m % Values
                        /\ low = (a % Values) % Byte => m = a
<1>1. a % Values \in Counts
  BY ValuesType DEF Counts
<1>2. PICK k \in 0 .. Byte - 1, r \in 0 .. Byte - 1 :
        /\ a % Values = Byte * k + r /\ (a % Values) % Byte = r
        /\ (a % Values) \div Byte = k
  BY <1>1, HighByte
<1>3. CASE low = r
  <2>1. PICK b \in Int : b = Byte * k
    BY ValuesType
  <2>2. low + Byte * ((a % Values) \div Byte) = a % Values
    BY <1>2, <1>3, <2>1, ValuesType
  <2>3. Close(a, a)
    BY ValuesType DEF Close
  <2> QED BY <2>2, <2>3
<1>4. CASE low # r
  BY <1>2, <1>4, TornIsNear DEF Near
<1> QED BY <1>3, <1>4

\* main's first byte of a position
LEMMA OdometryLow ==
  ASSUME OdometryInv, ReadLow, CountInv', SpanInv'
  PROVE  OdometryInv'
<1>1. mainPc = 0 \/ mainPc = 2
  BY DEF ReadLow
<1>2. UNCHANGED <<turns, isr, joint, previous, ticks, origin, zero>> /\ mainPc' = mainPc + 1
      /\ call' \in {"update", "reset"} /\ (mainPc = 2 => call' = call /\ spoilt' = spoilt)
      /\ (call' # "reset" => spoilt' = spoilt) /\ spoilt' \in {spoilt, {}}
  BY DEF ReadLow, OdometryInv
<1>3. PICK h \in Encoders : h = Wheel(call') /\ read' = [read EXCEPT ![h] = encoder_position[h] % Byte]
  BY <1>1, WheelsAre DEF ReadLow
<1>4. Wheel(call)' = h
  <2>1. mainPc' \div 2 + 1 = mainPc \div 2 + 1
    BY <1>1, <1>2
  <2> QED BY <1>3, <2>1 DEF Wheel
<1>5. /\ h = Order(call')[IF mainPc = 0 THEN 1 ELSE 2]
      /\ \A e \in Encoders : /\ Taken(e)' <=> mainPc = 2 /\ e = Order(call')[1]
                             /\ Taken(e) <=> mainPc = 2 /\ e = Order(call')[1]
                             /\ Taken(e)' => e # h
  <2>1. h = Order(call')[IF mainPc = 0 THEN 1 ELSE 2]
    BY <1>1, <1>3, WheelsAre
  <2> QED BY <1>1, <1>2, <2>1, WheelsAre DEF Taken
<1>6. encoder_position[h] % Byte \in 0 .. Byte - 1 /\ read'[h] = encoder_position[h] % Byte
      /\ \A e \in Encoders : e # h => read'[e] = read[e]
  BY <1>3, CounterTypes DEF OdometryInv
<1>7. HalfRead'
  BY <1>4, <1>6 DEF HalfRead
<1>8. UNCHANGED <<phase, encoder_position, sampled, origin, zero, ticks, previous, late>>
  BY <1>2 DEF turns, joint
<1>9. ASSUME late = 0, call' = "reset" PROVE ResetInv'
  <2>1. ASSUME NEW e \in Encoders, Taken(e)'
        PROVE  \E m \in Int : BeganAt(e, m)' /\ Within(m, e)' /\ read'[e] = m % Values
    <3>1. mainPc = 2 /\ call = "reset" /\ Taken(e) /\ e # h /\ spoilt' = spoilt
      BY <1>2, <1>5, <1>9, <2>1
    <3>2. PICK m \in Int : BeganAt(e, m) /\ Within(m, e) /\ read[e] = m % Values
      BY <1>9, <3>1 DEF OdometryInv, ResetInv
    <3> QED BY <1>6, <1>8, <3>1, <3>2 DEF BeganAt, Within
  <2> QED BY <1>4, <1>6, <1>8, <2>1 DEF ResetInv
<1>10. ASSUME late = 0, call' # "reset", NEW e \in Encoders PROVE \E b \in Int : Follows(e, b)'
  <2>1. call # "reset" /\ spoilt' = spoilt
    BY <1>1, <1>2, <1>10 DEF OdometryInv
  <2>2. PICK b \in Int : Follows(e, b)
    BY <1>10, <2>1 DEF OdometryInv
  <2>3. (Taken(e)' <=> Taken(e)) /\ (Taken(e) => read'[e] = read[e])
    BY <1>5, <1>6
  <2> QED BY <1>8, <2>1, <2>2, <2>3 DEF Follows, BeganAt, Within
<1>11. DOMAIN read' = Encoders /\ mainPc' \in {1, 3} /\ spoilt' \subseteq Encoders
  BY <1>1, <1>2, <1>3 DEF OdometryInv
<1> QED BY <1>2, <1>7, <1>8, <1>9, <1>10, <1>11 DEF OdometryInv

\* main's second byte
LEMMA OdometryHigh ==
  ASSUME OdometryFits, OdometryInv, ReadHigh, CountInv', SpanInv'
  PROVE  OdometryInv'
<1>1. mainPc = 1 \/ mainPc = 3
  BY DEF ReadHigh
<1>2. /\ UNCHANGED <<turns, isr, joint, call, previous, ticks, spoilt>> /\ mainPc' = mainPc + 1
      /\ call \in {"update", "reset"}
  BY <1>1 DEF ReadHigh, OdometryInv
<1> DEFINE High(e) == Byte * (encoder_position[e] \div Byte)
<1>3. PICK h \in Encoders :
        /\ h = Wheel(call) /\ read' = [read EXCEPT ![h] = read[h] + High(h)]
        /\ origin' = [origin EXCEPT ![h] = atTick[h]]
        /\ zero' = (IF call = "reset" THEN [zero EXCEPT ![h] = sampled[h]] ELSE zero)
  BY <1>1, WheelsAre DEF ReadHigh
<1> HIDE DEF High
<1>4. /\ h = Order(call)[IF mainPc = 1 THEN 1 ELSE 2] /\ ~Taken(h)
      /\ \A e \in Encoders : Taken(e)' <=> Taken(e) \/ e = h
  <2>1. h = Order(call)[IF mainPc = 1 THEN 1 ELSE 2]
    BY <1>1, <1>3, WheelsAre
  <2>2. ~Taken(h)
    BY <1>1, <2>1, WheelsAre DEF Taken
  <2> QED BY <1>1, <1>2, <2>1, <2>2, WheelsAre DEF Taken
<1>5. UNCHANGED <<phase, encoder_position, sampled, atTick, ticks, previous, late, call, spoilt>>
  BY <1>2 DEF turns, joint
<1>6. /\ read'[h] = read[h] + High(h) /\ origin'[h] = atTick[h] /\ DOMAIN read' = Encoders
      /\ \A e \in Encoders : e # h => read'[e] = read[e] /\ origin'[e] = origin[e]
  BY <1>3 DEF OdometryInv, SpanInv
<1>7. /\ zero' \in [Encoders -> Int] /\ (call = "reset" => zero'[h] = sampled[h])
      /\ \A e \in Encoders : e # h \/ call # "reset" => zero'[e] = zero[e]
  BY <1>3 DEF OdometryInv, SpanInv
<1>8. PICK a \in Int, o \in Int, p \in Int, s \in Int :
        a = atTick[h] /\ o = origin[h] /\ p = phase[h] /\ s = sampled[h]
  <2>1. atTick[h] \in Int /\ origin[h] \in Int /\ sampled[h] \in Int
    BY EncoderAssumption DEF OdometryInv, SpanInv, Positions
  <2>2. phase[h] \in Int
    BY CountTyped DEF OdometryInv
  <2> QED BY <2>1, <2>2
<1>9. ASSUME late = 0
      PROVE  \E m \in Int : /\ read'[h] = m % Values /\ Close(m, s) /\ Within(m, h)'
                            /\ m - (a - p) < Byte + 2 /\ (a - p) - m < Byte + 2
                            /\ read[h] = encoder_position[h] % Byte => m = s
  <2>1. read[h] \in 0 .. Byte - 1 /\ encoder_position[h] = s % Values
    BY <1>1, <1>3, <1>8, <1>9 DEF OdometryInv, HalfRead
  <2>2. PICK m \in Int : /\ Close(m, s) /\ read[h] + High(h) = m % Values
                         /\ read[h] = encoder_position[h] % Byte => m = s
    BY <2>1, BothBytes DEF High
  <2>3. s - (a - p) \in -2 .. 2
    BY <1>8, <1>9 DEF OdometryInv, SpanInv
  <2>4. m - (a - p) < Byte + 2 /\ (a - p) - m < Byte + 2
    <3>1. PICK z \in Int : z = a - p
      BY <1>8
    <3>2. m - s < Byte /\ s - m < Byte /\ Byte \in Int
      BY <2>2, ValuesType DEF Close
    <3>3. m - z < Byte + 2 /\ z - m < Byte + 2
      BY <2>3, <3>1, <3>2
    <3> QED BY <3>1, <3>3
  <2>5. read'[h] = m % Values
    BY <1>6, <2>2
  <2>6. Within(m, h)'
    BY <1>5, <1>6, <1>8, <2>4 DEF Within
  <2> QED BY <2>2, <2>4, <2>5, <2>6
<1>10. ASSUME late = 0, call = "reset" PROVE ResetInv'
  <2>1. ASSUME NEW e \in Encoders, Taken(e)'
        PROVE  \E m \in Int : BeganAt(e, m)' /\ Within(m, e)' /\ read'[e] = m % Values
    <3>1. CASE e = h
      <4>1. PICK m \in Int : /\ read'[h] = m % Values /\ Close(m, s) /\ Within(m, h)'
                             /\ read[h] = encoder_position[h] % Byte => m = s
        BY <1>9, <1>10
      <4>2. h \notin spoilt => read[h] = encoder_position[h] % Byte
        BY <1>1, <1>3, <1>10 DEF OdometryInv, ResetInv
      <4> QED BY <1>5, <1>7, <1>8, <1>10, <3>1, <4>1, <4>2 DEF BeganAt
    <3>2. CASE e # h
      <4>1. PICK m \in Int : BeganAt(e, m) /\ Within(m, e) /\ read[e] = m % Values
        BY <1>4, <1>10, <2>1, <3>2 DEF OdometryInv, ResetInv
      <4> QED BY <1>5, <1>6, <1>7, <3>2, <4>1 DEF BeganAt, Within
    <3> QED BY <3>1, <3>2
  <2>2. mainPc' \notin {1, 3}
    BY <1>1, <1>2
  <2> QED BY <2>1, <2>2 DEF ResetInv
<1>11. ASSUME late = 0, call # "reset", NEW e \in Encoders PROVE \E b \in Int : Follows(e, b)'
  <2>1. PICK b \in Int : Follows(e, b)
    BY <1>11 DEF OdometryInv
  <2>2. CASE e = h
    <3>1. PICK t \in Int : t = ticks[h] + b
      BY <2>1, <2>2 DEF Follows
    <3>2. t - (o - p) < Byte + 2 /\ (o - p) - t < Byte + 2
      BY <1>4, <1>8, <2>1, <2>2, <3>1 DEF Follows, Within
    <3>3. a - o <= Span + 2 /\ o - a <= Span + 2
      BY <1>8, <1>11, EncoderAssumption, DistanceBounds DEF OdometryInv, SpanInv
    <3>4. PICK m \in Int : /\ read'[h] = m % Values /\ Within(m, h)'
                           /\ m - (a - p) < Byte + 2 /\ (a - p) - m < Byte + 2
      BY <1>9, <1>11
    <3>5. m - t < Values \div 2 /\ t - m < Values \div 2
      BY <3>2, <3>3, <3>4, ValuesType, EncoderAssumption DEF OdometryFits
    <3> QED BY <1>4, <1>5, <1>7, <1>11, <2>1, <2>2, <3>1, <3>4, <3>5 DEF Follows, BeganAt
  <2>3. CASE e # h
    <3>1. Taken(e)' <=> Taken(e)
      BY <1>4, <2>3
    <3> QED BY <1>5, <1>6, <1>7, <2>1, <2>3, <3>1 DEF Follows, BeganAt, Within
  <2> QED BY <2>2, <2>3
<1>12. mainPc' \in {2, 4} /\ HalfRead'
  BY <1>1, <1>2 DEF HalfRead
<1> QED BY <1>2, <1>5, <1>6, <1>7, <1>10, <1>11, <1>12 DEF OdometryInv

\* update adds the differences of what it has read.
LEMMA OdometryAdded ==
  ASSUME OdometryInv, AddTicks, CountInv', SpanInv'
  PROVE  OdometryInv'
<1>1. /\ UNCHANGED <<turns, isr, joint, origin, zero, spoilt>> /\ mainPc' = 0 /\ mainPc = 4
      /\ call = "update" /\ call' = "none" /\ previous' = read /\ read' = Zeros
  BY DEF AddTicks
<1>2. UNCHANGED <<phase, encoder_position, sampled, late>>
  BY <1>1 DEF turns, joint
<1>3. ASSUME late = 0, NEW e \in Encoders PROVE \E b \in Int : Follows(e, b)'
  <2>1. PICK b \in Int : Follows(e, b)
    BY <1>1, <1>3 DEF OdometryInv
  <2>2. PICK t \in Int : t = ticks[e] /\ previous[e] = (t + b) % Values
    BY <2>1 DEF Follows
  <2>3. PICK m \in Int : /\ Within(m, e) /\ read[e] = m % Values
                         /\ m - (t + b) < Values \div 2 /\ (t + b) - m < Values \div 2
    BY <1>1, <2>1, <2>2 DEF Follows, Taken
  <2>4. Difference(read[e], previous[e]) = m - (t + b)
    <3>1. PICK u \in Int, n \in Int : u = t + b /\ n = Values \div 2
      BY ValuesType
    <3>2. m - u < n /\ u - m <= n
      BY <2>3, <3>1
    <3>3. Difference(m % Values, u % Values) = m - u
      BY <3>1, <3>2, DifferenceExact
    <3> QED BY <2>2, <2>3, <3>1, <3>3
  <2>5. ticks'[e] = m - b
    BY <2>2, <2>4 DEF AddTicks
  <2>6. ticks'[e] \in Int /\ ticks'[e] + b = m
    BY <2>5
  <2>7. ~Taken(e)'
    BY <1>1 DEF Taken
  <2>8. BeganAt(e, b)' /\ Within(m, e)' /\ previous'[e] = m % Values
    BY <1>1, <1>2, <2>1, <2>3 DEF Follows, BeganAt, Within
  <2> QED BY <2>6, <2>7, <2>8 DEF Follows
<1>4. HalfRead' /\ DOMAIN read' = Encoders
  BY <1>1 DEF HalfRead, Zeros
<1> QED BY <1>1, <1>2, <1>3, <1>4 DEF OdometryInv

\* The odometry begins where reset has read.
LEMMA OdometryReset ==
  ASSUME OdometryInv, Reset, CountInv', SpanInv'
  PROVE  OdometryInv'
<1>1. /\ UNCHANGED <<turns, isr, joint, origin, zero, spoilt>> /\ mainPc' = 0 /\ mainPc = 4
      /\ call = "reset" /\ call' = "none" /\ previous' = read /\ read' = Zeros /\ ticks' = Zeros
  BY DEF Reset
<1>2. UNCHANGED <<phase, encoder_position, sampled, late>>
  BY <1>1 DEF turns, joint
<1>3. ASSUME late = 0, NEW e \in Encoders PROVE \E b \in Int : Follows(e, b)'
  <2>1. PICK m \in Int : BeganAt(e, m) /\ Within(m, e) /\ read[e] = m % Values
    BY <1>1, <1>3 DEF OdometryInv, ResetInv, Taken
  <2>2. ticks'[e] = 0 /\ 0 + m = m
    BY <1>1, <2>1 DEF Zeros
  <2>3. ~Taken(e)'
    BY <1>1 DEF Taken
  <2>4. BeganAt(e, m)' /\ Within(m, e)' /\ previous'[e] = m % Values
    BY <1>1, <1>2, <2>1 DEF BeganAt, Within
  <2> QED BY <2>2, <2>3, <2>4 DEF Follows
<1>4. HalfRead' /\ DOMAIN read' = Encoders
  BY <1>1 DEF HalfRead, Zeros
<1> QED BY <1>1, <1>2, <1>3, <1>4 DEF OdometryInv

\* A tick spoils what reset is reading, and nothing else.
LEMMA OdometryTick ==
  ASSUME OdometryInv, EncoderTick, CountInv', SpanInv'
  PROVE  OdometryInv'
<1>1. /\ UNCHANGED <<turns, isr, drive>> /\ encoder_position' = current
      /\ sampled' = [e \in Encoders |-> TurnsCounted(e)]
  BY DEF EncoderTick
<1>2. UNCHANGED <<phase, late, call, mainPc, read, previous, ticks, origin, zero>>
  BY <1>1 DEF turns, drive
<1>3. spoilt' = (IF call = "reset" /\ mainPc \in {1, 3} THEN spoilt \cup {Wheel(call)} ELSE spoilt)
  BY DEF EncoderTick
<1>4. spoilt' \subseteq Encoders
  BY <1>3, WheelsAre DEF OdometryInv
<1>5. \A e \in Encoders : late = 0 => encoder_position'[e] = sampled'[e] % Values
  BY <1>1 DEF OdometryInv, CountInv, CountsTurns
<1>6. HalfRead' /\ Wheel(call)' = Wheel(call) /\ \A e : Taken(e)' = Taken(e)
  BY <1>2, WheelStays DEF HalfRead, OdometryInv
<1>7. ASSUME late = 0, call = "reset" PROVE ResetInv'
  <2>1. ASSUME NEW e \in Encoders, Taken(e)'
        PROVE  \E m \in Int : BeganAt(e, m)' /\ Within(m, e)' /\ read'[e] = m % Values
    <3>1. PICK m \in Int : BeganAt(e, m) /\ Within(m, e) /\ read[e] = m % Values
      BY <1>6, <1>7, <2>1 DEF OdometryInv, ResetInv
    <3>2. spoilt \subseteq spoilt'
      BY <1>3
    <3> QED BY <1>2, <3>1, <3>2 DEF BeganAt, Within
  <2>2. mainPc' \in {1, 3} => Wheel(call)' \in spoilt'
    BY <1>2, <1>3, <1>6, <1>7
  <2> QED BY <2>1, <2>2 DEF ResetInv
<1>8. ASSUME late = 0, call # "reset", NEW e \in Encoders PROVE \E b \in Int : Follows(e, b)'
  <2>1. PICK b \in Int : Follows(e, b)
    BY <1>8 DEF OdometryInv
  <2>2. spoilt' = spoilt
    BY <1>3, <1>8
  <2> QED BY <1>2, <1>6, <2>1, <2>2 DEF Follows, BeganAt, Within
<1>9. encoder_position' \in [Encoders -> Counts]
  BY <1>1 DEF OdometryInv, CountInv
<1> QED BY <1>2, <1>4, <1>5, <1>6, <1>7, <1>8, <1>9 DEF OdometryInv

\* main's reads, and ticks between them, keep it.
LEMMA OdometryStep ==
  ASSUME OdometryFits, OdometryInv, [EncoderNext]_encoderVars
  PROVE  OdometryInv'
<1>1. CountInv /\ CountInv' /\ SpanInv /\ SpanInv'
  BY CountStep, SpanStep DEF OdometryInv
<1>2. ASSUME UNCHANGED <<phase, joint, drive, spoilt>>, late' = 0 => late = 0
      PROVE  OdometryInv'
  <2>1. Wheel(call)' = Wheel(call) /\ \A e : Taken(e)' = Taken(e)
    BY <1>2, WheelStays DEF drive
  <2>2. UNCHANGED <<phase, encoder_position, sampled, call, mainPc, read, previous, ticks, origin,
                    zero, spoilt>>
    BY <1>2 DEF joint, drive
  <2>3. HalfRead'
    BY <2>1, <2>2 DEF HalfRead, OdometryInv
  <2>4. ResetInv => ResetInv'
    BY <2>1, <2>2 DEF ResetInv, BeganAt, Within
  <2>5. ASSUME NEW e \in Encoders, NEW b \in Int, Follows(e, b) PROVE Follows(e, b)'
    BY <2>1, <2>2, <2>5 DEF Follows, BeganAt, Within
  <2> QED BY <1>1, <1>2, <2>2, <2>3, <2>4, <2>5 DEF OdometryInv
<1>3. ASSUME NEW e \in Moving, NEW by \in {-1, 1}, Turn(e, by) PROVE OdometryInv'
  BY <1>1, <1>2, <1>3 DEF Turn, CountInv
<1>4. CASE PinChange
  BY <1>2, <1>4 DEF PinChange, turns
<1>5. CASE UNCHANGED encoderVars
  BY <1>2, <1>5 DEF encoderVars, turns
<1> QED BY <1>1, <1>3, <1>4, <1>5, OdometryTick, OdometryLow, OdometryHigh, OdometryAdded,
           OdometryReset DEF EncoderNext

\* Two readings of equal remainder that are near are equal.
LEMMA OdometryAdds == ASSUME OdometryFits, OdometryInv PROVE OdometryCatchesUp
<1> SUFFICES ASSUME late = 0, mainPc = 0, NEW e \in Encoders, previous[e] = encoder_position[e]
             PROVE  /\ ticks[e] - (sampled[e] - zero[e]) \in 1 - Byte .. Byte - 1
                    /\ e \notin spoilt => ticks[e] - (sampled[e] - zero[e]) = 0
  BY DEF OdometryCatchesUp
<1>1. PICK b \in Int : Follows(e, b) /\ ~Taken(e)
  BY DEF OdometryInv, Taken
<1>2. PICK t \in Int, n \in Int, a \in Int, o \in Int, p \in Int, z \in Int :
        /\ t = ticks[e] /\ n = sampled[e] /\ a = atTick[e] /\ o = origin[e] /\ p = phase[e]
        /\ z = zero[e] /\ (t + b) % Values = n % Values
  <2>1. atTick[e] \in Int /\ origin[e] \in Int /\ sampled[e] \in Int /\ zero[e] \in Int
    BY EncoderAssumption DEF OdometryInv, SpanInv, Positions
  <2>2. phase[e] \in Int
    BY CountTyped DEF OdometryInv
  <2>3. ticks[e] \in Int /\ (ticks[e] + b) % Values = sampled[e] % Values
    BY <1>1 DEF OdometryInv, Follows
  <2> QED BY <2>1, <2>2, <2>3
<1>3. (t + b) - (o - p) < Byte + 2 /\ (o - p) - (t + b) < Byte + 2
  BY <1>1, <1>2 DEF Follows, Within
<1>4. a - o <= Span + 2 /\ o - a <= Span + 2 /\ n - (a - p) \in -2 .. 2
  BY <1>2, EncoderAssumption, DistanceBounds DEF OdometryInv, SpanInv
<1>5. (t + b) - n < Values /\ n - (t + b) < Values
  BY <1>3, <1>4, ValuesType, EncoderAssumption DEF OdometryFits
<1>6. t + b = n
  <2>1. PICK u \in Int : u = t + b
    OBVIOUS
  <2>2. u - n < Values /\ n - u < Values /\ u % Values = n % Values
    BY <1>2, <1>5, <2>1
  <2>3. u = n
    BY <2>2, SameRemainder, ValuesType
  <2> QED BY <2>1, <2>3
<1>7. b - z < Byte /\ z - b < Byte /\ (e \notin spoilt => b = z)
  BY <1>1, <1>2 DEF Follows, BeganAt, Close
<1>8. t - (n - z) = z - b
  BY <1>6
<1> QED BY <1>2, <1>7, <1>8, ValuesType

\* Though a tick may change a position between its two bytes, an update's error
\* does not stay: once a reading is the ticks' position the odometry has added
\* up what the ticks had counted since the reset (orazio_drive_internal.c:76-81),
\* but for the error of the reset's own reading, which is less than a byte
\* (lines 167-168).
THEOREM OdometryFollows == OdometryFits => (EncoderSpec => []OdometryCatchesUp)
<1> SUFFICES ASSUME OdometryFits PROVE EncoderSpec => []OdometryCatchesUp
  OBVIOUS
<1>1. OdometryInv /\ [EncoderNext]_encoderVars => OdometryInv'
  BY OdometryStep
<1>2. OdometryInv => OdometryCatchesUp
  BY OdometryAdds
<1> QED BY OdometryInit, <1>1, <1>2, PTL DEF EncoderSpec

-----------------------------------------------------------------------------
(* The bridges: pins in use, and their claims *)

\* The PWM bytes that bridge j has in use: while it is initialized, those claimed
Held(j) ==
  IF j = bridge /\ step > 0
    THEN {i \in PwmBytes(ops[j]) : \E k \in 1 .. step - 1 : Claims(ops[j])[k].byte = i}
    ELSE PwmBytes(ops[j])

\* A pin with PWM is a pin that some bridge has in use.
PwmInv ==
  \A p \in IoPins : pin[p].pwm =>
    p \in PwmPins /\ \E j \in Motors : ops[j] # "none" /\ \E i \in Held(j) : p = params[j][i]

\* A bridge that is being initialized has the type it was asked for.
StepInv ==
  step > 0 => ops[bridge] = h_bridge[bridge].type /\ ops[bridge] \in BridgeTypes
              /\ step <= Len(Claims(ops[bridge])) + 1

\* The other joint
Other(j) == IF j = Left THEN Right ELSE Left
\* The direction byte of the other bridge's speed is written to pin p.
Disturbed(j, p) == ops[Other(j)] = "PWMDir" /\ params[Other(j)][2] = p

\* The k-th claim of joint j: its byte, its use, and the pin asked for
ByteOf(j, k) == Claims(h_bridge[j].type)[k].byte
UseOf(j, k) == Claims(h_bridge[j].type)[k].use
PinOf(j, k) == h_bridge[j].pins[ByteOf(j, k)]

\* A claimed pin is set up for its use, but for the other bridge's direction byte.
InPlace(j, use, p) ==
  \/ Unused(use, p)
  \/ /\ Available(use, p) /\ pin[p].out
     /\ use \in ByTimer => pin[p].pwm
     /\ use = "brake" => pin[p].value = 0 \/ Disturbed(j, p)
     /\ use = "enable" => pin[p].value = 1 \/ Disturbed(j, p)

\* The k-th claim of joint j has been made.
ClaimOK(j, k) ==
  params[j][ByteOf(j, k)] = PinOf(j, k) /\ InPlace(j, UseOf(j, k), PinOf(j, k))

\* The first n claims of joint j have been made.
Ready(j, n) ==
  ops[j] = h_bridge[j].type /\ ops[j] \in BridgeTypes /\ \A k \in 1 .. n : ClaimOK(j, k)
\* The claims of the type of joint j
Size(j) == Len(Claims(h_bridge[j].type))
\* The pins that Left holds at a level are not Right's direction byte.
Undisturbed ==
  \A k \in 1 .. Size(Left) :
    PinOf(Left, k) \in IoPins /\ UseOf(Left, k) \in {"brake", "enable"}
      => ~Disturbed(Left, PinOf(Left, k))

\* What ControlReachesMotors asks for
Sound == ~crossed /\ ~refused /\ Separate(h_bridge[Left], h_bridge[Right])
\* Pins claimed, for Left and then for Right, stay as they were claimed.
ControlInv ==
  Sound =>
    /\ step > 0 => Ready(bridge, step - 1)
    /\ bridge = Right /\ step >= 0 => Ready(Left, Size(Left))
    /\ bridge = Right /\ step > 0 => Undisturbed
    /\ step < 0 /\ result = "Success" => Ready(Left, Size(Left)) /\ Ready(Right, Size(Right))

\* Types
Levels == 0 .. 1
Duties == 0 .. 255
Register == [pwm : BOOLEAN, out : BOOLEAN, value : Levels, duty : Duties]
JointParams == [type : BridgeTypes \cup {"unknown"}, pins : Int \X Int \X Int]
Uses == {"pwm", "second", "half", "low", "brake", "enable"}

BridgeTyped ==
  /\ h_bridge \in [Motors -> JointParams] /\ saved \in [Motors -> JointParams]
  /\ ops \in [Motors -> BridgeTypes \cup {"none"}] /\ params \in [Motors -> Int \X Int \X Int]
  /\ pin \in [IoPins -> Register] /\ bridge \in Motors /\ step \in Int

\* The inductive invariant of NothingLeftDriven
BridgeInv == BridgeTyped /\ StepInv /\ PwmInv

-----------------------------------------------------------------------------
(* Operators *)

\* The claims of each type
LEMMA ClaimsAre ==
  /\ Len(Claims("PWMDir")) = 3 /\ Len(Claims("DualPWM")) = 2 /\ Len(Claims("HalfPWM")) = 2
  /\ Claims("PWMDir")[1].byte = 2 /\ Claims("PWMDir")[1].use = "low"
  /\ Claims("PWMDir")[2].byte = 3 /\ Claims("PWMDir")[2].use = "brake"
  /\ Claims("PWMDir")[3].byte = 1 /\ Claims("PWMDir")[3].use = "pwm"
  /\ Claims("DualPWM")[1].byte = 1 /\ Claims("DualPWM")[1].use = "pwm"
  /\ Claims("DualPWM")[2].byte = 2 /\ Claims("DualPWM")[2].use = "second"
  /\ Claims("HalfPWM")[1].byte = 1 /\ Claims("HalfPWM")[1].use = "half"
  /\ Claims("HalfPWM")[2].byte = 2 /\ Claims("HalfPWM")[2].use = "enable"
BY DEF Claims

\* A claim is of one of three bytes, and no byte is claimed twice.
LEMMA ClaimRange ==
  ASSUME NEW type \in BridgeTypes, NEW k \in 1 .. Len(Claims(type))
  PROVE  /\ Claims(type)[k].byte \in 1 .. 3 /\ Claims(type)[k].use \in Uses
         /\ Claims(type)[k].use \in ByTimer <=> Claims(type)[k].byte \in PwmBytes(type)
         /\ \A m \in 1 .. Len(Claims(type)) :
              Claims(type)[k].byte = Claims(type)[m].byte => k = m
         /\ Len(Claims(type)) \in 2 .. 3
BY ClaimsAre DEF BridgeTypes, Uses, ByTimer, PwmBytes

\* When all pins are claimed the PWM pins are.
LEMMA AllClaimed ==
  ASSUME NEW type \in BridgeTypes, NEW i \in PwmBytes(type)
  PROVE  \E k \in 1 .. Len(Claims(type)) : Claims(type)[k].byte = i
BY ClaimsAre DEF BridgeTypes, PwmBytes

\* One of three pins is replaced.
LEMMA TripleExcept ==
  ASSUME NEW t \in Int \X Int \X Int, NEW i \in 1 .. 3, NEW v \in Int
  PROVE  /\ [t EXCEPT ![i] = v] \in Int \X Int \X Int
         /\ \A k \in 1 .. 3 : [t EXCEPT ![i] = v][k] = IF k = i THEN v ELSE t[k]
OBVIOUS

\* The pins of a joint are replaced.
LEMMA PinsReplaced ==
  ASSUME NEW bytes \in JointParams, NEW pins
  PROVE  /\ [bytes EXCEPT !.pins = pins].type = bytes.type
         /\ pins \in Int \X Int \X Int => [bytes EXCEPT !.pins = pins] \in JointParams
BY DEF JointParams

\* What a claim makes of a pin
LEMMA InUseIs ==
  ASSUME NEW use \in Uses, NEW old \in Register
  PROVE  /\ InUse(use, old) \in Register /\ InUse(use, old).out
         /\ use \in ByTimer => InUse(use, old).pwm
         /\ use \notin ByTimer => InUse(use, old).pwm = old.pwm
         /\ use = "brake" => InUse(use, old).value = 0
         /\ use = "enable" => InUse(use, old).value = 1
<1>1. ASSUME NEW d \in Duties
      PROVE  /\ [old EXCEPT !.pwm = TRUE, !.out = TRUE, !.duty = d] \in Register
             /\ [old EXCEPT !.pwm = TRUE, !.out = TRUE, !.duty = d].pwm
             /\ [old EXCEPT !.pwm = TRUE, !.out = TRUE, !.duty = d].out
  BY DEF Register
<1>2. ASSUME NEW v \in Levels
      PROVE  /\ [old EXCEPT !.out = TRUE, !.value = v] \in Register
             /\ [old EXCEPT !.out = TRUE, !.value = v].out
             /\ [old EXCEPT !.out = TRUE, !.value = v].pwm = old.pwm
             /\ [old EXCEPT !.out = TRUE, !.value = v].value = v
  <2>1. /\ [old EXCEPT !.out = TRUE, !.value = v] \in Register
        /\ [old EXCEPT !.out = TRUE, !.value = v].out
    BY DEF Register
  <2>2. [old EXCEPT !.out = TRUE, !.value = v].pwm = old.pwm
    BY DEF Register
  <2>3. [old EXCEPT !.out = TRUE, !.value = v].value = v
    BY DEF Register
  <2> QED BY <2>1, <2>2, <2>3
<1> DEFINE new == InUse(use, old)
<1>0. "brake" \notin ByTimer /\ "enable" \notin ByTimer /\ "low" \notin ByTimer
  BY DEF ByTimer
<1>3. CASE use \in {"pwm", "second"}
  <2>1. InUse(use, old) = [old EXCEPT !.pwm = TRUE, !.out = TRUE, !.duty = 0]
    BY <1>3 DEF InUse
  <2>2. use \in ByTimer /\ use # "brake" /\ use # "enable"
    BY <1>3 DEF ByTimer
  <2>3. 0 \in Duties /\ 255 \in Duties
    BY DEF Duties
  <2> QED BY <1>1, <2>1, <2>2, <2>3, Zenon
<1>4. CASE use = "half"
  <2>1. InUse(use, old) = [old EXCEPT !.pwm = TRUE, !.out = TRUE, !.duty = 255]
    BY <1>4 DEF InUse
  <2>2. use \in ByTimer /\ use # "brake" /\ use # "enable"
    BY <1>4 DEF ByTimer
  <2>3. 0 \in Duties /\ 255 \in Duties
    BY DEF Duties
  <2> QED BY <1>1, <2>1, <2>2, <2>3, Zenon
<1>5. CASE use \in {"low", "brake"}
  <2>1. InUse(use, old) = [old EXCEPT !.out = TRUE, !.value = 0]
    BY <1>5 DEF InUse
  <2>2. use \notin ByTimer /\ use # "enable"
    BY <1>5 DEF ByTimer
  <2>3. 0 \in Levels /\ 1 \in Levels
    BY DEF Levels
  <2> QED BY <1>2, <2>1, <2>2, <2>3, Zenon
<1>6. CASE use = "enable"
  <2>1. InUse(use, old) = [old EXCEPT !.out = TRUE, !.value = 1]
    BY <1>6 DEF InUse
  <2>2. use \notin ByTimer /\ use # "brake"
    BY <1>6 DEF ByTimer
  <2>3. 0 \in Levels /\ 1 \in Levels
    BY DEF Levels
  <2> QED BY <1>2, <2>1, <2>2, <2>3, Zenon
<1> QED BY <1>3, <1>4, <1>5, <1>6 DEF Uses

\* What the release of a bridge leaves of the pins
LEMMA ReleaseIs ==
  ASSUME BridgeTyped, NEW type \in BridgeTypes, NEW bytes
  PROVE  /\ Release(type, bytes) \in [IoPins -> Register]
         /\ \A p \in IoPins :
              LET new == Release(type, bytes)[p]
                  pwm == p \in PwmPins /\ \E i \in PwmBytes(type) : p = bytes[i]
                  digital == \E i \in DigitalBytes(type) : p = bytes[i]
              IN  /\ new.pwm = (pin[p].pwm /\ ~pwm)
                  /\ new.out = (pin[p].out /\ ~pwm /\ ~digital)
                  /\ ~digital => new.value = pin[p].value
<1> DEFINE Pwm(p) == p \in PwmPins /\ \E i \in PwmBytes(type) : p = bytes[i]
           Digital(p) == \E i \in DigitalBytes(type) : p = bytes[i]
<1> SUFFICES ASSUME NEW p \in IoPins
             PROVE  /\ Release(type, bytes)[p] \in Register
                    /\ Release(type, bytes)[p].pwm = (pin[p].pwm /\ ~Pwm(p))
                    /\ Release(type, bytes)[p].out = (pin[p].out /\ ~Pwm(p) /\ ~Digital(p))
                    /\ ~Digital(p) => Release(type, bytes)[p].value = pin[p].value
  BY DEF Release
<1>1. (p \in PwmPins \cap Named(bytes, PwmBytes(type))) <=> Pwm(p)
  BY DEF Named
<1>2. (p \in Named(bytes, DigitalBytes(type))) <=> Digital(p)
  BY DEF Named
<1> DEFINE digital == p \in Named(bytes, DigitalBytes(type))
           pwm == p \in PwmPins \cap Named(bytes, PwmBytes(type))
<1>3. Release(type, bytes)[p] = [pwm |-> pin[p].pwm /\ ~pwm,
          out |-> pin[p].out /\ ~pwm /\ ~digital,
          value |-> IF digital THEN 0 ELSE pin[p].value,
          duty |-> IF pwm THEN 255 ELSE pin[p].duty]
  BY Zenon DEF Release
<1>4. pwm \in BOOLEAN /\ digital \in BOOLEAN /\ pin[p] \in Register
  BY DEF BridgeTyped
<1> HIDE DEF pwm, digital
<1>5. pin[p].pwm \in BOOLEAN /\ pin[p].out \in BOOLEAN
  BY <1>4 DEF Register
<1>6. PICK a \in BOOLEAN, b \in BOOLEAN, v \in Levels, d \in Duties :
        /\ a = (pin[p].pwm /\ ~pwm) /\ b = (pin[p].out /\ ~pwm /\ ~digital)
        /\ v = (IF digital THEN 0 ELSE pin[p].value) /\ d = (IF pwm THEN 255 ELSE pin[p].duty)
  <2>1. (pin[p].pwm /\ ~pwm) \in BOOLEAN /\ (pin[p].out /\ ~pwm /\ ~digital) \in BOOLEAN
    BY <1>4, <1>5
  <2>2. /\ (IF digital THEN 0 ELSE pin[p].value) \in Levels
        /\ (IF pwm THEN 255 ELSE pin[p].duty) \in Duties
    BY <1>4 DEF Register, Levels, Duties
  <2>3. PICK a \in BOOLEAN : a = (pin[p].pwm /\ ~pwm)
    BY <2>1
  <2>4. PICK b \in BOOLEAN : b = (pin[p].out /\ ~pwm /\ ~digital)
    BY <2>1
  <2>5. PICK v \in Levels : v = (IF digital THEN 0 ELSE pin[p].value)
    BY <2>2
  <2>6. PICK d \in Duties : d = (IF pwm THEN 255 ELSE pin[p].duty)
    BY <2>2
  <2> QED BY <2>3, <2>4, <2>5, <2>6
<1>7. Release(type, bytes)[p] = [pwm |-> a, out |-> b, value |-> v, duty |-> d]
  BY <1>3, <1>6, Zenon
<1>8. [pwm |-> a, out |-> b, value |-> v, duty |-> d] \in Register
  BY DEF Register
<1>9. LET r == [pwm |-> a, out |-> b, value |-> v, duty |-> d]
      IN  r.pwm = a /\ r.out = b /\ r.value = v
  OBVIOUS
<1> QED BY <1>1, <1>2, <1>6, <1>7, <1>8, <1>9, Zenon DEF pwm, digital

\* What a speed leaves of the pins
LEMMA SetSpeedIs ==
  ASSUME BridgeTyped, NEW registers \in [IoPins -> Register], NEW j \in Motors,
         NEW sign \in {-1, 0, 1}
  PROVE  /\ SetSpeed(registers, j, sign) \in [IoPins -> Register]
         /\ \A p \in IoPins :
              LET new == SetSpeed(registers, j, sign)[p]
              IN  /\ new.pwm = registers[p].pwm /\ new.out = registers[p].out
                  /\ new.value # registers[p].value => ops[j] = "PWMDir" /\ p = params[j][2]
<1> DEFINE Write(regs, p, d) == IF p \in PwmPins THEN [regs EXCEPT ![p].duty = d] ELSE regs
           Dir(regs, p) ==
             IF p \in IoPins THEN [regs EXCEPT ![p].value = IF sign < 0 THEN 1 ELSE 0] ELSE regs
           Same(new, old) == new.pwm = old.pwm /\ new.out = old.out
<1>1. ASSUME NEW regs \in [IoPins -> Register], NEW p, NEW d \in Duties
      PROVE  /\ Write(regs, p, d) \in [IoPins -> Register]
             /\ \A q \in IoPins : Same(Write(regs, p, d)[q], regs[q])
                                  /\ Write(regs, p, d)[q].value = regs[q].value
  BY DEF Register
<1>2. ASSUME NEW regs \in [IoPins -> Register], NEW p
      PROVE  /\ Dir(regs, p) \in [IoPins -> Register]
             /\ \A q \in IoPins : Same(Dir(regs, p)[q], regs[q])
                                  /\ (q # p => Dir(regs, p)[q].value = regs[q].value)
  BY DEF Register, Levels
<1>3. Duty(sign) \in Duties /\ 0 \in Duties /\ 127 + 50 * sign \in Duties
  BY DEF Duty, Duties
<1>9. \A x, y, z : Same(x, y) /\ Same(y, z) => Same(x, z)
  OBVIOUS
<1> HIDE DEF Write, Dir, Same
<1>4. PICK new : new = SetSpeed(registers, j, sign)
  OBVIOUS
<1> SUFFICES /\ new \in [IoPins -> Register]
             /\ \A p \in IoPins : Same(new[p], registers[p])
                  /\ (new[p].value # registers[p].value => ops[j] = "PWMDir" /\ p = params[j][2])
  BY <1>4, Zenon DEF Same
<1>5. CASE ops[j] = "none"
  <2>1. new = registers
    BY <1>4, <1>5 DEF SetSpeed
  <2> QED BY <2>1 DEF Same
<1>6. CASE ops[j] = "PWMDir"
  <2>1. PICK b1, b2 : b1 = params[j][1] /\ b2 = params[j][2]
    OBVIOUS
  <2>2. PICK mid : mid = Dir(registers, b2)
    OBVIOUS
  <2>3. new = Write(mid, b1, Duty(sign))
    BY <1>4, <1>6, <2>1, <2>2 DEF SetSpeed, Write, Dir
  <2>4. mid \in [IoPins -> Register] /\ \A q \in IoPins : Same(mid[q], registers[q])
                                  /\ (q # b2 => mid[q].value = registers[q].value)
    BY <1>2, <2>2
  <2>5. new \in [IoPins -> Register] /\ \A q \in IoPins : Same(new[q], mid[q])
                                  /\ new[q].value = mid[q].value
    BY <1>1, <1>3, <2>3, <2>4
  <2> QED BY <1>6, <1>9, <2>1, <2>4, <2>5
<1>7. CASE ops[j] = "DualPWM"
  <2>1. PICK a \in Duties, b \in Duties : a = (IF sign < 0 THEN 0 ELSE Duty(sign))
                                    /\ b = (IF sign < 0 THEN Duty(sign) ELSE 0)
    BY <1>3
  <2>2. PICK mid : mid = Write(registers, params[j][1], a)
    OBVIOUS
  <2>3. new = Write(mid, params[j][2], b)
    BY <1>4, <1>7, <2>1, <2>2 DEF SetSpeed, Write
  <2>4. mid \in [IoPins -> Register] /\ \A q \in IoPins : Same(mid[q], registers[q])
                                  /\ mid[q].value = registers[q].value
    BY <1>1, <2>2
  <2>5. new \in [IoPins -> Register] /\ \A q \in IoPins : Same(new[q], mid[q])
                                  /\ new[q].value = mid[q].value
    BY <1>1, <2>3, <2>4
  <2> QED BY <1>9, <2>4, <2>5
<1>8. CASE ops[j] = "HalfPWM"
  <2>1. PICK d \in Duties : d = 127 + 50 * sign
    BY <1>3
  <2>2. new = Write(registers, params[j][1], d)
    BY <1>4, <1>8, <2>1 DEF SetSpeed, Write
  <2> QED BY <1>1, <2>2
<1> QED BY <1>5, <1>6, <1>7, <1>8 DEF BridgeTyped, BridgeTypes
-----------------------------------------------------------------------------
(* NothingLeftDriven *)

\* A tick sets duties and levels, and leaves alone which pins are in use.
LEMMA TickKeeps ==
  ASSUME BridgeTyped, BridgeTick
  PROVE  /\ pin' \in [IoPins -> Register]
         /\ \A p \in IoPins :
              /\ pin'[p].pwm = pin[p].pwm /\ pin'[p].out = pin[p].out
              /\ pin'[p].value # pin[p].value =>
                   \E j \in Motors : ops[j] = "PWMDir" /\ p = params[j][2]
<1>1. PICK l \in {-1, 0, 1}, r \in {-1, 0, 1} : l = outputs'[Left] /\ r = outputs'[Right]
  BY BridgeAssumption DEF BridgeTick, Motors
<1>2. PICK mid : mid = SetSpeed(pin, Left, l)
  OBVIOUS
<1>3. pin' = pin \/ pin' = SetSpeed(mid, Right, r)
  BY <1>1, <1>2 DEF BridgeTick
<1>4. pin \in [IoPins -> Register] /\ Left \in Motors /\ Right \in Motors
  BY DEF BridgeTyped, Motors
<1>5. /\ mid \in [IoPins -> Register]
      /\ \A p \in IoPins : /\ mid[p].pwm = pin[p].pwm /\ mid[p].out = pin[p].out
                           /\ mid[p].value # pin[p].value
                                => ops[Left] = "PWMDir" /\ p = params[Left][2]
  BY <1>2, <1>4, SetSpeedIs
<1>6. CASE pin' = SetSpeed(mid, Right, r)
  <2>1. /\ pin' \in [IoPins -> Register]
        /\ \A p \in IoPins : /\ pin'[p].pwm = mid[p].pwm /\ pin'[p].out = mid[p].out
                             /\ pin'[p].value # mid[p].value
                                  => ops[Right] = "PWMDir" /\ p = params[Right][2]
    BY <1>4, <1>5, <1>6, SetSpeedIs
  <2> QED BY <1>4, <1>5, <2>1
<1> QED BY <1>3, <1>4, <1>6

\* What Reinit does, whatever the type
LEMMA ReinitIs ==
  ASSUME BridgeInv, Reinit, h_bridge[bridge].type \in BridgeTypes
  PROVE  /\ bridge' = bridge /\ step = 0 /\ step' = 1 /\ UNCHANGED <<h_bridge, saved, params>>
         /\ ops' = [ops EXCEPT ![bridge] = h_bridge[bridge].type]
         /\ pin' \in [IoPins -> Register]
         /\ \A p \in IoPins : pin'[p].pwm =>
              /\ pin[p].pwm
              /\ ~(p \in PwmPins /\ ops[bridge] # "none"
                   /\ \E i \in PwmBytes(ops[bridge]) : p = params[bridge][i])
<1>1. /\ bridge' = bridge /\ step = 0 /\ step' = 1 /\ UNCHANGED <<h_bridge, saved, params>>
      /\ ops' = [ops EXCEPT ![bridge] = h_bridge[bridge].type]
  BY DEF Reinit
<1>2. CASE ops[bridge] = "none"
  <2>1. pin' = pin
    BY <1>2 DEF Reinit
  <2> QED BY <1>1, <1>2, <2>1 DEF BridgeInv, BridgeTyped
<1>3. CASE ops[bridge] # "none"
  <2>1. pin' = Release(ops[bridge], params[bridge])
    BY <1>3 DEF Reinit
  <2>2. ops[bridge] \in BridgeTypes /\ BridgeTyped
    BY <1>3 DEF BridgeInv, BridgeTyped
  <2>3. /\ pin' \in [IoPins -> Register]
        /\ \A p \in IoPins :
             pin'[p].pwm = (pin[p].pwm /\ ~(p \in PwmPins
                              /\ \E i \in PwmBytes(ops[bridge]) : p = params[bridge][i]))
    BY <2>1, <2>2, ReleaseIs
  <2> QED BY <1>1, <2>3
<1> QED BY <1>2, <1>3

\* What a claim does, accepted or refused
LEMMA ClaimIs ==
  ASSUME BridgeInv, Claim
  PROVE  \E b \in 1 .. 3, use \in Uses, v \in Int :
           /\ step \in 1 .. Len(Claims(ops[bridge])) /\ ops[bridge] \in BridgeTypes
           /\ b = Claims(ops[bridge])[step].byte /\ use = Claims(ops[bridge])[step].use
           /\ v = h_bridge[bridge].pins[b] /\ UNCHANGED <<ops, saved, crossed>>
           /\ \/ /\ Unused(use, v) \/ Available(use, v)
                 /\ pin' = IF Unused(use, v) THEN pin ELSE [pin EXCEPT ![v] = InUse(use, pin[v])]
                 /\ params' = [params EXCEPT ![bridge] = [params[bridge] EXCEPT ![b] = v]]
                 /\ step' = step + 1 /\ UNCHANGED <<h_bridge, result, bridge, refused>>
              \/ /\ h_bridge' = [h_bridge EXCEPT ![bridge] = [h_bridge[bridge] EXCEPT
                                   !.pins = [h_bridge[bridge].pins EXCEPT
                                               ![b] = params[bridge][b]]]]
                 /\ UNCHANGED <<pin, params, bridge>>
                 /\ \/ step' = step + 1 /\ refused'
                    \/ step' = -1 /\ result' = "WrongPins"
<1>1. step > 0 /\ step <= Len(Claims(ops[bridge])) /\ step \in Int /\ ops[bridge] \in BridgeTypes
  BY DEF BridgeInv, StepInv, Claim, Busy, BridgeTyped
<1>2. step \in 1 .. Len(Claims(ops[bridge]))
  BY <1>1, ClaimsAre DEF BridgeTypes
<1>3. PICK c : c = Claims(ops[bridge])[step]
  OBVIOUS
<1>4. c.byte \in 1 .. 3 /\ c.use \in Uses
  BY <1>1, <1>2, <1>3, ClaimRange
<1>5. PICK v : v = h_bridge[bridge].pins[c.byte]
  OBVIOUS
<1>6. v \in Int
  BY <1>4, <1>5 DEF BridgeInv, BridgeTyped, JointParams
<1>7. UNCHANGED <<ops, saved, crossed>>
  BY DEF Claim
<1>8. CASE Unused(c.use, v) \/ Available(c.use, v)
  <2>1. /\ pin' = IF Unused(c.use, v) THEN pin ELSE [pin EXCEPT ![v] = InUse(c.use, pin[v])]
        /\ params' = [params EXCEPT ![bridge][c.byte] = v]
        /\ step' = step + 1 /\ UNCHANGED <<h_bridge, result, bridge, refused>>
    BY <1>3, <1>5, <1>8 DEF Claim
  <2>2. [params EXCEPT ![bridge][c.byte] = v] =
          [params EXCEPT ![bridge] = [params[bridge] EXCEPT ![c.byte] = v]]
    OBVIOUS
  <2> QED BY <1>1, <1>2, <1>3, <1>4, <1>5, <1>6, <1>7, <1>8, <2>1, <2>2
<1>9. CASE ~(Unused(c.use, v) \/ Available(c.use, v))
  <2>1. /\ h_bridge' = [h_bridge EXCEPT ![bridge].pins[c.byte] = params[bridge][c.byte]]
        /\ UNCHANGED <<pin, params>>
    BY <1>3, <1>5, <1>9 DEF Claim
  <2>2. h_bridge' = [h_bridge EXCEPT ![bridge] = [h_bridge[bridge] EXCEPT
                       !.pins = [h_bridge[bridge].pins EXCEPT
                                   ![c.byte] = params[bridge][c.byte]]]]
    BY <2>1
  <2>3. \/ step' = step + 1 /\ refused' /\ bridge' = bridge
        \/ step' = -1 /\ result' = "WrongPins" /\ bridge' = bridge
    BY <1>3, <1>5, <1>9 DEF Claim, Return
  <2> QED BY <1>1, <1>2, <1>3, <1>4, <1>5, <1>6, <1>7, <2>1, <2>2, <2>3
<1> QED BY <1>8, <1>9
\* No pin is in use at the start.
LEMMA BridgeStarts == BridgeInit => BridgeInv
<1> SUFFICES ASSUME BridgeInit PROVE BridgeInv
  OBVIOUS
<1>1. BridgeTyped
  BY BridgeAssumption
     DEF BridgeInit, BridgeTyped, JointParams, Register, Levels, Duties, PulledUp, Motors, Left
<1> QED BY <1>1 DEF BridgeInit, BridgeInv, StepInv, PwmInv, PulledUp

\* Every step keeps the invariant.
LEMMA BridgeStep == BridgeInv /\ [BridgeNext]_bridgeVars => BridgeInv'
<1> SUFFICES ASSUME BridgeInv, [BridgeNext]_bridgeVars PROVE BridgeInv'
  OBVIOUS
<1>0. BridgeTyped /\ StepInv /\ PwmInv
  BY DEF BridgeInv
<1>1. CASE Reinit
  <2>1. CASE h_bridge[bridge].type \notin BridgeTypes
    <3>1. UNCHANGED <<h_bridge, saved, ops, params, pin, bridge>> /\ step = 0 /\ step' = -1
      BY <1>1, <2>1 DEF Reinit, Return
    <3> QED BY <1>0, <3>1 DEF BridgeInv, BridgeTyped, StepInv, PwmInv, Held
  <2>2. CASE h_bridge[bridge].type \in BridgeTypes
    <3>1. /\ bridge' = bridge /\ step = 0 /\ step' = 1 /\ UNCHANGED <<h_bridge, saved, params>>
          /\ ops' = [ops EXCEPT ![bridge] = h_bridge[bridge].type]
          /\ pin' \in [IoPins -> Register]
      BY <1>1, <2>2, ReinitIs
    <3>2. BridgeTyped'
      BY <1>0, <2>2, <3>1 DEF BridgeTyped
    <3>3. StepInv'
      BY <1>0, <2>2, <3>1, ClaimsAre DEF StepInv, BridgeTyped, BridgeTypes
    <3>4. ASSUME NEW p \in IoPins, pin'[p].pwm
          PROVE  p \in PwmPins /\ \E j \in Motors : ops'[j] # "none"
                                    /\ \E i \in Held(j)' : p = params'[j][i]
      <4>1. /\ pin[p].pwm
            /\ ~(p \in PwmPins /\ ops[bridge] # "none"
                 /\ \E i \in PwmBytes(ops[bridge]) : p = params[bridge][i])
        BY <1>1, <2>2, <3>4, ReinitIs
      <4>2. PICK j \in Motors : ops[j] # "none" /\ \E i \in Held(j) : p = params[j][i]
        BY <1>0, <4>1 DEF PwmInv
      <4>3. Held(j) = PwmBytes(ops[j]) /\ p \in PwmPins
        BY <1>0, <3>1, <4>1 DEF Held, PwmInv
      <4>4. j # bridge
        BY <4>1, <4>2, <4>3
      <4>5. Held(j)' = PwmBytes(ops[j]) /\ ops'[j] = ops[j]
        BY <1>0, <3>1, <4>4 DEF Held, BridgeTyped
      <4> QED BY <3>1, <4>2, <4>3, <4>5
    <3>5. PwmInv'
      BY <3>4 DEF PwmInv
    <3> QED BY <3>2, <3>3, <3>5 DEF BridgeInv
  <2> QED BY <2>1, <2>2
<1>2. CASE Claim
  <2>1. PICK b \in 1 .. 3, use \in Uses, v \in Int :
          /\ step \in 1 .. Len(Claims(ops[bridge])) /\ ops[bridge] \in BridgeTypes
          /\ b = Claims(ops[bridge])[step].byte /\ use = Claims(ops[bridge])[step].use
          /\ v = h_bridge[bridge].pins[b] /\ UNCHANGED <<ops, saved, crossed>>
          /\ \/ /\ Unused(use, v) \/ Available(use, v)
                /\ pin' = IF Unused(use, v) THEN pin ELSE [pin EXCEPT ![v] = InUse(use, pin[v])]
                /\ params' = [params EXCEPT ![bridge] = [params[bridge] EXCEPT ![b] = v]]
                /\ step' = step + 1 /\ UNCHANGED <<h_bridge, result, bridge, refused>>
             \/ /\ h_bridge' = [h_bridge EXCEPT ![bridge] = [h_bridge[bridge] EXCEPT
                                  !.pins = [h_bridge[bridge].pins EXCEPT
                                              ![b] = params[bridge][b]]]]
                /\ UNCHANGED <<pin, params, bridge>>
                /\ \/ step' = step + 1 /\ refused'
                   \/ step' = -1 /\ result' = "WrongPins"
    BY <1>2, ClaimIs
  <2>2. /\ step \in Int /\ step > 0 /\ Len(Claims(ops[bridge])) \in 2 .. 3
        /\ step \in 1 .. Len(Claims(ops[bridge])) /\ ops[bridge] \in BridgeTypes
    <3>1. step \in 1 .. Len(Claims(ops[bridge])) /\ ops[bridge] \in BridgeTypes
      BY <2>1
    <3>2. Len(Claims(ops[bridge])) \in 2 .. 3
      BY <3>1, ClaimsAre DEF BridgeTypes
    <3> QED BY <3>1, <3>2
  <2>3. \A i \in Held(bridge) : i \in PwmBytes(ops[bridge]) /\ i # b
    <3> SUFFICES ASSUME NEW i \in Held(bridge) PROVE i \in PwmBytes(ops[bridge]) /\ i # b
      OBVIOUS
    <3>1. PICK k \in 1 .. step - 1 : Claims(ops[bridge])[k].byte = i /\ i \in PwmBytes(ops[bridge])
      BY <2>2 DEF Held
    <3>2. k \in 1 .. Len(Claims(ops[bridge])) /\ k # step
      BY <2>2
    <3> QED BY <2>1, <2>2, <3>1, <3>2, ClaimRange
  <2>4. bridge' = bridge /\ ops' = ops /\ saved' = saved
    BY <2>1
  <2>5. step' \in Int /\ StepInv'
    <3>1. h_bridge'[bridge].type = h_bridge[bridge].type
      <4>1. h_bridge[bridge] \in JointParams /\ bridge \in DOMAIN h_bridge
        BY <1>0 DEF BridgeTyped
      <4>2. PICK q : q = [h_bridge[bridge].pins EXCEPT ![b] = params[bridge][b]]
        OBVIOUS
      <4>3. \/ h_bridge' = h_bridge
            \/ h_bridge' = [h_bridge EXCEPT ![bridge] = [h_bridge[bridge] EXCEPT !.pins = q]]
        BY <2>1, <4>2
      <4>4. [h_bridge[bridge] EXCEPT !.pins = q].type = h_bridge[bridge].type
        BY <4>1, PinsReplaced
      <4> QED BY <4>1, <4>3, <4>4
    <3>2. step' = step + 1 \/ step' = -1
      BY <2>1
    <3>3. step <= Len(Claims(ops[bridge]))
      BY <2>2
    <3>4. ops[bridge] = h_bridge[bridge].type
      BY <1>0, <2>2 DEF StepInv
    <3> QED BY <2>2, <2>4, <3>1, <3>2, <3>3, <3>4 DEF StepInv
  <2>6. ASSUME NEW j \in Motors, NEW i \in Held(j)
        PROVE  i \in Held(j)' /\ (j = bridge => i # b)
    <3>1. CASE j # bridge
      BY <2>4, <2>6, <3>1 DEF Held
    <3>2. CASE j = bridge /\ step' = step + 1
      BY <2>2, <2>3, <2>4, <2>6, <3>2 DEF Held
    <3>3. CASE j = bridge /\ step' = -1
      BY <2>2, <2>3, <2>4, <2>6, <3>3 DEF Held
    <3> QED BY <2>1, <3>1, <3>2, <3>3
  <2>7. CASE /\ Unused(use, v) \/ Available(use, v)
             /\ pin' = IF Unused(use, v) THEN pin ELSE [pin EXCEPT ![v] = InUse(use, pin[v])]
             /\ params' = [params EXCEPT ![bridge] = [params[bridge] EXCEPT ![b] = v]]
             /\ step' = step + 1 /\ UNCHANGED <<h_bridge, result, bridge, refused>>
    <3>1. PICK t \in Int \X Int \X Int : t = params[bridge]
      BY <1>0 DEF BridgeTyped
    <3>2. PICK u : u = [t EXCEPT ![b] = v]
      OBVIOUS
    <3>3. u \in Int \X Int \X Int /\ \A k \in 1 .. 3 : u[k] = IF k = b THEN v ELSE t[k]
      BY <3>2, TripleExcept
    <3>4. params' = [params EXCEPT ![bridge] = u] /\ params' \in [Motors -> Int \X Int \X Int]
      BY <1>0, <2>7, <3>1, <3>2, <3>3 DEF BridgeTyped
    <3>5. \A j \in Motors : \A i \in Held(j) : params'[j][i] = params[j][i]
      <4> SUFFICES ASSUME NEW j \in Motors, NEW i \in Held(j) PROVE params'[j][i] = params[j][i]
        OBVIOUS
      <4>1. j = bridge => i \in 1 .. 3 /\ i # b
        BY <2>3, <2>6 DEF PwmBytes
      <4> QED BY <1>0, <3>1, <3>3, <3>4, <4>1 DEF BridgeTyped
    <3>6. CASE Unused(use, v)
      <4>1. pin' = pin
        BY <2>7, <3>6
      <4>2. BridgeTyped'
        BY <1>0, <2>4, <2>5, <2>7, <3>4, <4>1 DEF BridgeTyped
      <4>3. PwmInv'
        BY <1>0, <2>4, <2>6, <3>5, <4>1 DEF PwmInv
      <4> QED BY <2>5, <4>2, <4>3 DEF BridgeInv
    <3>7. CASE ~Unused(use, v)
      <4>1. v \in IoPins /\ pin' = [pin EXCEPT ![v] = InUse(use, pin[v])]
            /\ (use \in ByTimer => v \in PwmPins)
        BY <2>7, <3>7, BridgeAssumption DEF Available
      <4>2. PICK new \in Register :
              /\ new = InUse(use, pin[v]) /\ (use \notin ByTimer => new.pwm = pin[v].pwm)
        BY <1>0, <4>1, InUseIs DEF BridgeTyped
      <4>3. pin' = [pin EXCEPT ![v] = new] /\ pin' \in [IoPins -> Register]
        BY <1>0, <4>1, <4>2 DEF BridgeTyped
      <4>4. BridgeTyped'
        BY <1>0, <2>4, <2>5, <2>7, <3>4, <4>3 DEF BridgeTyped
      <4>5. ASSUME NEW p \in IoPins, pin'[p].pwm
            PROVE  p \in PwmPins /\ \E j \in Motors : ops'[j] # "none"
                                      /\ \E i \in Held(j)' : p = params'[j][i]
        <5>1. CASE p = v /\ use \in ByTimer
          <6>1. b \in PwmBytes(ops[bridge])
            BY <2>1, <5>1, ClaimRange
          <6>2. step \in 1 .. step' - 1 /\ step' > 0
            BY <2>2, <2>7
          <6> PICK j \in Motors : j = bridge
            BY <1>0 DEF BridgeTyped
          <6>3. b \in Held(j)'
            BY <2>1, <2>4, <6>1, <6>2 DEF Held
          <6>4. params'[j][b] = v /\ ops'[j] # "none"
            BY <1>0, <2>1, <2>4, <3>3, <3>4 DEF BridgeTyped, BridgeTypes
          <6>5. p \in PwmPins /\ p = params'[j][b]
            BY <4>1, <5>1, <6>4
          <6> QED BY <6>3, <6>4, <6>5, Zenon
        <5>2. CASE ~(p = v /\ use \in ByTimer)
          <6>1. pin[p].pwm
            BY <1>0, <4>2, <4>3, <4>5, <5>2 DEF BridgeTyped
          <6>2. PICK j \in Motors : ops[j] # "none" /\ \E i \in Held(j) : p = params[j][i]
            BY <1>0, <6>1 DEF PwmInv
          <6>3. PICK i \in Held(j) : p = params[j][i]
            BY <6>2
          <6>4. i \in Held(j)' /\ params'[j][i] = params[j][i] /\ ops'[j] # "none"
            BY <2>4, <2>6, <3>5, <6>2
          <6> QED BY <1>0, <6>1, <6>3, <6>4 DEF PwmInv
        <5> QED BY <5>1, <5>2
      <4>6. PwmInv'
        BY <4>5 DEF PwmInv
      <4> QED BY <2>5, <4>4, <4>6 DEF BridgeInv
    <3> QED BY <3>6, <3>7
  <2>8. CASE /\ h_bridge' = [h_bridge EXCEPT ![bridge] = [h_bridge[bridge] EXCEPT
                               !.pins = [h_bridge[bridge].pins EXCEPT ![b] = params[bridge][b]]]]
             /\ UNCHANGED <<pin, params, bridge>>
    <3>1. PICK t \in Int \X Int \X Int : t = [h_bridge[bridge].pins EXCEPT ![b] = params[bridge][b]]
      <4>1. h_bridge[bridge].pins \in Int \X Int \X Int /\ params[bridge][b] \in Int
        BY <1>0 DEF BridgeTyped, JointParams
      <4> QED BY <4>1, TripleExcept
    <3>2. h_bridge' \in [Motors -> JointParams]
      BY <1>0, <2>8, <3>1, PinsReplaced DEF BridgeTyped
    <3>3. BridgeTyped'
      BY <1>0, <2>4, <2>5, <2>8, <3>2 DEF BridgeTyped
    <3>4. PwmInv'
      BY <1>0, <2>4, <2>6, <2>8 DEF PwmInv
    <3> QED BY <2>5, <3>3, <3>4 DEF BridgeInv
  <2> QED BY <2>1, <2>7, <2>8
<1>3. CASE NextJoint
  <2>1. /\ UNCHANGED <<h_bridge, saved, ops, params, pin>>
        /\ bridge' \in Motors /\ step' \in Int /\ step' <= 0 /\ step > 0
        /\ step > Len(Claims(ops[bridge]))
    BY <1>0, <1>3 DEF NextJoint, Return, Motors, BridgeTyped
  <2>2. \A j \in Motors : Held(j) \subseteq PwmBytes(ops[j]) /\ Held(j)' = PwmBytes(ops[j])
    BY <2>1 DEF Held
  <2> QED BY <1>0, <2>1, <2>2 DEF BridgeInv, BridgeTyped, StepInv, PwmInv
<1>4. CASE BridgeTick
  <2>1. UNCHANGED <<h_bridge, saved, ops, params, bridge, step>>
    BY <1>4 DEF BridgeTick
  <2>2. pin' \in [IoPins -> Register] /\ \A p \in IoPins : pin'[p].pwm = pin[p].pwm
    BY <1>0, <1>4, TickKeeps
  <2>3. \A j \in Motors : Held(j)' = Held(j)
    BY <2>1 DEF Held
  <2>4. BridgeTyped' /\ StepInv'
    BY <1>0, <2>1, <2>2 DEF BridgeTyped, StepInv
  <2>5. PwmInv'
    BY <1>0, <2>1, <2>2, <2>3 DEF PwmInv
  <2> QED BY <2>4, <2>5 DEF BridgeInv
<1>5. CASE SetJointParams \/ LoadJointParams
  <2>1. /\ UNCHANGED <<saved, ops, params, pin>> /\ bridge' \in Motors /\ step' = 0 /\ step < 0
        /\ h_bridge' \in [Motors -> JointParams]
    BY <1>0, <1>5, BridgeAssumption
       DEF SetJointParams, LoadJointParams, Begin, Idle, Motors, BridgeTyped, JointParams
  <2>2. \A j \in Motors : Held(j)' = Held(j)
    BY <1>0, <2>1 DEF Held, BridgeTyped
  <2>3. BridgeTyped' /\ StepInv'
    BY <1>0, <2>1 DEF BridgeTyped, StepInv
  <2>4. PwmInv'
    BY <1>0, <2>1, <2>2 DEF PwmInv
  <2> QED BY <2>3, <2>4 DEF BridgeInv
<1>6. CASE SaveJointParams
  <2>1. UNCHANGED <<h_bridge, ops, params, pin, bridge, step>> /\ saved' \in [Motors -> JointParams]
    BY <1>0, <1>6 DEF SaveJointParams, BridgeTyped
  <2>2. BridgeTyped' /\ StepInv'
    BY <1>0, <2>1 DEF BridgeTyped, StepInv
  <2>3. PwmInv'
    BY <1>0, <2>1 DEF PwmInv, Held
  <2> QED BY <2>2, <2>3 DEF BridgeInv
<1>7. CASE SwitchOn
  <2>1. BridgeTyped' /\ step' = 0
    BY <1>0, <1>7 DEF SwitchOn, Begin, BridgeTyped, Register, Levels, Duties, PulledUp, Motors
  <2>2. \A p \in IoPins : ~pin'[p].pwm
    BY <1>7 DEF SwitchOn, PulledUp
  <2> QED BY <2>1, <2>2 DEF BridgeInv, StepInv, PwmInv
<1>8. CASE UNCHANGED bridgeVars
  <2>1. BridgeTyped' /\ StepInv'
    BY <1>0, <1>8 DEF bridgeVars, BridgeTyped, StepInv
  <2>2. PwmInv'
    BY <1>0, <1>8 DEF bridgeVars, PwmInv, Held
  <2> QED BY <2>1, <2>2 DEF BridgeInv
<1> QED BY <1>1, <1>2, <1>3, <1>4, <1>5, <1>6, <1>7, <1>8 DEF BridgeNext

\* What BridgeTyped does not say: what the timer's interrupt sees, results and flags
ResultsTyped ==
  /\ controllers \in [Motors -> BOOLEAN] /\ outputs \in [Motors -> -1 .. 1]
  /\ result \in {"none", "Success", "WrongPins", "UnknownType"} /\ step >= -1
  /\ requests \in 0 .. MaxRequests
FlagsTyped ==
  starting \in BOOLEAN /\ crossed \in BOOLEAN /\ refused \in BOOLEAN /\ null \in BOOLEAN

\* Both say BridgeTypeOK, as a type has at most three pins.
LEMMA TypesTogether == BridgeInv /\ ResultsTyped /\ FlagsTyped => BridgeTypeOK
<1> SUFFICES ASSUME BridgeInv, ResultsTyped, FlagsTyped PROVE BridgeTypeOK
  OBVIOUS
<1>1. step \in -1 .. 4
  <2>1. step \in Int /\ step >= -1
    BY DEF BridgeInv, BridgeTyped, ResultsTyped
  <2>2. step > 0 => step <= 4
    <3>1. \A type \in BridgeTypes : Len(Claims(type)) = 3 \/ Len(Claims(type)) = 2
      BY ClaimsAre, Zenon DEF BridgeTypes
    <3>2. step > 0 => step <= Len(Claims(ops[bridge])) + 1 /\ ops[bridge] \in BridgeTypes
      BY DEF BridgeInv, StepInv
    <3>3. step > 0 => \E n \in {2, 3} : step <= n + 1
      BY <3>1, <3>2
    <3> QED BY <2>1, <3>3
  <2> QED BY <2>1, <2>2
<1>2. pin \in [IoPins -> [pwm : BOOLEAN, out : BOOLEAN, value : 0 .. 1, duty : 0 .. 255]]
  BY DEF BridgeInv, BridgeTyped, Register, Levels, Duties
<1>3. {starting, crossed, refused, null} \subseteq BOOLEAN
  BY DEF FlagsTyped
<1> QED BY <1>1, <1>2, <1>3 DEF BridgeInv, BridgeTyped, ResultsTyped, BridgeTypeOK, JointParams

\* Every step keeps them.
LEMMA ResultsStep ==
  ASSUME BridgeInv, ResultsTyped, [BridgeNext]_bridgeVars
  PROVE  ResultsTyped'
<1>0. Outputs \subseteq -1 .. 1 /\ MaxRequests \in Nat /\ step \in Int /\ 0 \in -1 .. 1
  BY BridgeAssumption DEF BridgeInv, BridgeTyped
<1>1. CASE Reinit
  <2>1. controllers' = [controllers EXCEPT ![bridge] = TRUE]
        /\ outputs' = [outputs EXCEPT ![bridge] = 0] /\ requests' = requests
    BY <1>1 DEF Reinit
  <2>2. result' \in {result, "UnknownType"} /\ step' \in {1, -1}
    BY <1>1 DEF Reinit, Return
  <2>3. controllers' \in [Motors -> BOOLEAN]
    BY <2>1 DEF ResultsTyped
  <2>4. outputs' \in [Motors -> -1 .. 1]
    BY <1>0, <2>1 DEF ResultsTyped
  <2> QED BY <2>1, <2>2, <2>3, <2>4 DEF ResultsTyped
<1>2. CASE Claim
  <2>1. UNCHANGED <<controllers, outputs, requests>> /\ (step' = step + 1 \/ step' = -1)
        /\ result' \in {result, "WrongPins"}
    BY <1>2 DEF Claim, Return
  <2> QED BY <1>0, <2>1 DEF ResultsTyped
<1>3. CASE NextJoint
  <2>1. UNCHANGED <<controllers, outputs, requests>> /\ step' \in {0, -1}
        /\ result' \in {result, "Success"}
    BY <1>3 DEF NextJoint, Return
  <2> QED BY <2>1 DEF ResultsTyped
<1>4. CASE BridgeTick
  <2>1. UNCHANGED <<controllers, step, result, requests>> /\ outputs' \in [Motors -> -1 .. 1]
    BY <1>0, <1>4 DEF BridgeTick
  <2> QED BY <2>1 DEF ResultsTyped
<1>5. CASE SetJointParams
  <2>1. UNCHANGED <<controllers, outputs, result>> /\ step' = 0 /\ requests' \in 0 .. MaxRequests
    BY <1>0, <1>5 DEF SetJointParams, Begin, ResultsTyped
  <2> QED BY <2>1 DEF ResultsTyped
<1>6. CASE LoadJointParams \/ SaveJointParams \/ UNCHANGED bridgeVars
  <2>1. UNCHANGED <<controllers, outputs, result, requests>> /\ step' \in {step, 0}
    BY <1>6 DEF LoadJointParams, SaveJointParams, Begin, bridgeVars
  <2> QED BY <2>1 DEF ResultsTyped
<1>7. CASE SwitchOn
  BY <1>0, <1>7 DEF SwitchOn, Begin, ResultsTyped
<1> QED BY <1>1, <1>2, <1>3, <1>4, <1>5, <1>6, <1>7 DEF BridgeNext

\* Each step leaves the flags Booleans.
LEMMA FlagsStep ==
  ASSUME FlagsTyped, [BridgeNext]_bridgeVars
  PROVE  FlagsTyped'
<1> USE DEF FlagsTyped
<1>1. starting' \in BOOLEAN
  BY DEF BridgeNext, Reinit, Claim, NextJoint, BridgeTick, SetJointParams, LoadJointParams,
         SaveJointParams, SwitchOn, Return, bridgeVars
<1>2. crossed' \in BOOLEAN
  BY DEF BridgeNext, Reinit, Claim, NextJoint, BridgeTick, SetJointParams, LoadJointParams,
         SaveJointParams, SwitchOn, Begin, Return, bridgeVars
<1>3. refused' \in BOOLEAN
  BY DEF BridgeNext, Reinit, Claim, NextJoint, BridgeTick, SetJointParams, LoadJointParams,
         SaveJointParams, SwitchOn, Begin, Return, bridgeVars
<1>4. null' \in BOOLEAN
  BY DEF BridgeNext, Reinit, Claim, NextJoint, BridgeTick, SetJointParams, LoadJointParams,
         SaveJointParams, SwitchOn, bridgeVars
<1> QED BY <1>1, <1>2, <1>3, <1>4

\* Bridges, their pins and the pins' registers are always of their types, whatever types
\* and pins the host sends, and a claim has no more steps than a type has pins
\* (orazio_hbridge_internal.c:47-196, orazio_joints.c:17-33).
THEOREM HBridgeTypes == BridgeSpec => []BridgeTypeOK
<1> DEFINE Inv == BridgeInv /\ ResultsTyped /\ FlagsTyped
<1>1. BridgeInit => Inv
  <2> SUFFICES ASSUME BridgeInit PROVE ResultsTyped /\ FlagsTyped
    BY BridgeStarts
  <2>1. ResultsTyped
    BY BridgeAssumption DEF BridgeInit, ResultsTyped
  <2>2. starting = TRUE /\ crossed = FALSE /\ refused = FALSE /\ null = FALSE
    BY DEF BridgeInit
  <2>3. FlagsTyped
    BY <2>2, Zenon DEF FlagsTyped
  <2> QED BY <2>1, <2>3
<1>2. Inv /\ [BridgeNext]_bridgeVars => Inv'
  BY BridgeStep, ResultsStep, FlagsStep
<1>3. Inv => BridgeTypeOK
  BY TypesTogether
<1> QED BY <1>1, <1>2, <1>3, PTL DEF BridgeSpec

\* Whatever types and pins, wrong ones included, were set before: when the
\* initialization is over, a pin with PWM is one that its bridge would release
\* (orazio_hbridge_internal.c:47-196, orazio_joints.c:17-33).
THEOREM BridgesReleased == BridgeSpec => []NothingLeftDriven
<1>1. BridgeInv => NothingLeftDriven
  <2> SUFFICES ASSUME BridgeInv, Idle, NEW p \in IoPins, pin[p].pwm
               PROVE  \E j \in Motors : ops[j] # "none" /\ p \in Named(params[j], PwmBytes(ops[j]))
    BY DEF NothingLeftDriven
  <2>1. PICK j \in Motors : ops[j] # "none" /\ \E i \in Held(j) : p = params[j][i]
    BY DEF BridgeInv, PwmInv
  <2>2. Held(j) \subseteq PwmBytes(ops[j])
    BY DEF Held
  <2> QED BY <2>1, <2>2 DEF Named
<1> QED BY BridgeStarts, BridgeStep, <1>1, PTL DEF BridgeSpec
-----------------------------------------------------------------------------
(* ControlReachesMotors *)

\* A joint that was initialized has a controller.
ControllersInv ==
  /\ DOMAIN controllers = Motors
  /\ step > 0 => controllers[bridge]
  /\ bridge = Right /\ step >= 0 => controllers[Left]
  /\ step < 0 /\ result = "Success" => \A j \in Motors : controllers[j]

\* The inductive invariant of ControlReachesMotors
ReachInv == BridgeInv /\ ControllersInv /\ ControlInv

\* Every step keeps the controllers.
LEMMA ControllersStep ==
  BridgeInv /\ ControllersInv /\ [BridgeNext]_bridgeVars => ControllersInv'
<1> SUFFICES ASSUME BridgeInv, ControllersInv, [BridgeNext]_bridgeVars PROVE ControllersInv'
  OBVIOUS
<1>0. bridge \in Motors /\ step \in Int /\ Motors = {Left, Right} /\ Left # Right
  BY DEF BridgeInv, BridgeTyped, Motors, Left, Right
<1>1. CASE Reinit
  <2>1. /\ controllers' = [controllers EXCEPT ![bridge] = TRUE] /\ bridge' = bridge /\ step = 0
        /\ step' = 1 \/ (step' = -1 /\ result' = "UnknownType")
    BY <1>1 DEF Reinit, Return
  <2> QED BY <1>0, <2>1 DEF ControllersInv
<1>2. CASE Claim
  <2>1. controllers' = controllers /\ step > 0
    BY <1>2 DEF Claim
  <2>2. \/ step' = step + 1 /\ bridge' = bridge
        \/ step' = -1 /\ result' = "WrongPins"
    BY <1>2, ClaimIs
  <2> QED BY <1>0, <2>1, <2>2 DEF ControllersInv
<1>3. CASE NextJoint
  <2>1. controllers' = controllers /\ step > 0
    BY <1>3 DEF NextJoint
  <2>2. \/ bridge = Left /\ bridge' = Right /\ step' = 0
        \/ bridge = Right /\ step' = -1
    BY <1>0, <1>3 DEF NextJoint, Return
  <2> QED BY <1>0, <2>1, <2>2 DEF ControllersInv
<1>4. CASE BridgeTick \/ SaveJointParams \/ UNCHANGED bridgeVars
  BY <1>4 DEF BridgeTick, SaveJointParams, bridgeVars, ControllersInv
<1>5. CASE SetJointParams \/ LoadJointParams \/ SwitchOn
  <2>1. bridge' = Left /\ step' = 0 /\ (controllers' = controllers \/ DOMAIN controllers' = Motors)
    BY <1>5 DEF SetJointParams, LoadJointParams, SwitchOn, Begin
  <2> QED BY <1>0, <2>1 DEF ControllersInv
<1> QED BY <1>1, <1>2, <1>3, <1>4, <1>5 DEF BridgeNext

\* A pin that Reinit leaves to the other joint is not touched by the release.
LEMMA ReinitForeign ==
  ASSUME BridgeInv, Reinit, h_bridge[bridge].type \in BridgeTypes, ~crossed',
         NEW p \in IoPins, pin[p].out, Foreign(p)
  PROVE  /\ pin'[p].out /\ pin'[p].pwm = pin[p].pwm /\ pin'[p].value = pin[p].value /\ ~Stale(p)
         /\ ~(ops[bridge] = "PWMDir" /\ p = params[bridge][2])
<1>1. pin'[p].out /\ ~Stale(p)
  BY DEF Reinit
<1>2. CASE ops[bridge] = "none"
  BY <1>1, <1>2 DEF Reinit
<1>3. CASE ops[bridge] # "none"
  <2>1. pin' = Release(ops[bridge], params[bridge])
    BY <1>3 DEF Reinit
  <2>2. ops[bridge] \in BridgeTypes /\ BridgeTyped
    BY <1>3 DEF BridgeInv, BridgeTyped
  <2> DEFINE pwm == p \in PwmPins /\ \E i \in PwmBytes(ops[bridge]) : p = params[bridge][i]
             digital == \E i \in DigitalBytes(ops[bridge]) : p = params[bridge][i]
  <2>3. /\ pin'[p].pwm = (pin[p].pwm /\ ~pwm)
        /\ pin'[p].out = (pin[p].out /\ ~pwm /\ ~digital)
        /\ ~digital => pin'[p].value = pin[p].value
    BY <2>1, <2>2, ReleaseIs
  <2>4. digital \in BOOLEAN /\ pwm \in BOOLEAN
    OBVIOUS
  <2>5. ops[bridge] = "PWMDir" /\ p = params[bridge][2] => digital
    BY DEF DigitalBytes
  <2>6. pin[p].pwm \in BOOLEAN
    BY <2>2 DEF BridgeTyped, Register
  <2> HIDE DEF pwm, digital
  <2>7. ~pwm /\ ~digital
    BY <1>1, <2>3
  <2>8. pin'[p].pwm = pin[p].pwm
    BY <2>3, <2>6, <2>7
  <2> QED BY <1>1, <2>3, <2>5, <2>7, <2>8
<1> QED BY <1>2, <1>3
\* Two claims of separate bridges name two pins.
LEMMA Separates ==
  ASSUME BridgeTyped, Separate(h_bridge[Left], h_bridge[Right]), NEW i \in Motors, NEW j \in Motors,
         h_bridge[i].type \in BridgeTypes, h_bridge[j].type \in BridgeTypes,
         NEW k \in 1 .. Size(i), NEW m \in 1 .. Size(j), i # j \/ k # m, PinOf(i, k) \in IoPins
  PROVE  PinOf(i, k) # PinOf(j, m)
<1> DEFINE Bytes(a) == 1 .. (IF h_bridge[a].type = "PWMDir" THEN 3 ELSE 2)
<1>1. /\ ByteOf(i, k) \in Bytes(i) /\ ByteOf(j, m) \in Bytes(j)
      /\ i = j /\ ByteOf(i, k) = ByteOf(j, m) => k = m
  <2>1. ASSUME NEW a \in Motors, h_bridge[a].type \in BridgeTypes, NEW n \in 1 .. Size(a)
        PROVE  ByteOf(a, n) \in Bytes(a)
    <3>1. CASE h_bridge[a].type = "PWMDir"
      BY <2>1, <3>1, ClaimsAre DEF ByteOf, Size
    <3>2. CASE h_bridge[a].type = "DualPWM"
      BY <2>1, <3>2, ClaimsAre DEF ByteOf, Size
    <3>3. CASE h_bridge[a].type = "HalfPWM"
      BY <2>1, <3>3, ClaimsAre DEF ByteOf, Size
    <3> QED BY <2>1, <3>1, <3>2, <3>3 DEF BridgeTypes
  <2>2. i = j /\ ByteOf(i, k) = ByteOf(j, m) => k = m
    BY ClaimRange DEF ByteOf, Size
  <2> QED BY <2>1, <2>2
<1>2. PinOf(i, k) \in Nat
  BY BridgeAssumption
<1>3. CASE i = j
  <2>1. ByteOf(i, k) # ByteOf(j, m)
    BY <1>1, <1>3
  <2>2. \A r \in {h_bridge[Left], h_bridge[Right]} :
          \A a, b \in 1 .. (IF r.type = "PWMDir" THEN 3 ELSE 2) : r.pins[a] = r.pins[b] => a = b
    BY DEF Separate
  <2>3. h_bridge[i] \in {h_bridge[Left], h_bridge[Right]}
    BY DEF Motors
  <2>4. \A a, b \in Bytes(i) : h_bridge[i].pins[a] = h_bridge[i].pins[b] => a = b
    BY <2>2, <2>3
  <2> HIDE DEF Bytes
  <2> QED BY <1>1, <1>3, <2>1, <2>4 DEF PinOf
<1>4. CASE i # j
  <2>1. PinsOf(h_bridge[i]) \cap PinsOf(h_bridge[j]) = {}
    BY <1>4 DEF Separate, Motors
  <2>2. PinOf(i, k) \in PinsOf(h_bridge[i])
    BY <1>1, <1>2 DEF PinsOf, PinOf
  <2>3. PinOf(j, m) \in Nat => PinOf(j, m) \in PinsOf(h_bridge[j])
    BY <1>1 DEF PinsOf, PinOf
  <2> QED BY <1>2, <2>1, <2>2, <2>3
<1> QED BY <1>3, <1>4

\* A pin in use is one of the pins.
LEMMA UsedPin ==
  ASSUME NEW use \in Uses, NEW p \in Int, Available(use, p)
  PROVE  p \in IoPins /\ ~Unused(use, p) /\ (use \in ByTimer => p \in PwmPins)
BY BridgeAssumption DEF Available, Unused

\* InPlace is about one pin and, for its level, what could disturb it.
LEMMA StaysInPlace ==
  ASSUME NEW j \in Motors, NEW use \in Uses, NEW p \in Int, InPlace(j, use, p),
         Available(use, p) =>
           /\ pin'[p].out = pin[p].out /\ pin'[p].pwm = pin[p].pwm
           /\ use \in {"brake", "enable"} =>
                \/ Disturbed(j, p)'
                \/ pin'[p].value = pin[p].value /\ ~Disturbed(j, p)
                \/ pin'[p].value = pin[p].value /\ Disturbed(j, p)'
  PROVE  InPlace(j, use, p)'
BY DEF InPlace, Uses, Unused

\* The types of a claim
LEMMA ClaimTyped ==
  ASSUME BridgeTyped, NEW j \in Motors, h_bridge[j].type \in BridgeTypes, NEW k \in 1 .. Size(j)
  PROVE  ByteOf(j, k) \in 1 .. 3 /\ UseOf(j, k) \in Uses /\ PinOf(j, k) \in Int
         /\ Size(j) \in 2 .. 3
<1>1. ByteOf(j, k) \in 1 .. 3 /\ UseOf(j, k) \in Uses
  BY ClaimRange DEF ByteOf, UseOf, Size
<1>2. Size(j) \in 2 .. 3
  BY ClaimsAre DEF Size, BridgeTypes
<1> QED BY <1>1, <1>2 DEF PinOf, BridgeTyped, JointParams

\* Reinit of one joint leaves the claims of the other alone.
LEMMA ControlReinit == ASSUME ReachInv, Reinit PROVE ControlInv'
<1> SUFFICES ASSUME Sound', h_bridge[bridge].type \in BridgeTypes
             PROVE  ControlInv'
  BY DEF Reinit, Return, ControlInv
<1>1. BridgeInv /\ BridgeTyped /\ ControlInv /\ Sound
  BY DEF ReachInv, BridgeInv, Sound, Reinit
<1>2. /\ bridge' = bridge /\ step = 0 /\ step' = 1 /\ UNCHANGED <<h_bridge, params>>
      /\ ops' = [ops EXCEPT ![bridge] = h_bridge[bridge].type]
  BY <1>1, ReinitIs
<1>3. Ready(bridge, step - 1)'
  BY <1>1, <1>2 DEF Ready, BridgeTyped
<1>4. CASE bridge = Right
  <2>1. Ready(Left, Size(Left)) /\ Left \in Motors /\ Left # Right /\ Motors \ {bridge} = {Left}
    BY <1>1, <1>2, <1>4 DEF ControlInv, Motors, Left, Right
  <2>2. h_bridge[Left].type \in BridgeTypes
    BY <2>1 DEF Ready
  <2>3. ASSUME NEW k \in 1 .. Size(Left), Available(UseOf(Left, k), PinOf(Left, k)),
               ~Unused(UseOf(Left, k), PinOf(Left, k))
        PROVE  LET p == PinOf(Left, k)
               IN  /\ pin'[p].out = pin[p].out /\ pin'[p].pwm = pin[p].pwm
                   /\ pin'[p].value = pin[p].value /\ ~Disturbed(Left, p) /\ ~Disturbed(Left, p)'
    <3>1. PICK p \in Int : p = PinOf(Left, k) /\ p \in IoPins
      BY <1>1, <2>1, <2>2, <2>3, ClaimTyped, UsedPin
    <3>2. pin[p].out /\ params[Left][ByteOf(Left, k)] = p
      BY <2>1, <2>3, <3>1 DEF Ready, ClaimOK, InPlace
    <3>3. Foreign(p)
      BY <1>1, <2>1, <2>2, <3>2, ClaimTyped DEF Foreign
    <3>4. /\ pin'[p].out /\ pin'[p].pwm = pin[p].pwm /\ pin'[p].value = pin[p].value /\ ~Stale(p)
          /\ ~(ops[bridge] = "PWMDir" /\ p = params[bridge][2])
      BY <1>1, <3>1, <3>2, <3>3, ReinitForeign DEF Sound
    <3>5. pin[p].out \in BOOLEAN /\ pin'[p].out \in BOOLEAN
      <4>1. pin' \in [IoPins -> Register]
        BY <1>1, ReinitIs
      <4> QED BY <1>1, <3>1, <4>1 DEF BridgeTyped, Register
    <3>6. pin'[p].out = pin[p].out
      BY <3>2, <3>4, <3>5
    <3>7. ops'[Right] = h_bridge[Right].type
      BY <1>1, <1>2, <1>4 DEF BridgeTyped
    <3>8. ~Disturbed(Left, p) /\ ~Disturbed(Left, p)'
      BY <1>2, <1>4, <3>4, <3>7 DEF Disturbed, Other, Stale
    <3>9. PinOf(Left, k)' = PinOf(Left, k)
      BY <1>2 DEF PinOf, ByteOf
    <3> QED BY <3>1, <3>4, <3>6, <3>8, <3>9 DEF Disturbed
  <2>4. ASSUME NEW k \in 1 .. Size(Left) PROVE ClaimOK(Left, k)'
    <3>1. ClaimOK(Left, k) /\ UseOf(Left, k) \in Uses /\ PinOf(Left, k) \in Int
      BY <1>1, <2>1, <2>2, ClaimTyped DEF Ready
    <3>2. /\ InPlace(Left, UseOf(Left, k), PinOf(Left, k))
          /\ params[Left][ByteOf(Left, k)] = PinOf(Left, k)
      BY <3>1 DEF ClaimOK
    <3>3. PICK use \in Uses, p \in Int : use = UseOf(Left, k) /\ p = PinOf(Left, k)
      BY <3>1
    <3>4. InPlace(Left, use, p)'
      BY <2>1, <2>3, <3>2, <3>3, StaysInPlace, UsedPin
    <3> QED BY <1>2, <3>2, <3>3, <3>4 DEF ClaimOK, UseOf, PinOf, ByteOf
  <2>5. Ready(Left, Size(Left))'
    BY <1>1, <1>2, <1>4, <2>1, <2>4 DEF Ready, Size, BridgeTyped
  <2>6. Undisturbed'
    <3> SUFFICES ASSUME NEW k \in 1 .. Size(Left), PinOf(Left, k) \in IoPins,
                        UseOf(Left, k) \in {"brake", "enable"}
                 PROVE  ~Disturbed(Left, PinOf(Left, k))'
      BY <1>2 DEF Undisturbed, Size, PinOf, UseOf, ByteOf
    <3>1. PICK use, p : use = UseOf(Left, k) /\ p = PinOf(Left, k)
      OBVIOUS
    <3>2. p \in IoPins /\ p \in Nat /\ use \in {"brake", "enable"} /\ use \notin ByTimer
      BY <3>1, BridgeAssumption DEF ByTimer
    <3>3. Available(use, p) /\ ~Unused(use, p)
      BY <3>2 DEF Available, Unused
    <3> QED BY <2>3, <3>1, <3>3
  <2> QED BY <1>2, <1>3, <2>5, <2>6 DEF ControlInv
<1>5. CASE bridge # Right
  BY <1>2, <1>3, <1>5 DEF ControlInv
<1> QED BY <1>4, <1>5
\* A claim of one joint leaves those made before alone.
LEMMA ControlClaim == ASSUME ReachInv, Claim PROVE ControlInv'
<1> SUFFICES ASSUME Sound', ~(step' = -1 /\ result' = "WrongPins")
             PROVE  ControlInv'
  BY DEF ControlInv
<1>1. BridgeInv /\ BridgeTyped /\ ControlInv /\ StepInv
  BY DEF ReachInv, BridgeInv
<1>2. PICK b \in 1 .. 3, use \in Uses, v \in Int :
        /\ step \in 1 .. Len(Claims(ops[bridge])) /\ ops[bridge] \in BridgeTypes
        /\ b = Claims(ops[bridge])[step].byte /\ use = Claims(ops[bridge])[step].use
        /\ v = h_bridge[bridge].pins[b] /\ UNCHANGED <<ops, saved, crossed>>
        /\ \/ /\ Unused(use, v) \/ Available(use, v)
              /\ pin' = IF Unused(use, v) THEN pin ELSE [pin EXCEPT ![v] = InUse(use, pin[v])]
              /\ params' = [params EXCEPT ![bridge] = [params[bridge] EXCEPT ![b] = v]]
              /\ step' = step + 1 /\ UNCHANGED <<h_bridge, result, bridge, refused>>
           \/ /\ h_bridge' = [h_bridge EXCEPT ![bridge] = [h_bridge[bridge] EXCEPT
                                !.pins = [h_bridge[bridge].pins EXCEPT
                                            ![b] = params[bridge][b]]]]
              /\ UNCHANGED <<pin, params, bridge>>
              /\ \/ step' = step + 1 /\ refused'
                 \/ step' = -1 /\ result' = "WrongPins"
  BY <1>1, ClaimIs
<1>3. /\ Unused(use, v) \/ Available(use, v)
      /\ pin' = IF Unused(use, v) THEN pin ELSE [pin EXCEPT ![v] = InUse(use, pin[v])]
      /\ params' = [params EXCEPT ![bridge] = [params[bridge] EXCEPT ![b] = v]]
      /\ step' = step + 1 /\ UNCHANGED <<h_bridge, result, bridge, refused, ops, crossed>>
  BY <1>2 DEF Sound
<1>4. Sound /\ Separate(h_bridge[Left], h_bridge[Right])
  BY <1>3 DEF Sound
<1>5. /\ step \in 1 .. Len(Claims(ops[bridge])) /\ ops[bridge] \in BridgeTypes
      /\ step > 0 /\ ops[bridge] = h_bridge[bridge].type
  <2>1. step \in 1 .. Len(Claims(ops[bridge])) /\ ops[bridge] \in BridgeTypes
    BY <1>2
  <2>2. step > 0
    BY <2>1, ClaimsAre DEF BridgeTypes
  <2> QED BY <1>1, <2>1, <2>2 DEF StepInv
<1>6. /\ bridge \in Motors /\ step \in 1 .. Size(bridge) /\ step \in Int
      /\ b = ByteOf(bridge, step) /\ use = UseOf(bridge, step) /\ v = PinOf(bridge, step)
  BY <1>1, <1>2, <1>5 DEF Size, ByteOf, UseOf, PinOf, BridgeTyped
\* The pins that change, and the bytes.
<1>7. /\ \A p \in IoPins : p # v => pin'[p] = pin[p]
      /\ ~Unused(use, v) => v \in IoPins /\ pin'[v] = InUse(use, pin[v])
  <2>1. v \in IoPins \/ Unused(use, v)
    BY <1>3, UsedPin
  <2> QED BY <1>1, <1>3, <2>1 DEF BridgeTyped
<1>8. /\ \A j \in Motors \ {bridge} : params'[j] = params[j]
      /\ params'[bridge][b] = v
      /\ \A i \in 1 .. 3 \ {b} : params'[bridge][i] = params[bridge][i]
  <2>1. PICK t \in Int \X Int \X Int : t = params[bridge]
    BY <1>1 DEF BridgeTyped
  <2>2. PICK u : u = [t EXCEPT ![b] = v]
    OBVIOUS
  <2>3. \A k \in 1 .. 3 : u[k] = IF k = b THEN v ELSE t[k]
    BY <2>2, TripleExcept
  <2>4. params' = [params EXCEPT ![bridge] = u]
    BY <1>3, <2>1, <2>2
  <2> QED BY <1>1, <2>1, <2>3, <2>4 DEF BridgeTyped
<1>9. ASSUME NEW k \in 1 .. step PROVE ClaimOK(bridge, k)'
  <2>1. CASE k = step
    <3>1. params'[bridge][b] = v
      BY <1>8
    <3>2. InPlace(bridge, use, v)'
      <4>1. CASE Unused(use, v)
        BY <4>1 DEF InPlace, Unused
      <4>2. CASE ~Unused(use, v)
        <5>1. /\ Available(use, v) /\ v \in IoPins /\ pin[v] \in Register
              /\ pin'[v] = InUse(use, pin[v])
          BY <1>1, <1>3, <1>7, <4>2 DEF BridgeTyped
        <5>2. /\ pin'[v].out /\ (use \in ByTimer => pin'[v].pwm)
              /\ use = "brake" => pin'[v].value = 0
              /\ use = "enable" => pin'[v].value = 1
          BY <5>1, InUseIs
        <5> QED BY <5>1, <5>2 DEF InPlace, Available
      <4> QED BY <4>1, <4>2
    <3> QED BY <1>3, <1>6, <2>1, <3>1, <3>2 DEF ClaimOK, UseOf, PinOf, ByteOf
  <2>2. CASE k # step
    <3>1. k \in 1 .. step - 1 /\ k \in 1 .. Size(bridge)
      <4>1. step \in 1 .. Size(bridge) /\ Size(bridge) \in 2 .. 3
        BY <1>5, <1>6, ClaimsAre DEF Size, BridgeTypes
      <4> QED BY <2>2, <4>1
    <3>2. ClaimOK(bridge, k)
      BY <1>1, <1>4, <1>5, <3>1 DEF ControlInv, Ready
    <3>3. PICK use1 \in Uses, p \in Int, i \in 1 .. 3 :
            use1 = UseOf(bridge, k) /\ p = PinOf(bridge, k) /\ i = ByteOf(bridge, k)
      BY <1>1, <1>5, <1>6, <3>1, ClaimTyped
    <3>4. i # b
      BY <1>5, <1>6, <2>2, <3>1, <3>3, ClaimRange DEF ByteOf, Size
    <3>5. params'[bridge][i] = p
      BY <1>8, <3>2, <3>3, <3>4 DEF ClaimOK
    <3>6. Available(use1, p) => p \in IoPins /\ pin'[p] = pin[p]
      <4> SUFFICES ASSUME Available(use1, p) PROVE p \in IoPins /\ pin'[p] = pin[p]
        OBVIOUS
      <4>1. p \in IoPins
        BY UsedPin
      <4>2. p # v
        BY <1>1, <1>4, <1>5, <1>6, <2>2, <3>1, <3>3, <4>1, Separates
      <4> QED BY <1>7, <4>1, <4>2
    <3>7. Disturbed(bridge, p)' = Disturbed(bridge, p)
      <4>1. PICK o \in Motors \ {bridge} : o = Other(bridge)
        BY <1>6 DEF Other, Motors, Left, Right
      <4>2. Other(bridge)' = o
        BY <1>3, <4>1 DEF Other
      <4> QED BY <1>3, <1>8, <4>1, <4>2 DEF Disturbed
    <3>8. InPlace(bridge, use1, p)
      BY <3>2, <3>3 DEF ClaimOK
    <3>9. PICK j \in Motors : j = bridge
      BY <1>6
    <3>10. InPlace(j, use1, p)'
      BY <1>3, <3>6, <3>7, <3>8, <3>9, StaysInPlace DEF Disturbed, Other
    <3> QED
      BY <1>3, <3>3, <3>5, <3>9, <3>10
      DEF ClaimOK, UseOf, PinOf, ByteOf, InPlace, Disturbed, Other
  <2> QED BY <2>1, <2>2
<1>10. Ready(bridge, step - 1)'
  <2>1. ops'[bridge'] = h_bridge'[bridge'].type /\ ops'[bridge'] \in BridgeTypes
    BY <1>3, <1>5
  <2>2. step' - 1 = step
    BY <1>3, <1>6
  <2>3. \A k \in 1 .. step' - 1 : ClaimOK(bridge, k)'
    BY <1>9, <2>2
  <2> QED BY <2>1, <2>3 DEF Ready
<1>11. CASE bridge = Left
  BY <1>3, <1>6, <1>10, <1>11 DEF ControlInv, Left, Right
<1>12. CASE bridge = Right
  <2>1. Ready(Left, Size(Left)) /\ Undisturbed /\ Left \in Motors \ {bridge}
        /\ h_bridge[Left].type \in BridgeTypes
    BY <1>1, <1>4, <1>5, <1>6, <1>12 DEF ControlInv, Ready, Motors, Left, Right
  <2>2. ASSUME NEW k \in 1 .. Size(Left), PinOf(Left, k) \in IoPins
        PROVE  pin'[PinOf(Left, k)] = pin[PinOf(Left, k)] /\ PinOf(Left, k) # v
    <3>1. PinOf(Left, k) # v
      BY <1>1, <1>4, <1>5, <1>6, <2>1, <2>2, Separates
    <3> QED BY <1>7, <2>2, <3>1
  <2>3. ASSUME NEW k \in 1 .. Size(Left), PinOf(Left, k) \in IoPins,
               UseOf(Left, k) \in {"brake", "enable"}
        PROVE  ~Disturbed(Left, PinOf(Left, k)) /\ ~Disturbed(Left, PinOf(Left, k))'
    <3>1. ~Disturbed(Left, PinOf(Left, k))
      BY <2>1, <2>3 DEF Undisturbed
    <3>2. params'[Right][2] = params[Right][2] \/ params'[Right][2] = v
      BY <1>8, <1>12
    <3> QED BY <1>3, <2>2, <2>3, <3>1, <3>2 DEF Disturbed, Other, PinOf, ByteOf
  <2>4. Undisturbed'
    BY <1>3, <2>3 DEF Undisturbed, Size, PinOf, UseOf, ByteOf
  <2>5. ASSUME NEW k \in 1 .. Size(Left) PROVE ClaimOK(Left, k)'
    <3>1. PICK use1 \in Uses, p \in Int, i \in 1 .. 3 :
            use1 = UseOf(Left, k) /\ p = PinOf(Left, k) /\ i = ByteOf(Left, k)
      BY <1>1, <2>1, ClaimTyped
    <3>2. params[Left][i] = p /\ InPlace(Left, use1, p)
      BY <2>1, <3>1 DEF Ready, ClaimOK
    <3>3. Available(use1, p) => p \in IoPins
      BY UsedPin
    <3>4. use1 \in {"brake", "enable"} /\ p \in IoPins
            => ~Disturbed(Left, p) /\ ~Disturbed(Left, p)'
      BY <1>3, <2>3, <3>1 DEF Disturbed, PinOf, ByteOf
    <3>5. InPlace(Left, use1, p)'
      BY <2>1, <2>2, <3>1, <3>2, <3>3, <3>4, StaysInPlace
    <3> QED BY <1>3, <1>8, <2>1, <3>1, <3>2, <3>5 DEF ClaimOK, UseOf, PinOf, ByteOf
  <2>6. Ready(Left, Size(Left))'
    BY <1>3, <2>1, <2>5 DEF Ready, Size
  <2> QED BY <1>3, <1>6, <1>10, <2>4, <2>6 DEF ControlInv
<1> QED BY <1>6, <1>11, <1>12 DEF Motors
\* The claims of a joint are complete.
LEMMA ControlNextJoint == ASSUME ReachInv, NextJoint PROVE ControlInv'
<1>1. BridgeInv /\ BridgeTyped /\ ControlInv /\ StepInv
  BY DEF ReachInv, BridgeInv
<1>2. /\ UNCHANGED <<h_bridge, ops, params, pin, crossed, refused>> /\ step > 0
      /\ step > Len(Claims(ops[bridge]))
      /\ \/ bridge = Left /\ bridge' = Right /\ step' = 0
         \/ bridge # Left /\ step' = -1 /\ bridge' = bridge
  BY DEF NextJoint, Return
<1>3. Sound' = Sound /\ \A j \in Motors : Ready(j, Size(j))' = Ready(j, Size(j))
  BY <1>2 DEF Sound, Ready, ClaimOK, InPlace, Disturbed, Other, Size, UseOf, PinOf, ByteOf
<1> SUFFICES ASSUME Sound PROVE ControlInv'
  BY <1>3 DEF ControlInv
<1>4. step - 1 = Size(bridge) /\ Ready(bridge, step - 1)
  <2>1. step <= Len(Claims(ops[bridge])) + 1 /\ step \in Int /\ Len(Claims(ops[bridge])) \in 2 .. 3
        /\ Len(Claims(ops[bridge])) = Size(bridge)
    BY <1>1, <1>2, ClaimsAre DEF StepInv, BridgeTyped, Size, BridgeTypes
  <2> QED BY <1>1, <1>2, <2>1 DEF ControlInv
<1>5. bridge \in {Left, Right} /\ Left # Right
  BY <1>1 DEF BridgeTyped, Motors, Left, Right
<1>6. CASE bridge = Left /\ bridge' = Right /\ step' = 0
  <2>1. Ready(Left, Size(Left))'
    BY <1>3, <1>4, <1>5, <1>6 DEF Motors
  <2> QED BY <1>6, <2>1 DEF ControlInv
<1>7. CASE bridge = Right /\ step' = -1 /\ bridge' = bridge
  <2>1. Ready(Left, Size(Left)) /\ Ready(Right, Size(Right))
    BY <1>1, <1>2, <1>4, <1>7 DEF ControlInv, BridgeTyped
  <2>2. Ready(Left, Size(Left))' /\ Ready(Right, Size(Right))'
    BY <1>3, <2>1 DEF Motors
  <2> QED BY <1>7, <2>2 DEF ControlInv
<1> QED BY <1>2, <1>5, <1>6, <1>7

\* A tick writes a level to a direction byte only, which holds no claim's.
LEMMA ControlTick == ASSUME ReachInv, BridgeTick PROVE ControlInv'
<1>1. BridgeInv /\ BridgeTyped /\ ControlInv /\ StepInv
  BY DEF ReachInv, BridgeInv
<1>2. UNCHANGED <<h_bridge, ops, params, bridge, step, result, crossed, refused>>
  BY DEF BridgeTick
<1>3. \A p \in IoPins :
        /\ pin'[p].pwm = pin[p].pwm /\ pin'[p].out = pin[p].out
        /\ pin'[p].value # pin[p].value => \E j \in Motors : ops[j] = "PWMDir" /\ p = params[j][2]
  BY <1>1, TickKeeps
<1>4. Sound' = Sound /\ Undisturbed' = Undisturbed
  BY <1>2 DEF Sound, Undisturbed, Disturbed, Other, Size, UseOf, PinOf, ByteOf
<1>5. ASSUME NEW j \in Motors, NEW n \in Int, n <= Size(j), Ready(j, n), Sound
      PROVE  Ready(j, n)'
  <2>1. ops[j] = h_bridge[j].type /\ ops[j] \in BridgeTypes
    BY <1>5 DEF Ready
  <2>2. ASSUME NEW k \in 1 .. n PROVE ClaimOK(j, k)'
    <3>1. k \in 1 .. Size(j) /\ ClaimOK(j, k)
      BY <1>1, <1>5, <2>1, ClaimTyped, ClaimsAre DEF Ready, Size, BridgeTypes
    <3>2. PICK use \in Uses, p \in Int, i \in 1 .. 3 :
            use = UseOf(j, k) /\ p = PinOf(j, k) /\ i = ByteOf(j, k)
      BY <1>1, <2>1, <3>1, ClaimTyped
    <3>3. params[j][i] = p /\ InPlace(j, use, p)
      BY <3>1, <3>2 DEF ClaimOK
    <3>4. Available(use, p) => p \in IoPins
      BY UsedPin
    <3>5. ASSUME use \in {"brake", "enable"}, p \in IoPins, pin'[p].value # pin[p].value
          PROVE  Disturbed(j, p)
      <4>1. PICK m \in Motors : ops[m] = "PWMDir" /\ p = params[m][2]
        BY <1>3, <3>5
      <4>2. CASE m = j
        <5>1. k = 2 /\ 1 \in 1 .. n /\ 1 \in 1 .. Size(j)
          BY <2>1, <2>2, <3>1, <3>2, <3>5, <4>1, <4>2, ClaimsAre DEF UseOf, Size
        <5>2. params[j][2] = PinOf(j, 1)
          BY <1>5, <2>1, <4>1, <4>2, <5>1, ClaimsAre DEF Ready, ClaimOK, ByteOf
        <5>3. PinOf(j, k) # PinOf(j, 1)
          BY <1>1, <1>5, <2>1, <3>1, <3>2, <3>5, <5>1, Separates DEF Sound
        <5> QED BY <3>2, <4>1, <4>2, <5>2, <5>3
      <4>3. CASE m # j
        BY <4>1, <4>3 DEF Disturbed, Other, Motors
      <4> QED BY <4>2, <4>3
    <3>6. Disturbed(j, p)' = Disturbed(j, p)
      BY <1>2 DEF Disturbed, Other
    <3>7. InPlace(j, use, p)'
      BY <1>3, <3>3, <3>4, <3>5, <3>6, StaysInPlace
    <3> QED BY <1>2, <3>2, <3>3, <3>7 DEF ClaimOK, UseOf, PinOf, ByteOf
  <2> QED BY <1>2, <2>1, <2>2 DEF Ready
<1> SUFFICES ASSUME Sound PROVE ControlInv'
  BY <1>4 DEF ControlInv
<1>7. ASSUME NEW j \in Motors, Ready(j, Size(j)) PROVE Ready(j, Size(j))'
  <2>1. Size(j) \in Int /\ Size(j)' = Size(j)
    BY <1>2, <1>7, ClaimsAre DEF Ready, Size, BridgeTypes
  <2> QED BY <1>5, <1>7, <2>1
<1>8. step > 0 => Ready(bridge, step - 1)'
  <2> SUFFICES ASSUME step > 0 PROVE Ready(bridge, step - 1)'
    OBVIOUS
  <2>1. Ready(bridge, step - 1) /\ step \in Int /\ bridge \in Motors
    BY <1>1 DEF ControlInv, BridgeTyped
  <2>2. step - 1 \in Int /\ step - 1 <= Size(bridge)
    BY <1>1, <2>1, ClaimsAre DEF StepInv, Size, BridgeTypes
  <2>3. PICK j \in Motors, n \in Int : j = bridge /\ n = step - 1
    BY <2>1, <2>2
  <2>4. Ready(j, n)'
    BY <1>5, <2>1, <2>2, <2>3
  <2>5. step' = step /\ bridge' = bridge
    BY <1>2
  <2> QED BY <2>3, <2>4, <2>5 DEF Ready
<1>9. \A j \in Motors : Ready(j, Size(j)) => Ready(j, Size(j))'
  BY <1>7
<1>10. Left \in Motors /\ Right \in Motors
  BY DEF Motors
<1>11. ControlInv /\ UNCHANGED <<bridge, step, result>> /\ Undisturbed' = Undisturbed
  BY <1>1, <1>2, <1>4
<1>12. step' > 0 => Ready(bridge, step - 1)'
  BY <1>8, <1>11
<1>13. bridge' = Right /\ step' >= 0 => Ready(Left, Size(Left))'
  BY <1>9, <1>10, <1>11 DEF ControlInv
<1>14. bridge' = Right /\ step' > 0 => Undisturbed'
  BY <1>11 DEF ControlInv
<1>15. step' < 0 /\ result' = "Success" => Ready(Left, Size(Left))' /\ Ready(Right, Size(Right))'
  BY <1>9, <1>10, <1>11 DEF ControlInv
<1> QED BY <1>12, <1>13, <1>14, <1>15 DEF ControlInv

\* Every step keeps the invariant.
LEMMA ControlStep ==
  ReachInv /\ [BridgeNext]_bridgeVars => ReachInv'
<1> SUFFICES ASSUME ReachInv, [BridgeNext]_bridgeVars PROVE ReachInv'
  OBVIOUS
<1>1. BridgeInv' /\ ControllersInv'
  BY BridgeStep, ControllersStep DEF ReachInv
<1>2. CASE SetJointParams \/ LoadJointParams \/ SwitchOn
  <2>1. bridge' = Left /\ step' = 0
    BY <1>2 DEF SetJointParams, LoadJointParams, SwitchOn, Begin
  <2> QED BY <1>1, <2>1 DEF ReachInv, ControlInv, Left, Right
<1>3. CASE SaveJointParams \/ UNCHANGED bridgeVars
  <2>1. UNCHANGED <<h_bridge, ops, params, pin, bridge, step, result, crossed, refused>>
    BY <1>3 DEF SaveJointParams, bridgeVars
  <2>2. Sound' = Sound /\ Undisturbed' = Undisturbed
    BY <2>1 DEF Sound, Undisturbed, Disturbed, Other, Size, UseOf, PinOf, ByteOf
  <2>3. /\ \A j \in {Left, Right} : Ready(j, Size(j))' = Ready(j, Size(j))
        /\ Ready(bridge, step - 1)' = Ready(bridge, step - 1)
    BY <2>1 DEF Ready, ClaimOK, InPlace, Disturbed, Other, Size, UseOf, PinOf, ByteOf
  <2>4. ControlInv'
    BY <2>1, <2>2, <2>3 DEF ReachInv, ControlInv
  <2> QED BY <1>1, <2>4 DEF ReachInv
<1> QED
  BY <1>1, <1>2, <1>3, ControlReinit, ControlClaim, ControlNextJoint, ControlTick
     DEF BridgeNext, ReachInv

\* Nothing is claimed at the start.
LEMMA ControlStarts == BridgeInit => ReachInv
<1> SUFFICES ASSUME BridgeInit PROVE ReachInv
  OBVIOUS
<1>1. bridge = Left /\ step = 0 /\ DOMAIN controllers = Motors
  BY DEF BridgeInit
<1> QED BY <1>1, BridgeStarts DEF ReachInv, ControlInv, ControllersInv, Left, Right
\* The registers are as the speed s of bridge j wants them.
Reached(registers, j, s) ==
  LET first == registers[params[j][1]]
      second == registers[params[j][2]]
  IN  /\ ops[j] = "PWMDir" => first.duty = Duty(s) /\ second.value = IF s < 0 THEN 1 ELSE 0
      /\ ops[j] = "DualPWM" => /\ first.duty = IF s < 0 THEN 0 ELSE Duty(s)
                               /\ second.duty = IF s < 0 THEN Duty(s) ELSE 0
      /\ ops[j] = "HalfPWM" => first.duty = 127 + 50 * s

\* What a speed writes to the pins of its bridge
LEMMA SpeedReaches ==
  ASSUME BridgeTyped, NEW registers \in [IoPins -> Register], NEW j \in Motors,
         NEW s \in {-1, 0, 1},
         params[j][1] \in PwmPins, params[j][1] # params[j][2],
         ops[j] = "PWMDir" => params[j][2] \in IoPins,
         ops[j] = "DualPWM" => params[j][2] \in PwmPins, ops[j] \in BridgeTypes
  PROVE  /\ Reached(SetSpeed(registers, j, s), j, s)
         /\ \A p \in IoPins : (\A i \in PwmBytes(ops[j]) : p # params[j][i])
                                => SetSpeed(registers, j, s)[p].duty = registers[p].duty
<1> DEFINE Write(regs, p, d) == [regs EXCEPT ![p].duty = d]
           Dir(regs, p) == [regs EXCEPT ![p].value = IF s < 0 THEN 1 ELSE 0]
<1>1. ASSUME NEW regs \in [IoPins -> Register], NEW p \in IoPins, NEW d \in Duties
      PROVE  /\ Write(regs, p, d) \in [IoPins -> Register]
             /\ Write(regs, p, d)[p].duty = d /\ Write(regs, p, d)[p].value = regs[p].value
             /\ \A q \in IoPins : q # p => Write(regs, p, d)[q] = regs[q]
  BY DEF Register
<1>2. ASSUME NEW regs \in [IoPins -> Register], NEW p \in IoPins
      PROVE  /\ Dir(regs, p) \in [IoPins -> Register]
             /\ Dir(regs, p)[p].value = (IF s < 0 THEN 1 ELSE 0)
             /\ \A q \in IoPins : Dir(regs, p)[q].duty = regs[q].duty
             /\ \A q \in IoPins : q # p => Dir(regs, p)[q] = regs[q]
  BY DEF Register, Levels
<1>3. /\ Duty(s) \in Duties /\ 0 \in Duties /\ 127 + 50 * s \in Duties
      /\ PwmPins \subseteq IoPins
  BY BridgeAssumption DEF Duty, Duties
<1> HIDE DEF Write, Dir
<1>4. PICK b1, b2 : b1 \in IoPins /\ b1 = params[j][1] /\ b2 = params[j][2] /\ b1 # b2
  BY <1>3
<1>5. PICK new : new = SetSpeed(registers, j, s)
  OBVIOUS
<1>6. CASE ops[j] = "PWMDir"
  <2>1. PICK mid : mid = Dir(registers, b2)
    OBVIOUS
  <2>2. new = Write(mid, b1, Duty(s)) /\ b2 \in IoPins
    BY <1>4, <1>5, <1>6, <2>1 DEF SetSpeed, Write, Dir
  <2>3. /\ mid \in [IoPins -> Register] /\ mid[b2].value = (IF s < 0 THEN 1 ELSE 0)
        /\ \A q \in IoPins : mid[q].duty = registers[q].duty
    BY <1>2, <2>1, <2>2
  <2>4. /\ new[b1].duty = Duty(s) /\ \A q \in IoPins : q # b1 => new[q] = mid[q]
    BY <1>1, <1>3, <1>4, <2>2, <2>3
  <2>5. Reached(new, j, s)
    BY <1>4, <1>6, <2>2, <2>3, <2>4 DEF Reached
  <2>6. 1 \in PwmBytes(ops[j])
    BY DEF PwmBytes
  <2> QED BY <1>4, <1>5, <2>3, <2>4, <2>5, <2>6
<1>7. CASE ops[j] = "DualPWM"
  <2>1. PICK a \in Duties, b \in Duties : a = (IF s < 0 THEN 0 ELSE Duty(s))
                                    /\ b = (IF s < 0 THEN Duty(s) ELSE 0)
    BY <1>3
  <2>2. PICK mid : mid = Write(registers, b1, a)
    OBVIOUS
  <2>3. new = Write(mid, b2, b) /\ b2 \in IoPins
    BY <1>3, <1>4, <1>5, <1>7, <2>1, <2>2 DEF SetSpeed, Write
  <2>4. /\ mid \in [IoPins -> Register] /\ mid[b1].duty = a
        /\ \A q \in IoPins : q # b1 => mid[q] = registers[q]
    BY <1>1, <1>4, <2>2
  <2>5. new[b2].duty = b /\ \A q \in IoPins : q # b2 => new[q] = mid[q]
    BY <1>1, <2>3, <2>4
  <2>6. Reached(new, j, s)
    BY <1>4, <1>7, <2>1, <2>4, <2>5 DEF Reached
  <2>7. 1 \in PwmBytes(ops[j]) /\ 2 \in PwmBytes(ops[j])
    BY <1>7 DEF PwmBytes
  <2> QED BY <1>4, <1>5, <2>4, <2>5, <2>6, <2>7
<1>8. CASE ops[j] = "HalfPWM"
  <2>1. PICK d \in Duties : d = 127 + 50 * s
    BY <1>3
  <2>2. new = Write(registers, b1, d)
    BY <1>4, <1>5, <1>8, <2>1 DEF SetSpeed, Write
  <2>3. new[b1].duty = d /\ \A q \in IoPins : q # b1 => new[q] = registers[q]
    BY <1>1, <1>4, <2>2
  <2>4. Reached(new, j, s)
    BY <1>4, <1>8, <2>1, <2>3 DEF Reached
  <2>5. 1 \in PwmBytes(ops[j])
    BY DEF PwmBytes
  <2> QED BY <1>4, <1>5, <2>3, <2>4, <2>5
<1> QED BY <1>6, <1>7, <1>8 DEF BridgeTypes
\* A tick writes one speed after the other, and neither touches the other's duty.
LEMMA TickControls ==
  ASSUME ReachInv, InitSucceeded, ~crossed, ~refused, BridgeTick, NEW j \in Motors
  PROVE  Turns(h_bridge[j], outputs[j])'
<1>1. BridgeInv /\ BridgeTyped /\ ControlInv /\ ControllersInv
  BY DEF ReachInv, BridgeInv
<1>2. UNCHANGED <<h_bridge, ops, params, bridge, step, result, crossed, refused>>
  BY DEF BridgeTick
<1>3. Sound /\ step < 0 /\ result = "Success" /\ Separate(h_bridge[Left], h_bridge[Right])
      /\ Motors = {Left, Right} /\ Left # Right
  BY DEF Sound, InitSucceeded, Idle, Motors, Left, Right
<1>4. \A m \in Motors : /\ Ready(m, Size(m)) /\ ops[m] = h_bridge[m].type
                        /\ ops[m] \in BridgeTypes
  BY <1>1, <1>3 DEF ControlInv, Ready
<1>5. PICK sign \in [Motors -> {-1, 0, 1}] : sign = outputs'
  BY BridgeAssumption DEF BridgeTick
<1>6. PICK mid : mid = SetSpeed(pin, Left, sign[Left])
  OBVIOUS
<1>7. pin' = SetSpeed(mid, Right, sign[Right])
  <2>1. \A m \in Motors : controllers[m]
    BY <1>1, <1>3 DEF ControllersInv
  <2> QED BY <1>5, <1>6, <2>1 DEF BridgeTick
\* What is known of each pin a claim has taken.
<1>8. ASSUME NEW m \in Motors, NEW k \in 1 .. Size(m)
      PROVE  /\ params[m][ByteOf(m, k)] = PinOf(m, k) /\ UseOf(m, k) \in Uses
             /\ ByteOf(m, k) \in 1 .. 3 /\ PinOf(m, k) \in Int
             /\ InPlace(m, UseOf(m, k), PinOf(m, k))
  BY <1>1, <1>4, <1>8, ClaimTyped DEF Ready, ClaimOK
<1>9. ASSUME NEW m \in Motors, NEW k \in 1 .. Size(m), PinOf(m, k) \in IoPins
      PROVE  ~Disturbed(m, PinOf(m, k))
  <2> SUFFICES ASSUME Disturbed(m, PinOf(m, k)) PROVE FALSE
    OBVIOUS
  <2>1. PICK o \in Motors : o = Other(m) /\ o # m
    BY <1>3 DEF Other
  <2>2. ops[o] = "PWMDir" /\ params[o][2] = PinOf(m, k)
    BY <2>1 DEF Disturbed
  <2>3. 1 \in 1 .. Size(o) /\ ByteOf(o, 1) = 2
    BY <1>4, <2>2, ClaimsAre DEF Size, ByteOf
  <2>4. PinOf(m, k) # PinOf(o, 1)
    BY <1>1, <1>3, <1>4, <1>9, <2>1, <2>3, Separates
  <2> QED BY <1>8, <2>2, <2>3, <2>4
<1>10. ASSUME NEW m \in Motors, NEW o \in Motors, m # o, NEW k \in 1 .. Size(m),
              PinOf(m, k) \in IoPins, NEW i \in PwmBytes(ops[o])
       PROVE  PinOf(m, k) # params[o][i]
  <2>1. PICK n \in 1 .. Size(o) : ByteOf(o, n) = i
    BY <1>4, AllClaimed DEF Size, ByteOf
  <2> QED BY <1>1, <1>3, <1>4, <1>8, <1>10, <2>1, Separates
\* The pins the types drive are there, and different.
<1>11. ASSUME NEW m \in Motors
       PROVE  /\ params[m][1] \in PwmPins /\ params[m][1] # params[m][2]
              /\ ops[m] = "PWMDir" => params[m][2] \in IoPins
              /\ ops[m] = "DualPWM" => params[m][2] \in PwmPins
  <2>1. CASE ops[m] = "PWMDir"
    <3>1. /\ 1 \in 1 .. Size(m) /\ 3 \in 1 .. Size(m) /\ ByteOf(m, 1) = 2 /\ ByteOf(m, 3) = 1
          /\ UseOf(m, 1) = "low" /\ UseOf(m, 3) = "pwm"
      BY <1>4, <2>1, ClaimsAre DEF Size, ByteOf, UseOf
    <3>2. params[m][2] = PinOf(m, 1) /\ params[m][1] = PinOf(m, 3)
          /\ Available("low", PinOf(m, 1)) /\ Available("pwm", PinOf(m, 3))
      BY <1>8, <3>1 DEF InPlace, Unused
    <3>3. PinOf(m, 1) \in IoPins /\ PinOf(m, 3) \in PwmPins
      BY <3>2 DEF Available, ByTimer
    <3>4. PinOf(m, 1) # PinOf(m, 3)
      BY <1>1, <1>3, <1>4, <3>1, <3>3, Separates
    <3> QED BY <2>1, <3>2, <3>3, <3>4
  <2>2. CASE ops[m] = "DualPWM"
    <3>1. /\ 1 \in 1 .. Size(m) /\ 2 \in 1 .. Size(m) /\ ByteOf(m, 1) = 1 /\ ByteOf(m, 2) = 2
          /\ UseOf(m, 1) = "pwm" /\ UseOf(m, 2) = "second"
      BY <1>4, <2>2, ClaimsAre DEF Size, ByteOf, UseOf
    <3>2. params[m][1] = PinOf(m, 1) /\ params[m][2] = PinOf(m, 2)
          /\ Available("pwm", PinOf(m, 1)) /\ Available("second", PinOf(m, 2))
      BY <1>8, <3>1 DEF InPlace, Unused
    <3>3. PinOf(m, 1) \in PwmPins /\ PinOf(m, 2) \in PwmPins /\ PinOf(m, 1) \in IoPins
      BY <3>2, BridgeAssumption DEF Available, ByTimer
    <3>4. PinOf(m, 1) # PinOf(m, 2)
      BY <1>1, <1>3, <1>4, <3>1, <3>3, Separates
    <3> QED BY <2>2, <3>2, <3>3, <3>4
  <2>3. CASE ops[m] = "HalfPWM"
    <3>1. /\ 1 \in 1 .. Size(m) /\ 2 \in 1 .. Size(m) /\ ByteOf(m, 1) = 1 /\ ByteOf(m, 2) = 2
          /\ UseOf(m, 1) = "half" /\ UseOf(m, 2) = "enable"
      BY <1>4, <2>3, ClaimsAre DEF Size, ByteOf, UseOf
    <3>2. params[m][1] = PinOf(m, 1) /\ params[m][2] = PinOf(m, 2)
          /\ Available("half", PinOf(m, 1))
      BY <1>8, <3>1 DEF InPlace, Unused
    <3>3. PinOf(m, 1) \in PwmPins /\ PinOf(m, 1) \in IoPins
      BY <3>2, BridgeAssumption DEF Available, ByTimer
    <3>4. PinOf(m, 1) # PinOf(m, 2)
      BY <1>1, <1>3, <1>4, <3>1, <3>3, Separates
    <3> QED BY <2>3, <3>2, <3>3, <3>4
  <2> QED BY <1>4, <2>1, <2>2, <2>3 DEF BridgeTypes
\* The two calls of HBridge_setSpeed: the second leaves what the first has set.
<1>12. /\ mid \in [IoPins -> Register] /\ Reached(mid, Left, sign[Left])
  <2>1. pin \in [IoPins -> Register] /\ Left \in Motors /\ sign[Left] \in {-1, 0, 1}
    BY <1>1, <1>3 DEF BridgeTyped
  <2> QED BY <1>1, <1>4, <1>6, <1>11, <2>1, SetSpeedIs, SpeedReaches
<1>13. /\ Reached(pin', Right, sign[Right])
       /\ \A p \in IoPins : /\ (\A i \in PwmBytes(ops[Right]) : p # params[Right][i])
                                 => pin'[p].duty = mid[p].duty
                            /\ pin'[p].value # mid[p].value => Disturbed(Left, p)
  <2>1. Right \in Motors /\ sign[Right] \in {-1, 0, 1}
    BY <1>3
  <2>2. \A p \in IoPins : pin'[p].value # mid[p].value
                            => ops[Right] = "PWMDir" /\ p = params[Right][2]
    BY <1>1, <1>7, <1>12, <2>1, SetSpeedIs
  <2>3. /\ Reached(pin', Right, sign[Right])
        /\ \A p \in IoPins : (\A i \in PwmBytes(ops[Right]) : p # params[Right][i])
                                => pin'[p].duty = mid[p].duty
    BY <1>1, <1>4, <1>7, <1>11, <1>12, <2>1, SpeedReaches
  <2> QED BY <2>2, <2>3 DEF Disturbed, Other
<1>14. ASSUME NEW k \in 1 .. Size(Left), PinOf(Left, k) \in IoPins
       PROVE  /\ pin'[PinOf(Left, k)].duty = mid[PinOf(Left, k)].duty
              /\ pin'[PinOf(Left, k)].value = mid[PinOf(Left, k)].value
  BY <1>3, <1>9, <1>10, <1>13, <1>14
<1>15. ASSUME NEW i \in 1 .. 2, params[Left][i] \in IoPins, i = 1 \/ ops[Left] # "HalfPWM"
       PROVE  \E k \in 1 .. Size(Left) : PinOf(Left, k) = params[Left][i]
  <2>1. PICK k \in 1 .. Size(Left) : ByteOf(Left, k) = i
    BY <1>3, <1>4, ClaimsAre DEF Size, ByteOf, BridgeTypes
  <2> QED BY <1>3, <1>8, <2>1
<1>16. Reached(pin', Left, sign[Left])
  <2>1. \A i \in 1 .. 2 : params[Left][i] \in IoPins /\ (i = 1 \/ ops[Left] # "HalfPWM")
          => /\ pin'[params[Left][i]].duty = mid[params[Left][i]].duty
             /\ pin'[params[Left][i]].value = mid[params[Left][i]].value
    BY <1>14, <1>15
  <2>2. /\ params[Left][1] \in IoPins
        /\ ops[Left] \in {"PWMDir", "DualPWM"} => params[Left][2] \in IoPins
    BY <1>3, <1>11, BridgeAssumption
  <2> QED BY <1>12, <2>1, <2>2 DEF Reached
<1>17. Reached(pin', j, sign[j])
  BY <1>3, <1>13, <1>16
\* Enabled, not braked, and driven.
<1>18. ASSUME NEW k \in 1 .. Size(j), ~Unused(UseOf(j, k), PinOf(j, k))
       PROVE  LET p == PinOf(j, k)
                  use == UseOf(j, k)
              IN  /\ pin'[p].out /\ (use \in ByTimer => pin'[p].pwm)
                  /\ use = "brake" => pin'[p].value = 0
                  /\ use = "enable" => pin'[p].value = 1
  <2>1. PICK use \in Uses, p \in Int : use = UseOf(j, k) /\ p = PinOf(j, k)
    BY <1>8
  <2>2. InPlace(j, use, p)'
    <3>1. ReachInv'
      BY ControlStep DEF BridgeNext
    <3>2. Ready(j, Size(j))'
      BY <1>2, <1>3, <3>1 DEF ReachInv, ControlInv, Sound
    <3>3. ClaimOK(j, k)'
      BY <1>2, <3>2 DEF Ready, Size
    <3> QED BY <1>2, <2>1, <3>3 DEF ClaimOK, UseOf, PinOf, ByteOf, InPlace, Disturbed, Other
  <2>3. Available(use, p)
    BY <1>8, <1>18, <2>1 DEF InPlace
  <2>4. p \in IoPins
    BY <2>3, UsedPin
  <2>5. ~Disturbed(j, p)'
    BY <1>2, <1>9, <2>1, <2>4 DEF Disturbed, Other
  <2>6. ~Unused(use, p)
    BY <1>18, <2>1
  <2> QED BY <2>1, <2>2, <2>5, <2>6 DEF InPlace, Unused
<1>20. CASE ops[j] = "PWMDir"
  <2>1. /\ \A k \in 1 .. 3 : k \in 1 .. Size(j)
        /\ ByteOf(j, 1) = 2 /\ ByteOf(j, 2) = 3 /\ ByteOf(j, 3) = 1
        /\ UseOf(j, 1) = "low" /\ UseOf(j, 2) = "brake" /\ UseOf(j, 3) = "pwm"
    BY <1>4, <1>20, ClaimsAre DEF Size, ByteOf, UseOf
  <2>2. PICK p1, p2, p3 : /\ p1 = h_bridge[j].pins[1] /\ p2 = h_bridge[j].pins[2]
                          /\ p3 = h_bridge[j].pins[3]
    OBVIOUS
  <2>3. PinOf(j, 1) = p2 /\ PinOf(j, 2) = p3 /\ PinOf(j, 3) = p1
    BY <2>1, <2>2 DEF PinOf
  <2>4. /\ pin'[p2].out /\ pin'[p1].out /\ pin'[p1].pwm
        /\ p3 >= 0 => pin'[p3].out /\ pin'[p3].value = 0
    <3>1. ~Unused("low", p2) /\ ~Unused("pwm", p1) /\ (p3 >= 0 => ~Unused("brake", p3))
      BY <1>8, <2>1, <2>3 DEF Unused
    <3>2. "pwm" \in ByTimer
      BY DEF ByTimer
    <3> QED BY <1>18, <2>1, <2>3, <3>1, <3>2
  <2>5. params[j][1] = p1 /\ params[j][2] = p2
    BY <1>8, <2>1, <2>3
  <2>6. pin'[p1].duty = Duty(sign[j]) /\ pin'[p2].value = IF sign[j] < 0 THEN 1 ELSE 0
    BY <1>17, <1>20, <2>5 DEF Reached
  <2> QED BY <1>2, <1>4, <1>20, <2>2, <2>4, <2>6, <1>5 DEF Turns
<1>21. CASE ops[j] = "DualPWM"
  <2>1. /\ \A k \in 1 .. 2 : k \in 1 .. Size(j)
        /\ ByteOf(j, 1) = 1 /\ ByteOf(j, 2) = 2
        /\ UseOf(j, 1) = "pwm" /\ UseOf(j, 2) = "second"
    BY <1>4, <1>21, ClaimsAre DEF Size, ByteOf, UseOf
  <2>2. PICK p1, p2 : p1 = h_bridge[j].pins[1] /\ p2 = h_bridge[j].pins[2]
    OBVIOUS
  <2>3. PinOf(j, 1) = p1 /\ PinOf(j, 2) = p2
    BY <2>1, <2>2 DEF PinOf
  <2>4. pin'[p1].out /\ pin'[p1].pwm /\ pin'[p2].out /\ pin'[p2].pwm
    <3>1. ~Unused("pwm", p1) /\ ~Unused("second", p2)
      BY DEF Unused
    <3>2. "pwm" \in ByTimer /\ "second" \in ByTimer
      BY DEF ByTimer
    <3> QED BY <1>18, <2>1, <2>3, <3>1, <3>2
  <2>5. params[j][1] = p1 /\ params[j][2] = p2
    BY <1>8, <2>1, <2>3
  <2>6. /\ pin'[p1].duty = IF sign[j] < 0 THEN 0 ELSE Duty(sign[j])
        /\ pin'[p2].duty = IF sign[j] < 0 THEN Duty(sign[j]) ELSE 0
    BY <1>17, <1>21, <2>5 DEF Reached
  <2> QED BY <1>2, <1>4, <1>21, <2>2, <2>4, <2>6, <1>5 DEF Turns
<1>22. CASE ops[j] = "HalfPWM"
  <2>1. /\ \A k \in 1 .. 2 : k \in 1 .. Size(j)
        /\ ByteOf(j, 1) = 1 /\ ByteOf(j, 2) = 2
        /\ UseOf(j, 1) = "half" /\ UseOf(j, 2) = "enable"
    BY <1>4, <1>22, ClaimsAre DEF Size, ByteOf, UseOf
  <2>2. PICK p1, p2 : p1 = h_bridge[j].pins[1] /\ p2 = h_bridge[j].pins[2]
    OBVIOUS
  <2>3. PinOf(j, 1) = p1 /\ PinOf(j, 2) = p2
    BY <2>1, <2>2 DEF PinOf
  <2>4. /\ pin'[p1].out /\ pin'[p1].pwm
        /\ p2 >= 0 => pin'[p2].out /\ pin'[p2].value = 1
    <3>1. ~Unused("half", p1) /\ (p2 >= 0 => ~Unused("enable", p2))
      BY <1>8, <2>1, <2>3 DEF Unused
    <3>2. "half" \in ByTimer
      BY DEF ByTimer
    <3> QED BY <1>18, <2>1, <2>3, <3>1, <3>2
  <2>5. params[j][1] = p1
    BY <1>8, <2>1, <2>3
  <2>6. pin'[p1].duty = 127 + 50 * sign[j]
    BY <1>17, <1>22, <2>5 DEF Reached
  <2> QED BY <1>2, <1>4, <1>22, <2>2, <2>4, <2>6, <1>5 DEF Turns
<1> QED BY <1>4, <1>20, <1>21, <1>22 DEF BridgeTypes

\* When the initialization succeeds, whatever went wrong before, each tick turns
\* the motors as it should on the pins their parameters name, unless DualPWM's
\* second pin was refused or a release or a direction byte of the other joint has
\* crossed them (orazio_joints.c:43, orazio_hbridge_internal.h:37).
THEOREM BridgesObey == BridgeSpec => ControlReachesMotors
<1> DEFINE Controls ==
      InitSucceeded /\ ~crossed /\ ~refused /\ BridgeTick
        => \A j \in Motors : Turns(h_bridge[j], outputs[j])'
<1>1. ReachInv => Controls
  BY TickControls
<1> QED BY ControlStarts, ControlStep, <1>1, PTL DEF BridgeSpec, ControlReachesMotors

-----------------------------------------------------------------------------
(* NothingWraps *)

\* What the parameters and the fastest measured speed must be for 16 bits to be enough:
\* the defaults of orazio_globals.c are (2550 + 8160 of 32767).
GainsFit ==
  /\ kp \in Nat /\ ki \in Nat /\ kd \in Nat
  /\ kp * slope + ki * max_i + 2 * (kd * slope) <= Max16
  /\ max_i + slope <= Max16 /\ 2 * slope <= Max16
  /\ \A m \in Measured : /\ m + max_speed + 1024 <= Max16
                         /\ -m + max_speed + 1024 <= Max16

\* What the command and the controller hold from tick to tick
GainsInv == speed \in Int /\ error_integral \in -max_i .. max_i /\ previous_error \in -slope .. slope

LEMMA JointTypes ==
  /\ kp \in Int /\ ki \in Int /\ kd \in Int
  /\ max_i \in Nat /\ min_pwm \in Nat /\ max_pwm \in Nat /\ max_speed \in Nat /\ slope \in Nat
  /\ Max16 = 32767 /\ Min16 = -32768
  /\ Speeds \subseteq Int /\ Measured \subseteq Int
<1>1. Max16 = 32767 /\ Min16 = -32768 /\ \A n \in Int16 : n \in Int
  BY DEF Int16, Min16, Max16
<1>2. kp \in Int16 /\ ki \in Int16 /\ kd \in Int16
  BY JointAssumption, Zenon
<1>3. /\ max_i \in 0 .. Max16 /\ min_pwm \in 0 .. Max16 /\ max_pwm \in 0 .. Max16
      /\ max_speed \in 0 .. Max16 /\ slope \in 0 .. Max16
  BY JointAssumption, Zenon
<1>4. Speeds \subseteq Int16 /\ Measured \subseteq Int16
  BY JointAssumption, Zenon
<1>5. \A n \in 0 .. Max16 : n \in Nat
  OBVIOUS
<1>6. /\ max_i \in Nat /\ min_pwm \in Nat /\ max_pwm \in Nat /\ max_speed \in Nat /\ slope \in Nat
  BY <1>3, <1>5, Zenon
<1>7. kp \in Int /\ ki \in Int /\ kd \in Int /\ Speeds \subseteq Int /\ Measured \subseteq Int
  <2>1. \A n \in Int16 : n \in Int
    BY <1>1
  <2> QED BY <1>2, <1>4, <2>1, Zenon
<1> QED BY <1>1, <1>6, <1>7

\* An int16_t keeps what fits.
LEMMA WrapExact == ASSUME NEW n \in Int, Min16 <= n, n <= Max16 PROVE Wrap16(n) = n
BY DEF Wrap16, Min16, Max16

LEMMA ClampBounds ==
  ASSUME NEW v \in Int, NEW b \in Nat
  PROVE  clamp(v, b) \in -b .. b
BY DEF clamp

\* A gain times a bounded value
LEMMA GainBounds ==
  ASSUME NEW k \in Nat, NEW b \in Nat, NEW v \in -b .. b
  PROVE  k * v <= k * b /\ -(k * b) <= k * v /\ k * v \in Int /\ k * b \in Nat
<1>1. \A m \in Nat, n \in Nat : m * n \in Nat
  OBVIOUS
<1>2. k * (b - v) \in Nat /\ k * (b + v) \in Nat /\ k * b \in Nat
  <2>1. b - v \in Nat /\ b + v \in Nat
    OBVIOUS
  <2> QED BY <1>1, <2>1
<1>3. k * v \in Int /\ k * (b - v) = k * b - k * v /\ k * (b + v) = k * b + k * v
  OBVIOUS
<1> QED BY <1>2, <1>3

\* By32 makes a term of 16 bits small.
LEMMA By32Bounds ==
  ASSUME NEW n \in Int, -Max16 <= n, n <= Max16
  PROVE  By32(n) \in Int /\ -1024 <= By32(n) /\ By32(n) <= 1024
BY DEF By32, Max16

\* The terms of the PID fit, and are small.
LEMMA TermsExact ==
  ASSUME GainsFit, NEW e \in -slope .. slope, NEW i \in -max_i .. max_i,
         NEW d \in -(2 * slope) .. 2 * slope
  PROVE  /\ Terms(e, i, d) = ExactTerms(e, i, d)
         /\ ExactTerms(e, i, d) \in Int
         /\ -1024 <= ExactTerms(e, i, d) /\ ExactTerms(e, i, d) <= 1024
<1>1. /\ kp \in Nat /\ ki \in Nat /\ kd \in Nat /\ slope \in Nat /\ max_i \in Nat
      /\ kp * slope + ki * max_i + 2 * (kd * slope) <= Max16
  BY JointTypes DEF GainsFit
<1>2. PICK p \in Int, P \in Nat : p = kp * e /\ P = kp * slope /\ -P <= p /\ p <= P
  BY <1>1, GainBounds
<1>3. PICK s \in Int, S \in Nat : s = ki * i /\ S = ki * max_i /\ -S <= s /\ s <= S
  BY <1>1, GainBounds
<1>4. PICK t \in Int, T \in Nat : t = kd * d /\ T = 2 * (kd * slope) /\ -T <= t /\ t <= T
  <2>1. 2 * slope \in Nat /\ kd * (2 * slope) = 2 * (kd * slope)
    BY <1>1
  <2>2. kd * d <= kd * (2 * slope) /\ -(kd * (2 * slope)) <= kd * d /\ kd * d \in Int
        /\ kd * (2 * slope) \in Nat
    BY <1>1, <2>1, GainBounds
  <2> QED BY <2>1, <2>2
<1>5. /\ p \in Int /\ -Max16 <= p /\ p <= Max16 /\ s \in Int /\ -Max16 <= s /\ s <= Max16
      /\ t \in Int /\ -Max16 <= t /\ t <= Max16
      /\ p + s \in Int /\ -Max16 <= p + s /\ p + s <= Max16
      /\ p + s + t \in Int /\ -Max16 <= p + s + t /\ p + s + t <= Max16
  <2>1. P + S + T <= Max16
    BY <1>1, <1>2, <1>3, <1>4
  <2> QED BY <1>2, <1>3, <1>4, <2>1, JointTypes
<1>6. /\ Wrap16(p) = p /\ Wrap16(s) = s /\ Wrap16(t) = t /\ Wrap16(p + s) = p + s
      /\ Wrap16(p + s + t) = p + s + t
  <2>1. \A n \in Int : -Max16 <= n /\ n <= Max16 => Wrap16(n) = n
    BY WrapExact DEF Min16, Max16
  <2> QED BY <1>5, <2>1
<1>7. Terms(e, i, d) = By32(p + s + t) /\ ExactTerms(e, i, d) = By32(p + s + t)
  <2>1. Terms(e, i, d) = By32(Wrap16(Wrap16(Wrap16(p) + Wrap16(s)) + Wrap16(t)))
    BY <1>2, <1>3, <1>4 DEF Terms
  <2>2. ExactTerms(e, i, d) = By32(p + s + t)
    BY <1>2, <1>3, <1>4 DEF ExactTerms
  <2> QED BY <1>6, <2>1, <2>2
<1>8. PICK n \in Int : n = p + s + t /\ -Max16 <= n /\ n <= Max16
  BY <1>5
<1>9. By32(n) \in Int /\ -1024 <= By32(n) /\ By32(n) <= 1024
  BY <1>8, By32Bounds
<1> QED BY <1>7, <1>8, <1>9

\* A tick of the PID with what was kept from the one before
LEMMA TickExact ==
  ASSUME GainsFit, GainsInv, TickPID
  PROVE  /\ error' \in -slope .. slope /\ error_integral' \in -max_i .. max_i
         /\ ramp_reference' = joint_status'.encoder + error'
         /\ error_integral' = clamp(error_integral + error', max_i)
         /\ output' = Dead(clamp(ramp_reference'
                                   + ExactTerms(error', error_integral', error' - previous_error),
                                 max_pwm))
<1>1. /\ joint_status'.desired = clamp(speed, max_speed) /\ joint_status'.encoder \in Measured
      /\ error' = clamp(Wrap16(joint_status'.desired - joint_status'.encoder), slope)
      /\ ramp_reference' = Wrap16(joint_status'.encoder + error')
      /\ error_integral' = clamp(Wrap16(error_integral + error'), max_i)
      /\ output' = Dead(clamp(Wrap16(ramp_reference'
                   + Terms(error', error_integral', Wrap16(error' - previous_error))), max_pwm))
  BY DEF TickPID
<1>2. PICK v \in -max_speed .. max_speed, m \in Measured :
        v = joint_status'.desired /\ m = joint_status'.encoder
  <2>1. clamp(speed, max_speed) \in -max_speed .. max_speed
    BY JointTypes, ClampBounds DEF GainsInv
  <2> QED BY <1>1, <2>1
<1>3. /\ m \in Int /\ m + max_speed + 1024 <= Max16 /\ -m + max_speed + 1024 <= Max16
      /\ max_i + slope <= Max16 /\ 2 * slope <= Max16
      /\ max_speed \in Nat /\ slope \in Nat /\ max_i \in Nat
      /\ Max16 = 32767 /\ Min16 = -32768
  BY JointTypes DEF GainsFit
<1>4. Wrap16(v - m) = v - m
  BY <1>3, WrapExact
<1>5. PICK e \in -slope .. slope : e = error' /\ e = clamp(v - m, slope)
  <2>1. clamp(v - m, slope) \in -slope .. slope
    BY <1>3, ClampBounds
  <2> QED BY <1>1, <1>2, <1>4, <2>1
<1>6. (m + e <= m \/ m + e <= v) /\ (m + e >= m \/ m + e >= v)
  BY <1>3, <1>5 DEF clamp
<1>7. Wrap16(m + e) = m + e /\ m + e + 1024 <= Max16 /\ -(m + e) + 1024 <= Max16
  <2>1. m + e + 1024 <= Max16 /\ -(m + e) + 1024 <= Max16
    BY <1>3, <1>6
  <2> QED BY <1>3, <2>1, WrapExact
<1>8. ramp_reference' = m + e
  BY <1>1, <1>2, <1>5, <1>7
<1>9. PICK i \in -max_i .. max_i, q \in -slope .. slope : i = error_integral /\ q = previous_error
  BY DEF GainsInv
<1>10. Wrap16(i + e) = i + e /\ Wrap16(e - q) = e - q
  BY <1>3, WrapExact
<1>11. PICK s \in -max_i .. max_i : s = error_integral' /\ s = clamp(i + e, max_i)
  <2>1. clamp(i + e, max_i) \in -max_i .. max_i
    BY <1>3, ClampBounds
  <2> QED BY <1>1, <1>5, <1>9, <1>10, <2>1
<1>12. PICK t \in Int : /\ -1024 <= t /\ t <= 1024
                        /\ t = Terms(e, s, e - q) /\ t = ExactTerms(e, s, e - q)
  <2>1. PICK d \in -(2 * slope) .. 2 * slope : d = e - q
    BY <1>3
  <2>2. /\ Terms(e, s, d) = ExactTerms(e, s, d) /\ ExactTerms(e, s, d) \in Int
        /\ -1024 <= ExactTerms(e, s, d) /\ ExactTerms(e, s, d) <= 1024
    BY TermsExact
  <2> QED BY <2>1, <2>2
<1>13. Wrap16((m + e) + t) = (m + e) + t
  <2>1. PICK n \in Int : n = (m + e) + t
    BY <1>3, <1>12
  <2>2. Min16 <= n /\ n <= Max16
    BY <1>3, <1>7, <1>12, <2>1
  <2> QED BY <2>1, <2>2, WrapExact
<1>14. output' = Dead(clamp((m + e) + ExactTerms(e, s, e - q), max_pwm))
  <2>1. output' = Dead(clamp(Wrap16((m + e) + Terms(e, s, e - q)), max_pwm))
    BY <1>1, <1>5, <1>8, <1>9, <1>10, <1>11
  <2> QED BY <1>12, <1>13, <2>1
<1> QED BY <1>2, <1>5, <1>8, <1>9, <1>11, <1>14

\* Gains of this size never wrap, whatever was commanded and measured before
\* (orazio_joints_internal.c:42-58).
THEOREM GainsNeverWrap == GainsFit => (JointSpec => NothingWraps)
<1> SUFFICES ASSUME GainsFit PROVE JointSpec => NothingWraps
  OBVIOUS
<1> USE JointTypes
<1>1. JointInit => GainsInv
  BY DEF JointInit, GainsInv
<1>2. GainsInv /\ [JointNext]_jointVars => GainsInv'
  <2> SUFFICES ASSUME GainsInv, [JointNext]_jointVars PROVE GainsInv'
    OBVIOUS
  <2>1. CASE Command
    BY <2>1 DEF Command, GainsInv, controller
  <2>2. CASE TickDisabled
    BY <2>2 DEF TickDisabled, GainsInv, command
  <2>3. CASE TickPWM
    BY <2>3 DEF TickPWM, GainsInv, command
  <2>4. CASE TickPID
    BY <2>4, TickExact DEF TickPID, GainsInv, command
  <2>5. CASE UNCHANGED jointVars
    BY <2>5 DEF jointVars, command, controller, GainsInv
  <2> QED BY <2>1, <2>2, <2>3, <2>4, <2>5 DEF JointNext, JointTick
<1> DEFINE Exact ==
      TickPID => /\ ramp_reference' = joint_status'.encoder + error'
                 /\ error_integral' = clamp(error_integral + error', max_i)
                 /\ output' = Dead(clamp(ramp_reference'
                                           + ExactTerms(error', error_integral',
                                                        error' - previous_error),
                                         max_pwm))
<1>3. GainsInv => Exact
  BY TickExact
<1> QED BY <1>1, <1>2, <1>3, PTL DEF JointSpec, NothingWraps

\* The integers of 16 bits, and what makes one of any other
LEMMA Int16Is ==
  /\ \A n \in Int16 : n \in Int /\ Min16 <= n /\ n <= Max16
  /\ \A n \in Int : Min16 <= n /\ n <= Max16 => n \in Int16
<1>1. Min16 \in Int /\ Max16 \in Int
  BY DEF Min16, Max16
<1> QED BY <1>1 DEF Int16

LEMMA Wrap16Type == ASSUME NEW n \in Int PROVE Wrap16(n) \in Int16 /\ Wrap16(n) \in Int
<1>1. PICK m \in Int : m = n - Min16
  BY DEF Min16
<1>2. m % 65536 \in Int /\ 0 <= m % 65536 /\ m % 65536 < 65536
  OBVIOUS
<1>3. Wrap16(n) = (m % 65536) + Min16
  BY <1>1 DEF Wrap16
<1>4. Wrap16(n) \in Int /\ Min16 <= Wrap16(n) /\ Wrap16(n) <= Max16
  BY <1>2, <1>3 DEF Min16, Max16
<1> QED BY <1>4, Int16Is

LEMMA ClampType ==
  ASSUME NEW v \in Int16, NEW b \in 0 .. Max16
  PROVE  clamp(v, b) \in Int16 /\ clamp(v, b) \in -b .. b
<1>1. Max16 \in Int /\ Max16 = 32767 /\ Min16 = -32768
  BY DEF Min16, Max16
<1>2. v \in Int
  BY Int16Is
<1>3. Max16 \in Int
  BY <1>1
<1>4. b \in Nat /\ b <= Max16
  BY <1>3
<1>5. clamp(v, b) \in -b .. b
  BY <1>2, <1>4, ClampBounds
<1>6. clamp(v, b) \in Int /\ Min16 <= clamp(v, b) /\ clamp(v, b) <= Max16
  <2>1. PICK c \in -b .. b : c = clamp(v, b)
    BY <1>5
  <2> QED BY <1>1, <1>4, <2>1
<1> QED BY <1>5, <1>6, Int16Is

\* Wherever they wrap, the terms of the PID are integers.
LEMMA TermsType ==
  ASSUME NEW e \in Int, NEW i \in Int, NEW d \in Int
  PROVE  Terms(e, i, d) \in Int
<1>1. kp * e \in Int /\ ki * i \in Int /\ kd * d \in Int
  <2>1. \A m \in Int, n \in Int : m * n \in Int
    OBVIOUS
  <2> QED BY <2>1, JointTypes
<1>2. PICK p \in Int, s \in Int, t \in Int :
        p = Wrap16(kp * e) /\ s = Wrap16(ki * i) /\ t = Wrap16(kd * d)
  BY <1>1, Wrap16Type
<1>3. PICK q \in Int : q = Wrap16(p + s)
  BY Wrap16Type
<1>4. PICK r \in Int : r = Wrap16(q + t)
  BY Wrap16Type
<1>5. By32(r) \in Int
  BY DEF By32
<1> QED BY <1>2, <1>3, <1>4, <1>5 DEF Terms

\* What a tick of the PID leaves
LEMMA PIDTypes ==
  ASSUME JointTypeOK, TickPID
  PROVE  JointTypeOK'
<1>1. /\ joint_status' \in [desired : {clamp(speed, max_speed)}, encoder : Measured]
      /\ error' = clamp(Wrap16(joint_status'.desired - joint_status'.encoder), slope)
      /\ ramp_reference' = Wrap16(joint_status'.encoder + error')
      /\ error_integral' = clamp(Wrap16(error_integral + error'), max_i)
      /\ output' = Dead(clamp(Wrap16(ramp_reference'
                   + Terms(error', error_integral', Wrap16(error' - previous_error))), max_pwm))
      /\ previous_error' = error' /\ mode' = mode /\ speed' = speed
  BY DEF TickPID, command
<1>2. /\ max_i \in 0 .. Max16 /\ max_pwm \in 0 .. Max16
      /\ max_speed \in 0 .. Max16 /\ slope \in 0 .. Max16
      /\ Speeds \subseteq Int16 /\ Measured \subseteq Int16 /\ 0 \in Int16
  <2>1. 0 \in Int16
    BY DEF Int16, Min16, Max16
  <2> QED BY <2>1, JointAssumption, Zenon
<1>3. speed \in Int16 /\ error_integral \in Int /\ previous_error \in Int
  BY <1>2, Int16Is DEF JointTypeOK
<1>4. PICK v \in -max_speed .. max_speed, m \in Measured :
        joint_status' = [desired |-> v, encoder |-> m]
  BY <1>1, <1>2, <1>3, ClampType
<1>5. v \in Int /\ m \in Int
  <2>1. max_speed \in Int /\ Measured \subseteq Int
    BY JointTypes
  <2> QED BY <2>1
<1>6. PICK e \in Int16 : e = error' /\ e \in Int
  <2>1. Wrap16(v - m) \in Int16
    BY <1>5, Wrap16Type
  <2> QED BY <1>1, <1>2, <1>4, <2>1, ClampType, Int16Is
<1>7. PICK r \in Int16 : r = ramp_reference' /\ r \in Int
  <2>1. Wrap16(m + e) \in Int16 /\ Wrap16(m + e) \in Int
    BY <1>5, <1>6, Wrap16Type
  <2> QED BY <1>1, <1>4, <1>6, <2>1
<1>8. PICK i \in Int16 : i = error_integral' /\ i \in Int
  <2>1. Wrap16(error_integral + e) \in Int16
    BY <1>3, <1>6, Wrap16Type
  <2> QED BY <1>1, <1>2, <1>6, <2>1, ClampType, Int16Is
<1>9. output' \in Int16
  <2>1. PICK d \in Int : d = Wrap16(e - previous_error)
    BY <1>3, <1>6, Wrap16Type
  <2>2. PICK t \in Int : t = Terms(e, i, d)
    BY <1>6, <1>8, <2>1, TermsType
  <2>3. PICK c \in Int16 : c = clamp(Wrap16(r + t), max_pwm)
    <3>1. Wrap16(r + t) \in Int16
      BY <1>7, <2>2, Wrap16Type
    <3> QED BY <1>2, <3>1, ClampType
  <2>4. output' = Dead(c)
    BY <1>1, <1>6, <1>7, <1>8, <2>1, <2>2, <2>3
  <2> QED BY <1>2, <2>4 DEF Dead
<1> QED BY <1>1, <1>4, <1>6, <1>7, <1>8, <1>9 DEF JointTypeOK

\* Whatever the gains are, the controller's variables stay those of 16 bits and the
\* desired speed within max_speed (orazio_joints_internal.c:22-58).
THEOREM ControllerTypes == JointSpec => []JointTypeOK
<1>1. 0 \in Int16 /\ 0 \in -max_speed .. max_speed /\ Speeds \subseteq Int16
      /\ Measured \subseteq Int16
  <2>1. 0 \in Int16
    BY DEF Int16, Min16, Max16
  <2>2. 0 \in -max_speed .. max_speed
    BY JointTypes
  <2> QED BY <2>1, <2>2, JointAssumption, Zenon
<1>2. JointInit => JointTypeOK
  BY <1>1 DEF JointInit, JointTypeOK
<1>3. JointTypeOK /\ [JointNext]_jointVars => JointTypeOK'
  <2> SUFFICES ASSUME JointTypeOK, [JointNext]_jointVars
               PROVE  JointTypeOK'
    OBVIOUS
  <2>1. CASE Command
    BY <2>1 DEF Command, controller, JointTypeOK
  <2>2. CASE TickDisabled
    BY <1>1, <2>2 DEF TickDisabled, command, JointTypeOK
  <2>3. CASE TickPWM
    BY <1>1, <2>3 DEF TickPWM, command, JointTypeOK
  <2>4. CASE TickPID
    BY <2>4, PIDTypes
  <2>5. CASE UNCHANGED jointVars
    BY <2>5 DEF jointVars, command, controller, JointTypeOK
  <2> QED BY <2>1, <2>2, <2>3, <2>4, <2>5 DEF JointNext, JointTick
<1> QED BY <1>2, <1>3, PTL DEF JointSpec
=============================================================================
