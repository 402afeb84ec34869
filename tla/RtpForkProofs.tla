---------------------------- MODULE RtpForkProofs ----------------------------
(***************************************************************************)
(* For any number of streams, frame length, widths of the RTP header's     *)
(* fields and random first values: the headers of one recording's streams  *)
(* stay aligned, contiguous and on time.                                   *)
(***************************************************************************)
EXTENDS RtpFork, TLAPS

-----------------------------------------------------------------------------
(* Arithmetic modulo the width of a header field.                          *)

(* a mod n is below n, and a is what mod and div say it is.                *)
LEMMA ModRange ==
  ASSUME NEW n \in Nat \ {0}, NEW a \in Int
  PROVE  /\ a % n \in 0 .. n - 1
         /\ a \div n \in Int
         /\ a = n * (a \div n) + (a % n)
OBVIOUS

(* The remainder of a division is unique.                                  *)
LEMMA ModUnique ==
  ASSUME NEW n \in Nat \ {0}, NEW q \in Int, NEW p \in Int,
         NEW r \in 0 .. n - 1, NEW s \in 0 .. n - 1, n * q + r = n * p + s
  PROVE  r = s
<1>1. CASE q = p
  BY <1>1
<1>2. CASE q > p
  <2>1. n * (q - p) >= n
    BY <1>2
  <2>2. n * (q - p) = s - r
    OBVIOUS
  <2> QED
    BY <2>1, <2>2
<1>3. CASE q < p
  <2>1. n * (p - q) >= n
    BY <1>3
  <2>2. n * (p - q) = r - s
    OBVIOUS
  <2> QED
    BY <2>1, <2>2
<1> QED
  BY <1>1, <1>2, <1>3

(* Integers that differ by a multiple of n have the same remainder.        *)
LEMMA ModShift ==
  ASSUME NEW n \in Nat \ {0}, NEW a \in Int, NEW k \in Int
  PROVE  (a + n * k) % n = a % n
<1> DEFINE b == a + n * k
<1>1. b \in Int
  OBVIOUS
<1>2. b = n * (b \div n) + (b % n) /\ b \div n \in Int /\ b % n \in 0 .. n - 1
  <2> HIDE DEF b
  <2> QED
    BY <1>1, ModRange
<1>3. b = n * (a \div n + k) + (a % n) /\ a \div n \in Int /\ a % n \in 0 .. n - 1
  <2>1. a = n * (a \div n) + (a % n) /\ a \div n \in Int
    BY ModRange
  <2> DEFINE d == a \div n
             m == a % n
  <2>2. a = n * d + m /\ d \in Int /\ m \in 0 .. n - 1
    BY <2>1, ModRange
  <2> HIDE DEF d, m
  <2>3. n * (d + k) = n * d + n * k
    BY <2>2
  <2>4. b = n * (d + k) + m
    BY <2>2, <2>3
  <2> QED
    BY <2>2, <2>4 DEF d, m
<1> HIDE DEF b
<1>4. b % n = a % n
  <2>1. a \div n + k \in Int
    BY <1>3
  <2> QED
    BY <1>2, <1>3, <2>1, ModUnique
<1> QED
  BY <1>4 DEF b

(* Adding to a remainder, or subtracting one, is adding to the number.     *)
LEMMA ModAdd ==
  ASSUME NEW n \in Nat \ {0}, NEW a \in Int, NEW b \in Int
  PROVE  /\ ((a % n) + b) % n = (a + b) % n
         /\ (b - (a % n)) % n = (b - a) % n
<1> DEFINE d == a \div n
           m == a % n
<1>1. a = n * d + m /\ d \in Int /\ m \in Int
  BY ModRange
<1> HIDE DEF d, m
<1>2. (m + b) % n = (a + b) % n
  <2>1. a + b = (m + b) + n * d
    BY <1>1
  <2>2. m + b \in Int
    BY <1>1
  <2>3. ((m + b) + n * d) % n = (m + b) % n
    BY <1>1, <2>2, ModShift
  <2> QED
    BY <2>1, <2>3
<1>3. (b - m) % n = (b - a) % n
  <2>1. b - a = (b - m) + n * (-d)
    <3>1. n * (-d) = -(n * d)
      BY <1>1
    <3>2. n * d \in Int
      BY <1>1
    <3> QED
      BY <1>1, <3>1, <3>2
  <2>2. b - m \in Int /\ -d \in Int
    BY <1>1
  <2>3. ((b - m) + n * (-d)) % n = (b - m) % n
    BY <2>2, ModShift
  <2> QED
    BY <2>1, <2>3
<1> QED
  BY <1>2, <1>3 DEF m

-----------------------------------------------------------------------------
(* Stamp, the width of the timestamps.                                     *)
LEMMA StampType == \A a \in Int : Stamp(a) \in 0 .. ClockMod - 1
BY ForkAssumption, ModRange DEF Stamp

(* Reducing a term of a sum or difference first does not change its stamp. *)
LEMMA StampAdd ==
  \A a, b \in Int : /\ Stamp(Stamp(a) + b) = Stamp(a + b)
                    /\ Stamp(b - Stamp(a)) = Stamp(b - a)
BY ForkAssumption, ModAdd DEF Stamp

(* A time that fits the field is its own stamp.                            *)
LEMMA StampFits == \A a \in 0 .. ClockMod - 1 : Stamp(a) = a
BY ForkAssumption DEF Stamp

(* The largest element of {0, n - 1} is a natural number.                  *)
LEMMA LeftOver == \A n \in Nat : Max({0, n - 1}) \in Nat
<1> SUFFICES ASSUME NEW n \in Nat PROVE Max({0, n - 1}) \in Nat
  OBVIOUS
<1>1. \E x \in {0, n - 1} : x \in Nat /\ \A y \in {0, n - 1} : x >= y
  OBVIOUS
<1>2. \A x \in {0, n - 1} : (\A y \in {0, n - 1} : x >= y) => x \in Nat
  OBVIOUS
<1> QED
  BY <1>1, <1>2 DEF Max

-----------------------------------------------------------------------------
(* The next packet of a stream carries the number after the last one sent  *)
(* and, unless it is marked, the time just after it.                       *)
HeadersFollow ==
  \A s \in Streams : sent[s] # NoPacket =>
    /\ sequence[s] = NextSeq(sent[s].seq)
    /\ ~marker_pending[s] => timestamp[s] = Stamp(sent[s].ts + Tick)

(* How much of the frame that is being read has gone by.                   *)
Phase == IF pinged THEN now % Tick ELSE Tick

(* A running clock is behind the wall clock by the phase, give or take a   *)
(* frame for each pause; that of a gated fork is behind the moment it was  *)
(* gated by what it was behind then.                                       *)
DriftIsBounded ==
  /\ flag <=> paused_at # -1
  /\ flag => pauses > 0
  /\ ~pinged => now % Tick = 0
  /\ bug /\ ~flag => \A s \in Streams :
       \E d \in -(Tick * pauses) .. Tick * pauses :
         Stamp(now - Advance(s)) = Stamp(d + Phase)
  /\ bug /\ flag => \A s \in Streams :
       \E d \in -(Tick * (pauses - 1)) .. Tick * pauses :
         Stamp(paused_at - Advance(s)) = Stamp(d)

ForkInv == TypeOK /\ StreamsInLockStep /\ HeadersFollow /\ DriftIsBounded

-----------------------------------------------------------------------------
(* Each step of the callback and of the apps keeps the types.              *)
LEMMA ForkTypeStep ==
  ASSUME TypeOK, [Next]_vars
  PROVE  TypeOK'
<1> USE ForkAssumption DEF TypeOK, callVars, streamVars, pauseVars
<1>1. CASE Pass
  BY <1>1 DEF Pass
<1>2. CASE SkipPing \/ LegEnds \/ Close \/ ReadPingEnds
  BY <1>2 DEF SkipPing, LegEnds, Close, ReadPingEnds
<1>3. CASE Speak
  BY <1>3 DEF Speak
<1>4. ASSUME NEW arrived \in BOOLEAN, NEW usable \in BOOLEAN, ReadPing(arrived, usable)
      PROVE  TypeOK'
  <2>1. spoken' \in Nat /\ pinged' = TRUE /\ UNCHANGED <<now, leg_gone, bug, pauseVars>>
    BY <1>4, LeftOver DEF ReadPing
  <2>2. timestamp' \in [Streams -> 0 .. ClockMod - 1]
    <3>1. timestamp' = [s \in Streams |-> Stamp(timestamp[s] + Tick)]
      BY <1>4 DEF ReadPing, Send, Silence
    <3>2. \A s \in Streams : timestamp[s] + Tick \in Int
      OBVIOUS
    <3> QED
      BY <3>1, <3>2, StampType
  <2>3. CASE Send
    <3>1. \A s \in Streams : NextSeq(sequence[s]) \in 0 .. SeqMod - 1
      <4>1. \A s \in Streams : sequence[s] + 1 \in Int
        OBVIOUS
      <4> QED
        BY <4>1, ModRange DEF NextSeq
    <3>2. sequence' \in [Streams -> 0 .. SeqMod - 1]
      BY <2>3, <3>1 DEF Send
    <3>3. marker_pending' \in [Streams -> BOOLEAN]
      BY <2>3 DEF Send
    <3>4. \A s \in Streams : [seq |-> sequence[s], ts |-> timestamp[s], mark |-> marker_pending[s]]
             \in [seq : 0 .. SeqMod - 1, ts : 0 .. ClockMod - 1, mark : BOOLEAN]
      OBVIOUS
    <3>5. sent' \in [Streams -> {NoPacket} \cup
                       [seq : 0 .. SeqMod - 1, ts : 0 .. ClockMod - 1, mark : BOOLEAN]]
      BY <2>3, <3>4 DEF Send
    <3> QED
      BY <2>1, <2>2, <3>2, <3>3, <3>5
  <2>4. CASE Silence
    BY <2>1, <2>2, <2>4 DEF Silence
  <2> QED
    BY <1>4, <2>3, <2>4 DEF ReadPing
<1>5. CASE Pause
  BY <1>5 DEF Pause, PausedAt
<1>6. CASE Resume
  <2>1. \A s \in Streams :
          timestamp[s] + (IF paused_at = -1 THEN 0 ELSE now - paused_at) \in Int
    OBVIOUS
  <2>2. timestamp' \in [Streams -> 0 .. ClockMod - 1]
    BY <1>6, <2>1, StampType DEF Resume
  <2> QED
    BY <1>6, <2>2 DEF Resume
<1>7. CASE UNCHANGED vars
  BY <1>7 DEF vars
<1> QED
  BY <1>1, <1>2, <1>3, <1>4, <1>5, <1>6, <1>7 DEF Next

-----------------------------------------------------------------------------
(* A clock that is set forward by d has advanced by d more.                *)
LEMMA AdvanceBy ==
  ASSUME TypeOK, NEW d \in Int, NEW s \in Streams,
         timestamp'[s] = Stamp(timestamp[s] + d)
  PROVE  Advance(s)' = Stamp(Advance(s) + d)
<1>1. timestamp[s] \in Int /\ FirstStamp[s] \in Int
  BY ForkAssumption DEF TypeOK
<1> DEFINE a == timestamp[s] - FirstStamp[s]
<1>2. Advance(s)' = Stamp(Stamp(timestamp[s] + d) - FirstStamp[s])
  BY DEF Advance, Stamp
<1>3. @ = Stamp((timestamp[s] + d) + (-FirstStamp[s]))
  <2>1. timestamp[s] + d \in Int /\ -FirstStamp[s] \in Int
    BY <1>1
  <2>2. Stamp(timestamp[s] + d) \in Int
    BY <2>1, StampType, ForkAssumption
  <2>3. Stamp(Stamp(timestamp[s] + d) + (-FirstStamp[s])) = Stamp((timestamp[s] + d) + (-FirstStamp[s]))
    BY <2>1, StampAdd
  <2>4. Stamp(timestamp[s] + d) - FirstStamp[s] = Stamp(timestamp[s] + d) + (-FirstStamp[s])
    BY <1>1, <2>2
  <2> QED
    BY <2>3, <2>4
<1>4. (timestamp[s] + d) + (-FirstStamp[s]) = a + d /\ a \in Int
  BY <1>1
<1>5. Stamp(a + d) = Stamp(Stamp(a) + d)
  BY <1>4, StampAdd
<1>6. Stamp(a) = Advance(s)
  BY DEF Advance
<1> QED
  BY <1>2, <1>3, <1>4, <1>5, <1>6

(* Separate streams are sent, silenced, paused and resumed together.       *)
LEMMA LockStepStep ==
  ASSUME TypeOK, StreamsInLockStep, [Next]_vars
  PROVE  StreamsInLockStep'
<1> USE DEF StreamsInLockStep
<1>1. ASSUME NEW d \in Int, timestamp' = [s \in Streams |-> Stamp(timestamp[s] + d)]
      PROVE  \A s, u \in Streams : Advance(s)' = Advance(u)'
  <2> SUFFICES ASSUME NEW s \in Streams, NEW u \in Streams
               PROVE  Advance(s)' = Advance(u)'
    OBVIOUS
  <2>1. Advance(s)' = Stamp(Advance(s) + d) /\ Advance(u)' = Stamp(Advance(u) + d)
    BY <1>1, AdvanceBy
  <2> QED
    BY <2>1
<1>2. ASSUME UNCHANGED streamVars
      PROVE  StreamsInLockStep'
  BY <1>2 DEF streamVars, Advance
<1>3. CASE Pass \/ SkipPing \/ Speak \/ LegEnds \/ Close \/ ReadPingEnds \/ Pause
           \/ UNCHANGED vars
  BY <1>2, <1>3 DEF Pass, SkipPing, Speak, LegEnds, Close, ReadPingEnds, Pause, vars
<1>4. ASSUME NEW arrived \in BOOLEAN, NEW usable \in BOOLEAN, ReadPing(arrived, usable)
      PROVE  StreamsInLockStep'
  <2>1. \A s, u \in Streams : Advance(s)' = Advance(u)'
    <3>1. timestamp' = [s \in Streams |-> Stamp(timestamp[s] + Tick)] /\ Tick \in Int
      BY <1>4, ForkAssumption DEF ReadPing, Send, Silence
    <3> QED
      BY <1>1, <3>1
  <2>2. CASE Send
    <3> SUFFICES ASSUME NEW s \in Streams, NEW u \in Streams
                 PROVE  /\ (sequence'[s] - FirstSeq[s]) % SeqMod
                             = (sequence'[u] - FirstSeq[u]) % SeqMod
                        /\ marker_pending'[s] = marker_pending'[u]
      BY <2>1
    <3>1. ASSUME NEW x \in Streams
          PROVE  (sequence'[x] - FirstSeq[x]) % SeqMod
                   = (((sequence[x] - FirstSeq[x]) % SeqMod) + 1) % SeqMod
      <4> DEFINE q == sequence[x]
                 f == FirstSeq[x]
      <4>1. q \in Int /\ f \in Int /\ q + 1 \in Int /\ -f \in Int /\ q - f \in Int
        BY ForkAssumption DEF TypeOK
      <4>2. sequence'[x] = (q + 1) % SeqMod
        BY <2>2 DEF Send, NextSeq
      <4> HIDE DEF q, f
      <4>3. (((q + 1) % SeqMod) + (-f)) % SeqMod = ((q + 1) + (-f)) % SeqMod
        BY <4>1, ModAdd, ForkAssumption
      <4>4. (((q - f) % SeqMod) + 1) % SeqMod = ((q - f) + 1) % SeqMod
        <5> DEFINE g == q - f
        <5>1. g \in Int
          BY <4>1
        <5> HIDE DEF g
        <5>2. \A b \in Int : ((g % SeqMod) + b) % SeqMod = (g + b) % SeqMod
          BY <5>1, ModAdd, ForkAssumption
        <5> QED
          BY <5>2 DEF g
      <4>5. (q + 1) + (-f) = (q - f) + 1
        BY <4>1
      <4>6. ((q + 1) % SeqMod) + (-f) = ((q + 1) % SeqMod) - f
        BY <4>1, ModRange, ForkAssumption
      <4> QED
        BY <4>2, <4>3, <4>4, <4>5, <4>6 DEF q, f
    <3>2. marker_pending'[s] = marker_pending'[u]
      BY <2>2 DEF Send
    <3> QED
      BY <3>1, <3>2
  <2>3. CASE Silence
    BY <2>1, <2>3 DEF Silence
  <2> QED
    BY <1>4, <2>2, <2>3 DEF ReadPing
<1>5. CASE Resume
  <2> DEFINE gap == IF paused_at = -1 THEN 0 ELSE now - paused_at
  <2>1. gap \in Int /\ timestamp' = [s \in Streams |-> Stamp(timestamp[s] + gap)]
    BY <1>5 DEF TypeOK, Resume
  <2>2. \A s, u \in Streams : Advance(s)' = Advance(u)'
    BY <1>1, <2>1
  <2> QED
    BY <1>5, <2>2 DEF Resume
<1> QED
  BY <1>3, <1>4, <1>5 DEF Next

(* A packet carries on where its predecessor ended, or is marked.          *)
LEMMA HeadersStep ==
  ASSUME TypeOK, HeadersFollow, [Next]_vars
  PROVE  HeadersFollow'
<1> USE DEF HeadersFollow
<1>1. ASSUME UNCHANGED streamVars
      PROVE  HeadersFollow'
  BY <1>1 DEF streamVars
<1>2. CASE Pass \/ SkipPing \/ Speak \/ LegEnds \/ Close \/ ReadPingEnds \/ Pause
           \/ UNCHANGED vars
  BY <1>1, <1>2 DEF Pass, SkipPing, Speak, LegEnds, Close, ReadPingEnds, Pause, vars
<1>3. ASSUME NEW arrived \in BOOLEAN, NEW usable \in BOOLEAN, ReadPing(arrived, usable)
      PROVE  HeadersFollow'
  BY <1>3 DEF ReadPing, Send, Silence
<1>4. CASE Resume
  BY <1>4 DEF Resume
<1> QED
  BY <1>2, <1>3, <1>4 DEF Next

-----------------------------------------------------------------------------
(* Equal remainders stay equal when the same is added.                     *)
LEMMA StampShift ==
  \A a, b, e \in Int : Stamp(a) = Stamp(b) => Stamp(a + e) = Stamp(b + e)
<1> SUFFICES ASSUME NEW a \in Int, NEW b \in Int, NEW e \in Int, Stamp(a) = Stamp(b)
             PROVE  Stamp(a + e) = Stamp(b + e)
  OBVIOUS
<1>1. Stamp(Stamp(a) + e) = Stamp(a + e) /\ Stamp(Stamp(b) + e) = Stamp(b + e)
  BY StampAdd
<1> QED
  BY <1>1

(* The phase is at most a frame, and a unit of time takes it one further.  *)
LEMMA PhaseType == now \in Nat => Phase \in 0 .. Tick
BY ForkAssumption, ModRange DEF Phase

(* One unit of time later the phase is one more, up to a whole frame.      *)
LEMMA NextPhase ==
  ASSUME NEW n \in Nat
  PROVE  (n % Tick) + 1 = IF (n + 1) % Tick # 0 THEN (n + 1) % Tick ELSE Tick
<1>1. n % Tick \in 0 .. Tick - 1 /\ n + 1 \in Int
  BY ForkAssumption, ModRange
<1>2. ((n % Tick) + 1) % Tick = (n + 1) % Tick
  <2>1. n \in Int /\ Tick \in Nat \ {0}
    BY ForkAssumption
  <2>2. \A b \in Int : ((n % Tick) + b) % Tick = (n + b) % Tick
    BY <2>1, ModAdd
  <2> QED
    BY <2>2
<1>3. CASE (n % Tick) + 1 = Tick
  <2>1. Tick % Tick = 0
    BY ForkAssumption
  <2> QED
    BY <1>2, <1>3, <2>1
<1>4. CASE (n % Tick) + 1 < Tick
  <2>1. \A r \in 1 .. Tick - 1 : r % Tick = r
    BY ForkAssumption
  <2>2. (n % Tick) + 1 \in 1 .. Tick - 1
    BY <1>1, <1>4, ForkAssumption
  <2> QED
    BY <1>2, <2>1, <2>2
<1> QED
  BY <1>1, <1>3, <1>4, ForkAssumption

(* How far a stream's clock has come is a number below the modulus.        *)
LEMMA AdvanceType ==
  ASSUME TypeOK
  PROVE  \A s \in Streams : Advance(s) \in 0 .. ClockMod - 1
<1> SUFFICES ASSUME NEW s \in Streams PROVE Advance(s) \in 0 .. ClockMod - 1
  OBVIOUS
<1>1. timestamp[s] - FirstStamp[s] \in Int
  BY ForkAssumption DEF TypeOK
<1> QED
  BY <1>1, StampType DEF Advance

(* A step that moves the clock of s by d, and how far the clock is behind  *)
(* a moment before and after a step.                                       *)
Moves(s, d) == timestamp'[s] = Stamp(timestamp[s] + d)
LagIs(s, m, l) == Stamp(m - Advance(s)) = Stamp(l)
LagBecomes(s, n, k) == Stamp(n - Advance(s)') = Stamp(k)

(* What the clock is behind the moment m changes by as much as m moves     *)
(* more than the clock does.                                               *)
LEMMA LagBy ==
  ASSUME TypeOK, NEW s \in Streams, NEW d \in Int, NEW m \in Int, NEW n \in Int,
         NEW l \in Int, NEW k \in Int, k = l + ((n - m) - d),
         Moves(s, d), LagIs(s, m, l)
  PROVE  LagBecomes(s, n, k)
<1> USE DEF Moves, LagIs, LagBecomes
<1> DEFINE a == Advance(s)
<1>1. a \in Int
  BY AdvanceType, ForkAssumption
<1>2. Advance(s)' = Stamp(a + d)
  BY AdvanceBy
<1> HIDE DEF a
<1>3. Stamp(n - Stamp(a + d)) = Stamp(n - (a + d))
  BY <1>1, StampAdd
<1>4. n - (a + d) = (m - a) + ((n - m) - d) /\ m - a \in Int /\ (n - m) - d \in Int
  BY <1>1
<1>5. Stamp(m - a) = Stamp(l)
  BY DEF a
<1>6. Stamp((m - a) + ((n - m) - d)) = Stamp(l + ((n - m) - d))
  <2> DEFINE was == m - a
             more == (n - m) - d
  <2>1. was \in Int /\ more \in Int /\ Stamp(was) = Stamp(l)
    BY <1>4, <1>5
  <2>2. Stamp(was + more) = Stamp(l + more)
    <3> HIDE DEF was, more
    <3> QED
      BY <2>1, StampShift
  <2> QED
    BY <2>2
<1> QED
  BY <1>2, <1>3, <1>4, <1>6

(* Time, pings, pauses and resumes keep the drift within its bounds.       *)
LEMMA DriftStep ==
  ASSUME TypeOK, DriftIsBounded, [Next]_vars
  PROVE  DriftIsBounded'
<1> DEFINE B == Tick * pauses
<1>t. /\ Tick \in Nat \ {0} /\ now \in Nat /\ pauses \in Nat /\ B \in Nat
      /\ paused_at \in Nat \cup {-1}
      /\ Phase \in 0 .. Tick
  <2>1. Tick \in Nat \ {0} /\ now \in Nat /\ pauses \in Nat /\ paused_at \in Nat \cup {-1}
    BY ForkAssumption DEF TypeOK
  <2> QED
    BY <2>1, PhaseType
<1>b. Tick * (pauses - 1) = B - Tick /\ Tick * (pauses + 1) = B + Tick
  BY <1>t
<1>r. ASSUME bug, ~flag, NEW s \in Streams
      PROVE  \E d \in -B .. B : Stamp(now - Advance(s)) = Stamp(d + Phase)
  BY <1>r DEF DriftIsBounded
<1>f. ASSUME bug, flag, NEW s \in Streams
      PROVE  \E d \in -(B - Tick) .. B : Stamp(paused_at - Advance(s)) = Stamp(d)
  BY <1>f, <1>b DEF DriftIsBounded
<1>h. /\ flag <=> paused_at # -1
      /\ flag => pauses > 0
      /\ ~pinged => now % Tick = 0
  BY DEF DriftIsBounded
<1>1. CASE Pass
  <2>1. /\ now' = now + 1 /\ pinged' = ((now + 1) % Tick # 0)
        /\ UNCHANGED <<timestamp, bug, flag, paused_at, pauses>>
    BY <1>1 DEF Pass, streamVars, pauseVars
  <2>2. ASSUME bug, ~flag, NEW s \in Streams
        PROVE  \E d \in -B .. B : Stamp(now' - Advance(s)') = Stamp(d + Phase')
    <3>1. pinged /\ Phase' = Phase + 1
      BY <1>1, <1>t, <2>1, <2>2, NextPhase DEF Pass, PingDue, Phase
    <3>2. PICK d \in -B .. B : Stamp(now - Advance(s)) = Stamp(d + Phase)
      BY <1>r, <2>2
    <3>3. timestamp'[s] = Stamp(timestamp[s] + 0)
      BY <2>1, StampFits DEF TypeOK
    <3>4. d + Phase \in Int /\ now + 1 \in Int
      BY <1>t
    <3>5. d + Phase' \in Int /\ d + Phase' = (d + Phase) + (((now + 1) - now) - 0)
      BY <1>t, <3>1
    <3> DEFINE l == d + Phase
               k == d + Phase'
               n == now + 1
               still == 0
    <3>6. /\ l \in Int /\ k \in Int /\ n \in Int /\ now \in Int /\ still \in Int
          /\ k = l + ((n - now) - still)
          /\ Moves(s, still) /\ LagIs(s, now, l)
      BY <1>t, <3>2, <3>3, <3>4, <3>5 DEF Moves, LagIs
    <3>7. LagBecomes(s, n, k)
      <4> HIDE DEF B, l, k, n, still
      <4> QED
        BY <3>6, LagBy
    <3> QED
      BY <2>1, <3>7 DEF LagBecomes
  <2>3. ASSUME bug, flag, NEW s \in Streams
        PROVE  Advance(s)' = Advance(s)
    BY <2>1 DEF Advance, Stamp
  <2> QED
    BY <1>b, <1>f, <1>h, <2>1, <2>2, <2>3 DEF DriftIsBounded
<1>2. CASE SkipPing \/ Speak \/ LegEnds \/ UNCHANGED vars
  <2>1. /\ UNCHANGED <<now, timestamp, bug, flag, paused_at, pauses>>
        /\ pinged' = pinged \/ (flag /\ pinged' = TRUE)
    BY <1>2 DEF SkipPing, Speak, LegEnds, vars, callVars, streamVars, pauseVars
  <2>2. \A s \in Streams : Advance(s)' = Advance(s)
    BY <2>1 DEF Advance, Stamp
  <2> QED
    BY <1>r, <1>f, <1>h, <1>b, <2>1, <2>2 DEF DriftIsBounded, Phase
<1>3. CASE Close \/ ReadPingEnds
  <2>1. bug' = FALSE /\ UNCHANGED <<now, pinged, flag, paused_at, pauses>>
    BY <1>3 DEF Close, ReadPingEnds, callVars, pauseVars
  <2> QED
    BY <1>h, <2>1 DEF DriftIsBounded
<1>4. ASSUME NEW arrived \in BOOLEAN, NEW usable \in BOOLEAN, ReadPing(arrived, usable)
      PROVE  DriftIsBounded'
  <2>1. /\ bug /\ ~flag /\ ~pinged /\ pinged' = TRUE
        /\ UNCHANGED <<now, bug, flag, paused_at, pauses>>
        /\ timestamp' = [s \in Streams |-> Stamp(timestamp[s] + Tick)]
    BY <1>4 DEF ReadPing, PingDue, Send, Silence, pauseVars
  <2>2. Phase = Tick /\ Phase' = 0
    BY <1>h, <2>1 DEF Phase
  <2>3. ASSUME NEW s \in Streams
        PROVE  \E d \in -B .. B : Stamp(now' - Advance(s)') = Stamp(d + Phase')
    <3>1. PICK d \in -B .. B : Stamp(now - Advance(s)) = Stamp(d + Phase)
      BY <1>r, <2>1
    <3>2. d + Phase \in Int
      BY <1>t
    <3>3. d + Phase' \in Int /\ d + Phase' = (d + Phase) + ((now - now) - Tick)
      BY <1>t, <2>2
    <3>4. timestamp'[s] = Stamp(timestamp[s] + Tick) /\ Tick \in Int /\ now \in Int
      BY <1>t, <2>1
    <3> DEFINE l == d + Phase
               k == d + Phase'
    <3>5. l \in Int /\ k \in Int /\ k = l + ((now - now) - Tick)
          /\ Moves(s, Tick) /\ LagIs(s, now, l)
      BY <3>1, <3>2, <3>3, <3>4 DEF Moves, LagIs
    <3>6. LagBecomes(s, now, k)
      <4> HIDE DEF B, l, k
      <4> QED
        BY <3>4, <3>5, LagBy
    <3> QED
      BY <2>1, <3>6 DEF LagBecomes
  <2> QED
    BY <1>h, <2>1, <2>3 DEF DriftIsBounded
<1>5. CASE Pause
  <2>1. /\ bug /\ flag' = TRUE /\ paused_at' = PausedAt
        /\ pauses' = IF flag THEN pauses ELSE pauses + 1
        /\ UNCHANGED <<now, pinged, timestamp, bug>>
    BY <1>5 DEF Pause, callVars, streamVars
  <2>2. \A s \in Streams : Advance(s)' = Advance(s)
    BY <2>1 DEF Advance, Stamp
  <2>3. CASE flag
    BY <1>f, <1>h, <1>b, <2>1, <2>2, <2>3 DEF DriftIsBounded, PausedAt
  <2>4. CASE ~flag
    <3>1. paused_at' = now /\ pauses' = pauses + 1
      BY <1>h, <2>1, <2>4 DEF PausedAt
    <3>2. Tick * (pauses' - 1) = B /\ Tick * pauses' = B + Tick
      BY <1>t, <1>b, <3>1
    <3>3. ASSUME NEW s \in Streams
          PROVE  \E d \in -B .. B + Tick : Stamp(paused_at' - Advance(s)') = Stamp(d)
      <4>1. PICK d \in -B .. B : Stamp(now - Advance(s)) = Stamp(d + Phase)
        BY <1>r, <2>1, <2>4
      <4>2. d + Phase \in -B .. B + Tick
        BY <1>t
      <4> QED
        BY <2>2, <3>1, <4>1, <4>2
    <3> QED
      BY <1>h, <1>t, <2>1, <3>1, <3>2, <3>3 DEF DriftIsBounded
  <2> QED
    BY <2>3, <2>4
<1>6. CASE Resume
  <2> DEFINE gap == IF paused_at = -1 THEN 0 ELSE now - paused_at
  <2>1. /\ bug /\ flag' = FALSE /\ paused_at' = -1
        /\ UNCHANGED <<now, pinged, bug, pauses>>
        /\ timestamp' = [s \in Streams |-> Stamp(timestamp[s] + gap)]
    BY <1>6 DEF Resume, callVars
  <2>2. gap \in Int /\ Phase' = Phase
    BY <1>t, <2>1 DEF Phase
  <2>3. ASSUME NEW s \in Streams
        PROVE  \E d \in -B .. B : Stamp(now - Advance(s)') = Stamp(d + Phase)
    <3>1. CASE flag
      <4>1. PICK d \in -(B - Tick) .. B : Stamp(paused_at - Advance(s)) = Stamp(d)
        BY <1>f, <2>1, <3>1
      <4>2. gap = now - paused_at /\ paused_at \in Int
        BY <1>h, <1>t, <3>1
      <4>3. /\ d \in Int /\ now \in Int /\ paused_at \in Int
            /\ d = d + ((now - paused_at) - gap)
        BY <1>t, <4>2
      <4>4. Moves(s, gap) /\ LagIs(s, paused_at, d)
        BY <2>1, <4>1 DEF Moves, LagIs
      <4>5. LagBecomes(s, now, d)
        <5> HIDE DEF B, gap
        <5> QED
          BY <2>2, <4>3, <4>4, LagBy
      <4>6. d - Phase \in -B .. B /\ d = (d - Phase) + Phase
        BY <1>t
      <4> QED
        BY <4>5, <4>6 DEF LagBecomes
    <3>2. CASE ~flag
      <4>1. PICK d \in -B .. B : Stamp(now - Advance(s)) = Stamp(d + Phase)
        BY <1>r, <2>1, <3>2
      <4>2. gap = 0
        BY <1>h, <3>2
      <4>3. d + Phase \in Int
        BY <1>t
      <4>4. now \in Int /\ d + Phase = (d + Phase) + ((now - now) - gap)
        BY <1>t, <4>2
      <4> DEFINE l == d + Phase
      <4>5. l \in Int /\ l = l + ((now - now) - gap) /\ Moves(s, gap) /\ LagIs(s, now, l)
        BY <2>1, <4>1, <4>3, <4>4 DEF Moves, LagIs
      <4>6. LagBecomes(s, now, l)
        <5> HIDE DEF B, gap, l
        <5> QED
          BY <2>2, <4>4, <4>5, LagBy
      <4> QED
        BY <4>6 DEF LagBecomes
    <3> QED
      BY <3>1, <3>2
  <2> QED
    BY <1>h, <2>1, <2>2, <2>3 DEF DriftIsBounded
<1> QED
  BY <1>1, <1>2, <1>3, <1>4, <1>5, <1>6 DEF Next

-----------------------------------------------------------------------------
(* The fork begins with the invariant: no packet sent, no time gone by.    *)
LEMMA ForkInit == Init => ForkInv
<1> SUFFICES ASSUME Init PROVE ForkInv
  OBVIOUS
<1> USE ForkAssumption DEF Init
<1>1. TypeOK
  BY DEF TypeOK
<1>2. \A s \in Streams : Advance(s) = 0
  <2> SUFFICES ASSUME NEW s \in Streams PROVE Advance(s) = 0
    OBVIOUS
  <2>1. timestamp[s] - FirstStamp[s] = 0
    OBVIOUS
  <2> QED
    BY <2>1, StampFits DEF Advance
<1>3. StreamsInLockStep
  <2>1. \A s \in Streams : sequence[s] - FirstSeq[s] = 0
    OBVIOUS
  <2> QED
    BY <1>2, <2>1 DEF StreamsInLockStep
<1>4. HeadersFollow
  BY DEF HeadersFollow
<1>5. DriftIsBounded
  <2>1. Phase = 0 /\ now = 0 /\ Tick * pauses = 0
    BY DEF Phase
  <2> QED
    BY <1>2, <2>1 DEF DriftIsBounded
<1> QED
  BY <1>1, <1>3, <1>4, <1>5 DEF ForkInv

(* The inductive invariant of the fork.                                    *)
THEOREM ForkInvariant == Spec => []ForkInv
<1>1. ForkInv /\ [Next]_vars => ForkInv'
  BY ForkTypeStep, LockStepStep, HeadersStep, DriftStep DEF ForkInv
<1> QED
  BY ForkInit, <1>1, PTL DEF Spec

(* Every variable of the fork keeps its type, and the header fields their  *)
(* width.                                                                  *)
THEOREM ForkTypes == Spec => []TypeOK
BY ForkInvariant, PTL DEF ForkInv

(* The two streams of separate mode share one RTP clock and one numbering, *)
(* through any silences, pauses, needless resumes and wrap-arounds.        *)
THEOREM StreamsStayAligned == Spec => []StreamsInLockStep
BY ForkInvariant, PTL DEF ForkInv

(* A number that is not negative is no less than its remainder; a negative *)
(* one is at least a whole width less than its.                            *)
LEMMA StampBounds ==
  ASSUME NEW l \in Int
  PROVE  IF l >= 0 THEN Stamp(l) <= l ELSE Stamp(l) >= l + ClockMod
<1> DEFINE r == Stamp(l)
           q == l \div ClockMod
<1>1. ClockMod \in Nat \ {0}
  BY ForkAssumption
<1>2. l = ClockMod * q + r /\ q \in Int /\ r \in 0 .. ClockMod - 1
  BY <1>1, ModRange DEF Stamp
<1> HIDE DEF r, q
<1>3. CASE q >= 0
  <2>1. ClockMod * q >= 0
    BY <1>1, <1>2, <1>3
  <2> QED
    BY <1>1, <1>2, <2>1 DEF r
<1>4. CASE q <= -1
  <2>1. ClockMod * (-1 - q) >= 0
    BY <1>1, <1>2, <1>4
  <2>2. ClockMod * (-1 - q) = -ClockMod - ClockMod * q
    BY <1>1, <1>2
  <2>3. ClockMod * q \in Int
    BY <1>1, <1>2
  <2> QED
    BY <1>1, <1>2, <2>1, <2>2, <2>3 DEF r
<1> QED
  BY <1>2, <1>3, <1>4

(* A running clock is off the wall clock by less than a frame for every    *)
(* pause, plus the frame that is due: DriftIsBounded without its           *)
(* existential quantifier.                                                 *)
LEMMA DriftKeepsTime == TypeOK /\ DriftIsBounded => ClockKeepsTime
<1> SUFFICES ASSUME TypeOK, DriftIsBounded, bug, ~flag, NEW s \in Streams
             PROVE  \/ Stamp(now - Advance(s)) <= Tick * (pauses + 1)
                    \/ Stamp(now - Advance(s)) >= ClockMod - Tick * pauses
  BY DEF ClockKeepsTime
<1> DEFINE B == Tick * pauses
<1>1. Tick \in Nat /\ ClockMod \in Nat /\ B \in Nat /\ Tick * (pauses + 1) = B + Tick
      /\ Phase \in 0 .. Tick
  <2>1. Tick \in Nat /\ ClockMod \in Nat /\ pauses \in Nat /\ now \in Nat
    BY ForkAssumption DEF TypeOK
  <2> QED
    BY <2>1, PhaseType
<1>2. PICK d \in -B .. B : Stamp(now - Advance(s)) = Stamp(d + Phase)
  BY DEF DriftIsBounded
<1> HIDE DEF B
<1>3. d + Phase \in Int /\ -B <= d + Phase /\ d + Phase <= B + Tick
  BY <1>1, <1>2
<1>4. Stamp(d + Phase) \in Int
  BY <1>1, <1>3, StampType
<1>5. IF d + Phase >= 0 THEN Stamp(d + Phase) <= d + Phase
                        ELSE Stamp(d + Phase) >= (d + Phase) + ClockMod
  BY <1>3, StampBounds
<1>6. Stamp(d + Phase) <= B + Tick \/ Stamp(d + Phase) >= ClockMod - B
  BY <1>1, <1>3, <1>4, <1>5
<1> QED
  BY <1>1, <1>2, <1>6 DEF B

(* The RTP clock keeps running with the wall clock through silence, pauses *)
(* of what is paused and resumes of what is not: no error accumulates but  *)
(* the rounding to a frame of each pause.                                  *)
THEOREM ClockIsOnTime == Spec => []ClockKeepsTime
BY ForkInvariant, DriftKeepsTime, PTL DEF ForkInv

(* Sequence numbers have no gap, and an unmarked packet carries on exactly *)
(* where its predecessor ended: only a ping sends, and what it sends is    *)
(* what HeadersFollow says is next.                                        *)
THEOREM PacketsAreContiguous == Spec => PacketsContiguous
<1> DEFINE Good == \A s \in Streams : sent[s] # NoPacket /\ sent'[s] # sent[s] =>
             /\ sent'[s].seq = NextSeq(sent[s].seq)
             /\ ~sent'[s].mark => sent'[s].ts = Stamp(sent[s].ts + Tick)
<1>1. ASSUME ForkInv, [Next]_vars
      PROVE  Good
  <2>1. ASSUME NEW arrived \in BOOLEAN, NEW usable \in BOOLEAN, ReadPing(arrived, usable)
        PROVE  Good
    BY <1>1, <2>1 DEF ForkInv, HeadersFollow, ReadPing, Send, Silence
  <2>2. CASE Pass \/ SkipPing \/ Speak \/ LegEnds \/ Close \/ ReadPingEnds \/ Pause \/ Resume
             \/ UNCHANGED vars
    <3>1. sent' = sent
      BY <2>2 DEF Pass, SkipPing, Speak, LegEnds, Close, ReadPingEnds, Pause, Resume,
                  streamVars, vars
    <3> QED
      BY <3>1
  <2> QED
    BY <1>1, <2>1, <2>2 DEF Next
<1>2. Good => [Good]_vars
  OBVIOUS
<1> QED
  BY <1>1, <1>2, ForkInvariant, PTL DEF Spec, PacketsContiguous
=============================================================================
