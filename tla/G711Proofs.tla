----------------------------- MODULE G711Proofs -----------------------------
(***************************************************************************)
(* Proofs about G711: what the two encoders do to every sample, from their *)
(* arithmetic instead of from their 65536 results.  A magnitude lies in    *)
(* one of eight segments; in each the octet keeps the five leading bits,   *)
(* and the decoder puts the value into the middle of what was cut off.     *)
(***************************************************************************)
EXTENDS G711, TLAPS

Magnitudes == 0 .. Largest

(* The powers of two the encoders shift by.                                *)
LEMMA Powers ==
  /\ 2 ^ 0 = 1 /\ 2 ^ 1 = 2 /\ 2 ^ 2 = 4 /\ 2 ^ 3 = 8 /\ 2 ^ 4 = 16 /\ 2 ^ 5 = 32
  /\ 2 ^ 6 = 64 /\ 2 ^ 7 = 128 /\ 2 ^ 8 = 256 /\ 2 ^ 9 = 512 /\ 2 ^ 10 = 1024
  OBVIOUS

(* Where a segment begins; the lowest reaches down to 0.                   *)
Low(e) == 2 ^ (e + 7)
InSegment(p, e) == p < Low(e + 1) /\ (e > 0 => p >= Low(e))

(* The eight segments end at the largest sample.                           *)
LEMMA Lows ==
  /\ Low(0) = 128 /\ Low(1) = 256 /\ Low(2) = 512 /\ Low(3) = 1024 /\ Low(4) = 2048
  /\ Low(5) = 4096 /\ Low(6) = 8192 /\ Low(7) = 16384 /\ Low(8) = 32768
  BY DEF Low

(* Every segment above the lowest begins twice as high as the one before.  *)
LEMMA LowsRise ==
  ASSUME NEW e \in 0 .. 7, NEW f \in 0 .. 7, e < f
  PROVE  Low(e + 1) <= Low(f) /\ Low(f) \in Nat /\ Low(e + 1) \in Nat
<1>1. \A n \in 0 .. 8 : n = 0 \/ n = 1 \/ n = 2 \/ n = 3 \/ n = 4 \/ n = 5 \/ n = 6 \/ n = 7 \/ n = 8
  OBVIOUS
<1>2. \A n \in 0 .. 8 : Low(n) \in Nat
  BY <1>1, Lows
<1>3. \A n \in 0 .. 7 : Low(n) <= Low(n + 1)
  BY <1>1, Lows
<1> QED
  BY <1>1, Lows

(* The mask loop ends in the segment the magnitude lies in.                *)
LEMMA ExponentIsSegment ==
  ASSUME NEW p \in Magnitudes
  PROVE  Exponent(p) \in 0 .. 7 /\ InSegment(p, Exponent(p))
<1> DEFINE S == {0} \cup {e \in 1 .. 7 : p >= Low(e)}
<1>1. p \in Nat /\ p < 32768
  BY DEF Magnitudes, Largest
<1>2. \E e \in 0 .. 7 : InSegment(p, e)
  BY <1>1, Lows DEF InSegment
<1>3. \E x \in S : \A y \in S : x >= y
  <2>1. PICK e \in 0 .. 7 : InSegment(p, e)
    BY <1>2
  <2>2. e \in S
    BY <2>1 DEF InSegment
  <2>3. ASSUME NEW y \in S, y > e
        PROVE  FALSE
    BY <1>1, <2>1, <2>3, LowsRise DEF InSegment
  <2> QED
    BY <2>2, <2>3
<1>4. Exponent(p) = Max(S)
  BY DEF Exponent, Low
<1>5. Exponent(p) \in S /\ \A y \in S : Exponent(p) >= y
  BY <1>3, <1>4 DEF Max
<1>6. Exponent(p) \in 0 .. 7
  BY <1>5
<1>7. Exponent(p) > 0 => p >= Low(Exponent(p))
  BY <1>5
<1>8. p < Low(Exponent(p) + 1)
  <2>1. CASE Exponent(p) = 7
    BY <1>1, <2>1, Lows
  <2>2. CASE Exponent(p) < 7
    <3>1. Exponent(p) + 1 \in 1 .. 7 /\ Exponent(p) + 1 \notin S
      BY <1>5, <1>6, <2>2
    <3>2. Low(Exponent(p) + 1) \in Nat
      BY <1>6, <2>2, LowsRise
    <3> QED
      BY <1>1, <3>1, <3>2
  <2> QED
    BY <1>6, <2>1, <2>2
<1> QED
  BY <1>6, <1>7, <1>8 DEF InSegment

-----------------------------------------------------------------------------
(* What is cut off in a segment.                                           *)
Unit(e) == 2 ^ e
HalfUnit(e) == 2 ^ (e - 1)
Cut(e) == 2 ^ AlawShift(e)
Base(e) == IF e = 0 THEN 0 ELSE Low(e)

(* The eight segments with their numbers; above the lowest the unit is cut *)
(* off eight times and a segment begins at 128 units.                      *)
LEMMA Segments ==
  ASSUME NEW e \in 0 .. 7
  PROVE  \/ e = 0 /\ Unit(e) = 1 /\ Low(e + 1) = 256 /\ Base(e) = 0 /\ Cut(e) = 16 /\ HalfStep(e) = 4
         \/ /\ e > 0 /\ Low(e + 1) = 256 * Unit(e) /\ Base(e) = 128 * Unit(e)
            /\ Low(e) = Base(e) /\ Cut(e) = 8 * Unit(e) /\ HalfStep(e) = 4 * Unit(e)
            /\ Unit(e) = 2 * HalfUnit(e) /\ HalfUnit(e) \in Nat
            /\ \/ Unit(e) = 2 \/ Unit(e) = 4 \/ Unit(e) = 8 \/ Unit(e) = 16
               \/ Unit(e) = 32 \/ Unit(e) = 64 \/ Unit(e) = 128
<1>0. CASE e = 0
  <2>1. Unit(e) = 1 /\ Low(e + 1) = 256 /\ Base(e) = 0
    BY <1>0, Powers, Lows DEF Unit, Base
  <2>2. Cut(e) = 16 /\ HalfStep(e) = 4
    BY <1>0, Powers DEF Cut, AlawShift, HalfStep
  <2> QED
    BY <1>0, <2>1, <2>2
<1>1. CASE e = 1
  BY <1>1, Powers, Lows DEF Unit, HalfUnit, Base, Cut, AlawShift, HalfStep
<1>2. CASE e = 2
  BY <1>2, Powers, Lows DEF Unit, HalfUnit, Base, Cut, AlawShift, HalfStep
<1>3. CASE e = 3
  BY <1>3, Powers, Lows DEF Unit, HalfUnit, Base, Cut, AlawShift, HalfStep
<1>4. CASE e = 4
  BY <1>4, Powers, Lows DEF Unit, HalfUnit, Base, Cut, AlawShift, HalfStep
<1>5. CASE e = 5
  BY <1>5, Powers, Lows DEF Unit, HalfUnit, Base, Cut, AlawShift, HalfStep
<1>6. CASE e = 6
  BY <1>6, Powers, Lows DEF Unit, HalfUnit, Base, Cut, AlawShift, HalfStep
<1>7. CASE e = 7
  BY <1>7, Powers, Lows DEF Unit, HalfUnit, Base, Cut, AlawShift, HalfStep
<1> QED
  BY <1>0, <1>1, <1>2, <1>3, <1>4, <1>5, <1>6, <1>7

(* The nibble an encoder keeps says where in its segment the magnitude is. *)
LEMMA NibbleCuts ==
  ASSUME NEW p \in Magnitudes, NEW e \in 0 .. 7, InSegment(p, e), NEW m, m = Nibble(p, AlawShift(e))
  PROVE  /\ m \in 0 .. 15
         /\ Base(e) + m * Cut(e) <= p
         /\ p < Base(e) + m * Cut(e) + Cut(e)
<1>1. p \in Nat
  BY DEF Magnitudes
<1>2. m = (p \div Cut(e)) % 16
  BY DEF Nibble, Cut
<1>3. CASE e = 0
  BY <1>1, <1>2, <1>3, Segments DEF InSegment
<1>4. CASE e > 0
  <2> DEFINE u == Unit(e)
  <2>1. /\ Cut(e) = 8 * u /\ Base(e) = 128 * u
        /\ u \in {2, 4, 8, 16, 32, 64, 128}
        /\ 128 * u <= p /\ p < 256 * u
    BY <1>4, Segments DEF InSegment
  <2> HIDE DEF u
  <2>2. /\ (p \div (8 * u)) * (8 * u) <= p /\ p < (p \div (8 * u)) * (8 * u) + 8 * u
        /\ p \div (8 * u) \in 16 .. 31
    BY <1>1, <2>1
  <2>3. m = p \div (8 * u) - 16
    BY <1>2, <2>1, <2>2
  <2>4. m * (8 * u) = (p \div (8 * u)) * (8 * u) - 128 * u
    BY <2>1, <2>2, <2>3
  <2> QED
    BY <1>1, <2>1, <2>2, <2>3, <2>4
<1> QED
  BY <1>3, <1>4

(* An octet holds the sign, the segment and the nibble.                    *)
LEMMA OctetFields ==
  ASSUME NEW g \in {0, 128}, NEW e \in 0 .. 7, NEW m \in 0 .. 15, NEW c, c = g + e * 16 + m
  PROVE  /\ c \in 0 .. 255 /\ c % 16 = m /\ Segment(c) = e
         /\ c >= 128 <=> g = 128
  BY DEF Segment

(* Inverting the even bits twice gives the octet back.                     *)
LEMMA InvertedTwice ==
  ASSUME NEW c \in 0 .. 255
  PROVE  EvenBitsInverted(c) \in 0 .. 255 /\ EvenBitsInverted(EvenBitsInverted(c)) = c
  BY SMTT(60), Powers DEF EvenBitsInverted, Bit

-----------------------------------------------------------------------------
(* What a decoder makes of a magnitude's octet: its level.                 *)
NibbleOf(p) == Nibble(p, AlawShift(Exponent(p)))
UlawLevel(p) == (NibbleOf(p) * 8 + BIAS) * Unit(Exponent(p)) - BIAS
AlawLevel(p) ==
  IF Exponent(p) = 0 THEN NibbleOf(p) * 16 + 8
  ELSE (NibbleOf(p) * 16 + 264) * HalfUnit(Exponent(p))

(* The parts of a magnitude's octet.                                       *)
LEMMA Parts ==
  ASSUME NEW p \in Magnitudes
  PROVE  /\ p \in Nat /\ Exponent(p) \in 0 .. 7 /\ InSegment(p, Exponent(p))
         /\ NibbleOf(p) \in 0 .. 15
         /\ Base(Exponent(p)) + NibbleOf(p) * Cut(Exponent(p)) <= p
         /\ p < Base(Exponent(p)) + NibbleOf(p) * Cut(Exponent(p)) + Cut(Exponent(p))
  BY ExponentIsSegment, NibbleCuts DEF NibbleOf, Magnitudes

(* Above the lowest segment a mu-law level is in the middle of what the    *)
(* nibble cannot tell apart, and every level is within its segment.        *)
LEMMA UlawLevelIsNear ==
  ASSUME NEW p \in Magnitudes, p >= BIAS
  PROVE  /\ UlawLevel(p) \in Nat
         /\ UlawLevel(p) + BIAS < Low(Exponent(p) + 1)
         /\ Exponent(p) > 0 => /\ UlawLevel(p) + BIAS >= Low(Exponent(p))
                               /\ Abs(UlawLevel(p) - (p - BIAS)) <= HalfStep(Exponent(p))
<1> DEFINE e == Exponent(p)
           m == NibbleOf(p)
           u == Unit(e)
<1>1. /\ p \in Nat /\ e \in 0 .. 7 /\ InSegment(p, e) /\ m \in 0 .. 15
      /\ Base(e) + m * Cut(e) <= p /\ p < Base(e) + m * Cut(e) + Cut(e)
  BY Parts
<1>2. UlawLevel(p) = (m * 8 + 132) * u - 132
  BY DEF UlawLevel, BIAS
<1> HIDE DEF e, m, u
<1>3. CASE e = 0
  <2>1. u = 1 /\ Low(e + 1) = 256
    BY <1>1, <1>3, Segments DEF u
  <2>2. UlawLevel(p) = m * 8
    BY <1>1, <1>2, <2>1
  <2> QED
    BY <1>1, <1>3, <2>1, <2>2 DEF BIAS, e
<1>4. CASE e > 0
  <2>1. /\ Low(e) = 128 * u /\ Low(e + 1) = 256 * u /\ Base(e) = 128 * u
        /\ Cut(e) = 8 * u /\ HalfStep(e) = 4 * u
        /\ u \in {2, 4, 8, 16, 32, 64, 128}
    BY <1>1, <1>4, Segments DEF u
  <2>2. m * (8 * u) <= 120 * u /\ m * (8 * u) \in Nat
    BY <1>1, <2>1
  <2> DEFINE k == m * (8 * u)
  <2>3. 128 * u + k <= p /\ p < 128 * u + k + 8 * u /\ k \in Nat /\ k <= 120 * u
    BY <1>1, <2>1, <2>2
  <2>4. UlawLevel(p) = 128 * u + k + 4 * u - 132
    BY <1>1, <1>2, <2>1
  <2> HIDE DEF k
  <2>5. /\ UlawLevel(p) - (p - 132) \in Int
        /\ UlawLevel(p) - (p - 132) <= 4 * u /\ UlawLevel(p) - (p - 132) >= -(4 * u)
    BY <1>1, <2>1, <2>3, <2>4
  <2>6. Abs(UlawLevel(p) - (p - 132)) <= HalfStep(e)
    BY <2>1, <2>5 DEF Abs
  <2>7. UlawLevel(p) \in Nat /\ UlawLevel(p) + 132 < Low(e + 1) /\ UlawLevel(p) + 132 >= Low(e)
    BY <2>1, <2>3, <2>4
  <2> QED
    BY <2>6, <2>7 DEF BIAS, e
<1> QED
  BY <1>1, <1>3, <1>4

(* A-law has the middle of its segment's steps in the lowest one too.      *)
LEMMA AlawLevelIsNear ==
  ASSUME NEW p \in Magnitudes
  PROVE  /\ AlawLevel(p) \in Nat
         /\ AlawLevel(p) < Low(Exponent(p) + 1)
         /\ Exponent(p) > 0 => AlawLevel(p) >= Low(Exponent(p))
         /\ Abs(AlawLevel(p) - p) <= HalfStep(IF Exponent(p) = 0 THEN 1 ELSE Exponent(p))
<1> DEFINE e == Exponent(p)
           m == NibbleOf(p)
           u == Unit(e)
<1>1. /\ p \in Nat /\ e \in 0 .. 7 /\ InSegment(p, e) /\ m \in 0 .. 15
      /\ Base(e) + m * Cut(e) <= p /\ p < Base(e) + m * Cut(e) + Cut(e)
  BY Parts
<1>2. /\ e = 0 => AlawLevel(p) = m * 16 + 8
      /\ e > 0 => AlawLevel(p) = (m * 16 + 264) * HalfUnit(e)
  BY <1>1 DEF AlawLevel
<1> HIDE DEF e, m, u
<1>3. CASE e = 0
  <2>1. Low(e + 1) = 256 /\ Base(e) = 0 /\ Cut(e) = 16
    BY <1>1, <1>3, Segments
  <2>2. HalfStep(1) = 8
    BY Powers DEF HalfStep
  <2>3. AlawLevel(p) - p \in -8 .. 8
    BY <1>1, <1>2, <1>3, <2>1
  <2>4. Abs(AlawLevel(p) - p) <= 8
    BY <2>3 DEF Abs
  <2> QED
    BY <1>1, <1>2, <1>3, <2>1, <2>2, <2>4 DEF e
<1>4. CASE e > 0
  <2> DEFINE h == HalfUnit(e)
  <2>1. /\ Low(e) = 128 * u /\ Low(e + 1) = 256 * u /\ Base(e) = 128 * u
        /\ Cut(e) = 8 * u /\ HalfStep(e) = 4 * u
        /\ u \in {2, 4, 8, 16, 32, 64, 128}
    BY <1>1, <1>4, Segments DEF u
  <2>2. AlawLevel(p) = (m * 16 + 264) * h
    BY <1>2, <1>4
  <2>3. h \in Int /\ u = 2 * h
    BY <1>1, <1>4, Segments DEF u
  <2> HIDE DEF h
  <2>4. h \in {1, 2, 4, 8, 16, 32, 64}
    BY <2>1, <2>3
  <2>5. AlawLevel(p) = 128 * u + m * (8 * u) + 4 * u
    BY <1>1, <2>2, <2>3, <2>4
  <2>6. m * (8 * u) <= 120 * u /\ m * (8 * u) \in Nat
    BY <1>1, <2>1
  <2>7. /\ AlawLevel(p) - p \in Int
        /\ AlawLevel(p) - p <= 4 * u /\ AlawLevel(p) - p >= -(4 * u)
    BY <1>1, <2>1, <2>5, <2>6
  <2>8. Abs(AlawLevel(p) - p) <= HalfStep(e)
    BY <2>1, <2>7 DEF Abs
  <2> QED
    BY <1>1, <1>4, <2>1, <2>5, <2>6, <2>8 DEF e
<1> QED
  BY <1>1, <1>3, <1>4

-----------------------------------------------------------------------------
(* A greater magnitude has no lower level.                                 *)

(* It is in no lower segment, and in the same one it keeps no less.        *)
LEMMA PartsRise ==
  ASSUME NEW p \in Magnitudes, NEW q \in Magnitudes, p <= q
  PROVE  /\ Exponent(p) <= Exponent(q)
         /\ Exponent(p) = Exponent(q) => NibbleOf(p) <= NibbleOf(q)
<1>1. /\ p \in Nat /\ Exponent(p) \in 0 .. 7 /\ InSegment(p, Exponent(p))
      /\ q \in Nat /\ Exponent(q) \in 0 .. 7 /\ InSegment(q, Exponent(q))
  BY Parts
<1>2. Exponent(p) <= Exponent(q)
  <2> SUFFICES ASSUME Exponent(q) < Exponent(p) PROVE FALSE
    BY <1>1
  <2> QED
    BY <1>1, LowsRise DEF InSegment
<1>3. ASSUME NEW e \in 0 .. 7, e = Exponent(p), e = Exponent(q)
      PROVE  NibbleOf(p) <= NibbleOf(q)
  <2> DEFINE c == Cut(e)
             m == NibbleOf(p)
             n == NibbleOf(q)
  <2>1. /\ m \in 0 .. 15 /\ Base(e) + m * c <= p
        /\ n \in 0 .. 15 /\ q < Base(e) + n * c + c
    BY <1>3, Parts
  <2>2. Base(e) \in Nat /\ c \in {16, 32, 64, 128, 256, 512, 1024}
    BY Segments
  <2> HIDE DEF c, m, n
  <2>3. c \in Nat /\ c > 0
    BY <2>2
  <2>4. ASSUME m >= n + 1 PROVE FALSE
    <3>1. m * c >= n * c + c /\ m * c \in Nat /\ n * c \in Nat
      BY <2>1, <2>2, <2>4
    <3> QED
      BY <1>1, <2>1, <2>2, <2>3, <3>1
  <2> QED
    BY <2>1, <2>4 DEF m, n
<1> QED
  BY <1>1, <1>2, <1>3

(* The mu-law levels rise.                                                 *)
LEMMA UlawLevelsRise ==
  ASSUME NEW p \in Magnitudes, NEW q \in Magnitudes, p >= BIAS, p <= q
  PROVE  UlawLevel(p) <= UlawLevel(q)
<1> DEFINE e == Exponent(p)
           f == Exponent(q)
<1>1. e \in 0 .. 7 /\ f \in 0 .. 7 /\ e <= f /\ p \in Nat /\ q \in Nat
  BY Parts, PartsRise
<1>2. q >= BIAS
  BY <1>1 DEF BIAS
<1>3. CASE e < f
  <2>1. UlawLevel(p) + BIAS < Low(e + 1) /\ Low(f) <= UlawLevel(q) + BIAS
    BY <1>1, <1>2, <1>3, UlawLevelIsNear
  <2>2. UlawLevel(p) \in Nat /\ UlawLevel(q) \in Nat
    BY <1>2, UlawLevelIsNear
  <2>3. Low(e + 1) <= Low(f) /\ Low(f) \in Nat /\ Low(e + 1) \in Nat
    BY <1>1, <1>3, LowsRise
  <2> HIDE DEF e, f
  <2> QED
    BY <2>1, <2>2, <2>3 DEF BIAS
<1>4. CASE e = f
  <2>1. NibbleOf(p) \in 0 .. 15 /\ NibbleOf(q) \in 0 .. 15 /\ NibbleOf(p) <= NibbleOf(q)
    BY <1>4, Parts, PartsRise
  <2>2. Unit(e) \in {1, 2, 4, 8, 16, 32, 64, 128}
    BY <1>1, Segments
  <2>3. /\ UlawLevel(p) = (NibbleOf(p) * 8 + 132) * Unit(e) - 132
        /\ UlawLevel(q) = (NibbleOf(q) * 8 + 132) * Unit(e) - 132
    BY <1>4 DEF UlawLevel, BIAS
  <2> HIDE DEF e, f
  <2> QED
    BY <2>1, <2>2, <2>3
<1> QED
  BY <1>1, <1>3, <1>4

(* The A-law levels rise.                                                  *)
LEMMA AlawLevelsRise ==
  ASSUME NEW p \in Magnitudes, NEW q \in Magnitudes, p <= q
  PROVE  AlawLevel(p) <= AlawLevel(q)
<1> DEFINE e == Exponent(p)
           f == Exponent(q)
<1>1. e \in 0 .. 7 /\ f \in 0 .. 7 /\ e <= f
  BY Parts, PartsRise
<1>2. CASE e < f
  <2>1. AlawLevel(p) < Low(e + 1) /\ Low(f) <= AlawLevel(q)
    BY <1>1, <1>2, AlawLevelIsNear
  <2>2. AlawLevel(p) \in Nat /\ AlawLevel(q) \in Nat
    BY AlawLevelIsNear
  <2>3. Low(e + 1) <= Low(f) /\ Low(f) \in Nat /\ Low(e + 1) \in Nat
    BY <1>1, <1>2, LowsRise
  <2> HIDE DEF e, f
  <2> QED
    BY <2>1, <2>2, <2>3
<1>3. CASE e = f
  <2>1. NibbleOf(p) \in 0 .. 15 /\ NibbleOf(q) \in 0 .. 15 /\ NibbleOf(p) <= NibbleOf(q)
    BY <1>3, Parts, PartsRise
  <2>2. CASE e = 0
    BY <1>3, <2>1, <2>2 DEF AlawLevel
  <2>3. CASE e > 0
    <3>1. HalfUnit(e) \in {1, 2, 4, 8, 16, 32, 64}
      BY <1>1, <2>3, Segments
    <3>2. /\ AlawLevel(p) = (NibbleOf(p) * 16 + 264) * HalfUnit(e)
          /\ AlawLevel(q) = (NibbleOf(q) * 16 + 264) * HalfUnit(e)
      BY <1>1, <1>3, <2>3 DEF AlawLevel
    <3> HIDE DEF e, f
    <3> QED
      BY <2>1, <3>1, <3>2
  <2> QED
    BY <1>1, <2>2, <2>3
<1> QED
  BY <1>1, <1>2, <1>3

-----------------------------------------------------------------------------
(* Encoding and decoding.                                                  *)
Samples == Least .. Largest
SignOf(s) == IF s < 0 THEN -1 ELSE 1
AlawMagnitude(s) == IF s < 0 THEN -s - 1 ELSE s

(* The bounds of the two intervals.                                        *)
LEMMA Bounds ==
  \A s : /\ s \in Samples <=> s \in Int /\ 0 <= s + 32768 /\ s <= 32767
         /\ s \in Magnitudes <=> s \in Int /\ 0 <= s /\ s <= 32767
<1>1. Least + 32768 = 0 /\ Largest = 32767
  BY DEF Least, Largest
<1>2. ASSUME NEW lo \in Int, NEW hi \in Int, NEW s
      PROVE  s \in lo .. hi <=> s \in Int /\ lo <= s /\ s <= hi
  OBVIOUS
<1>3. Least \in Int /\ Largest \in Int /\ 0 \in Int
  BY DEF Least, Largest
<1>4. \A s : /\ s \in Least .. Largest <=> s \in Int /\ Least <= s /\ s <= Largest
             /\ s \in 0 .. Largest <=> s \in Int /\ 0 <= s /\ s <= Largest
  BY <1>2, <1>3, Zenon
<1>5. ASSUME NEW s
      PROVE  /\ s \in Samples <=> s \in Int /\ Least <= s /\ s <= Largest
             /\ s \in Magnitudes <=> s \in Int /\ 0 <= s /\ s <= Largest
  BY <1>4, Zenon DEF Samples, Magnitudes
<1>6. ASSUME NEW s \in Int
      PROVE  /\ Least <= s <=> 0 <= s + 32768
             /\ s <= Largest <=> s <= 32767
  BY <1>1, <1>3
<1>7. ASSUME NEW s
      PROVE  /\ s \in Samples <=> s \in Int /\ 0 <= s + 32768 /\ s <= 32767
             /\ s \in Magnitudes <=> s \in Int /\ 0 <= s /\ s <= 32767
  BY <1>5, <1>6
<1> QED
  BY <1>7

(* Every sample has a magnitude the encoders can hold, INT16_MIN too, and  *)
(* the clip leaves room for the bias.                                      *)
LEMMA MagnitudesFit ==
  ASSUME NEW s \in Samples
  PROVE  /\ Biased(s) \in Magnitudes /\ Biased(s) >= BIAS
         /\ Biased(s) - BIAS = Capped(Abs(s), CLIP)
         /\ AlawMagnitude(s) \in Magnitudes
<1>1. s \in Int /\ -32768 <= s /\ s <= 32767
  BY Bounds
<1>2. Abs(s) \in Nat /\ Biased(s) = Capped(Abs(s), CLIP) + BIAS
  BY <1>1 DEF Abs, Biased, Magnitude
<1>3. Capped(Abs(s), CLIP) \in Nat /\ Capped(Abs(s), CLIP) <= 32635
  BY <1>2 DEF Capped, CLIP
<1>4. AlawMagnitude(s) \in Int /\ 0 <= AlawMagnitude(s) /\ AlawMagnitude(s) <= 32767
  BY <1>1 DEF AlawMagnitude
<1> QED
  BY <1>2, <1>3, <1>4, Bounds DEF BIAS

(* The mu-law octet of a sample decodes to its sign and its level.         *)
LEMMA UlawDecodes ==
  ASSUME NEW s \in Samples
  PROVE  /\ siprec_l16_to_ulaw_ref(s) \in 0 .. 255
         /\ DecodeUlaw(siprec_l16_to_ulaw_ref(s)) = SignOf(s) * UlawLevel(Biased(s))
<1> DEFINE p == Biased(s)
           e == Exponent(p)
           m == NibbleOf(p)
           c == Sign(s) + e * 16 + m
<1>1. s \in Int
  BY Bounds
<1>2. p \in Magnitudes /\ p >= BIAS
  BY MagnitudesFit
<1>3. e \in 0 .. 7 /\ m \in 0 .. 15 /\ UlawLevel(p) \in Nat
  BY <1>2, Parts, UlawLevelIsNear
<1>4. siprec_l16_to_ulaw_ref(s) = 255 - c
  BY <1>3 DEF siprec_l16_to_ulaw_ref, NibbleOf, AlawShift
<1>5. Sign(s) \in {0, 128} /\ (Sign(s) = 128 <=> s < 0)
  BY DEF Sign
<1>6. UlawLevel(p) = (m * 8 + BIAS) * 2 ^ e - BIAS
  BY DEF UlawLevel, Unit
<1> HIDE DEF p, e, m
<1>7. c \in 0 .. 255 /\ c % 16 = m /\ Segment(c) = e /\ (c >= 128 <=> s < 0)
  BY <1>3, <1>5, OctetFields
<1> HIDE DEF c
<1>8. 255 - (255 - c) = c /\ 255 - c \in 0 .. 255
  BY <1>7
<1>9. DecodeUlaw(255 - c) = IF c >= 128 THEN -UlawLevel(p) ELSE UlawLevel(p)
  BY <1>6, <1>7, <1>8 DEF DecodeUlaw
<1>10. DecodeUlaw(255 - c) = SignOf(s) * UlawLevel(p)
  BY <1>1, <1>3, <1>7, <1>9 DEF SignOf
<1> QED
  BY <1>4, <1>8, <1>10 DEF p

(* The A-law octet of a sample decodes to its level.                       *)
LEMMA AlawDecodes ==
  ASSUME NEW s \in Samples
  PROVE  /\ siprec_l16_to_alaw_ref(s) \in 0 .. 255
         /\ Abs(DecodeAlaw(siprec_l16_to_alaw_ref(s))) = AlawLevel(AlawMagnitude(s))
<1> DEFINE p == AlawMagnitude(s)
           e == Exponent(p)
           m == NibbleOf(p)
           c == Sign(s) + e * 16 + m
<1>1. p \in Magnitudes
  BY MagnitudesFit
<1>2. e \in 0 .. 7 /\ m \in 0 .. 15 /\ AlawLevel(p) \in Nat
  BY <1>1, Parts, AlawLevelIsNear
<1>3. siprec_l16_to_alaw_ref(s) = EvenBitsInverted(c)
  BY DEF siprec_l16_to_alaw_ref, NibbleOf, AlawMagnitude
<1>4. Sign(s) \in {0, 128}
  BY DEF Sign
<1>5. AlawLevel(p) = IF e = 0 THEN m * 16 + 8 ELSE (m * 16 + 264) * 2 ^ (e - 1)
  BY DEF AlawLevel, HalfUnit
<1> HIDE DEF p, e, m
<1>6. c \in 0 .. 255 /\ c % 16 = m /\ Segment(c) = e
  BY <1>2, <1>4, OctetFields
<1> HIDE DEF c
<1>7. EvenBitsInverted(c) \in 0 .. 255 /\ EvenBitsInverted(EvenBitsInverted(c)) = c
  BY <1>6, InvertedTwice
<1> DEFINE a == IF e = 0 THEN (c % 16) * 16 + 8 ELSE ((c % 16) * 16 + 264) * 2 ^ (e - 1)
<1>8. a = AlawLevel(p)
  BY <1>2, <1>5, <1>6
<1>9. DecodeAlaw(EvenBitsInverted(c)) = IF c >= 128 THEN a ELSE -a
  BY <1>6, <1>7 DEF DecodeAlaw
<1> HIDE DEF a
<1>10. Abs(DecodeAlaw(EvenBitsInverted(c))) = AlawLevel(p)
  BY <1>2, <1>8, <1>9 DEF Abs
<1> QED
  BY <1>3, <1>7, <1>10 DEF p

(* A louder sample decodes to no less; an A-law one's magnitude follows    *)
(* the sample's.                                                           *)
LEMMA SamplesRise ==
  ASSUME NEW s \in Samples, NEW t \in Samples, s <= t
  PROVE  /\ DecodeUlaw(siprec_l16_to_ulaw_ref(s)) <= DecodeUlaw(siprec_l16_to_ulaw_ref(t))
         /\ s >= 0 => AlawLevel(AlawMagnitude(s)) <= AlawLevel(AlawMagnitude(t))
         /\ t < 0 => AlawLevel(AlawMagnitude(t)) <= AlawLevel(AlawMagnitude(s))
<1> DEFINE p == Biased(s)
           q == Biased(t)
<1>1. s \in Int /\ t \in Int
  BY Bounds
<1>2. p \in Magnitudes /\ p >= BIAS /\ q \in Magnitudes /\ q >= BIAS
  BY MagnitudesFit
<1>3. /\ s >= 0 => p <= q
      /\ t < 0 => q <= p
  BY <1>1 DEF Biased, Magnitude, Abs, Capped, CLIP, BIAS
<1>4. /\ AlawMagnitude(s) \in Magnitudes /\ AlawMagnitude(t) \in Magnitudes
      /\ s >= 0 => AlawMagnitude(s) <= AlawMagnitude(t)
      /\ t < 0 => AlawMagnitude(t) <= AlawMagnitude(s)
  BY <1>1, MagnitudesFit DEF AlawMagnitude
<1> HIDE DEF p, q
<1>5. UlawLevel(p) \in Nat /\ UlawLevel(q) \in Nat
  BY <1>2, UlawLevelIsNear
<1>6. /\ s >= 0 => UlawLevel(p) <= UlawLevel(q)
      /\ t < 0 => UlawLevel(q) <= UlawLevel(p)
  BY <1>2, <1>3, UlawLevelsRise
<1>7. SignOf(s) * UlawLevel(p) <= SignOf(t) * UlawLevel(q)
  BY <1>1, <1>5, <1>6 DEF SignOf
<1> QED
  BY <1>4, <1>7, UlawDecodes, AlawLevelsRise DEF p, q

-----------------------------------------------------------------------------
(* The loop: the entry written last is the sample's.                       *)
LoopInv == v \in Samples /\ built \in BOOLEAN /\ entry = Entry(v)

(* Each pass writes the entry of its sample and no index is left out.      *)
THEOREM LoopInvariant == Spec => []LoopInv
<1>1. Init => LoopInv
  <2>1. Least \in Samples
    BY Bounds DEF Least
  <2> QED
    BY <2>1 DEF Init, LoopInv
<1>2. LoopInv /\ [Next]_vars => LoopInv'
  <2> SUFFICES ASSUME LoopInv, [Next]_vars PROVE LoopInv'
    OBVIOUS
  <2>1. CASE Fill
    <3>1. v + 1 \in Samples
      BY <2>1, Bounds DEF LoopInv, Fill, Largest
    <3> QED
      BY <2>1, <3>1 DEF LoopInv, Fill
  <2>2. CASE Done
    BY <2>2 DEF LoopInv, Done, Entry
  <2>3. CASE UNCHANGED vars
    BY <2>3 DEF LoopInv, vars, Entry
  <2> QED
    BY <2>1, <2>2, <2>3 DEF Next
<1> QED
  BY <1>1, <1>2, PTL DEF Spec

(* The pattern a sample is looked up by leads back to it.                  *)
LEMMA PatternIsSample ==
  ASSUME LoopInv
  PROVE  entry.idx \in 0 .. Largest - Least /\ Sample = v
<1>1. entry.idx = Pattern(v)
  BY DEF LoopInv, Entry
<1>2. v \in Int /\ v >= -32768 /\ v <= 32767
  BY Bounds DEF LoopInv
<1> QED
  BY <1>1, <1>2 DEF Pattern, Sample, Least, Largest

(* Each of the 65536 entries holds octets of the table's width which       *)
(* decode to its sample within half a step.                                *)
THEOREM TablesQuantise == Spec => []EncodersQuantise
<1> SUFFICES ASSUME LoopInv PROVE EncodersQuantise
  BY LoopInvariant, PTL
<1>1. /\ v \in Samples /\ Sample = v
      /\ entry.ulaw = siprec_l16_to_ulaw_ref(v)
      /\ entry.alaw = siprec_l16_to_alaw_ref(v)
  BY PatternIsSample DEF LoopInv, Entry
<1>2. TypeOK
  BY <1>1, PatternIsSample, UlawDecodes, AlawDecodes DEF TypeOK, LoopInv, Samples
<1>3. UlawQuantises
  <2> DEFINE p == Biased(v)
             c == Capped(Abs(v), CLIP)
  <2>1. /\ p \in Magnitudes /\ p >= BIAS /\ p - BIAS = c /\ p \in Nat
    BY <1>1, MagnitudesFit DEF Magnitudes
  <2>2. c + BIAS = p
    BY DEF Biased, Magnitude
  <2>3. DecodeUlaw(entry.ulaw) = SignOf(v) * UlawLevel(p)
    BY <1>1, UlawDecodes
  <2>4. /\ UlawLevel(p) \in Nat
        /\ Exponent(p) > 0 => Abs(UlawLevel(p) - c) <= HalfStep(Exponent(p))
    BY <2>1, UlawLevelIsNear
  <2>5. UlawError = Abs(SignOf(v) * UlawLevel(p) - SignOf(v) * c)
    BY <1>1, <2>3 DEF UlawError, SignOf
  <2> HIDE DEF p, c
  <2>6. Abs(SignOf(v) * UlawLevel(p) - SignOf(v) * c) = Abs(UlawLevel(p) - c)
    BY <2>1, <2>4 DEF SignOf, Abs, BIAS
  <2> QED
    BY <1>1, <2>2, <2>4, <2>5, <2>6 DEF UlawQuantises, c
<1>4. AlawQuantises
  BY <1>1, MagnitudesFit, AlawDecodes, AlawLevelIsNear DEF AlawQuantises, AlawMagnitude
<1> QED
  BY <1>2, <1>3, <1>4 DEF EncodersQuantise

(* From one entry to the next no octet decodes to less, and A-law's        *)
(* magnitudes fall towards zero and rise from it.                          *)
THEOREM TablesRise == Spec => TablesAreMonotone
<1> DEFINE before == Abs(DecodeAlaw(entry.alaw))
           after == Abs(DecodeAlaw(entry'.alaw))
           Rises == /\ DecodeUlaw(entry.ulaw) <= DecodeUlaw(entry'.ulaw)
                    /\ IF v < 0 THEN before >= after ELSE before <= after
<1>1. ASSUME LoopInv, Next
      PROVE  Rises \/ UNCHANGED vars
  <2>1. /\ v \in Samples /\ v \in Int
        /\ entry.ulaw = siprec_l16_to_ulaw_ref(v) /\ before = AlawLevel(AlawMagnitude(v))
    BY <1>1, Bounds, AlawDecodes DEF LoopInv, Entry
  <2>2. CASE Fill
    <3>1. /\ v + 1 \in Samples
          /\ entry'.ulaw = siprec_l16_to_ulaw_ref(v + 1)
          /\ after = AlawLevel(AlawMagnitude(v + 1))
      <4>1. v + 1 \in Samples /\ entry' = Entry(v + 1)
        BY <2>1, <2>2, Bounds DEF Fill, Largest
      <4> QED
        BY <4>1, AlawDecodes DEF Entry
    <3>2. DecodeUlaw(entry.ulaw) <= DecodeUlaw(entry'.ulaw)
      BY <2>1, <3>1, SamplesRise
    <3>3. CASE v >= 0
      BY <2>1, <3>1, <3>2, <3>3, SamplesRise
    <3>4. CASE v + 1 < 0
      BY <2>1, <3>1, <3>2, <3>4, SamplesRise
    <3>5. CASE v + 1 = 0
      <4>1. AlawMagnitude(v) = 0 /\ AlawMagnitude(v + 1) = 0
        <5>1. v + 1 = 0 /\ -v - 1 = 0 /\ v < 0
          BY <2>1, <3>5
        <5>2. AlawMagnitude(v) = -v - 1 /\ AlawMagnitude(0) = 0
          BY <5>1 DEF AlawMagnitude
        <5> QED
          BY <5>1, <5>2
      <4>2. after = before /\ AlawLevel(0) \in Nat /\ before \in Nat
        BY <2>1, <3>1, <4>1, AlawLevelIsNear, MagnitudesFit
      <4> HIDE DEF before, after
      <4> QED
        BY <3>2, <3>5, <4>2
    <3> QED
      BY <2>1, <3>3, <3>4, <3>5
  <2>3. CASE Done
    <3>1. entry' = entry
      BY <2>3 DEF Done
    <3>2. before \in Nat
      BY <2>1, MagnitudesFit, AlawLevelIsNear
    <3>3. DecodeUlaw(entry.ulaw) <= DecodeUlaw(entry.ulaw)
      BY <2>1, SamplesRise
    <3> QED
      BY <3>1, <3>2, <3>3
  <2> QED
    BY <1>1, <2>2, <2>3 DEF Next
<1> QED
  BY <1>1, LoopInvariant, PTL DEF Spec, TablesAreMonotone
=============================================================================
