-------------------------------- MODULE G711 --------------------------------
(***************************************************************************)
(* siprec_g711.c: the two encoders and the loop of siprec_g711_init that   *)
(* fills the lookup tables from them. The state is the loop's; of the      *)
(* tables it keeps the entry written last, so an invariant over all states *)
(* speaks of every entry. The decoders are those of tests/live/check.py,   *)
(* the repository's own statement of what the octets mean.                 *)
(***************************************************************************)
EXTENDS Integers, FiniteSetsExt

VARIABLES
  v,      \* the loop's sample
  built,  \* siprec_g711_init's static flag
  entry   \* the entry written last: its index and the two octets

vars == <<v, built, entry>>

Least == -32768     \* INT16_MIN
Largest == 32767    \* INT16_MAX
BIAS == 132
CLIP == 32635

Sign(s) == IF s < 0 THEN 128 ELSE 0
Abs(n) == IF n < 0 THEN -n ELSE n
Capped(p, most) == IF p > most THEN most ELSE p

(* The mask loop: which of the eight segments p falls into.                *)
Exponent(p) == Max({0} \cup {e \in 1 .. 7 : p >= 2 ^ (e + 7)})

Nibble(p, shift) == (p \div 2 ^ shift) % 16

(* The int16_t negation the encoder's comment warns of.                    *)
FaultyMagnitude(s) == IF s = Least THEN Least ELSE Abs(s)
Magnitude(s) == Abs(s)

FaultyBiased(s) == Magnitude(s) + BIAS
Biased(s) == Capped(Magnitude(s), CLIP) + BIAS

siprec_l16_to_ulaw_ref(s) ==
  LET p == Biased(s)
      e == Exponent(p)
      m == Nibble(p, IF e = 0 THEN 4 ELSE e + 3)
  IN 255 - (Sign(s) + e * 16 + m)

(* alaw ^ 0x55: bits 0, 2, 4 and 6 of the octet are inverted.             *)
Bit(octet, n) == (octet \div 2 ^ n) % 2
EvenBitsInverted(octet) ==
  octet + 85 - 2 * (Bit(octet, 0) + 4 * Bit(octet, 2) + 16 * Bit(octet, 4) + 64 * Bit(octet, 6))

AlawShift(e) == IF e < 1 THEN 4 ELSE e + 3

siprec_l16_to_alaw_ref(s) ==
  LET p == IF s < 0 THEN -s - 1 ELSE s
      e == Exponent(p)
  IN EvenBitsInverted(Sign(s) + e * 16 + Nibble(p, AlawShift(e)))

(* (uint16_t)(int16_t)v, the pattern a sample is looked up by.             *)
Pattern(s) == s % (Largest - Least + 1)

Entry(s) == [idx |-> Pattern(s),
             ulaw |-> siprec_l16_to_ulaw_ref(s),
             alaw |-> siprec_l16_to_alaw_ref(s)]

Init == v = Least /\ built = FALSE /\ entry = Entry(Least)

Fill ==
  /\ ~built /\ v < Largest
  /\ v' = v + 1
  /\ entry' = Entry(v + 1)
  /\ UNCHANGED built

Done ==
  /\ ~built /\ v = Largest
  /\ built' = TRUE
  /\ UNCHANGED <<v, entry>>

Next == Fill \/ Done
Spec == Init /\ [][Next]_vars

-----------------------------------------------------------------------------
(* check.py: ulaw(b) and alaw(b).                                          *)
Segment(code) == (code \div 16) % 8

DecodeUlaw(b) ==
  LET c == 255 - b
      a == ((c % 16) * 8 + BIAS) * 2 ^ Segment(c) - BIAS
  IN IF c >= 128 THEN -a ELSE a

DecodeAlaw(b) ==
  LET c == EvenBitsInverted(b)
      e == Segment(c)
      a == IF e = 0 THEN (c % 16) * 16 + 8
           ELSE ((c % 16) * 16 + 264) * 2 ^ (e - 1)
  IN IF c >= 128 THEN a ELSE -a

(* The sample whose 16-bit pattern indexes the entry.                      *)
Sample == IF entry.idx > Largest THEN entry.idx - (Largest - Least + 1) ELSE entry.idx

(* Half the step between the levels of a segment: the most a quantiser may *)
(* be wrong by.                                                            *)
HalfStep(e) == 2 ^ (e + 2)

UlawError == Abs(DecodeUlaw(entry.ulaw) -
                 (IF Sample < 0 THEN -1 ELSE 1) * Capped(Abs(Sample), CLIP))

(* Every table index and octet is in range.                                *)
TypeOK ==
  /\ v \in Least .. Largest
  /\ built \in BOOLEAN
  /\ entry.idx \in 0 .. Largest - Least
  /\ entry.ulaw \in 0 .. 255 /\ entry.alaw \in 0 .. 255

(* Above the lowest segment the mu-law octet found under a sample's        *)
(* pattern decodes to that sample within half a step, INT16_MIN included.  *)
UlawQuantises ==
  LET e == Exponent(Capped(Abs(Sample), CLIP) + BIAS) IN
  e > 0 => UlawError <= HalfStep(e)

(* The A-law octet decodes to the sample's magnitude within half a step in *)
(* every segment (its negative side is shifted by one).                    *)
AlawQuantises ==
  LET p == IF Sample < 0 THEN -Sample - 1 ELSE Sample
      e == Exponent(p)
  IN Abs(Abs(DecodeAlaw(entry.alaw)) - p) <= HalfStep(IF e = 0 THEN 1 ELSE e)

(* What the encoders put into the tables for any of the 65536 patterns:    *)
(* within the tables, and the sample it stands for.                        *)
EncodersQuantise == TypeOK /\ UlawQuantises /\ AlawQuantises

(* A louder sample is never encoded as a quieter one: mu-law rises with    *)
(* the sample, A-law magnitude with the sample's.                          *)
TablesAreMonotone ==
  [][/\ DecodeUlaw(entry.ulaw) <= DecodeUlaw(entry'.ulaw)
     /\ LET before == Abs(DecodeAlaw(entry.alaw))
            after == Abs(DecodeAlaw(entry'.alaw))
        IN IF v < 0 THEN before >= after ELSE before <= after]_vars

(* A statement of the documentation that does not hold.                    *)

(* siprec_g711.h calls the encoders "the canonical branch-based G.711      *)
(* quantisers": also in the lowest segment a sample is encoded as the      *)
(* octet of the nearest level and of its own sign. Silence shows both      *)
(* laws: mu-law should decode to 0 and A-law to its least positive level.  *)
SilenceIsCanonical ==
  Sample = 0 =>
    /\ UlawError <= HalfStep(0)
    /\ DecodeAlaw(entry.alaw) \in 0 .. HalfStep(1)
=============================================================================
