------------------------- MODULE StringBuilderProofs -------------------------
(***************************************************************************)
(* For every initial capacity, ceiling and range of size_t: the builder    *)
(* stays inside its buffer, owns one block of the heap or none, and yields *)
(* the whole text or nothing.                                              *)
(***************************************************************************)
EXTENDS StringBuilder, TLAPS

BuilderTypeOK ==
  /\ stage \in {"none", "open", "whole"}
  /\ data \in BOOLEAN /\ err \in BOOLEAN /\ starved \in BOOLEAN
  /\ cap \in Nat /\ len \in Nat /\ blocks \in Nat
  /\ text \in Seq(Fragments) /\ asked \in Seq(Fragments) /\ body \in Seq(Fragments)

(* Without a buffer there is no text, and outside sb_init .. sb_take there *)
(* is no buffer.                                                           *)
EmptyBuffer ==
  /\ ~data => len = 0 /\ cap = 0 /\ text = << >>
  /\ stage # "open" => ~data

(* Until an error is latched the buffer holds all that was asked for.      *)
TextIsAsked ==
  /\ stage = "open" /\ ~err => text = asked
  /\ stage = "open" => body = << >>
  /\ stage = "whole" => body = asked
  /\ stage = "none" => asked = << >> /\ body = << >>

OneBlock == blocks = IF data \/ stage = "whole" THEN 1 ELSE 0

BuilderInv == BuilderTypeOK /\ EmptyBuffer /\ NoOverrun /\ TextIsAsked /\ OneBlock

-----------------------------------------------------------------------------
(* A size that fits a size_t is not changed by its arithmetic.             *)
LEMMA WrapFits == \A x \in 0 .. SizeMax : Wrap(x) = x
BY BuilderAssumption DEF Wrap

(* What sb_can_grow_by admits has room for its NUL below the ceiling: the  *)
(* first two tests rule out every wrap of the third.                       *)
LEMMA GrowthFits ==
  ASSUME len \in Nat, len <= MaxCap, NEW n \in 1 .. SizeMax, CanGrowBy(n)
  PROVE  /\ len + n + 1 <= MaxCap
         /\ Wanted(n) = len + n + 1
         /\ Wrap(len + n) = len + n
<1>1. n <= SizeMax - 1
  BY BuilderAssumption DEF CanGrowBy
<1>2. Wrap(SizeMax - n - 1) = SizeMax - n - 1
  BY <1>1, WrapFits, BuilderAssumption
<1>3. len + n + 1 \in 0 .. SizeMax
  BY <1>1, <1>2, BuilderAssumption DEF CanGrowBy
<1>4. Wrap(len + n + 1) = len + n + 1 /\ Wrap(len + n) = len + n
  BY <1>3, WrapFits, BuilderAssumption
<1> QED
  BY <1>3, <1>4, BuilderAssumption DEF CanGrowBy, Wanted

(* sb_reserve finds a capacity that covers want and stays below twice the  *)
(* ceiling.                                                                *)
LEMMA CapacityFits ==
  ASSUME cap \in Nat, cap < 2 * MaxCap, NEW want \in 1 .. MaxCap, NEW c \in NewCaps(want)
  PROVE  c \in Nat /\ want <= c /\ c < 2 * MaxCap
<1> DEFINE first == IF cap = 0 THEN MinCap ELSE cap
<1>1. first \in Nat /\ first < 2 * MaxCap
  BY BuilderAssumption
<1>2. CASE first >= want
  BY <1>1, <1>2 DEF NewCaps
<1>3. CASE ~(first >= want)
  <2>1. c \in want .. 2 * want - 1
    BY <1>3 DEF NewCaps
  <2> QED
    BY <2>1, BuilderAssumption
<1> QED
  BY <1>2, <1>3

-----------------------------------------------------------------------------
(* sb_init leaves an empty builder, of which the invariant holds.          *)
LEMMA BuilderInitInv == BuilderInit => BuilderInv
<1> SUFFICES ASSUME BuilderInit PROVE BuilderInv
  OBVIOUS
<1> USE DEF BuilderInit
<1>1. BuilderTypeOK
  <2>1. << >> \in Seq(Fragments)
    OBVIOUS
  <2>2. text = << >> /\ asked = << >> /\ body = << >>
    OBVIOUS
  <2>3. data \in BOOLEAN /\ err \in BOOLEAN /\ starved \in BOOLEAN
    OBVIOUS
  <2>4. stage \in {"none", "open", "whole"} /\ cap \in Nat /\ len \in Nat /\ blocks \in Nat
    OBVIOUS
  <2> QED
    BY <2>1, <2>2, <2>3, <2>4 DEF BuilderTypeOK
<1>2. EmptyBuffer /\ NoOverrun /\ TextIsAsked
  BY DEF EmptyBuffer, NoOverrun, TextIsAsked
<1>3. OneBlock
  BY DEF OneBlock
<1> QED
  BY <1>1, <1>2, <1>3 DEF BuilderInv

(* A write leaves the text inside the capacity it has reserved.            *)
LEMMA WriteTextInv ==
  ASSUME BuilderInv, NEW f \in Fragments, NEW n \in 1 .. SizeMax, WriteText(f, n)
  PROVE  BuilderInv'
<1> USE DEF BuilderInv
<1>1. stage = "open" /\ ~err /\ CanGrowBy(n)
  BY DEF WriteText, Hand
<1>2. len <= MaxCap /\ cap < 2 * MaxCap
  BY BuilderAssumption DEF NoOverrun, EmptyBuffer, BuilderTypeOK
<1>3. len + n + 1 <= MaxCap /\ Wanted(n) = len + n + 1 /\ Wrap(len + n) = len + n
  BY <1>1, <1>2, GrowthFits DEF BuilderTypeOK
<1>4. len' = len + n /\ len' \in Nat /\ len' < MaxCap
  BY <1>3, BuilderAssumption DEF WriteText, BuilderTypeOK
<1>5. cap' \in Nat /\ len' < cap' /\ cap' < 2 * MaxCap /\ data' = TRUE
      /\ blocks' = 1
  <2>1. CASE Wanted(n) <= cap
    <3>1. cap' = cap /\ data' = data /\ blocks' = blocks
      BY <2>1, <1>3, BuilderAssumption DEF WriteText, BuilderTypeOK
    <3>2. data = TRUE
      BY <2>1, <1>3, BuilderAssumption DEF EmptyBuffer, BuilderTypeOK
    <3> QED
      BY <3>1, <3>2, <2>1, <1>2, <1>3, <1>4 DEF OneBlock, BuilderTypeOK
  <2>2. CASE Wanted(n) > cap
    <3>1. cap' \in NewCaps(Wanted(n)) /\ data' = TRUE
      BY <2>2, <1>3, BuilderAssumption DEF WriteText, BuilderTypeOK
    <3>2. blocks' = IF data THEN blocks ELSE blocks + 1
      BY <2>2, <1>3, BuilderAssumption DEF WriteText, BuilderTypeOK
    <3>3. blocks' = 1
      BY <3>2, <1>1 DEF OneBlock
    <3>4. Wanted(n) \in 1 .. MaxCap
      BY <1>3, BuilderAssumption DEF BuilderTypeOK
    <3>5. cap' \in Nat /\ Wanted(n) <= cap' /\ cap' < 2 * MaxCap
      BY <3>1, <3>4, <1>2, CapacityFits DEF BuilderTypeOK
    <3> QED
      BY <3>1, <3>3, <3>5, <1>3, <1>4
  <2>3. Wanted(n) <= cap \/ Wanted(n) > cap
    <3>1. cap \in Int /\ len + n + 1 \in Int
      BY DEF BuilderTypeOK
    <3> QED
      BY <3>1, <1>3
  <2> QED
    BY <2>1, <2>2, <2>3, Zenon
<1>6. stage' = stage /\ body' = body /\ err' = err /\ starved' = starved
      /\ text' = Append(text, f) /\ asked' = Append(asked, f)
  BY DEF WriteText, Hand
<1>7. BuilderTypeOK'
  BY <1>4, <1>5, <1>6 DEF BuilderTypeOK
<1>8. EmptyBuffer' /\ NoOverrun' /\ OneBlock'
  BY <1>1, <1>4, <1>5, <1>6 DEF EmptyBuffer, NoOverrun, OneBlock
<1>9. TextIsAsked'
  BY <1>1, <1>6 DEF TextIsAsked
<1> QED
  BY <1>7, <1>8, <1>9

(* Every append, refusal, failure and the final take keep the invariant.   *)
LEMMA BuilderStepInv ==
  ASSUME BuilderInv, [BuilderNext]_builderVars
  PROVE  BuilderInv'
<1> USE DEF BuilderInv, BuilderTypeOK, EmptyBuffer, NoOverrun, TextIsAsked, OneBlock
<1>1. CASE BeginText
  BY <1>1 DEF BeginText, NoBuffer
<1>2. CASE TakeWhole
  BY <1>2 DEF TakeWhole, NoBuffer
<1>3. CASE TakeNothing
  <2>1. << >> \in Seq(Fragments)
    OBVIOUS
  <2>2. blocks = IF data THEN 1 ELSE 0
    BY <1>3 DEF TakeNothing
  <2>3. blocks' = 0
    BY <1>3, <2>2 DEF TakeNothing
  <2>4. stage' = "none" /\ data' = FALSE /\ cap' = 0 /\ len' = 0 /\ text' = << >>
        /\ err' = FALSE /\ starved' = FALSE /\ asked' = << >> /\ body' = body /\ body = << >>
    BY <1>3 DEF TakeNothing, NoBuffer
  <2>5. BuilderTypeOK'
    BY <2>1, <2>3, <2>4
  <2>6. EmptyBuffer' /\ NoOverrun' /\ TextIsAsked' /\ OneBlock'
    BY <2>3, <2>4
  <2> QED
    BY <2>5, <2>6
<1>4. CASE FreeBody
  BY <1>4 DEF FreeBody, bufferVars
<1>5. ASSUME NEW f \in Fragments, NEW n \in 1 .. SizeMax, Write(f, n)
      PROVE  BuilderInv'
  <2>1. CASE SkipText(f)
    BY <2>1 DEF SkipText, Hand, bufferVars
  <2>2. CASE RefuseText(f, n)
    BY <2>2 DEF RefuseText, Hand, bufferVars
  <2>3. CASE NoMemory(f, n)
    BY <2>3 DEF NoMemory, Hand, bufferVars
  <2>4. CASE WriteText(f, n)
    BY <2>4, WriteTextInv
  <2> QED
    BY <1>5, <2>1, <2>2, <2>3, <2>4 DEF Write
<1>6. CASE UNCHANGED builderVars
  BY <1>6 DEF builderVars, bufferVars
<1> QED
  BY <1>1, <1>2, <1>3, <1>4, <1>5, <1>6 DEF BuilderNext

(* The builder's inductive invariant.                                      *)
THEOREM BuilderInvariant == BuilderSpec => []BuilderInv
<1>1. BuilderInit => BuilderInv
  BY BuilderInitInv
<1>2. BuilderInv /\ [BuilderNext]_builderVars => BuilderInv'
  BY BuilderStepInv
<1> QED
  BY <1>1, <1>2, PTL DEF BuilderSpec

(* No sequence of appends, of whatever lengths and with whatever failures  *)
(* of the allocator, writes outside the buffer or overflows its doubling.  *)
THEOREM BuilderNeverOverruns == BuilderSpec => []NoOverrun
<1>1. BuilderInv => NoOverrun
  BY DEF BuilderInv
<1> QED
  BY <1>1, BuilderInvariant, PTL

-----------------------------------------------------------------------------
(* An append, written or lost, is a fragment more asked for.               *)
LEMMA AskMaps ==
  ASSUME BuilderInv, NEW f \in Fragments, NEW n \in 1 .. SizeMax, Write(f, n)
  PROVE  Document!Ask
<1>1. stage = "open" /\ asked' = Append(asked, f) /\ stage' = stage /\ body' = body
  BY DEF Write, SkipText, RefuseText, NoMemory, WriteText, Hand
<1>2. asked \in Seq(Fragments)
  BY DEF BuilderInv, BuilderTypeOK
<1>3. Len(asked') = Len(asked) + 1 /\ SubSeq(asked', 1, Len(asked)) = asked
  BY <1>1, <1>2
<1> QED
  BY <1>1, <1>3 DEF Document!Ask

(* Each step of the builder is one of the document or changes nothing of   *)
(* it.                                                                     *)
LEMMA BuilderStepMaps ==
  ASSUME BuilderInv, [BuilderNext]_builderVars
  PROVE  [Document!Next]_(Document!documentVars)
<1> USE DEF Document!Next, Document!documentVars
<1>1. CASE BeginText
  BY <1>1 DEF BeginText, Document!Begin
<1>2. CASE TakeWhole
  BY <1>2 DEF TakeWhole, Document!TakeWhole, BuilderInv, TextIsAsked
<1>3. CASE TakeNothing
  BY <1>3 DEF TakeNothing, Document!TakeNothing
<1>4. CASE FreeBody
  BY <1>4 DEF FreeBody, Document!Free
<1>5. ASSUME NEW f \in Fragments, NEW n \in 1 .. SizeMax, Write(f, n)
      PROVE  Document!Ask
  BY <1>5, AskMaps
<1>6. CASE UNCHANGED builderVars
  BY <1>6 DEF builderVars
<1> QED
  BY <1>1, <1>2, <1>3, <1>4, <1>5, <1>6 DEF BuilderNext

(* The builder implements the all-or-nothing document: what sb_take hands  *)
(* over is every fragment in order, however the allocator behaved.         *)
THEOREM BuilderImplementsDocument == BuilderSpec => ImplementsDocument
<1>1. BuilderInit => Document!Init
  BY DEF BuilderInit, Document!Init
<1>2. BuilderInv /\ [BuilderNext]_builderVars => [Document!Next]_(Document!documentVars)
  BY BuilderStepMaps
<1> QED
  BY <1>1, <1>2, BuilderInvariant, PTL DEF BuilderSpec, ImplementsDocument, Document!Spec
=============================================================================
