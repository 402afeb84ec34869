---------------------------- MODULE StringBuilder ----------------------------
(***************************************************************************)
(* The growable string of siprec_sb.c: sizes are size_t and wrap, the      *)
(* buffer doubles, and the first allocation failure, overflow or breach of *)
(* SB_MAX_CAP latches err, which only sb_take looks at.  A fragment is     *)
(* what one call appends; its bytes are counted and not spelled out.       *)
(***************************************************************************)
EXTENDS Integers, Sequences

CONSTANTS
  Fragments,
  MinCap,       \* the 256 the buffer starts from
  MaxCap,       \* SB_MAX_CAP
  SizeMax       \* SIZE_MAX

ASSUME BuilderAssumption ==
  /\ MinCap \in Nat \ {0} /\ MaxCap \in Nat /\ SizeMax \in Nat
  /\ MinCap < 2 * MaxCap /\ 2 * MaxCap <= SizeMax

VARIABLES
  stage,        \* "none", "open" (between sb_init and sb_take), "whole"
  data,         \* sb->data is not NULL
  cap, len, err,
  text,         \* the fragments whose bytes the buffer holds
  blocks,       \* heap blocks that this builder or its document owns
  body,         \* the document sb_take handed over
  asked,        \* the fragments the caller appended (history)
  starved       \* an allocation or an encoding has failed (history)

bufferVars == <<data, cap, len, text>>
builderVars == <<stage, bufferVars, err, blocks, body, asked, starved>>

(* A size_t holds the sum or the difference of two size_t modulo its range. *)
Wrap(x) ==
  IF x > SizeMax THEN x - (SizeMax + 1)
  ELSE IF x < 0 THEN x + (SizeMax + 1) ELSE x

NoBuffer == data' = FALSE /\ cap' = 0 /\ len' = 0 /\ text' = << >>

BuilderInit ==
  /\ stage = "none"
  /\ data = FALSE /\ cap = 0 /\ len = 0 /\ text = << >>
  /\ err = FALSE
  /\ blocks = 0
  /\ body = << >> /\ asked = << >> /\ starved = FALSE

(* sb_init. *)
BeginText ==
  /\ stage = "none"
  /\ stage' = "open"
  /\ err' = FALSE
  /\ NoBuffer
  /\ UNCHANGED <<blocks, body, asked, starved>>

-----------------------------------------------------------------------------
(* sb_append and sb_appendf of a fragment of n bytes, n > 0; an encoding   *)
(* failure is an n of SIZE_MAX, the negative result of vsnprintf as size_t. *)

CanGrowBy(extra) ==
  /\ ~(extra > SizeMax - 1)
  /\ ~(len > Wrap(SizeMax - extra - 1))
  /\ ~(Wrap(len + extra + 1) > MaxCap)

FaultyWanted(n) == Wrap(len + n)
Wanted(n) == Wrap(len + n + 1)

(* sb_reserve doubles until want is covered: the one doubling in want ..   *)
(* 2 * want - 1, unless the buffer it starts from is large enough.         *)
NewCaps(want) ==
  LET start == IF cap = 0 THEN MinCap ELSE cap IN
  IF start >= want THEN {start}
  ELSE {c \in want .. 2 * want - 1 : \E k \in 1 .. want : c = start * 2 ^ k}

Hand(f) ==
  /\ stage = "open"
  /\ asked' = Append(asked, f)
  /\ UNCHANGED <<stage, body>>

SkipText(f) ==
  /\ err
  /\ Hand(f)
  /\ UNCHANGED <<bufferVars, err, blocks, starved>>

RefuseText(f, n) ==
  /\ ~err /\ ~CanGrowBy(n)
  /\ Hand(f)
  /\ err' = TRUE
  /\ starved' = (starved \/ n = SizeMax)
  /\ UNCHANGED <<bufferVars, blocks>>

(* The realloc returns NULL: the old block is still the buffer's. *)
FaultyNoMemory(f, n) ==
  /\ ~err /\ CanGrowBy(n) /\ Wanted(n) > cap
  /\ Hand(f)
  /\ err' = TRUE
  /\ starved' = TRUE
  /\ data' = FALSE
  /\ UNCHANGED <<cap, len, text, blocks>>

NoMemory(f, n) ==
  /\ ~err /\ CanGrowBy(n) /\ Wanted(n) > cap
  /\ Hand(f)
  /\ err' = TRUE
  /\ starved' = TRUE
  /\ UNCHANGED <<bufferVars, blocks>>

WriteText(f, n) ==
  /\ ~err /\ CanGrowBy(n)
  /\ Hand(f)
  /\ \/ /\ Wanted(n) <= cap
        /\ UNCHANGED <<data, cap, blocks>>
     \/ /\ Wanted(n) > cap
        /\ cap' \in NewCaps(Wanted(n))
        /\ data' = TRUE
        /\ blocks' = IF data THEN blocks ELSE blocks + 1
  /\ len' = Wrap(len + n)
  /\ text' = Append(text, f)
  /\ UNCHANGED <<err, starved>>

Write(f, n) == SkipText(f) \/ RefuseText(f, n) \/ NoMemory(f, n) \/ WriteText(f, n)

-----------------------------------------------------------------------------
(* sb_take.  Shrinking the block may fail; either way the caller owns one. *)

FaultyTakeWhole ==                 \* err is not looked at
  /\ stage = "open" /\ data
  /\ stage' = "whole"
  /\ body' = text
  /\ NoBuffer
  /\ UNCHANGED <<err, blocks, asked, starved>>

TakeWhole ==
  /\ stage = "open" /\ ~err /\ data
  /\ stage' = "whole"
  /\ body' = text
  /\ NoBuffer
  /\ UNCHANGED <<err, blocks, asked, starved>>

TakeNothing ==
  /\ stage = "open" /\ (err \/ ~data)
  /\ stage' = "none"
  /\ blocks' = IF data THEN blocks - 1 ELSE blocks
  /\ asked' = << >>
  /\ err' = FALSE
  /\ starved' = FALSE
  /\ NoBuffer
  /\ UNCHANGED body

(* siprec_metadata_free by the owner of the document. *)
FreeBody ==
  /\ stage = "whole"
  /\ stage' = "none"
  /\ blocks' = blocks - 1
  /\ body' = << >> /\ asked' = << >>
  /\ UNCHANGED <<bufferVars, err, starved>>

BuilderNext ==
  \/ BeginText \/ TakeWhole \/ TakeNothing \/ FreeBody
  \/ \E f \in Fragments, n \in 1 .. SizeMax : Write(f, n)

BuilderSpec == BuilderInit /\ [][BuilderNext]_builderVars

-----------------------------------------------------------------------------
(* What is written and its terminating NUL lie inside the buffer, and the  *)
(* doubling never reaches past the next power of two above SB_MAX_CAP, so  *)
(* it cannot overflow: the claim of sb_reserve's comment.                  *)
NoOverrun == data => len < cap /\ len < MaxCap /\ cap < 2 * MaxCap

(* The builder yields the whole text it was given, or none: never a        *)
(* document that lost a fragment to a failed allocation in the middle.     *)
Document == INSTANCE WholeDocument
ImplementsDocument == Document!Spec
=============================================================================
