---------------------------- MODULE WholeDocument ----------------------------
(***************************************************************************)
(* What siprec_sb.h promises its callers: fragments are handed over one by *)
(* one, and the document taken at the end is all of them in order, or      *)
(* there is no document.  How the text is kept meanwhile is no part of it. *)
(***************************************************************************)
EXTENDS Naturals, Sequences

VARIABLES
  stage,        \* "none", "open" while it is written, "whole" once taken
  asked,        \* the fragments handed over so far
  body          \* the document the caller holds

documentVars == <<stage, asked, body>>

Init ==
  /\ stage = "none"
  /\ asked = << >>
  /\ body = << >>

Begin ==
  /\ stage = "none"
  /\ stage' = "open"
  /\ UNCHANGED <<asked, body>>

(* One more fragment, whichever it is. *)
Ask ==
  /\ stage = "open"
  /\ Len(asked') = Len(asked) + 1
  /\ SubSeq(asked', 1, Len(asked)) = asked
  /\ UNCHANGED <<stage, body>>

TakeWhole ==
  /\ stage = "open"
  /\ stage' = "whole"
  /\ body' = asked
  /\ UNCHANGED asked

TakeNothing ==
  /\ stage = "open"
  /\ stage' = "none"
  /\ asked' = << >>
  /\ UNCHANGED body

Free ==
  /\ stage = "whole"
  /\ stage' = "none"
  /\ asked' = << >>
  /\ body' = << >>

Next ==
  \/ Begin \/ Ask \/ TakeWhole \/ TakeNothing \/ Free

Spec == Init /\ [][Next]_documentVars
=============================================================================
