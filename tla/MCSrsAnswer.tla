----------------------------- MODULE MCSrsAnswer -----------------------------
(* Two IP addresses and a text that is none. *)
EXTENDS SrsAnswer, TLC

CONSTANTS a1, a2, name

MCAddresses == {a1, a2, name}
MCUsable == {a1, a2}
MCSymmetry == Permutations(MCUsable)
=============================================================================
