------------------------ MODULE MCRecordingRegistry ------------------------
(* Model values and symmetry for RecordingRegistry. *)
EXTENDS RecordingRegistry, TLC

CONSTANTS c1, c2, h1, h2, r1, r2, r3, t1, t2, t3

MCCalls == {c1}
MCTwoCalls == {c1, c2}
MCHandles == {h1, h2}
MCOneHandle == {h1}
MCRecs == {r1, r2, r3}
MCTwoRecs == {r1, r2}
MCThreads == {t1, t2, t3}
MCTwoThreads == {t1, t2}
MCSymmetry == Permutations(Recs) \cup Permutations(Threads) \cup Permutations(Handles)
=============================================================================
