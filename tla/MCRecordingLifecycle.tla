------------------------ MODULE MCRecordingLifecycle ------------------------
(* Model values for RecordingLifecycle. *)
EXTENDS RecordingLifecycle, TLC

CONSTANTS c1, h1, h2, r1, r2, t1, t2, u

MCCalls == {c1}
MCHandles == {h1, h2}
MCOneHandle == {h1}
MCRecs == {r1, r2}
MCOneRec == {r1}

(* One session thread runs the call's apps; u unloads. *)
MCSerialThreads == {t1, u}
MCSerialThreadCall == (t1 :> c1) @@ (u :> NULL)
MCOwnThread == c1 :> t1

(* Two threads run apps on the call at once, and u unloads. *)
MCConcurrentThreads == {t1, t2, u}
MCConcurrentThreadCall == (t1 :> c1) @@ (t2 :> c1) @@ (u :> NULL)

MCSymmetry == Permutations(Recs) \cup Permutations(Handles)

=============================================================================
