------------------------------ MODULE MCRtpFork ------------------------------
(* Two streams whose headers wrap within the bounded run. *)
EXTENDS RtpFork, TLC

MCStreams == {0, 1}
MCFirstStamp == (0 :> 0) @@ (1 :> 21)
MCFirstSeq == (0 :> 2) @@ (1 :> 0)
=============================================================================
