------------------------------- MODULE RtpFork -------------------------------
(***************************************************************************)
(* siprec_media.c's fork of one recording: the RTP clock, sequence number  *)
(* and marker of each stream, driven by the media bug's READ_PING and by   *)
(* siprec_media_set_paused. Time advances in units of the 8 kHz clock      *)
(* (many samples to a unit); a frame is Tick of them.                      *)
(*                                                                         *)
(* External, modelled as the code uses it: the core pings once per frame   *)
(* time, just after writing the frame read, if any, to the bug's buffer;   *)
(* frames the call sends arrive when they arrive; bug_read takes one frame *)
(* of each direction that has any, and with fill only if both do, so a     *)
(* ping yields at most one packet per stream; a bug flagged SMBF_PAUSE is  *)
(* skipped altogether. An app runs on the thread that reads the call, so   *)
(* a pause or a resume and a ping do not overlap.                          *)
(***************************************************************************)
EXTENDS Integers, FiniteSetsExt

CONSTANTS
  Streams,     \* the stream indexes attach set up: {0}, or {0, 1}
  Tick,        \* clock units per frame
  ClockMod,    \* 2^32, scaled down
  SeqMod,      \* 2^16, scaled down
  FirstStamp,  \* each stream's random initial timestamp
  FirstSeq,    \* ... and sequence number
  MaxTime, MaxBacklog, MaxPauses   \* bounds of the model

ASSUME ForkAssumption ==
  /\ Tick \in Nat \ {0} /\ SeqMod \in Nat \ {0} /\ ClockMod \in Nat \ {0}
  /\ FirstStamp \in [Streams -> 0 .. ClockMod - 1]
  /\ FirstSeq \in [Streams -> 0 .. SeqMod - 1]

VARIABLES
  now,         \* the wall clock
  pinged,      \* this frame time's READ_PING is over
  spoken,      \* frames in the bug's write buffer
  timestamp, sequence, marker_pending,   \* per stream
  sent,        \* per stream, the header of the packet sent last
  bug,         \* the bug is attached
  leg_gone,    \* recording->leg_gone
  flag,        \* SMBF_PAUSE
  paused_at,   \* mctx->paused_at, -1 for none
  pauses       \* how often the fork was gated (history)

callVars == <<now, pinged, spoken, leg_gone>>
streamVars == <<timestamp, sequence, marker_pending, sent>>
pauseVars == <<flag, paused_at, pauses>>
vars == <<callVars, streamVars, bug, pauseVars>>

NoPacket == [seq |-> -1, ts |-> -1, mark |-> FALSE]

Init ==
  /\ now = 0 /\ pinged = TRUE /\ spoken = 0 /\ leg_gone = FALSE
  /\ timestamp = FirstStamp
  /\ sequence = FirstSeq
  /\ marker_pending = [s \in Streams |-> TRUE]
  /\ sent = [s \in Streams |-> NoPacket]
  /\ bug = TRUE
  /\ flag = FALSE /\ paused_at = -1 /\ pauses = 0

-----------------------------------------------------------------------------
(* The call's side.                                                        *)

(* The reader is about to ping the bug.                                    *)
PingDue == bug /\ ~flag /\ ~pinged

(* A unit of time.                                                         *)
Pass ==
  /\ now < MaxTime /\ ~PingDue
  /\ now' = now + 1
  /\ pinged' = ((now + 1) % Tick # 0)
  /\ UNCHANGED <<spoken, leg_gone, streamVars, bug, pauseVars>>

(* The reader skips a gated bug.                                           *)
SkipPing ==
  /\ flag /\ ~pinged
  /\ pinged' = TRUE
  /\ UNCHANGED <<now, spoken, leg_gone, streamVars, bug, pauseVars>>

Speak ==
  /\ bug /\ ~flag /\ spoken < MaxBacklog
  /\ spoken' = spoken + 1
  /\ UNCHANGED <<now, pinged, leg_gone, streamVars, bug, pauseVars>>

LegEnds ==
  /\ ~leg_gone
  /\ leg_gone' = TRUE
  /\ UNCHANGED <<now, pinged, spoken, streamVars, bug, pauseVars>>

(* SWITCH_ABC_TYPE_CLOSE: the core or siprec_media_detach removed the bug. *)
Close ==
  /\ bug
  /\ bug' = FALSE
  /\ UNCHANGED <<callVars, streamVars, pauseVars>>

-----------------------------------------------------------------------------
(* media_bug_callback on READ_PING.                                        *)

Stamp(n) == n % ClockMod
NextSeq(n) == (n + 1) % SeqMod

(* send_stream, for each stream; a send that fails uses its number up too. *)
Send ==
  /\ sent' = [s \in Streams |-> [seq |-> sequence[s], ts |-> timestamp[s],
                                 mark |-> marker_pending[s]]]
  /\ sequence' = [s \in Streams |-> NextSeq(sequence[s])]
  /\ timestamp' = [s \in Streams |-> Stamp(timestamp[s] + Tick)]
  /\ marker_pending' = [s \in Streams |-> FALSE]

(* Nothing to send: the clock runs on and the next packet is marked.       *)
FaultySilenceOne ==
  /\ timestamp' = [timestamp EXCEPT ![0] = Stamp(@ + Tick)]
  /\ marker_pending' = [marker_pending EXCEPT ![0] = TRUE]
  /\ UNCHANGED <<sequence, sent>>
FaultySilenceMute ==
  /\ timestamp' = [s \in Streams |-> Stamp(timestamp[s] + Tick)]
  /\ UNCHANGED <<marker_pending, sequence, sent>>
Silence ==
  /\ timestamp' = [s \in Streams |-> Stamp(timestamp[s] + Tick)]
  /\ marker_pending' = [s \in Streams |-> TRUE]
  /\ UNCHANGED <<sequence, sent>>

(* The frame read was arrived, or none; an unusable frame (no resampler,   *)
(* not the stereo layout asked for) is consumed all the same.              *)
ReadPing(arrived, usable) ==
  /\ PingDue /\ ~leg_gone
  /\ pinged' = TRUE
  /\ spoken' = Max({0, spoken - 1})
  /\ IF usable /\ (arrived \/ spoken > 0) THEN Send ELSE Silence
  /\ UNCHANGED <<now, leg_gone, bug, pauseVars>>

(* The SRS ended the leg: returning FALSE has the core remove the bug.     *)
ReadPingEnds ==
  /\ PingDue /\ leg_gone
  /\ bug' = FALSE
  /\ UNCHANGED <<callVars, streamVars, pauseVars>>

-----------------------------------------------------------------------------
(* siprec_media_set_paused.                                                *)

FaultyPausedAt == now
PausedAt == IF paused_at = -1 THEN now ELSE paused_at

Pause ==
  /\ bug
  /\ flag \/ pauses < MaxPauses
  /\ flag' = TRUE
  /\ paused_at' = PausedAt
  /\ pauses' = IF flag THEN pauses ELSE pauses + 1
  /\ UNCHANGED <<callVars, streamVars, bug>>

(* The clock makes up for the pause, and whether or not there was one the  *)
(* next packet is marked.                                                  *)
Resume ==
  LET gap == IF paused_at = -1 THEN 0 ELSE now - paused_at IN
  /\ bug
  /\ timestamp' = [s \in Streams |-> Stamp(timestamp[s] + gap)]
  /\ marker_pending' = [s \in Streams |-> TRUE]
  /\ paused_at' = -1
  /\ flag' = FALSE
  /\ UNCHANGED <<callVars, sequence, sent, bug, pauses>>

-----------------------------------------------------------------------------
Next ==
  \/ Pass \/ SkipPing \/ Speak \/ LegEnds \/ Close
  \/ \E arrived, usable \in BOOLEAN : ReadPing(arrived, usable)
  \/ ReadPingEnds
  \/ Pause \/ Resume

Spec == Init /\ [][Next]_vars

-----------------------------------------------------------------------------
(* Properties.                                                             *)

(* Every variable keeps its type; the header fields stay within their      *)
(* width.                                                                  *)
TypeOK ==
  /\ now \in Nat /\ pinged \in BOOLEAN /\ spoken \in Nat /\ leg_gone \in BOOLEAN
  /\ timestamp \in [Streams -> 0 .. ClockMod - 1]
  /\ sequence \in [Streams -> 0 .. SeqMod - 1]
  /\ marker_pending \in [Streams -> BOOLEAN]
  /\ sent \in [Streams -> {NoPacket} \cup
                 [seq : 0 .. SeqMod - 1, ts : 0 .. ClockMod - 1, mark : BOOLEAN]]
  /\ bug \in BOOLEAN /\ flag \in BOOLEAN
  /\ paused_at \in Nat \cup {-1} /\ pauses \in Nat

Advance(s) == Stamp(timestamp[s] - FirstStamp[s])

(* Separate mode's two streams share "one RTP clock": whatever silence,    *)
(* pauses and wrap-arounds came between, an SRS can align their packets.   *)
StreamsInLockStep ==
  \A s, u \in Streams :
    /\ Advance(s) = Advance(u)
    /\ (sequence[s] - FirstSeq[s]) % SeqMod = (sequence[u] - FirstSeq[u]) % SeqMod
    /\ marker_pending[s] = marker_pending[u]

(* "The RTP clock keeps running": through silence, pauses, pauses of what  *)
(* is paused and resumes of what is not, a running fork's clock is off the *)
(* wall clock by less than a frame for every pause, plus the frame due.    *)
ClockKeepsTime ==
  bug /\ ~flag => \A s \in Streams :
    LET behind == Stamp(now - Advance(s)) IN
    behind <= Tick * (pauses + 1) \/ behind >= ClockMod - Tick * pauses

(* A receiver is never misled: sequence numbers have no gap, and a packet  *)
(* without the marker carries on exactly where its predecessor ended.      *)
PacketsContiguous ==
  [][\A s \in Streams : sent[s] # NoPacket /\ sent'[s] # sent[s] =>
       /\ sent'[s].seq = NextSeq(sent[s].seq)
       /\ ~sent'[s].mark => sent'[s].ts = Stamp(sent[s].ts + Tick)]_vars
=============================================================================
