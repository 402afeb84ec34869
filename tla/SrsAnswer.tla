------------------------------- MODULE SrsAnswer -------------------------------
(***************************************************************************)
(* From the SRS's SDP answer to the sockets of the fork: the line walk of  *)
(* siprec_sdp_parse_remote_streams (siprec_sdp.c), the fallbacks that      *)
(* siprec_invite_send applies to what it found (siprec_invite.c), and the  *)
(* streams siprec_media_attach opens from them (siprec_media.c).           *)
(* A line is what the parser tells apart: a c= line with its address, an   *)
(* m=audio line with its port and first payload type, any other m= line.   *)
(***************************************************************************)
EXTENDS Integers, Sequences, FiniteSetsExt

CONSTANTS
  Addresses,    \* texts a c= line may carry
  Usable,       \* those siprec_sdp_addr_kind takes for an IP address
  NoAddress,    \* the empty session_ip
  MaxStreams,   \* SIPREC_MAX_STREAMS
  MaxLines      \* bound of the model: lines of the answer

ASSUME AnswerAssumption ==
  /\ Usable \subseteq Addresses /\ NoAddress \notin Addresses
  /\ MaxStreams \in Nat /\ MaxStreams >= 2
  /\ MaxLines \in Nat

UNSET == 255                       \* SIPREC_PT_UNSET
G711 == {0, 8}                     \* PCMU, PCMA
Lines == [kind : {"c"}, ip : Addresses]
         \cup [kind : {"audio"}, port : {1}, pt : {0, 8, UNSET}]
         \cup [kind : {"audio"}, port : {0}, pt : {0}]
         \cup [kind : {"media"}]

VARIABLES
  answer,       \* the lines read so far (history)
  session_ip, seen_m, m_index, cur_idx,   \* the parser's locals
  out,          \* invite_ctx->negotiated, as far as filled
  phase,        \* read, choose, open, bug, attached or failed
  separate,     \* recording->separate
  count,        \* mctx->stream_count
  streams       \* mctx->streams: endpoint, codec, and whether the fd is open

parseVars == <<answer, session_ip, seen_m, m_index, cur_idx>>
vars == <<parseVars, out, phase, separate, count, streams>>

Init ==
  /\ answer = << >>
  /\ session_ip = NoAddress
  /\ seen_m = FALSE
  /\ m_index = -1
  /\ cur_idx = 0                   \* the code's -1: no stream
  /\ out = << >>
  /\ phase = "read"
  /\ separate \in BOOLEAN
  /\ count = 0
  /\ streams = << >>

-----------------------------------------------------------------------------
(* siprec_sdp_parse_remote_streams, line by line.                          *)

Reads(line) ==
  /\ phase = "read" /\ Len(answer) < MaxLines
  /\ answer' = Append(answer, line)
  /\ UNCHANGED <<phase, separate, count, streams>>

(* The stream a media-level c= line applies to.                            *)
FaultyTarget == Len(out)
Target == cur_idx

ReadConnection(line) ==
  /\ line.kind = "c" /\ Reads(line)
  /\ session_ip' = IF seen_m THEN session_ip ELSE line.ip
  /\ out' = IF seen_m /\ Target > 0 THEN [out EXCEPT ![Target].ip = line.ip] ELSE out
  /\ UNCHANGED <<seen_m, m_index, cur_idx>>

FaultyRoom == Len(out) <= MaxStreams
Room == Len(out) < MaxStreams

(* Declined (port 0) and surplus blocks commit no stream.                  *)
ReadAudio(line) ==
  /\ line.kind = "audio" /\ Reads(line)
  /\ seen_m' = TRUE
  /\ m_index' = m_index + 1
  /\ IF line.port > 0 /\ Room
     THEN /\ out' = Append(out, [ip |-> session_ip, pt |-> line.pt, mline |-> m_index + 1])
          /\ cur_idx' = Len(out) + 1
     ELSE /\ cur_idx' = 0
          /\ UNCHANGED out
  /\ UNCHANGED session_ip

ReadMedia(line) ==
  /\ line.kind = "media" /\ Reads(line)
  /\ seen_m' = TRUE
  /\ m_index' = m_index + 1
  /\ cur_idx' = 0
  /\ UNCHANGED <<session_ip, out>>

-----------------------------------------------------------------------------
(* siprec_invite_send, once the answer is read.                            *)

(* A stream without a usable payload type takes the codec FreeSWITCH       *)
(* negotiated on the SRS leg.                                              *)
WithLegCodec(s, leg_pt) ==
  IF s.pt \notin G711 /\ leg_pt \in G711 THEN [s EXCEPT !.pt = leg_pt] ELSE s

(* No stream in the answer: remote_media_ip and port, if they are valid.   *)
FromChannel ==
  {<< >>} \cup {<<[ip |-> a, pt |-> UNSET, mline |-> 0]>> : a \in Addresses}

EndOfAnswer ==
  /\ phase = "read"
  /\ \E found \in IF out = << >> THEN FromChannel ELSE {out}, leg_pt \in G711 \cup {UNSET} :
       out' = [i \in DOMAIN found |-> WithLegCodec(found[i], leg_pt)]
  /\ phase' = "choose"
  /\ UNCHANGED <<parseVars, separate, count, streams>>

-----------------------------------------------------------------------------
(* siprec_media_attach.                                                    *)

(* Separate mode needs both offered m= lines accepted, and a mono leg.     *)
FaultySeparable(multichannel) == Len(out) >= 2 /\ ~multichannel
Separable(multichannel) ==
  /\ Len(out) >= 2 /\ out[1].mline = 0 /\ out[2].mline = 1
  /\ ~multichannel

ChooseStreams(multichannel) ==
  /\ phase = "choose"
  /\ IF out = << >>
     THEN phase' = "failed" /\ UNCHANGED count
     ELSE phase' = "open" /\ count' = IF separate /\ Separable(multichannel) THEN 2 ELSE 1
  /\ UNCHANGED <<parseVars, out, separate, streams>>

FaultyCodec(s, call_pt) == call_pt
Codec(s, call_pt) == IF s.pt \in G711 THEN s.pt ELSE call_pt

OpenStream(call_pt) ==
  LET s == out[Len(streams) + 1] IN
  /\ phase = "open" /\ Len(streams) < count
  /\ s.ip \in Usable
  /\ streams' = Append(streams, [ip |-> s.ip, pt |-> Codec(s, call_pt), open |-> TRUE])
  /\ phase' = IF Len(streams) + 1 = count THEN "bug" ELSE "open"
  /\ UNCHANGED <<parseVars, out, separate, count>>

Close(s) == [s EXCEPT !.open = FALSE]
FaultyClosed == [i \in DOMAIN streams |-> IF i = count THEN Close(streams[i]) ELSE streams[i]]
Closed == [i \in DOMAIN streams |-> Close(streams[i])]

(* Not an address, or no socket for it, or no media bug: what was opened   *)
(* is closed again.                                                        *)
AttachFails ==
  /\ phase \in {"open", "bug"}
  /\ streams' = Closed
  /\ phase' = "failed"
  /\ UNCHANGED <<parseVars, out, separate, count>>

BugAdded ==
  /\ phase = "bug"
  /\ phase' = "attached"
  /\ UNCHANGED <<parseVars, out, separate, count, streams>>

Next ==
  \/ \E line \in Lines : ReadConnection(line) \/ ReadAudio(line) \/ ReadMedia(line)
  \/ EndOfAnswer
  \/ \E multichannel \in BOOLEAN : ChooseStreams(multichannel)
  \/ \E call_pt \in G711 : OpenStream(call_pt)
  \/ AttachFails \/ BugAdded

Spec == Init /\ [][Next]_vars

-----------------------------------------------------------------------------
(* What the answer says, read as a whole.                                  *)

MLines == {i \in DOMAIN answer : answer[i].kind # "c"}
Accepted == {i \in MLines : answer[i].kind = "audio" /\ answer[i].port > 0}
Before(i) == Cardinality({j \in MLines : j < i})

(* The c= lines of the section that m= line i opens, or of the session.    *)
SectionOf(i) == {j \in DOMAIN answer :
  answer[j].kind = "c" /\ j > i /\ \A m \in MLines : m > i => j < m}
AddressIn(C, otherwise) == IF C = {} THEN otherwise ELSE answer[Max(C)].ip
AddressOf(i) == AddressIn(SectionOf(i), AddressIn(SectionOf(0), NoAddress))

(* The first MaxStreams accepted m= lines, in order.                       *)
Streams == {i \in Accepted : Cardinality({j \in Accepted : j < i}) < MaxStreams}

(* The octets and integers keep their type, and no array is overrun.       *)
TypeOK ==
  /\ session_ip \in Addresses \cup {NoAddress}
  /\ cur_idx \in 0 .. Len(out)
  /\ m_index \in -1 .. MaxLines
  /\ Len(out) <= MaxStreams /\ Len(streams) <= Len(out)
  /\ \A i \in DOMAIN out : out[i] \in
       [ip : Addresses \cup {NoAddress}, pt : G711 \cup {UNSET}, mline : Nat]

(* The parser's running state agrees with the answer read as a whole: each *)
(* accepted stream has the address of its own section, else the session's, *)
(* and no other section's c= line reaches it.                              *)
AnswerIsRead ==
  phase = "read" =>
    /\ Len(out) = Cardinality(Streams)
    /\ \A i \in Streams :
         out[Cardinality({j \in Streams : j <= i})] =
           [ip |-> AddressOf(i), pt |-> answer[i].pt, mline |-> Before(i)]

(* Two separate streams go to the SRS's answers to the two offered m=      *)
(* lines, in order: a=label:1 is never fed what label 2 was answered for.  *)
LabelsMatchOffer ==
  phase = "attached" /\ count = 2 =>
    \A n \in {1, 2} : \E i \in Accepted :
      Before(i) = n - 1 /\ streams[n].ip = AddressOf(i)

(* "The bytes on the wire must follow the answer": a stream is encoded in  *)
(* what the SRS answered for it or, failing that, in what was negotiated   *)
(* on its leg, and always in G.711.                                        *)
CodecFollowsAnswer ==
  phase = "attached" => \A n \in 1 .. count :
    /\ streams[n].pt \in G711
    /\ \A i \in Accepted : Before(i) = out[n].mline /\ answer[i].pt \in G711
         => streams[n].pt = answer[i].pt
    /\ out[n].pt \in G711 => streams[n].pt = out[n].pt

(* A failed attach leaves no socket open, a working one leaves them all.   *)
NoSocketLeaks ==
  /\ phase = "failed" => \A n \in DOMAIN streams : ~streams[n].open
  /\ phase = "attached" => Len(streams) = count /\ \A n \in DOMAIN streams : streams[n].open
=============================================================================
