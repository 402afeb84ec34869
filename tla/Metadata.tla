------------------------------ MODULE Metadata ------------------------------
(***************************************************************************)
(* The RFC 7865 document of a recording (siprec_metadata.c) and what       *)
(* start_recording_session puts into it: the session's identifier, the two *)
(* participants and the streams.  A document is its sequence of elements;  *)
(* markup is left out, and an element counts as long as its AOR.           *)
(***************************************************************************)
EXTENDS Integers, Sequences

(***************************************************************************)
(* siprec_metadata_uuid_to_id: base64 of the 16 bytes of a UUID with or    *)
(* without its hyphens, or of a CallSid, "CA" and 32 hex digits.  A name   *)
(* is the sequence of its characters.                                      *)
(***************************************************************************)
NoId == << >>
Lower == <<"0","1","2","3","4","5","6","7","8","9","a","b","c","d","e","f">>
Upper == <<"0","1","2","3","4","5","6","7","8","9","A","B","C","D","E","F">>

HexNibble(c) ==
  IF \E d \in 1 .. 16 : c \in {Lower[d], Upper[d]}
  THEN (CHOOSE d \in 1 .. 16 : c \in {Lower[d], Upper[d]}) - 1
  ELSE -1

HyphensAt == {8, 13, 18, 23}

(* What the loop makes of the characters from i on, counted from 0 as the  *)
(* code does: their bytes, or nothing once one does not fit.               *)
Refused == [ok |-> FALSE, bytes |-> << >>]
Scan(uuid) ==
  LET len == Len(uuid)
      c(i) == uuid[i + 1]
      from[i \in 0 .. len] ==
        IF i = len THEN [ok |-> TRUE, bytes |-> << >>]
        ELSE IF len = 36 /\ i \in HyphensAt
        THEN IF c(i) = "-" THEN from[i + 1] ELSE Refused
        ELSE IF i + 1 >= len \/ HexNibble(c(i)) < 0 \/ HexNibble(c(i + 1)) < 0 THEN Refused
        ELSE LET rest == from[i + 2]
             IN [rest EXCEPT !.bytes = <<16 * HexNibble(c(i)) + HexNibble(c(i + 1))>> \o @]
  IN from

BytesOf(uuid) ==
  LET all == IF Len(uuid) \in {32, 36} THEN Scan(uuid)[0] ELSE Refused
  IN IF all.ok /\ Len(all.bytes) = 16 THEN all.bytes ELSE NoId

Stripped(name) ==
  IF Len(name) = 34 /\ name[1] = "C" /\ name[2] = "A" THEN SubSeq(name, 3, 34) ELSE name

(* Five groups of three bytes and one byte alone, as base64 digits; 64 is  *)
(* the padding.                                                            *)
FaultyBase64(bytes) ==             \* the last two bits not shifted into place
  LET group(g) == bytes[3 * g + 1] * 65536 + bytes[3 * g + 2] * 256 + bytes[3 * g + 3]
  IN [j \in 1 .. 24 |->
        IF j <= 20 THEN (group((j - 1) \div 4) \div 64 ^ (3 - ((j - 1) % 4))) % 64
        ELSE IF j = 21 THEN bytes[16] \div 4
        ELSE IF j = 22 THEN bytes[16] % 4
        ELSE 64]

Base64(bytes) ==
  LET group(g) == bytes[3 * g + 1] * 65536 + bytes[3 * g + 2] * 256 + bytes[3 * g + 3]
  IN [j \in 1 .. 24 |->
        IF j <= 20 THEN (group((j - 1) \div 4) \div 64 ^ (3 - ((j - 1) % 4))) % 64
        ELSE IF j = 21 THEN bytes[16] \div 4
        ELSE IF j = 22 THEN (bytes[16] % 4) * 16
        ELSE 64]

UuidToId(name) ==
  LET bytes == BytesOf(Stripped(name)) IN IF bytes = NoId THEN NoId ELSE Base64(bytes)

(* What an identifier promises. A UUID is 32 hex digits, alone or in       *)
(* groups of 8, 4, 4, 4 and 12 with a hyphen before each but the first; a  *)
(* name carries one as it stands or behind a CallSid's "CA".               *)
HexChars == {Lower[d] : d \in 1 .. 16} \cup {Upper[d] : d \in 1 .. 16}

HyphensBefore(n) ==
  IF n <= 8 THEN 0 ELSE IF n <= 12 THEN 1 ELSE IF n <= 16 THEN 2 ELSE IF n <= 20 THEN 3 ELSE 4

Digit(uuid, n) == uuid[IF Len(uuid) = 36 THEN n + HyphensBefore(n) ELSE n]

IsUuid(s) ==
  /\ \/ Len(s) = 32
     \/ Len(s) = 36 /\ \A h \in {9, 14, 19, 24} : s[h] = "-"
  /\ \A n \in 1 .. 32 : Digit(s, n) \in HexChars

CarriesUuid(name) == IsUuid(Stripped(name))

(* Byte k of 0 .. 15, from the four digits of its group; padding is 0.     *)
Value(id, n) == IF id[n] = 64 THEN 0 ELSE id[n]
DecodedByte(id, k) ==
  LET g == 4 * (k \div 3)
      v == ((Value(id, g + 1) * 64 + Value(id, g + 2)) * 64 + Value(id, g + 3)) * 64
           + Value(id, g + 4)
  IN (v \div (256 ^ (2 - (k % 3)))) % 256

IdentifiesUuid(name) ==
  LET uuid == Stripped(name)
      id == UuidToId(name)
  IN /\ CarriesUuid(name) <=> id # NoId
     /\ CarriesUuid(name) => \A k \in 0 .. 15 :
          DecodedByte(id, k) =
            16 * HexNibble(Digit(uuid, 2 * k + 1)) + HexNibble(Digit(uuid, 2 * k + 2))

(* siprec_metadata_session_id: which name the session's identifier is of.  *)
SessionId(name, fresh) ==
  IF UuidToId(name) # NoId THEN "call" ELSE IF UuidToId(fresh) # NoId THEN "fresh" ELSE ""

-----------------------------------------------------------------------------
(* siprec_metadata_aor and recording_aor: a raw value has the scheme, user *)
(* and host it spells, "" for each it lacks.                               *)

Unset == [scheme |-> "", user |-> "", host |-> ""]

MetadataAor(raw, host) ==
  IF raw.scheme # "" THEN raw
  ELSE IF raw.host # "" THEN [raw EXCEPT !.scheme = "sip"]
  ELSE [raw EXCEPT !.scheme = "sip", !.host = IF host = "" THEN "invalid" ELSE host]

Unknown == [scheme |-> "sip", user |-> "unknown", host |-> "invalid"]

(* made: the string builder got the memory for it. *)
RecordingAor(uri, fallback, host, made) ==
  LET raw == IF uri = Unset THEN fallback ELSE uri
  IN IF raw = Unset \/ ~made THEN Unknown ELSE MetadataAor(raw, host)

-----------------------------------------------------------------------------
(* The options start_recording_session fills in; participant 1 is the      *)
(* caller and 2 the callee, rx the one this leg hears.                     *)

Rx(direction) == IF direction = "inbound" THEN 1 ELSE 2

(* Who is heard on stream 1; the mixed one has no single speaker and is    *)
(* attributed to the caller by convention.                                 *)
FaultyStreamOne(direction, separate) == 1
StreamOne(direction, separate) == IF separate THEN Rx(direction) ELSE 1

Options(session, caller, callee, direction, separate) ==
  [session_id |-> session, group_id |-> "group", time |-> "now", datamode |-> "complete",
   participants |-> <<[id |-> "caller", aor |-> caller], [id |-> "callee", aor |-> callee]>>,
   streams |-> SubSeq(<<[id |-> "stream", mode |-> "send", label |-> "1",
                         who |-> StreamOne(direction, separate)],
                        [id |-> "stream2", mode |-> "send", label |-> "2",
                         who |-> 3 - Rx(direction)]>>,
                      1, IF separate THEN 2 ELSE 1)]

(* validate_options. *)
ValidOptions(o) ==
  /\ o.session_id # ""
  /\ o.participants # << >>
  /\ \A i \in 1 .. Len(o.participants) :
        o.participants[i].id # "" /\ o.participants[i].aor # Unset
  /\ \A i \in 1 .. Len(o.streams) :
        o.streams[i].id # "" /\ o.streams[i].who \in 1 .. Len(o.participants)

-----------------------------------------------------------------------------
(* siprec_metadata_build: the elements it appends, in the order it does.   *)

Each(s, Element(_)) == [i \in 1 .. Len(s) |-> Element(s[i])]

Participant(p) == [tag |-> "participant", id |-> p.id, aor |-> p.aor]

Groups(o) ==
  IF o.group_id = "" THEN << >> ELSE <<[tag |-> "group", id |-> o.group_id, time |-> o.time]>>
Sessions(o) ==
  <<[tag |-> "session", id |-> o.session_id, group |-> o.group_id, time |-> o.time]>>
Streams(o) ==
  LET stream(s) == [tag |-> "stream", id |-> s.id, session |-> o.session_id, label |-> s.label]
  IN Each(o.streams, stream)
SessionAssocs(o) ==
  LET assoc(p) == [tag |-> "participantsessionassoc", participant |-> p.id,
                   session |-> o.session_id, time |-> o.time]
  IN Each(o.participants, assoc)

StreamAssocs(o) ==
  LET assoc(s) == [tag |-> "participantstreamassoc", stream |-> s.id, mode |-> s.mode,
                   participant |-> o.participants[s.who].id]
  IN Each(o.streams, assoc)

Elements(o) ==
  <<[tag |-> "recording"], [tag |-> "datamode", mode |-> o.datamode]>>
  \o Groups(o) \o Sessions(o) \o Each(o.participants, Participant) \o Streams(o)
  \o SessionAssocs(o) \o StreamAssocs(o) \o <<[tag |-> "end"]>>

-----------------------------------------------------------------------------
(* What a document says.                                                   *)

Tagged(doc, tag) == {doc[i] : i \in {j \in 1 .. Len(doc) : doc[j].tag = tag}}

Rank == [recording |-> 1, datamode |-> 2, group |-> 3, session |-> 4, participant |-> 5,
         stream |-> 6, participantsessionassoc |-> 7, participantstreamassoc |-> 8, end |-> 9]

(* Elements come in the order of the schema, each reference names an       *)
(* element that stands before it, and every stream is sent by one          *)
(* participant: nothing is dangling and nothing is left unattributed.      *)
WellFormed(doc) ==
  /\ \A i, j \in 1 .. Len(doc) : i < j => Rank[doc[i].tag] <= Rank[doc[j].tag]
  /\ doc[1].tag = "recording" /\ doc[Len(doc)].tag = "end"
  /\ \A s \in Tagged(doc, "stream") :
        /\ \E u \in Tagged(doc, "session") : u.id = s.session
        /\ \E a \in Tagged(doc, "participantstreamassoc") :
              /\ a.stream = s.id
              /\ \A b \in Tagged(doc, "participantstreamassoc") : b.stream = s.id => a = b
  /\ \A a \in Tagged(doc, "participantsessionassoc") \cup Tagged(doc, "participantstreamassoc") :
        \E p \in Tagged(doc, "participant") : p.id = a.participant

Labels(doc) == {s.label : s \in Tagged(doc, "stream")}

(* The participant whose voice the stream with that label is said to be.   *)
SpeakerOf(doc, label) ==
  LET s == CHOOSE x \in Tagged(doc, "stream") : x.label = label
      a == CHOOSE x \in Tagged(doc, "participantstreamassoc") : x.stream = s.id
  IN a.participant
=============================================================================
