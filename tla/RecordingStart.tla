--------------------------- MODULE RecordingStart ---------------------------
(***************************************************************************)
(* One start of a recording from the siprec app to its published outcome:  *)
(* siprec_start_app (mod_siprec.c), start_recording_session                *)
(* (recording_session.c), the metadata it builds and the failover walk     *)
(* (siprec_invite.c), while the module may be unloaded and other threads   *)
(* may stop the recording.  Which of two starts of a handle wins is        *)
(* RecordingRegistry's subject; here the duplicate check only answers.     *)
(***************************************************************************)
EXTENDS ServerTable, StringBuilder, Metadata, FiniteSetsExt

CONSTANTS
  Args,         \* the app's arguments: a handle and an ad hoc URI, or NoUri
  Calls,        \* what channels say of their call: name, direction, parties
  ChannelNames, \* what a channel may be called, as characters
  FreshUuid,    \* a name switch_uuid_str makes
  NoUri, NoArgs, NoCall,
  AorLen(_),    \* escaped length of an AOR
  MaxAttempts   \* SIPREC_FAILOVER_MAX_ATTEMPTS

(* A channel gives its parties' URI, number and host; an argument that is  *)
(* a URI has a length.                                                     *)
Parties == [scheme : STRING, user : STRING, host : STRING]

ASSUME StartAssumption ==
  /\ MaxAttempts \in Nat \ {0}
  /\ ChannelNames \cup {FreshUuid} \subseteq Seq(STRING)
  /\ CarriesUuid(FreshUuid)
  /\ \A a \in Args : a.uri # NoUri => a.uri.len \in Nat
  /\ \A c \in Calls :
       /\ c.from \in Parties /\ c.fromNumber \in Parties
       /\ c.to \in Parties /\ c.toNumber \in Parties
       /\ c.name \in ChannelNames

VARIABLES
  start,        \* the start that runs, or Idle
  status        \* siprec_start_status

vars == <<tableVars, builderVars, start, status>>

Idle ==
  [pc       |-> "idle",     \* then check, insert, compose, build, profile,
                            \* walk, attach, release, publish and done
   args     |-> NoArgs,
   chain    |-> << >>,      \* recording->server: the candidates
   separate |-> FALSE,      \* recording->separate
   call     |-> NoCall,     \* what was read from the channel, and its AORs
   todo     |-> << >>,      \* the elements still to append
   pool     |-> "none",     \* the recording's pool: then "live" and "freed"
   doomed   |-> FALSE,      \* another thread has stopped the pinned recording
   taken    |-> FALSE,      \* another thread has torn the released one down
   invites  |-> << >>,      \* the INVITEs sent (history)
   dialog   |-> "none",     \* of the recording leg: then "up", and "ended" by
                            \* the module or "gone" by the SRS
   attached |-> FALSE,      \* siprec_media_attach has succeeded, no detach yet
   result   |-> "",         \* what siprec_start_app returns
   reason   |-> ""]         \* the failure that is logged (history)

At(pc) == start.pc = pc
Registered == start.pc \in {"compose", "build", "profile", "walk", "attach", "release"}

Init == TableInit /\ BuilderInit /\ start = Idle /\ status = ""

-----------------------------------------------------------------------------
(* The app: the outcome of the last start is cleared before this one runs. *)

StartApp ==
  /\ At("idle") /\ module = "loaded"
  /\ \E a \in Args : start' = [Idle EXCEPT !.pc = "check", !.args = a]
  /\ status' = ""
  /\ UNCHANGED <<tableVars, builderVars>>

GoesOn(s) == start' = s /\ UNCHANGED status
Ends(outcome, s) == GoesOn([s EXCEPT !.pc = "publish", !.result = outcome])
Fails(why, s) == Ends("failed", [s EXCEPT !.reason = why])

(* discard_pending_recording, a release of a doomed recording or a stop of *)
(* one that is not pinned: whoever lets go last detaches the fork, ends    *)
(* the dialog if there still is one and frees the pool.                    *)
Discarded(s) ==
  [s EXCEPT !.pool = "freed", !.attached = FALSE,
            !.dialog = IF @ = "up" THEN "ended" ELSE @]

UriRefused == start.args.uri # NoUri /\ UriCheck(start.args.uri) # ""

(* A refused URI, no handle, src-enabled off, no established media or no   *)
(* memory pool.                                                            *)
RefuseStart ==
  /\ At("check")
  /\ Fails(CASE UriRefused -> "bad uri"
             [] ~UriRefused /\ start.args.handle = "" -> "usage"
             [] OTHER -> "disabled", start)
  /\ UNCHANGED <<tableVars, builderVars>>

(* The mode of the whole start is that of the first candidate, or the      *)
(* global one where it does not say.                                       *)
Candidates(a) ==
  IF a.uri # NoUri THEN AdHoc(a.uri)
  ELSE IF a.handle \in Names THEN Snapshot(a.handle) ELSE << >>

ModeOf(server, global) == IF server.separate >= 0 THEN server.separate = 1 ELSE global

NoServer ==
  /\ At("check") /\ ~UriRefused /\ start.args.handle # ""
  /\ Candidates(start.args) = << >>
  /\ Fails("no server", [start EXCEPT !.pool = "freed"])
  /\ UNCHANGED <<tableVars, builderVars>>

Resolve ==
  /\ At("check") /\ ~UriRefused /\ start.args.handle # ""
  /\ LET found == Candidates(start.args) IN
       /\ found # << >>
       /\ \E global \in BOOLEAN :
            GoesOn([start EXCEPT !.pc = "insert", !.pool = "live", !.chain = found,
                                 !.separate = ModeOf(found[1], global)])
  /\ UNCHANGED <<tableVars, builderVars>>

(* Another recording is live under the handle: it keeps running. *)
Exists ==
  /\ At("insert")
  /\ Ends("exists", [start EXCEPT !.pool = "freed"])
  /\ UNCHANGED <<tableVars, builderVars>>

Insert ==
  /\ At("insert")
  /\ GoesOn([start EXCEPT !.pc = "compose"])
  /\ UNCHANGED <<tableVars, builderVars>>

-----------------------------------------------------------------------------
(* The metadata: AORs, identifiers and options, then element by element.   *)

Aors(c, made) ==
  [caller |-> RecordingAor(c.from, c.fromNumber, c.fromHost, "caller" \in made),
   callee |-> RecordingAor(c.to, c.toNumber, c.toHost, "callee" \in made)]

OptionsOf(c, aors, two) ==
  Options(SessionId(c.name, FreshUuid), aors.caller, aors.callee, c.direction, two)

Compose ==
  /\ At("compose")
  /\ \E c \in Calls, made \in SUBSET {"caller", "callee"} :
       LET o == OptionsOf(c, Aors(c, made), start.separate)
           read == [start EXCEPT !.call = [channel |-> c, aors |-> Aors(c, made)]]
       IN IF ValidOptions(o)
          THEN BeginText /\ GoesOn([read EXCEPT !.pc = "build", !.todo = Elements(o)])
          ELSE Fails("invalid options", Discarded(read)) /\ UNCHANGED builderVars
  /\ UNCHANGED tableVars

(* A participant counts its AOR; any other element counts one byte. *)
Size(e) == IF e.tag = "participant" THEN 1 + AorLen(e.aor) ELSE 1

(* What a start may append is among the fragments, and its length is a     *)
(* size_t's.                                                               *)
ASSUME ElementsAssumption ==
  \A c \in Calls, made \in SUBSET {"caller", "callee"}, two \in BOOLEAN :
    LET all == Elements(OptionsOf(c, Aors(c, made), two))
    IN \A i \in 1 .. Len(all) : all[i] \in Fragments /\ Size(all[i]) \in 1 .. SizeMax

AppendElement ==
  /\ At("build") /\ start.todo # << >>
  /\ \E n \in {Size(Head(start.todo)), SizeMax} : Write(Head(start.todo), n)
  /\ GoesOn([start EXCEPT !.todo = Tail(@)])
  /\ UNCHANGED tableVars

BodyBuilt ==
  /\ At("build") /\ start.todo = << >>
  /\ TakeWhole
  /\ GoesOn([start EXCEPT !.pc = "profile"])
  /\ UNCHANGED tableVars

BuildFails ==
  /\ At("build") /\ start.todo = << >>
  /\ TakeNothing
  /\ Fails("no metadata", Discarded(start))
  /\ UNCHANGED tableVars

NoProfile ==
  /\ At("profile")
  /\ FreeBody
  /\ Fails("no profile", Discarded(start))
  /\ UNCHANGED tableVars

Profile ==
  /\ At("profile")
  /\ GoesOn([start EXCEPT !.pc = "walk"])
  /\ UNCHANGED <<tableVars, builderVars>>

-----------------------------------------------------------------------------
(* The failover walk, one candidate at a time; each INVITE waits for its   *)
(* answer or its timeout with no lock held.                                *)

FaultyMayAttempt ==
  Len(start.invites) < MaxAttempts - 1 /\ Len(start.invites) < Len(start.chain)
MayAttempt ==
  Len(start.invites) < MaxAttempts /\ Len(start.invites) < Len(start.chain)

(* siprec_invite_append_sdp: the labels of the streams that are offered. *)
OfferLabels == IF start.separate THEN {"1", "2"} ELSE {"1"}

Invited ==
  LET server == start.chain[Len(start.invites) + 1]
  IN [start EXCEPT !.invites =
        Append(@, [entry |-> server.entry, uri |-> UriFor(server), labels |-> OfferLabels])]

InviteFails ==
  /\ At("walk") /\ MayAttempt
  /\ GoesOn(Invited)
  /\ UNCHANGED <<tableVars, builderVars>>

InviteAnswered ==
  /\ At("walk") /\ MayAttempt
  /\ FreeBody
  /\ GoesOn([Invited EXCEPT !.pc = "attach", !.dialog = "up"])
  /\ UNCHANGED tableVars

Exhausted ==
  /\ At("walk") /\ ~MayAttempt
  /\ FreeBody
  /\ Fails("exhausted", Discarded(start))
  /\ UNCHANGED tableVars

Attach ==
  /\ At("attach")
  /\ GoesOn([start EXCEPT !.pc = "release", !.attached = TRUE])
  /\ UNCHANGED <<tableVars, builderVars>>

AttachFails ==
  /\ At("attach")
  /\ Fails("not attached", Discarded(start))
  /\ UNCHANGED <<tableVars, builderVars>>

(* release_recording of the start's own pin. *)
FaultyRelease ==                   \* its answer is not looked at
  /\ At("release")
  /\ Ends("success", IF start.doomed THEN Discarded(start) ELSE start)
  /\ UNCHANGED <<tableVars, builderVars>>

Release ==
  /\ At("release")
  /\ IF start.doomed THEN Fails("stopped", Discarded(start)) ELSE Ends("success", start)
  /\ UNCHANGED <<tableVars, builderVars>>

(* siprec_outcome_set, with what the start returned a moment ago. *)
Publish ==
  /\ At("publish")
  /\ start' = [start EXCEPT !.pc = "done"]
  /\ status' = start.result
  /\ UNCHANGED <<tableVars, builderVars>>

(* The app has returned; the recording is the registry's from here on. *)
Return ==
  /\ At("done")
  /\ GoesOn(Idle)
  /\ UNCHANGED <<tableVars, builderVars>>

-----------------------------------------------------------------------------
(* The other threads: a hangup of the call or of the leg, a siprec_stop or *)
(* an unload takes the recording out of the table.  It dooms a pinned one, *)
(* and tears down one the start has let go of, be its outcome published or *)
(* not.  The unload frees the server table too.  An unload before the      *)
(* recording is in the table would have the start use what the unload      *)
(* destroyed: see RecordingLifecycle's unload.                             *)

Released == start.pc \in {"publish", "done"} /\ start.result = "success"
Listed == (Registered /\ ~start.doomed) \/ (Released /\ ~start.taken)
Removed ==
  IF Registered THEN [start EXCEPT !.doomed = TRUE]
  ELSE [Discarded(start) EXCEPT !.taken = TRUE]

Stopped ==
  /\ Listed
  /\ GoesOn(Removed)
  /\ UNCHANGED <<tableVars, builderVars>>

Unload ==
  /\ module = "loaded" /\ start.pc \notin {"check", "insert"}
  /\ FreeServers
  /\ GoesOn(IF Listed THEN Removed ELSE start)
  /\ UNCHANGED builderVars

(* The SRS ends the leg, before its watcher is bound or after: the start   *)
(* does not look.                                                          *)
LegEnds ==
  /\ start.dialog = "up"
  /\ GoesOn([start EXCEPT !.dialog = "gone"])
  /\ UNCHANGED <<tableVars, builderVars>>

Configure ==
  /\ \/ \E e \in Entries : LoadEntry(e)
     \/ LoadDone
     \/ LoadFails
     \/ At("idle") /\ Reload
  /\ UNCHANGED <<builderVars, start, status>>

Next ==
  \/ Configure \/ Unload \/ Stopped \/ LegEnds
  \/ StartApp \/ RefuseStart \/ NoServer \/ Resolve \/ Exists \/ Insert
  \/ Compose \/ AppendElement \/ BodyBuilt \/ BuildFails \/ NoProfile \/ Profile
  \/ InviteFails \/ InviteAnswered \/ Exhausted
  \/ Attach \/ AttachFails \/ Release \/ Publish \/ Return

Spec == Init /\ [][Next]_vars

-----------------------------------------------------------------------------
(* The INVITEs go to the good entries of the handle in the order of the    *)
(* file, each once and no more than MaxAttempts, whatever the unload does  *)
(* to the table meanwhile; an ad hoc start dials its one URI.              *)
WalkFollowsConfig ==
  LET sent == start.invites
      entries == [i \in 1 .. Len(sent) |-> sent[i].entry]
  IN /\ Len(sent) <= MaxAttempts
     /\ sent # << >> =>
          IF start.args.uri # NoUri THEN Len(sent) = 1 /\ sent[1].uri = start.args.uri
          ELSE Lists(entries, {e \in GoodOf(start.args.handle) : e <= entries[Len(sent)]})

(* The candidates are read from memory that is still there: the walk       *)
(* outlasts an unload, which frees the entries of the table.               *)
WalkReadsLiveMemory ==
  start.pc \in {"insert", "compose", "build", "profile", "walk"} =>
    \A i \in 1 .. Len(start.chain) :
      IF start.chain[i].home = "recording" THEN start.pool = "live"
      ELSE start.chain[i].entry \in pools

(* Whatever is put into the dial string, from the configuration or from    *)
(* the dialplan, has only characters of the allowlist and the length the   *)
(* check admits, and would pass the whole check again, but for a host      *)
(* whose end and the colon of the port make a ":_:" (nobody checks the URI *)
(* that is built); and a configured server is dialled at its own host,     *)
(* port and transport, in the sips scheme exactly for TLS, if the host is  *)
(* short enough for the buffer of siprec_uri_for.                          *)
DialsItsServer ==
  \A i \in 1 .. Len(start.invites) :
    LET uri == start.invites[i].uri
        e == config[start.invites[i].entry]
    IN /\ uri.clean /\ uri.len <= UriMaxLen
       /\ UriCheck(uri) # "" => start.args.uri = NoUri /\ e.host.closes
       /\ start.args.uri = NoUri =>
            /\ e.port \in 0 .. MaxPort
            /\ uri.scheme = "sips" <=> e.transport = "tls"
            /\ e.host.len <= 230 =>
                 /\ uri.host = e.host.id
                 /\ uri.port = IF e.port = 0 THEN 5060 ELSE e.port
                 /\ uri.transport = IF e.transport \in {"", "udp"} THEN "" ELSE e.transport

(* The document that goes out with an INVITE follows the schema, has no    *)
(* dangling or missing association, and describes the offer that goes out  *)
(* with it: the same labels, each participant with the AOR of its side,    *)
(* the far end on label 1 and the near end on label 2 when the two are     *)
(* apart, and the call's own identifier where its name has one.            *)
MetadataMatchesOffer ==
  At("walk") =>
    LET far == IF start.call.channel.direction = "inbound" THEN "caller" ELSE "callee"
    IN /\ stage = "whole" /\ WellFormed(body)
       /\ Labels(body) = OfferLabels
       /\ \A p \in Tagged(body, "participant") : p.aor = start.call.aors[p.id]
       /\ {p.id : p \in Tagged(body, "participant")} = {"caller", "callee"}
       /\ start.separate => /\ SpeakerOf(body, "1") = far
                            /\ SpeakerOf(body, "2") \in {"caller", "callee"} \ {far}
       /\ \A u \in Tagged(body, "session") :
             u.id = IF CarriesUuid(start.call.channel.name) THEN "call" ELSE "fresh"

(* siprec_metadata_uuid_to_id takes exactly the UUIDs with and without     *)
(* their hyphens and the CallSids, and the identifier decodes to the       *)
(* sixteen bytes of the name: what the SRS reports belongs to that call.   *)
(* It is about a function, so the first state is enough to look at it.     *)
IdsAreUuids ==
  module = "loading" /\ config = << >> /\ status = "" =>
    \A name \in ChannelNames : IdentifiesUuid(name)

(* A start that fails has tried what it could: every candidate up to the   *)
(* cap was invited, or there was none to begin with, or somebody stopped   *)
(* it; what it tells the metadata builder is never refused, and that gives *)
(* up only where it must: an allocation or an encoding failed, or the text *)
(* with its NUL is longer than SB_MAX_CAP.                                 *)
SumOfSizes(s) ==
  LET sum[i \in 0 .. Len(s)] == IF i = 0 THEN 0 ELSE sum[i - 1] + Size(s[i])
  IN sum[Len(s)]
TriedAll ==
  /\ start.reason = "exhausted" =>
       Len(start.invites) = Min({MaxAttempts, Len(start.chain)})
  /\ start.reason = "no server" =>
       start.args.uri = NoUri /\ GoodOf(start.args.handle) = {}
  /\ start.reason = "stopped" => start.doomed
  /\ start.reason # "invalid options"
FailsForAReason ==
  /\ At("done") /\ status = "failed" => TriedAll
  /\ stage = "open" /\ err => starved \/ SumOfSizes(asked) + 1 > MaxCap

(* "success" is published for a recording that the SRS answered, whose     *)
(* fork attached and that nobody had stopped when the start let go of it.  *)
(* The module has undone nothing of it, unless a later stop, hangup or     *)
(* unload took it and left nothing; that the SRS has not ended the leg is  *)
(* not promised.  After "failed" and "exists" nothing of this start is     *)
(* left, every start publishes an outcome, and while it runs no earlier    *)
(* one can be read.                                                        *)
NothingLeft == start.dialog # "up" /\ ~start.attached /\ start.pool # "live"
OutcomeIsTrue ==
  /\ At("done") =>
       /\ status \in {"success", "exists", "failed"}
       /\ IF status # "success" \/ start.taken THEN NothingLeft
          ELSE start.dialog \in {"up", "gone"} /\ start.attached /\ start.pool = "live"
       /\ status = "success" => start.dialog # "none" /\ ~start.doomed
  /\ start.pc \notin {"idle", "done"} => status = ""

(* No path of a start, successful or not, keeps a block of the heap; the   *)
(* pool of every loaded server is live until the unload, which leaves none *)
(* however the chains are built.                                           *)
NothingLeaks ==
  /\ start.pc \in {"idle", "check", "insert", "publish", "done"} => blocks = 0
  /\ pools = IF module = "unloaded" THEN {} ELSE GoodEntries

(* README.md and mod_siprec.h say that a server's separate-streams         *)
(* overrides the global value: each candidate would be offered its own.    *)
ModeIsPerServer ==
  At("walk") /\ start.args.uri = NoUri =>
    \A i \in 1 .. Len(start.invites) :
      LET e == config[start.invites[i].entry]
      IN e.separate >= 0 => (e.separate = 1) = (start.invites[i].labels = {"1", "2"})
=============================================================================
