-------------------------- MODULE RecordingLifecycle --------------------------
(***************************************************************************)
(* A recording around its table entry: the call it belongs to and the      *)
(* module's hangup handler on it (recording_session.c), the SRS leg, its   *)
(* dialog and its watcher (siprec_invite.c), the media bug that forks the  *)
(* audio (siprec_media.c), and the apps, handlers and unload that drive    *)
(* them (mod_siprec.c). Every step either takes one step of                *)
(* RecordingRegistry or leaves the table alone.                            *)
(*                                                                         *)
(* External, modelled as the code uses it: a FreeSWITCH channel runs its   *)
(* apps, then its hangup and destroy handlers, on one thread; the core     *)
(* removes a call's media bugs before its hangup handlers; a session is no *)
(* longer located once its channel has hung up; `unload` is refused while  *)
(* an app of the module runs.                                              *)
(***************************************************************************)
EXTENDS RecordingRegistry

CONSTANTS
  ThreadCall,   \* the call whose apps a thread runs, NULL for the unloader
  OwnThread     \* the session thread of a call

ASSUME LifecycleAssumption ==
  /\ ThreadCall \in [Threads -> Calls \cup {NULL}]
  /\ OwnThread \in [Calls -> Threads]
  /\ \A c \in Calls : ThreadCall[OwnThread[c]] = c
  /\ NULL \notin Calls \cup Handles

VARIABLES
  call,      \* the call's channel: up, hung up, being torn down, gone
  bound,     \* state_handlers is bound to the call's channel
  module,    \* loaded, unloading or unloaded
  leg,       \* the SRS leg: none, up, ending (its handlers not yet run), down
  watched,   \* siprec_leg_state_handlers is bound, in time to be run
  dialog,    \* invite_ctx is set and its recording_uuid is not empty
  offered,   \* the direction last offered to the SRS
  fork,      \* the media bug: off (none), on, or gated by SMBF_PAUSE
  media,     \* media_ctx is set
  job,       \* what a thread is running
  at,        \* where it is, between two steps on the table
  due,       \* the call whose handler it may be about to unbind
  named      \* the handle a siprec_stop names, or NULL

callVars == <<call, bound, module>>
srsVars == <<leg, watched, dialog, offered>>
forkVars == <<fork, media>>
threadVars == <<job, at, due, named>>
lvars == <<vars, callVars, srsVars, forkVars, threadVars>>

LInit ==
  /\ Init
  /\ call = [c \in Calls |-> "up"]
  /\ bound = [c \in Calls |-> FALSE]
  /\ module = "loaded"
  /\ leg = [r \in Recs |-> "none"]
  /\ watched = [r \in Recs |-> FALSE]
  /\ dialog = [r \in Recs |-> FALSE]
  /\ offered = [r \in Recs |-> "sendonly"]
  /\ fork = [r \in Recs |-> "off"]
  /\ media = [r \in Recs |-> FALSE]
  /\ job = [t \in Threads |-> "none"]
  /\ at = [t \in Threads |-> "none"]
  /\ due = [t \in Threads |-> NULL]
  /\ named = [t \in Threads |-> NULL]

-----------------------------------------------------------------------------
(* Tests and small choices of the code, with faulty variants.              *)

OnCall(r, c) == key[r] # NULL /\ CallOf(key[r]) = c

(* release_call_handler: is a recording on the call still listed?          *)
FaultyHasLive(c) == FALSE
HasLive(c) == \E k \in Keys : CallOf(k) = c /\ hash[k] # NULL

(* The UUID a recording is unbound by: the recording's, not its key.       *)
FaultyUuidOf(k) == k
UuidOf(k) == CallOf(k)

(* drain_recordings' unbind argument: only the unload passes it.           *)
FaultyUnbinds(t) == FALSE
Unbinds(t) == job[t] = "unload"

(* siprec_invite_send_bye finds a leg to hang up; teardown_recording calls *)
(* it once siprec_media_detach is done.                                    *)
FaultyByeDue(r) == dialog[r] /\ leg[r] = "up"
ByeDue(r) == ~media[r] /\ dialog[r] /\ leg[r] = "up"

(* ... and has nothing left to do before the pool goes.                    *)
FaultyTornDown(r) == ~media[r]
TornDown(r) == ~media[r] /\ ~(dialog[r] /\ leg[r] = "up")

(* siprec_change_direction, after siprec_invite_set_direction.             *)
FaultyAfterOffer(t, ok) == IF job[t] = "resume" THEN "ungate" ELSE "succeeded"
AfterOffer(t, ok) == IF ~ok THEN "failed"
                     ELSE IF job[t] = "resume" THEN "ungate" ELSE "succeeded"

(* An app may begin on t: a channel that has hung up executes no more      *)
(* apps, though the one it is in goes on.                                  *)
MayRun(t) ==
  /\ Ready(t)
  /\ module = "loaded"
  /\ ThreadCall[t] # NULL
  /\ call[ThreadCall[t]] = "up"

Starts(t, j) ==
  /\ job' = [job EXCEPT ![t] = j]
  /\ UNCHANGED <<callVars, srsVars, forkVars, due>>

(* The thread goes on to step s of its operation.                          *)
Goto(t, s) ==
  /\ at' = [at EXCEPT ![t] = s]
  /\ UNCHANGED <<job, due, named>>

-----------------------------------------------------------------------------
(* teardown_recording: detach, BYE, free; run by whoever owns.             *)

(* siprec_media_detach: remove the bug, close the sockets.                 *)
Detach(t) ==
  LET r == own[t] IN
  /\ r # NULL /\ media[r]
  /\ fork' = [fork EXCEPT ![r] = "off"]
  /\ media' = [media EXCEPT ![r] = FALSE]
  /\ UNCHANGED <<vars, callVars, srsVars, threadVars>>

(* siprec_invite_send_bye on a leg that is still up.                       *)
Bye(t) ==
  LET r == own[t] IN
  /\ r # NULL /\ ByeDue(r)
  /\ watched' = [watched EXCEPT ![r] = FALSE]
  /\ leg' = [leg EXCEPT ![r] = "down"]
  /\ dialog' = [dialog EXCEPT ![r] = FALSE]
  /\ UNCHANGED <<vars, callVars, offered, forkVars, threadVars>>

LFreePool(t) ==
  /\ own[t] # NULL /\ TornDown(own[t])
  /\ FreePool(t)
  /\ UNCHANGED <<callVars, srsVars, forkVars, threadVars>>

-----------------------------------------------------------------------------
(* release_call_handler and unbind_call_handler.                           *)

HandlerScan(t) ==
  /\ at[t] = "settle" /\ pc[t] = "return" /\ own[t] = NULL
  /\ Goto(t, IF HasLive(due[t]) THEN "none" ELSE "unbind")
  /\ UNCHANGED <<vars, callVars, srsVars, forkVars>>

(* The lock was dropped after the scan; a call that has hung up is not     *)
(* located and keeps its handler.                                          *)
Unbind(t) ==
  /\ at[t] = "unbind" /\ own[t] = NULL
  /\ bound' = IF call[due[t]] = "up" THEN [bound EXCEPT ![due[t]] = FALSE] ELSE bound
  /\ at' = [at EXCEPT ![t] = "none"]
  /\ due' = [due EXCEPT ![t] = NULL]
  /\ UNCHANGED <<vars, call, module, srsVars, forkVars, job, named>>

LReturn(t) ==
  /\ at[t] = "none"
  /\ Return(t)
  /\ job' = [job EXCEPT ![t] = "none"]
  /\ due' = [due EXCEPT ![t] = NULL]
  /\ named' = [named EXCEPT ![t] = NULL]
  /\ module' = IF job[t] = "unload" THEN "unloaded" ELSE module
  /\ UNCHANGED <<call, bound, srsVars, forkVars, at>>

-----------------------------------------------------------------------------
(* siprec.                                                                 *)

LStartRefused(t) ==
  /\ MayRun(t) /\ StartRefused(t)
  /\ Starts(t, "start") /\ UNCHANGED <<at, named>>

LStartExists(t, k) ==
  /\ MayRun(t) /\ CallOf(k) = ThreadCall[t] /\ StartExists(t, k)
  /\ Starts(t, "start") /\ UNCHANGED <<at, named>>

(* From the app's beginning, over its look at the media, to the insertion. *)
LStartInsert(t, k, r) ==
  /\ MayRun(t) /\ CallOf(k) = ThreadCall[t]
  /\ StartInsert(t, k, r)
  /\ Starts(t, "start")
  /\ at' = [at EXCEPT ![t] = "bind"]
  /\ UNCHANGED named

(* The stale recording, if any, has been torn down by now.                 *)
BindHandler(t) ==
  /\ at[t] = "bind" /\ own[t] = NULL
  /\ bound' = [bound EXCEPT ![ThreadCall[t]] = TRUE]
  /\ Goto(t, "invite")
  /\ UNCHANGED <<vars, call, module, srsVars, forkVars>>

(* switch_ivr_originate returned an answered leg.                          *)
InviteAnswered(t) ==
  /\ at[t] = "invite"
  /\ leg' = [leg EXCEPT ![pin[t]] = "up"]
  /\ Goto(t, "watch")
  /\ UNCHANGED <<vars, callVars, watched, dialog, offered, forkVars>>

(* recording_uuid, invite_ctx, then the leg's hangup watcher, which comes  *)
(* too late for a leg whose handlers have run.                             *)
WatchLeg(t) ==
  /\ at[t] = "watch"
  /\ dialog' = [dialog EXCEPT ![pin[t]] = TRUE]
  /\ watched' = [watched EXCEPT ![pin[t]] = leg[pin[t]] # "down"]
  /\ Goto(t, "attach")
  /\ UNCHANGED <<vars, callVars, leg, offered, forkVars>>

(* siprec_media_attach: switch_core_media_bug_add needs a channel whose    *)
(* media is up; the callback runs from here on.                            *)
AttachBug(t) ==
  /\ at[t] = "attach" /\ call[ThreadCall[t]] = "up"
  /\ fork' = [fork EXCEPT ![pin[t]] = "on"]
  /\ Goto(t, "publish")
  /\ UNCHANGED <<vars, callVars, srsVars, media>>

PublishMedia(t) ==
  /\ at[t] = "publish"
  /\ media' = [media EXCEPT ![pin[t]] = TRUE]
  /\ Goto(t, "finish")
  /\ UNCHANGED <<vars, callVars, srsVars, fork>>

LStartEnd(t) ==
  /\ at[t] = "finish" /\ StartEnd(t)
  /\ Goto(t, "none")
  /\ UNCHANGED <<callVars, srsVars, forkVars>>

(* No metadata, no profile, no candidate answered; or no usable stream, no *)
(* socket, no bug.                                                         *)
LStartDiscard(t) ==
  /\ at[t] \in {"invite", "attach"} /\ StartDiscard(t)
  /\ Goto(t, "none")
  /\ UNCHANGED <<callVars, srsVars, forkVars>>

LDiscardEnd(t) ==
  /\ DiscardEnd(t)
  /\ at' = [at EXCEPT ![t] = "settle"]
  /\ due' = [due EXCEPT ![t] = ThreadCall[t]]
  /\ UNCHANGED <<callVars, srsVars, forkVars, job, named>>

-----------------------------------------------------------------------------
(* siprec_pause and siprec_resume.                                         *)

LChangeRefused(t, j) ==
  /\ MayRun(t) /\ ChangeRefused(t)
  /\ Starts(t, j) /\ UNCHANGED <<at, named>>

LAcquire(t, k, j) ==
  /\ MayRun(t) /\ CallOf(k) = ThreadCall[t] /\ Acquire(t, k)
  /\ Starts(t, j)
  /\ at' = [at EXCEPT ![t] = IF j = "pause" THEN "gate" ELSE "offer"]
  /\ UNCHANGED named

(* siprec_media_set_paused(1), before anything else may fail.              *)
FaultyGate(t) ==
  LET r == pin[t] IN
  /\ at[t] = "gate"
  /\ fork' = [fork EXCEPT ![r] = IF media[r] /\ @ = "on" /\ dialog[r] THEN "gated" ELSE @]
  /\ Goto(t, "offer")
  /\ UNCHANGED <<vars, callVars, srsVars, media>>
Gate(t) ==
  LET r == pin[t] IN
  /\ at[t] = "gate"
  /\ fork' = [fork EXCEPT ![r] = IF media[r] /\ @ = "on" THEN "gated" ELSE @]
  /\ Goto(t, "offer")
  /\ UNCHANGED <<vars, callVars, srsVars, media>>

(* The dialog check and siprec_invite_set_direction; a leg that is not     *)
(* located any more loses its UUID here.                                   *)
Offer(t) ==
  LET r == pin[t] IN
  /\ at[t] = "offer"
  /\ \E ok \in IF dialog[r] /\ leg[r] = "up" THEN BOOLEAN ELSE {FALSE} :
       /\ offered' = [offered EXCEPT ![r] =
            IF ~ok THEN @ ELSE IF job[t] = "pause" THEN "inactive" ELSE "sendonly"]
       /\ Goto(t, AfterOffer(t, ok))
  /\ dialog' = [dialog EXCEPT ![r] = IF leg[r] = "up" THEN @ ELSE FALSE]
  /\ UNCHANGED <<vars, callVars, leg, watched, forkVars>>

(* siprec_media_set_paused(0), once the SRS was offered the audio again.   *)
Ungate(t) ==
  LET r == pin[t] IN
  /\ at[t] = "ungate"
  /\ fork' = [fork EXCEPT ![r] = IF media[r] /\ @ = "gated" THEN "on" ELSE @]
  /\ Goto(t, "succeeded")
  /\ UNCHANGED <<vars, callVars, srsVars, media>>

LChangeEnd(t) ==
  /\ \/ at[t] = "succeeded" /\ ChangeEnd(t, "success")
     \/ at[t] = "failed" /\ ChangeEnd(t, "failed")
  /\ Goto(t, "none")
  /\ UNCHANGED <<callVars, srsVars, forkVars>>

-----------------------------------------------------------------------------
(* siprec_stop, with and without a handle.                                 *)

LStopMissing(t, k) ==
  /\ MayRun(t) /\ CallOf(k) = ThreadCall[t] /\ StopMissing(t, k)
  /\ Starts(t, "stop")
  /\ named' = [named EXCEPT ![t] = k[1]]
  /\ UNCHANGED at

LStopNamed(t, k) ==
  /\ MayRun(t) /\ CallOf(k) = ThreadCall[t] /\ StopNamed(t, k)
  /\ job' = [job EXCEPT ![t] = "stop"]
  /\ named' = [named EXCEPT ![t] = k[1]]
  /\ at' = [at EXCEPT ![t] = "settle"]
  /\ due' = [due EXCEPT ![t] = ThreadCall[t]]
  /\ UNCHANGED <<callVars, srsVars, forkVars>>

LStopAll(t) ==
  /\ MayRun(t) /\ DrainBegin(t, {ThreadCall[t]})
  /\ Starts(t, "stop") /\ UNCHANGED <<at, named>>

LDrainScan(t) ==
  /\ at[t] = "none" /\ DrainScan(t)
  /\ UNCHANGED <<callVars, srsVars, forkVars, threadVars>>

(* The unload unbinds the call of each recording it found, after its       *)
(* teardown.                                                               *)
LDrainClaim(t, k) ==
  /\ at[t] = "none" /\ DrainClaim(t, k)
  /\ IF Unbinds(t) /\ hash[k] # NULL
     THEN /\ at' = [at EXCEPT ![t] = "unbind"]
          /\ due' = [due EXCEPT ![t] = UuidOf(k)]
     ELSE UNCHANGED <<at, due>>
  /\ UNCHANGED <<callVars, srsVars, forkVars, job, named>>

(* stop_recording_session is over: siprec_stop settles the handler next,   *)
(* the hangup handler never unbinds itself.                                *)
LDrainNext(t) ==
  /\ at[t] = "none" /\ DrainNext(t)
  /\ IF job[t] = "stop" /\ ~more[t]
     THEN /\ at' = [at EXCEPT ![t] = "settle"]
          /\ due' = [due EXCEPT ![t] = ThreadCall[t]]
     ELSE UNCHANGED <<at, due>>
  /\ UNCHANGED <<callVars, srsVars, forkVars, job, named>>

-----------------------------------------------------------------------------
(* The call ends: its thread is done with apps, the core removes its media *)
(* bugs, then on_hangup and, after reporting, on_destroy run.              *)

CallHangsUp(c) ==
  /\ call[c] = "up"
  /\ call' = [call EXCEPT ![c] = "hungup"]
  /\ UNCHANGED <<vars, bound, module, srsVars, forkVars, threadVars>>

CoreRemovesBugs(c) ==
  /\ call[c] = "hungup" /\ Ready(OwnThread[c])
  /\ call' = [call EXCEPT ![c] = "cleared"]
  /\ fork' = [r \in Recs |-> IF OnCall(r, c) THEN "off" ELSE fork[r]]
  /\ UNCHANGED <<vars, bound, module, srsVars, media, threadVars>>

(* siprec_on_hangup as the given one of the channel's two handlers.        *)
RunHandler(c, from, to) ==
  LET t == OwnThread[c] IN
  /\ call[c] = from /\ Ready(t)
  /\ call' = [call EXCEPT ![c] = to]
  /\ IF bound[c]
     THEN /\ module # "unloaded"
          /\ DrainBegin(t, {c})
          /\ job' = [job EXCEPT ![t] = "hangup"]
     ELSE UNCHANGED <<vars, job>>
  /\ UNCHANGED <<bound, module, srsVars, forkVars, at, due, named>>
OnHangup(c) == RunHandler(c, "cleared", "reporting")
OnDestroy(c) == RunHandler(c, "reporting", "gone")

-----------------------------------------------------------------------------
(* The SRS leg ends without us, and its own thread runs its handlers.      *)

LegHangsUp(r) ==
  /\ leg[r] = "up"
  /\ leg' = [leg EXCEPT ![r] = "ending"]
  /\ UNCHANGED <<vars, callVars, watched, dialog, offered, forkVars, threadVars>>

(* siprec_leg_on_hangup: the hash may hold another recording by now, or    *)
(* this one without its UUID.                                              *)
FaultyLegHandlers(r) ==
  /\ leg[r] = "ending"
  /\ leg' = [leg EXCEPT ![r] = "down"]
  /\ leg_gone' = [leg_gone EXCEPT ![r] = watched[r]]
  /\ UNCHANGED <<hash, pool, key, use_count, doomed, pc, pin, own, drainVars, ret>>
  /\ UNCHANGED <<callVars, watched, dialog, offered, forkVars, threadVars>>
LegHandlers(r) ==
  /\ leg[r] = "ending" /\ ~(watched[r] /\ module = "unloaded")
  /\ leg' = [leg EXCEPT ![r] = "down"]
  /\ IF watched[r] /\ dialog[r] /\ Listed(r) THEN LegEnded(r) ELSE UNCHANGED vars
  /\ UNCHANGED <<callVars, watched, dialog, offered, forkVars, threadVars>>

(* media_bug_callback on a READ_PING: a marked recording's fork removes    *)
(* itself. A gated bug gets no tick.                                       *)
MediaTick(r) ==
  /\ fork[r] = "on" /\ leg_gone[r]
  /\ fork' = [fork EXCEPT ![r] = "off"]
  /\ UNCHANGED <<vars, callVars, srsVars, media, threadVars>>

-----------------------------------------------------------------------------
(* mod_siprec_shutdown. The destroys that follow the drain are the end.    *)

Unload(t) ==
  /\ ThreadCall[t] = NULL /\ module = "loaded"
  /\ \A u \in Threads : job[u] \in {"none", "hangup"}
  /\ DrainBegin(t, Calls)
  /\ module' = "unloading"
  /\ job' = [job EXCEPT ![t] = "unload"]
  /\ UNCHANGED <<call, bound, srsVars, forkVars, at, due, named>>

-----------------------------------------------------------------------------
LContinue(t) ==
  \/ Detach(t) \/ Bye(t) \/ LFreePool(t)
  \/ HandlerScan(t) \/ Unbind(t) \/ LReturn(t)
  \/ BindHandler(t) \/ InviteAnswered(t) \/ WatchLeg(t)
  \/ AttachBug(t) \/ PublishMedia(t) \/ LStartEnd(t)
  \/ LStartDiscard(t) \/ LDiscardEnd(t)
  \/ Gate(t) \/ Offer(t) \/ Ungate(t) \/ LChangeEnd(t)
  \/ LDrainScan(t) \/ LDrainNext(t)
  \/ \E k \in Keys : LDrainClaim(t, k)

LBegin(t) ==
  \/ LStartRefused(t) \/ LStopAll(t) \/ Unload(t)
  \/ \E j \in {"pause", "resume"} : LChangeRefused(t, j)
  \/ \E k \in Keys :
       \/ LStartExists(t, k)
       \/ \E r \in Recs : LStartInsert(t, k, r)
       \/ \E j \in {"pause", "resume"} : LAcquire(t, k, j)
       \/ LStopMissing(t, k)
       \/ LStopNamed(t, k)

LNext ==
  \/ \E t \in Threads : LBegin(t) \/ LContinue(t)
  \/ \E c \in Calls : CallHangsUp(c) \/ CoreRemovesBugs(c) \/ OnHangup(c) \/ OnDestroy(c)
  \/ \E r \in Recs : LegHangsUp(r) \/ LegHandlers(r) \/ MediaTick(r)

LSpec == LInit /\ [][LNext]_lvars

(* The session thread of a call that hung up runs the teardown of the      *)
(* channel, and no operation waits for ever: originate is bounded by       *)
(* originate_timeout. Nobody is obliged to call, to hang up or to unload.  *)
LFairSpec ==
  /\ LSpec
  /\ \A t \in Threads : WF_lvars(LContinue(t))
  /\ \A c \in Calls : WF_lvars(CoreRemovesBugs(c)) /\ WF_lvars(OnHangup(c))

-----------------------------------------------------------------------------
(* Properties.                                                             *)

(* Every variable keeps its type.                                          *)
LTypeOK ==
  /\ call \in [Calls -> {"up", "hungup", "cleared", "reporting", "gone"}]
  /\ bound \in [Calls -> BOOLEAN]
  /\ module \in {"loaded", "unloading", "unloaded"}
  /\ leg \in [Recs -> {"none", "up", "ending", "down"}]
  /\ watched \in [Recs -> BOOLEAN]
  /\ dialog \in [Recs -> BOOLEAN]
  /\ offered \in [Recs -> {"sendonly", "inactive"}]
  /\ fork \in [Recs -> {"off", "on", "gated"}]
  /\ media \in [Recs -> BOOLEAN]
  /\ job \in [Threads -> {"none", "start", "pause", "resume", "stop", "hangup", "unload"}]
  /\ at \in [Threads -> {"none", "bind", "invite", "watch", "attach", "publish",
                         "finish", "gate", "offer", "ungate", "succeeded",
                         "failed", "settle", "unbind"}]
  /\ due \in [Threads -> Calls \cup {NULL}]
  /\ named \in [Threads -> Handles \cup {NULL}]

(* teardown_recording leaves nothing behind: once a recording's pool is    *)
(* gone there is no bug whose callback would read it, and no SRS leg that  *)
(* nobody can hang up any more.                                            *)
FreedIsSilent ==
  \A r \in Recs : pool[r] = "freed" => fork[r] = "off" /\ leg[r] # "up"

(* "Detach the media bug FIRST, then BYE the recording leg": while we end  *)
(* the dialog no audio is on its way to the SRS.                           *)
ByeAfterDetach ==
  [][\A r \in Recs : leg[r] = "up" /\ leg'[r] = "down" => fork[r] = "off"]_lvars

(* Audio flows only in a dialog whose last offer to the SRS said sendonly: *)
(* pause gates before it offers inactive, resume re-opens after sendonly.  *)
FlowsOnlyWhenOffered ==
  \A r \in Recs : fork[r] = "on" => offered[r] = "sendonly"

(* "Even a failed pause of a recording that exists guarantees no audio     *)
(* leaves the box for it": a pause that found its recording returns with   *)
(* the fork not running, whether the re-INVITE worked or not.              *)
PauseIsSilent ==
  [][\A t \in Threads :
       pc[t] = "change" /\ pc'[t] = "return" /\ job[t] = "pause"
         => fork[pin[t]] # "on"]_lvars

StopKeys(t) == {k \in Keys : CallOf(k) = ThreadCall[t] /\ named[t] \in {NULL, k[1]}}

(* siprec_stop's outcome: "Both mean no audio is leaving the box for this  *)
(* handle", or for the whole call when it named none.                      *)
StopIsSilent ==
  [][\A t \in Threads :
       job[t] = "stop" /\ job'[t] = "none"
         => \A r \in Recs : key[r] \in StopKeys(t) => fork[r] # "on"]_lvars

(* "A hangup at any point tears the recording down": when a call's last    *)
(* handler is through and nothing else works on it, none of its recordings *)
(* is left.                                                                *)
CallGoneIsClean ==
  \A c \in Calls :
    /\ call[c] = "gone"
    /\ \A t \in Threads : pc[t] = "idle"
    => \A r \in Recs : OnCall(r, c) => pool[r] = "freed"

(* After the unload nothing can be found in the table that is destroyed    *)
(* next, and no call that is still up holds the module's handler.          *)
UnloadLeavesNothing ==
  module = "unloaded" =>
    /\ \A k \in Keys : hash[k] = NULL
    /\ \A c \in Calls : call[c] = "up" => ~bound[c]

(* Nor is any recording left behind, on whichever threads the apps ran:    *)
(* one still there is just being torn down by the hangup of its own call,  *)
(* which had taken it out of the table before the unload came to it.       *)
UnloadEndsAll ==
  module = "unloaded" =>
    \A r \in Recs : pool[r] = "live" => \E t \in Threads : own[t] = r /\ job[t] = "hangup"

(* The hangup of a call that holds the module's handler is followed by the *)
(* end of every recording of the call, even one that was still starting on *)
(* another thread, which its own thread then discards.                     *)
HangupTearsDown ==
  \A c \in Calls :
    (call[c] \in {"hungup", "cleared"} /\ bound[c])
      ~> (\A r \in Recs : OnCall(r, c) => pool[r] = "freed")

(* The life of a recording obeys the table's protocol.                     *)
ImplementsRegistry == Spec

(* Statements of the documentation that do not hold.                       *)

(* README: `unload mod_siprec` unbinds every hangup handler the module put *)
(* on a channel, "so no channel calls into the unmapped .so afterwards".   *)
NothingCallsUnmapped ==
  module = "unloaded" =>
    /\ \A c \in Calls : bound[c] => call[c] = "gone"
    /\ \A t \in Threads : job[t] # "hangup"
    /\ \A r \in Recs : watched[r] => leg[r] = "down"

(* README: when the SRS ends the dialog "the recording leg's own hangup    *)
(* handler stops the RTP fork at once"; the flag it sets does that at the  *)
(* next tick.                                                              *)
EndedLegStopsFork ==
  \A r \in Recs : leg[r] = "down" /\ fork[r] = "on" => leg_gone[r]

(* README: after the SRS ended the dialog, "`siprec` under the same handle *)
(* then starts a fresh recording (instead of answering `exists`)".         *)
EndedLegIsReplaced ==
  \A k \in Keys :
    LET r == hash[k] IN
    r # NULL /\ watched[r] /\ leg[r] = "down" /\ use_count[r] = 0 => ~Busy(r)
=============================================================================
