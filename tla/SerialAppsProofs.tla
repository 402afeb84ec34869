--------------------------- MODULE SerialAppsProofs ---------------------------
(***************************************************************************)
(* What RecordingLifecycle promises a dialplan: the apps of a call run one *)
(* after the other on the call's own thread.  For any number of calls,     *)
(* handles, recordings and threads; hangups, the SRS and the unload        *)
(* interleave with the apps, and the apps of different calls with each     *)
(* other, as they like.  UnloadInvariant and UnloadsEndAll do without that *)
(* and hold for apps on any threads.                                       *)
(***************************************************************************)
EXTENDS RecordingLifecycleProofs

(* Only the thread of a call runs apps on it.                              *)
AppsAreSerial ==
  \A t \in Threads : ThreadCall[t] # NULL => t = OwnThread[ThreadCall[t]]

-----------------------------------------------------------------------------
(* Where a thread is in its operation, and on whose behalf.                *)
ChangeSteps == {"gate", "offer", "ungate", "succeeded", "failed"}

JobOf(t) ==
  /\ job[t] = "none" <=> pc[t] = "idle"
  /\ pc[t] \in {"start", "discard"} => job[t] = "start"
  /\ pc[t] = "change" => job[t] \in {"pause", "resume"}
  /\ pc[t] \in {"scan", "claim"} => job[t] \in {"stop", "hangup", "unload"}
  /\ job[t] \in {"start", "pause", "resume", "stop"} => ThreadCall[t] # NULL
  /\ job[t] = "hangup" =>
       ThreadCall[t] # NULL /\ call[ThreadCall[t]] \in {"reporting", "gone"}
  /\ job[t] = "unload" => ThreadCall[t] = NULL /\ module = "unloading"

PlaceOf(t) ==
  /\ at[t] \in Starting <=> pc[t] = "start"
  /\ at[t] \in ChangeSteps <=> pc[t] = "change"
  /\ at[t] = "gate" => job[t] = "pause"
  /\ at[t] = "ungate" => job[t] = "resume"
  /\ at[t] = "settle" => pc[t] = "return" /\ job[t] \in {"start", "stop"}
  /\ at[t] = "unbind" => \/ pc[t] = "return" /\ job[t] \in {"start", "stop"}
                         \/ pc[t] = "claim" /\ job[t] = "unload"

DueOf(t) ==
  at[t] \in {"settle", "unbind"} /\ job[t] # "unload" => due[t] = ThreadCall[t]

Agenda == \A t \in Threads : JobOf(t) /\ PlaceOf(t) /\ DueOf(t)

(* The unload waits for the apps, nothing starts once it has begun, and a  *)
(* call that hangs up is past its apps.                                    *)
UnloadIsAlone ==
  /\ module = "unloading" => \E t \in Threads : job[t] = "unload"
  /\ module # "loaded" => \A t \in Threads : job[t] \in {"none", "hangup", "unload"}
  /\ \A t, u \in Threads : job[t] = "unload" /\ job[u] = "unload" => t = u
  /\ \A c \in Calls : call[c] \in {"cleared", "reporting", "gone"} =>
       job[OwnThread[c]] \in {"none", "hangup"}

(* A drain takes what its operation is about, and nobody but the unload    *)
(* pins or owns a recording of somebody else's call.                       *)
ScopeOf(t) ==
  /\ pc[t] \in {"scan", "claim"} =>
       scope[t] = IF job[t] = "unload" THEN Calls ELSE {ThreadCall[t]}
  /\ pc[t] = "claim" => \A k \in todo[t] : CallOf(k) \in scope[t]
  /\ pin[t] # NULL => CallOf(key[pin[t]]) = ThreadCall[t]
  /\ own[t] # NULL /\ job[t] # "unload" => CallOf(key[own[t]]) = ThreadCall[t]
OwnBusiness == \A t \in Threads : ScopeOf(t)

(* A start keeps its recording in the table until it gives it up itself.   *)
StartHolds == \A t \in Threads : pc[t] = "start" => Listed(pin[t]) /\ ~doomed[pin[t]]

(* In its last pass a drain has what is left on its list, and when it is   *)
(* over nothing is left.                                                   *)
LastPass(t) == pc[t] = "claim" /\ ~more[t] =>
  \A k \in Keys : hash[k] # NULL /\ CallOf(k) \in scope[t] => k \in todo[t]
StopIsOver(t) == job[t] = "stop" /\ pc[t] = "return" => \A k \in StopKeys(t) : hash[k] = NULL
HangupIsOver(c) ==
  LET t == OwnThread[c] IN
  call[c] \in {"reporting", "gone"} /\ module = "loaded" /\ pc[t] \notin {"scan", "claim"}
    => ~HasLive(c)
UnloadIsOver ==
  /\ module = "unloaded" => \A k \in Keys : hash[k] = NULL
  /\ \A t \in Threads : job[t] = "unload" /\ pc[t] = "return" => \A k \in Keys : hash[k] = NULL
DrainsAreComplete ==
  /\ \A t \in Threads : LastPass(t) /\ StopIsOver(t)
  /\ \A c \in Calls : HangupIsOver(c)
  /\ UnloadIsOver

(* The hangup handler is on every call with a recording, and on a call     *)
(* that is up without one only as long as somebody is about to unbind it.  *)
Settling(t) ==
  \/ pc[t] = "discard"
  \/ at[t] \in {"settle", "unbind"}
  \/ job[t] = "stop" /\ pc[t] \in {"scan", "claim"}
HandlerIsBound ==
  module = "loaded" => \A k \in Keys : hash[k] # NULL =>
    bound[CallOf(k)] \/ at[OwnThread[CallOf(k)]] = "bind"
HandlerIsNeeded ==
  \A c \in Calls : bound[c] /\ call[c] = "up" =>
    \/ HasLive(c)
    \/ Settling(OwnThread[c])
    \/ \E u \in Threads : job[u] = "unload" /\ at[u] = "unbind" /\ due[u] = c
UnbindIsDue ==
  \A t \in Threads : at[t] = "unbind" /\ job[t] # "unload" => ~HasLive(ThreadCall[t])
HandlersFollow == HandlerIsBound /\ HandlerIsNeeded /\ UnbindIsDue

(* Audio flows only under an offer of sendonly: a pause gates before it    *)
(* offers inactive, a resume re-opens after it offered sendonly.           *)
OfferOf(t) ==
  /\ pc[t] = "start" => offered[pin[t]] = "sendonly"
  /\ at[t] = "ungate" => offered[pin[t]] = "sendonly"
  /\ job[t] = "pause" /\ at[t] \in {"offer", "succeeded", "failed"} => fork[pin[t]] # "on"
OffersComeFirst ==
  /\ FlowsOnlyWhenOffered
  /\ \A r \in Recs : pool[r] = "unborn" => offered[r] = "sendonly"
  /\ \A t \in Threads : OfferOf(t)

(* What of this holds on whichever threads the apps run: an unload drains  *)
(* them all.                                                               *)
UnloadPasses == \A t \in Threads : job[t] = "unload" => LastPass(t)
UnloadInv ==
  /\ Agenda
  /\ UnloadIsAlone
  /\ OwnBusiness
  /\ UnloadPasses
  /\ UnloadIsOver

SerialInv ==
  /\ Agenda
  /\ UnloadIsAlone
  /\ OwnBusiness
  /\ StartHolds
  /\ DrainsAreComplete
  /\ HandlersFollow
  /\ OffersComeFirst

-----------------------------------------------------------------------------
(* A step of one thread leaves every other where it is.                    *)
StaysPut(u) ==
  /\ pc'[u] = pc[u] /\ pin'[u] = pin[u] /\ own'[u] = own[u]
  /\ todo'[u] = todo[u] /\ more'[u] = more[u] /\ scope'[u] = scope[u]
  /\ job'[u] = job[u] /\ at'[u] = at[u] /\ due'[u] = due[u] /\ named'[u] = named[u]

(* The hangup handlers of a call run on its thread, the other steps of a   *)
(* call or a leg on none that the model counts.                            *)
RunsHandler(t) == \E c \in Calls : t = OwnThread[c] /\ (OnHangup(c) \/ OnDestroy(c))
Outside ==
  \/ \E c \in Calls : CallHangsUp(c) \/ CoreRemovesBugs(c)
  \/ \E r \in Recs : LegHangsUp(r) \/ LegHandlers(r) \/ MediaTick(r)

(* Every step is one of a thread, of a hangup handler or of the outside.   *)
LEMMA StepKinds ==
  ASSUME [LNext]_lvars
  PROVE  \/ \E t \in Threads : LBegin(t) \/ LContinue(t) \/ RunsHandler(t)
         \/ Outside \/ UNCHANGED lvars
BY LifecycleAssumption DEF LNext, RunsHandler, Outside

(* No step but those of threads touches a thread or the hash.              *)
LEMMA OutsideLeavesThreads ==
  ASSUME Outside \/ UNCHANGED lvars
  PROVE  /\ UNCHANGED <<hash, pool, key, use_count, doomed, pc, pin, own, drainVars, ret>>
         /\ UNCHANGED <<bound, module, offered, threadVars>>
BY DEF Outside, CallHangsUp, CoreRemovesBugs, LegHangsUp, LegHandlers, MediaTick, LegEnded,
       lvars, vars, recVars, callVars, srsVars

(* What one thread does moves no other thread.                             *)
LEMMA OthersStayPut ==
  ASSUME TypeOK, LTypeOK, NEW t \in Threads, NEW u \in Threads \ {t},
         LBegin(t) \/ LContinue(t) \/ RunsHandler(t)
  PROVE  StaysPut(u)
<1> USE DEF TypeOK, LTypeOK, StaysPut, threadVars, drainVars, vars
<1>1. CASE LBegin(t)
  <2>1. CASE \/ LStartRefused(t) \/ LStopAll(t) \/ Unload(t)
             \/ \E j \in {"pause", "resume"} : LChangeRefused(t, j)
    BY <2>1 DEF LStartRefused, LStopAll, Unload, LChangeRefused, Starts, StartRefused,
                ChangeRefused, ReturnAtOnce, DrainBegin
  <2>2. ASSUME NEW k \in Keys,
               \/ LStartExists(t, k) \/ LStopMissing(t, k) \/ LStopNamed(t, k)
               \/ \E j \in {"pause", "resume"} : LAcquire(t, k, j)
               \/ \E r \in Recs : LStartInsert(t, k, r)
        PROVE  StaysPut(u)
    BY <2>2 DEF LStartExists, LStopMissing, LStopNamed, LAcquire, LStartInsert, Starts,
                StartExists, StopMissing, ReturnAtOnce, StopNamed, Claim, Acquire, StartInsert
  <2> QED
    BY <1>1, <2>1, <2>2 DEF LBegin
<1>2. CASE LContinue(t)
  <2>1. CASE \/ Detach(t) \/ Bye(t) \/ LFreePool(t) \/ HandlerScan(t) \/ Unbind(t)
             \/ LReturn(t)
    BY <2>1 DEF Detach, Bye, LFreePool, HandlerScan, Unbind, LReturn, FreePool, Return, Goto
  <2>2. CASE \/ BindHandler(t) \/ InviteAnswered(t) \/ WatchLeg(t) \/ AttachBug(t)
             \/ PublishMedia(t) \/ LStartEnd(t) \/ LStartDiscard(t) \/ LDiscardEnd(t)
    BY <2>2 DEF BindHandler, InviteAnswered, WatchLeg, AttachBug, PublishMedia, LStartEnd,
                LStartDiscard, LDiscardEnd, StartEnd, StartDiscard, DiscardEnd, Release, Goto
  <2>3. CASE Gate(t) \/ Ungate(t) \/ LChangeEnd(t)
    BY <2>3 DEF Gate, Ungate, LChangeEnd, ChangeEnd, Release, Goto
  <2>5. CASE Offer(t)
    <3>1. (\E s : Goto(t, s)) /\ UNCHANGED vars
      BY <2>5 DEF Offer
    <3> QED
      BY <3>1 DEF Goto
  <2>4. CASE LDrainScan(t) \/ LDrainNext(t) \/ \E k \in Keys : LDrainClaim(t, k)
    BY <2>4 DEF LDrainScan, LDrainNext, LDrainClaim, DrainScan, DrainNext, DrainClaim, Claim,
                recVars
  <2> QED
    BY <1>2, <2>1, <2>2, <2>3, <2>4, <2>5 DEF LContinue
<1>3. CASE RunsHandler(t)
  BY <1>3 DEF RunsHandler, OnHangup, OnDestroy, RunHandler, DrainBegin
<1> QED
  BY <1>1, <1>2, <1>3

(* Who does nothing in a step stays put.                                   *)
Acts(t) == LBegin(t) \/ LContinue(t) \/ RunsHandler(t)

(* A thread that takes no step is where it was after anybody's step.       *)
LEMMA BystandersStayPut ==
  ASSUME TypeOK, LTypeOK, [LNext]_lvars, NEW u \in Threads, ~Acts(u)
  PROVE  StaysPut(u)
BY StepKinds, OthersStayPut, OutsideLeavesThreads DEF Acts, StaysPut, drainVars, threadVars

-----------------------------------------------------------------------------
(* A call only goes on towards its end, and past its hangup on its own     *)
(* idle thread.                                                            *)
CallMoves(c) ==
  \/ call'[c] = call[c]
  \/ call[c] = "up" /\ call'[c] = "hungup"
  \/ call[c] = "hungup" /\ call'[c] = "cleared" /\ Ready(OwnThread[c]) /\ CoreRemovesBugs(c)
  \/ call[c] = "cleared" /\ call'[c] = "reporting" /\ OnHangup(c)
  \/ call[c] = "reporting" /\ call'[c] = "gone" /\ OnDestroy(c)

(* No step takes a call elsewhere.                                         *)
LEMMA EveryCallMoves ==
  ASSUME LTypeOK, [LNext]_lvars, NEW c \in Calls
  PROVE  CallMoves(c)
<1> USE DEF LTypeOK, CallMoves, callVars, lvars
<1>1. ASSUME NEW t \in Threads, LBegin(t) \/ LContinue(t)
      PROVE  call' = call
  BY <1>1 DEF LBegin, LContinue, LStartRefused, LStopAll, Unload, LChangeRefused,
     LStartExists, LStartInsert, LAcquire, LStopMissing, LStopNamed, Starts,
     Detach, Bye, LFreePool, HandlerScan, Unbind, LReturn, BindHandler, InviteAnswered,
     WatchLeg, AttachBug, PublishMedia, LStartEnd, LStartDiscard, LDiscardEnd, Gate, Offer,
     Ungate, LChangeEnd, LDrainScan, LDrainNext, LDrainClaim
<1>2. ASSUME NEW d \in Calls,
             CallHangsUp(d) \/ CoreRemovesBugs(d) \/ OnHangup(d) \/ OnDestroy(d)
      PROVE  CallMoves(c)
  <2>1. /\ CallHangsUp(d) => call[d] = "up" /\ call' = [call EXCEPT ![d] = "hungup"]
        /\ CoreRemovesBugs(d) => /\ call[d] = "hungup" /\ call' = [call EXCEPT ![d] = "cleared"]
                                 /\ Ready(OwnThread[d])
        /\ OnHangup(d) => call[d] = "cleared" /\ call' = [call EXCEPT ![d] = "reporting"]
        /\ OnDestroy(d) => call[d] = "reporting" /\ call' = [call EXCEPT ![d] = "gone"]
    BY DEF CallHangsUp, CoreRemovesBugs, OnHangup, OnDestroy, RunHandler
  <2>2. CASE c = d
    BY <1>2, <2>1, <2>2
  <2>3. CASE c # d
    BY <1>2, <2>1, <2>3
  <2> QED
    BY <2>2, <2>3
<1>3. ASSUME NEW r \in Recs, LegHangsUp(r) \/ LegHandlers(r) \/ MediaTick(r)
      PROVE  call' = call
  BY <1>3 DEF LegHangsUp, LegHandlers, MediaTick
<1> QED
  BY <1>1, <1>2, <1>3 DEF LNext

(* The module only goes on towards its unloading, on the unload's thread.  *)
ModuleMoves ==
  \/ module' = module
  \/ module = "loaded" /\ module' = "unloading" /\ \E t \in Threads : Unload(t)
  \/ module' = "unloaded" /\ \E t \in Threads : LReturn(t) /\ job[t] = "unload"

(* No step takes the module elsewhere.                                     *)
LEMMA EveryModuleMoves ==
  ASSUME [LNext]_lvars
  PROVE  ModuleMoves
<1> USE DEF ModuleMoves, callVars, lvars
<1>1. ASSUME NEW t \in Threads, LBegin(t), ~Unload(t)
      PROVE  module' = module
  BY <1>1 DEF LBegin, LStartRefused, LStopAll, LChangeRefused,
     LStartExists, LStartInsert, LAcquire, LStopMissing, LStopNamed, Starts
<1>2. ASSUME NEW t \in Threads, LContinue(t), ~LReturn(t)
      PROVE  module' = module
  BY <1>2 DEF LContinue, Detach, Bye, LFreePool, HandlerScan, Unbind, BindHandler,
     InviteAnswered, WatchLeg, AttachBug, PublishMedia, LStartEnd, LStartDiscard, LDiscardEnd,
     Gate, Offer, Ungate, LChangeEnd, LDrainScan, LDrainNext, LDrainClaim
<1>3. ASSUME NEW t \in Threads, Unload(t) \/ LReturn(t)
      PROVE  ModuleMoves
  BY <1>3 DEF Unload, LReturn
<1>4. ASSUME NEW c \in Calls,
             CallHangsUp(c) \/ CoreRemovesBugs(c) \/ OnHangup(c) \/ OnDestroy(c)
      PROVE  module' = module
  BY <1>4 DEF CallHangsUp, CoreRemovesBugs, OnHangup, OnDestroy, RunHandler
<1>5. ASSUME NEW r \in Recs, LegHangsUp(r) \/ LegHandlers(r) \/ MediaTick(r)
      PROVE  module' = module
  BY <1>5 DEF LegHangsUp, LegHandlers, MediaTick
<1> QED
  BY <1>1, <1>2, <1>3, <1>4, <1>5 DEF LNext

-----------------------------------------------------------------------------
(* Every step keeps to the agenda: the acting thread ...                   *)
LEMMA ActorsAgenda ==
  ASSUME IInv, LTypeOK, Agenda, NEW t \in Threads,
         LBegin(t) \/ LContinue(t) \/ RunsHandler(t)
  PROVE  JobOf(t)' /\ PlaceOf(t)' /\ DueOf(t)'
<1> USE LifecycleAssumption
    DEF IInv, TypeOK, PinsAreBalanced, LTypeOK, threadVars, drainVars, vars, callVars
<1> DEFINE Goal == JobOf(t)' /\ PlaceOf(t)' /\ DueOf(t)'
<1>a. JobOf(t) /\ PlaceOf(t) /\ DueOf(t)
  BY DEF Agenda
<1> USE <1>a DEF JobOf, PlaceOf, DueOf, Starting, ChangeSteps
<1>1. CASE LBegin(t)
  <2>1. CASE \/ LStartRefused(t) \/ LStopAll(t)
             \/ \E j \in {"pause", "resume"} : LChangeRefused(t, j)
    BY <2>1 DEF LStartRefused, LStopAll, LChangeRefused, Starts, StartRefused,
                ChangeRefused, ReturnAtOnce, DrainBegin, MayRun, Ready
  <2>2. CASE Unload(t)
    BY <2>2 DEF Unload, DrainBegin, Ready
  <2>3. ASSUME NEW k \in Keys, LStartExists(t, k) \/ LStopMissing(t, k)
        PROVE  Goal
    BY <2>3 DEF LStartExists, LStopMissing, Starts, StartExists, StopMissing, ReturnAtOnce,
                MayRun, Ready
  <2>4. ASSUME NEW k \in Keys, LStopNamed(t, k)
        PROVE  Goal
    BY <2>4 DEF LStopNamed, StopNamed, Claim, MayRun, Ready
  <2>5. ASSUME NEW k \in Keys, NEW j \in {"pause", "resume"}, LAcquire(t, k, j)
        PROVE  Goal
    BY <2>5 DEF LAcquire, Starts, Acquire, MayRun, Ready
  <2>6. ASSUME NEW k \in Keys, NEW r \in Recs, LStartInsert(t, k, r)
        PROVE  Goal
    BY <2>6 DEF LStartInsert, Starts, StartInsert, MayRun, Ready
  <2> QED
    BY <1>1, <2>1, <2>2, <2>3, <2>4, <2>5, <2>6 DEF LBegin
<1>2. CASE LContinue(t)
  <2>1. CASE Detach(t) \/ Bye(t) \/ LFreePool(t)
    BY <2>1 DEF Detach, Bye, LFreePool, FreePool
  <2>2. CASE HandlerScan(t) \/ Unbind(t)
    BY <2>2 DEF HandlerScan, Unbind, Goto
  <2>3. CASE LReturn(t)
    BY <2>3 DEF LReturn, Return
  <2>4. CASE \/ BindHandler(t) \/ InviteAnswered(t) \/ WatchLeg(t) \/ AttachBug(t)
             \/ PublishMedia(t)
    BY <2>4 DEF BindHandler, InviteAnswered, WatchLeg, AttachBug, PublishMedia, Goto
  <2>5. CASE LStartEnd(t) \/ LStartDiscard(t) \/ LDiscardEnd(t)
    BY <2>5 DEF LStartEnd, LStartDiscard, LDiscardEnd, StartEnd, StartDiscard, DiscardEnd,
                Release, Goto
  <2>6. CASE Gate(t) \/ Ungate(t) \/ LChangeEnd(t)
    BY <2>6 DEF Gate, Ungate, LChangeEnd, ChangeEnd, Release, Goto
  <2>7. CASE Offer(t)
    <3>1. PICK ok \in BOOLEAN : Goto(t, AfterOffer(t, ok))
      BY <2>7 DEF Offer
    <3>2. at[t] = "offer" /\ UNCHANGED <<vars, callVars>>
      BY <2>7 DEF Offer
    <3> QED
      BY <3>1, <3>2 DEF Goto, AfterOffer
  <2>8. CASE LDrainScan(t) \/ LDrainNext(t)
    BY <2>8 DEF LDrainScan, LDrainNext, DrainScan, DrainNext
  <2>9. ASSUME NEW k \in Keys, LDrainClaim(t, k)
        PROVE  Goal
    BY <2>9 DEF LDrainClaim, DrainClaim, Unbinds
  <2> QED
    BY <1>2, <2>1, <2>2, <2>3, <2>4, <2>5, <2>6, <2>7, <2>8, <2>9 DEF LContinue
<1>3. CASE RunsHandler(t)
  BY <1>3 DEF RunsHandler, OnHangup, OnDestroy, RunHandler, DrainBegin, Ready
<1> QED
  BY <1>1, <1>2, <1>3

(* ... and, as a call that is past its hangup stays so, all others.        *)
LEMMA AgendaStep ==
  ASSUME IInv, LTypeOK, Agenda, UnloadIsAlone, [LNext]_lvars
  PROVE  Agenda'
<1> SUFFICES ASSUME NEW u \in Threads
             PROVE  JobOf(u)' /\ PlaceOf(u)' /\ DueOf(u)'
  BY DEF Agenda
<1>1. CASE LBegin(u) \/ LContinue(u) \/ RunsHandler(u)
  BY <1>1, ActorsAgenda
<1>2. CASE ~(LBegin(u) \/ LContinue(u) \/ RunsHandler(u))
  <2>1. StaysPut(u)
    BY <1>2, BystandersStayPut DEF IInv, Acts
  <2>2. \A c \in Calls : call[c] \in {"reporting", "gone"} => call'[c] \in {"reporting", "gone"}
    BY EveryCallMoves DEF CallMoves
  <2>3. job[u] = "unload" => module' = module
    <3>1. ASSUME NEW t \in Threads, LReturn(t), job[t] = "unload", job[u] = "unload"
          PROVE  FALSE
      BY <1>2, <3>1 DEF LContinue, UnloadIsAlone
    <3>2. job[u] = "unload" => module # "loaded"
      BY DEF Agenda, JobOf
    <3> QED
      BY <3>1, <3>2, EveryModuleMoves DEF ModuleMoves
  <2>4. JobOf(u) /\ PlaceOf(u) /\ DueOf(u) /\ ThreadCall[u] \in Calls \cup {NULL}
    BY LifecycleAssumption DEF Agenda
  <2> QED
    BY <2>1, <2>2, <2>3, <2>4 DEF JobOf, PlaceOf, DueOf, StaysPut
<1> QED
  BY <1>1, <1>2

-----------------------------------------------------------------------------
(* Operations begin on a thread that has none and end with their return.   *)
JobMoves(u) ==
  \/ job'[u] = job[u]
  \/ MayRun(u) /\ job'[u] \in {"start", "pause", "resume", "stop"}
  \/ Unload(u) /\ job'[u] = "unload"
  \/ LReturn(u) /\ job'[u] = "none"
  \/ RunsHandler(u) /\ Ready(u) /\ job'[u] = "hangup"

(* A thread's job changes only as its operations begin and end.            *)
LEMMA EveryJobMoves ==
  ASSUME IInv, LTypeOK, [LNext]_lvars, NEW u \in Threads
  PROVE  JobMoves(u)
<1> USE DEF LTypeOK, JobMoves, threadVars
<1>1. CASE LBegin(u)
  <2>1. ASSUME NEW j \in {"pause", "resume"}, LChangeRefused(u, j) \/ \E k \in Keys : LAcquire(u, k, j)
        PROVE  JobMoves(u)
    BY <2>1 DEF LChangeRefused, LAcquire, Starts
  <2>2. CASE ~\E j \in {"pause", "resume"} : LChangeRefused(u, j) \/ \E k \in Keys : LAcquire(u, k, j)
    BY <1>1, <2>2 DEF LBegin, LStartRefused, LStopAll, LStartExists, LStartInsert,
       LStopMissing, LStopNamed, Starts, Unload
  <2> QED
    BY <2>1, <2>2
<1>2. CASE LContinue(u)
  <2>1. CASE LReturn(u)
    BY <2>1 DEF LReturn
  <2>2. CASE ~LReturn(u)
    BY <1>2, <2>2 DEF LContinue, Detach, Bye, LFreePool, HandlerScan, Unbind, BindHandler,
       InviteAnswered, WatchLeg, AttachBug, PublishMedia, LStartEnd, LStartDiscard,
       LDiscardEnd, Gate, Offer, Ungate, LChangeEnd, LDrainScan, LDrainNext, LDrainClaim, Goto
  <2> QED
    BY <2>1, <2>2
<1>3. CASE RunsHandler(u)
  <2>1. PICK c \in Calls : u = OwnThread[c] /\ (OnHangup(c) \/ OnDestroy(c))
    BY <1>3 DEF RunsHandler
  <2>2. Ready(u) /\ (job' = job \/ job' = [job EXCEPT ![u] = "hangup"])
    BY <2>1 DEF OnHangup, OnDestroy, RunHandler
  <2> QED
    BY <1>3, <2>2
<1>4. CASE ~Acts(u)
  BY <1>4, BystandersStayPut DEF IInv, StaysPut
<1> QED
  BY <1>1, <1>2, <1>3, <1>4 DEF Acts

(* The unload excludes the apps in every step.                             *)
LEMMA UnloadStep ==
  ASSUME IInv, LTypeOK, Agenda, UnloadIsAlone, [LNext]_lvars
  PROVE  UnloadIsAlone'
<1> USE LifecycleAssumption DEF UnloadIsAlone
<1>j. \A u \in Threads : JobMoves(u)
  BY EveryJobMoves
<1>m. ModuleMoves
  BY EveryModuleMoves
<1>i. \A t \in Threads : pc[t] = "idle" <=> job[t] = "none"
  BY DEF Agenda, JobOf
<1>u. \A t \in Threads : job[t] = "unload" => module = "unloading"
  BY DEF Agenda, JobOf
<1>b. ASSUME NEW t \in Threads, Unload(t)
      PROVE  /\ ThreadCall[t] = NULL /\ module = "loaded" /\ pc[t] = "idle"
             /\ module' = "unloading" /\ job'[t] = "unload"
             /\ \A u \in Threads \ {t} : job[u] \in {"none", "hangup"} /\ job'[u] = job[u]
  BY <1>b DEF Unload, DrainBegin, Ready, LTypeOK
<1>e. ASSUME NEW t \in Threads, LReturn(t), job[t] = "unload"
      PROVE  module' = "unloaded"
  BY <1>e DEF LReturn
<1>1. ASSUME module' = "unloading"
      PROVE  \E t \in Threads : job'[t] = "unload"
  <2>1. CASE module = "loaded"
    BY <1>1, <1>m, <1>b, <2>1 DEF ModuleMoves
  <2>2. CASE module # "loaded"
    <3>1. PICK t \in Threads : job[t] = "unload"
      BY <1>1, <1>m, <2>2 DEF ModuleMoves
    <3>2. job'[t] = job[t]
      BY <1>1, <1>j, <1>e, <1>b, <1>i, <2>2, <3>1 DEF JobMoves, MayRun, Ready
    <3> QED
      BY <3>1, <3>2
  <2> QED
    BY <2>1, <2>2
<1>2. ASSUME NEW t \in Threads, module' # "loaded"
      PROVE  job'[t] \in {"none", "hangup", "unload"}
  <2>1. CASE module = "loaded"
    <3>1. PICK v \in Threads : Unload(v)
      BY <1>2, <1>m, <1>u, <2>1 DEF ModuleMoves
    <3> QED
      BY <1>b, <3>1
  <2>2. CASE module # "loaded"
    BY <1>j, <2>2 DEF JobMoves, MayRun
  <2> QED
    BY <2>1, <2>2
<1>3. ASSUME NEW t \in Threads, NEW u \in Threads, job'[t] = "unload", job'[u] = "unload"
      PROVE  t = u
  <2>1. \A v \in {t, u} : job[v] = "unload" \/ Unload(v)
    BY <1>3, <1>j DEF JobMoves
  <2> QED
    BY <1>b, <1>u, <2>1
<1>4. ASSUME NEW c \in Calls, call'[c] \in {"cleared", "reporting", "gone"}
      PROVE  job'[OwnThread[c]] \in {"none", "hangup"}
  <2> DEFINE t == OwnThread[c]
  <2>1. CallMoves(c) /\ ThreadCall[t] = c /\ t \in Threads
    BY EveryCallMoves
  <2>2. job[t] \in {"none", "hangup"}
    BY <1>4, <1>i, <2>1 DEF CallMoves, Ready
  <2>3. ~MayRun(t) \/ job'[t] = job[t]
    <3>1. CASE call[c] \in {"cleared", "reporting", "gone"}
      BY <2>1, <3>1 DEF MayRun
    <3>2. CASE call[c] \notin {"cleared", "reporting", "gone"}
      BY <1>4, <2>1, <3>2, OutsideLeavesThreads DEF CallMoves, Outside, threadVars
    <3> QED
      BY <3>1, <3>2
  <2> QED
    BY <1>j, <1>b, <2>1, <2>2, <2>3 DEF JobMoves
<1> QED
  BY <1>1, <1>2, <1>3, <1>4

-----------------------------------------------------------------------------
(* What the lock holds do to the table, entry by entry.                    *)
EntryMoves(k) ==
  \/ hash'[k] = hash[k]
  \/ \E t \in Threads, r \in Recs : LStartInsert(t, k, r) /\ hash'[k] = r
  \/ /\ hash[k] # NULL /\ hash'[k] = NULL
     /\ \E t \in Threads : \/ LStopNamed(t, k) \/ LDrainClaim(t, k)
                           \/ LStartDiscard(t) /\ key[pin[t]] = k /\ hash[k] = pin[t]
RecMoves(r) ==
  /\ key'[r] # key[r] => pool[r] = "unborn" /\ \E t \in Threads, k \in Keys : LStartInsert(t, k, r)
  /\ pool'[r] = "unborn" => pool[r] = "unborn"
  /\ doomed'[r] # doomed[r] =>
       \E t \in Threads :
         \/ \E k \in Keys : hash[k] = r /\ (LStopNamed(t, k) \/ LDrainClaim(t, k))
         \/ LStartDiscard(t) /\ pin[t] = r

(* ... which is all that happens to it.                                    *)
LEMMA EveryEntryMoves ==
  ASSUME IInv, LTypeOK, [LNext]_lvars
  PROVE  (\A k \in Keys : EntryMoves(k)) /\ (\A r \in Recs : RecMoves(r))
<1> USE DEF EntryMoves, RecMoves, IInv, TypeOK, recVars, vars
<1> DEFINE Goal == (\A k \in Keys : EntryMoves(k)) /\ (\A r \in Recs : RecMoves(r))
<1>1. ASSUME NEW t \in Threads, LBegin(t)
      PROVE  Goal
  <2>1. CASE \/ LStartRefused(t) \/ LStopAll(t) \/ Unload(t)
             \/ \E j \in {"pause", "resume"} : LChangeRefused(t, j)
    BY <2>1 DEF LStartRefused, LStopAll, Unload, LChangeRefused, StartRefused,
                ChangeRefused, ReturnAtOnce, DrainBegin
  <2>2. ASSUME NEW k \in Keys, \/ LStartExists(t, k) \/ LStopMissing(t, k)
                               \/ \E j \in {"pause", "resume"} : LAcquire(t, k, j)
        PROVE  Goal
    BY <2>2 DEF LStartExists, LStopMissing, LAcquire, StartExists, StopMissing, ReturnAtOnce,
                Acquire
  <2>3. ASSUME NEW k \in Keys, LStopNamed(t, k)
        PROVE  Goal
    BY <2>3 DEF LStopNamed, StopNamed, Claim
  <2>4. ASSUME NEW k \in Keys, NEW r \in Recs, LStartInsert(t, k, r)
        PROVE  Goal
    BY <2>4 DEF LStartInsert, StartInsert
  <2> QED
    BY <1>1, <2>1, <2>2, <2>3, <2>4 DEF LBegin
<1>2. ASSUME NEW t \in Threads, LContinue(t)
      PROVE  Goal
  <2>1. CASE \/ Detach(t) \/ Bye(t) \/ HandlerScan(t) \/ Unbind(t) \/ LReturn(t)
             \/ BindHandler(t) \/ InviteAnswered(t) \/ WatchLeg(t) \/ AttachBug(t)
             \/ PublishMedia(t) \/ Gate(t) \/ Offer(t) \/ Ungate(t) \/ LDrainScan(t)
             \/ LDrainNext(t)
    <3>1. UNCHANGED recVars
      BY <2>1 DEF Detach, Bye, HandlerScan, Unbind, LReturn, Return, BindHandler,
         InviteAnswered, WatchLeg, AttachBug, PublishMedia, Gate, Offer, Ungate, LDrainScan,
         DrainScan, LDrainNext, DrainNext
    <3> QED
      BY <3>1
  <2>2. CASE LFreePool(t)
    BY <2>2 DEF LFreePool, FreePool
  <2>3. CASE LStartEnd(t) \/ LDiscardEnd(t) \/ LChangeEnd(t)
    BY <2>3 DEF LStartEnd, LDiscardEnd, LChangeEnd, StartEnd, DiscardEnd, ChangeEnd, Release
  <2>4. CASE LStartDiscard(t)
    BY <2>4, ZenonT(40) DEF LStartDiscard, StartDiscard, StillListed, PinsAreBalanced
  <2>5. ASSUME NEW k \in Keys, LDrainClaim(t, k)
        PROVE  Goal
    <3>1. CASE hash[k] # NULL
      <4>1. Claim(t, k)
        BY <2>5, <3>1 DEF LDrainClaim, DrainClaim
      <4> QED
        BY <2>5, <3>1, <4>1 DEF Claim
    <3>2. CASE hash[k] = NULL
      BY <2>5, <3>2 DEF LDrainClaim, DrainClaim
    <3> QED
      BY <3>1, <3>2
  <2> QED
    BY <1>2, <2>1, <2>2, <2>3, <2>4, <2>5 DEF LContinue
<1>3. ASSUME NEW t \in Threads, RunsHandler(t)
      PROVE  Goal
  BY <1>3 DEF RunsHandler, OnHangup, OnDestroy, RunHandler, DrainBegin
<1>4. CASE Outside \/ UNCHANGED lvars
  BY <1>4, OutsideLeavesThreads
<1> QED
  BY <1>1, <1>2, <1>3, <1>4, StepKinds

(* A recording in somebody's hands or in the hash keeps its key.           *)
LEMMA KeysStay ==
  ASSUME IInv, LTypeOK, [LNext]_lvars, NEW r \in Recs, pool[r] # "unborn"
  PROVE  key'[r] = key[r] /\ key[r] \in Keys /\ CallOf(key[r]) \in Calls
BY EveryEntryMoves DEF RecMoves, IInv, TypeOK, UnbornIsUnknown, Keys, CallOf

-----------------------------------------------------------------------------
(* Every thread minds its own call's recordings: the acting one ...        *)
LEMMA ActorsBusiness ==
  ASSUME IInv, LTypeOK, Agenda, OwnBusiness, NEW t \in Threads, Acts(t), [LNext]_lvars
  PROVE  ScopeOf(t)'
<1> USE DEF drainVars, vars, threadVars
<1>s. ScopeOf(t) /\ JobOf(t)
  BY DEF OwnBusiness, Agenda
<1>t. TypeOK /\ LTypeOK /\ PinsAreBalanced
  BY DEF IInv
<1>k. \A r \in Recs : pool[r] # "unborn" => key'[r] = key[r]
  BY KeysStay
<1>l. /\ pin[t] # NULL => pin[t] \in Recs /\ pool[pin[t]] # "unborn"
      /\ own[t] # NULL => own[t] \in Recs /\ pool[own[t]] # "unborn"
      /\ \A k \in Keys : hash[k] # NULL =>
           hash[k] \in Recs /\ pool[hash[k]] # "unborn" /\ key[hash[k]] = k
  BY DEF IInv, TypeOK, ReferencesAreLive, ListedIsNotDoomed
<1>n. ASSUME pc'[t] \notin {"scan", "claim"} \/ (pc'[t] = pc[t] /\ todo'[t] = todo[t]),
             scope'[t] = scope[t] \/ pc'[t] = "idle", job'[t] = job[t] \/ pc'[t] = "idle",
             pin'[t] \in {pin[t], NULL}, own'[t] \in {own[t], NULL}, pc'[t] = "idle" => own'[t] = NULL
      PROVE  ScopeOf(t)'
  BY <1>n, <1>s, <1>t, <1>k, <1>l DEF ScopeOf
<1> USE <1>s, <1>t, <1>k, <1>l DEF JobOf, TypeOK, LTypeOK, PinsAreBalanced
<1>1. CASE LBegin(t)
  <2>1. CASE LStartRefused(t) \/ \E j \in {"pause", "resume"} : LChangeRefused(t, j)
    BY <2>1 DEF ScopeOf, LStartRefused, LChangeRefused, Starts, StartRefused,
                ChangeRefused, ReturnAtOnce, MayRun, Ready
  <2>2. CASE LStopAll(t)
    BY <2>2 DEF ScopeOf, LStopAll, Starts, DrainBegin, MayRun, Ready
  <2>3. CASE Unload(t)
    BY <2>3 DEF ScopeOf, Unload, DrainBegin, Ready
  <2>4. ASSUME NEW k \in Keys, LStartExists(t, k) \/ LStopMissing(t, k)
        PROVE  ScopeOf(t)'
    BY <2>4 DEF ScopeOf, LStartExists, LStopMissing, Starts, StartExists, StopMissing, ReturnAtOnce,
                MayRun, Ready
  <2>5. ASSUME NEW k \in Keys, LStopNamed(t, k)
        PROVE  ScopeOf(t)'
    BY <2>5 DEF ScopeOf, LStopNamed, StopNamed, Claim, MayRun, Ready
  <2>6. ASSUME NEW k \in Keys, NEW j \in {"pause", "resume"}, LAcquire(t, k, j)
        PROVE  ScopeOf(t)'
    BY <2>6 DEF ScopeOf, LAcquire, Starts, Acquire, MayRun, Ready
  <2>7. ASSUME NEW k \in Keys, NEW r \in Recs, LStartInsert(t, k, r)
        PROVE  ScopeOf(t)'
    BY <2>7 DEF ScopeOf, LStartInsert, Starts, StartInsert, MayRun, Ready
  <2> QED
    BY <1>1, <2>1, <2>2, <2>3, <2>4, <2>5, <2>6, <2>7 DEF LBegin
<1>2. CASE LContinue(t)
  <2>1. CASE Detach(t) \/ Bye(t) \/ LFreePool(t)
    BY <1>n, <2>1 DEF Detach, Bye, LFreePool, FreePool
  <2>2. CASE HandlerScan(t) \/ Unbind(t) \/ LReturn(t)
    BY <1>n, <2>2 DEF HandlerScan, Unbind, Goto, LReturn, Return
  <2>4. CASE \/ BindHandler(t) \/ InviteAnswered(t) \/ WatchLeg(t) \/ AttachBug(t)
             \/ PublishMedia(t) \/ Gate(t) \/ Ungate(t)
    BY <1>n, <2>4 DEF BindHandler, InviteAnswered, WatchLeg, AttachBug, PublishMedia, Gate, Ungate, Goto
  <2>5. CASE LStartEnd(t) \/ LStartDiscard(t) \/ LDiscardEnd(t) \/ LChangeEnd(t)
    BY <2>5 DEF ScopeOf, LStartEnd, LStartDiscard, LDiscardEnd, LChangeEnd, StartEnd, StartDiscard,
                DiscardEnd, ChangeEnd, Release, Goto
  <2>7. CASE Offer(t)
    BY <1>n, <2>7 DEF Offer, Goto
  <2>8. CASE LDrainScan(t)
    <3>1. todo'[t] \subseteq Matches(scope[t])
      BY <2>8 DEF ScopeOf, LDrainScan, DrainScan
    <3> QED
      BY <2>8, <3>1 DEF ScopeOf, LDrainScan, DrainScan, Matches
  <2>9. CASE LDrainNext(t)
    BY <2>9 DEF ScopeOf, LDrainNext, DrainNext
  <2>10. ASSUME NEW k \in Keys, LDrainClaim(t, k)
        PROVE  ScopeOf(t)'
    <3>1. CASE hash[k] # NULL
      BY <2>10, <3>1 DEF ScopeOf, LDrainClaim, DrainClaim, Claim
    <3>2. CASE hash[k] = NULL
      BY <2>10, <3>2 DEF ScopeOf, LDrainClaim, DrainClaim
    <3> QED
      BY <3>1, <3>2
  <2> QED
    BY <1>2, <2>1, <2>2, <2>4, <2>5, <2>7, <2>8, <2>9, <2>10 DEF LContinue
<1>3. CASE RunsHandler(t)
  <2>1. PICK c \in Calls : t = OwnThread[c] /\ (OnHangup(c) \/ OnDestroy(c))
    BY <1>3 DEF RunsHandler
  <2>2. ThreadCall[t] = c /\ Ready(t)
    BY <2>1, LifecycleAssumption DEF OnHangup, OnDestroy, RunHandler
  <2>3. CASE bound[c]
    <3>1. DrainBegin(t, {c}) /\ job' = [job EXCEPT ![t] = "hangup"]
      BY <2>1, <2>3 DEF OnHangup, OnDestroy, RunHandler
    <3> QED
      BY <2>2, <3>1 DEF ScopeOf, DrainBegin, Ready
  <2>4. CASE ~bound[c]
    <3>1. UNCHANGED <<pc, pin, own, todo, scope, job>>
      BY <2>1, <2>4 DEF OnHangup, OnDestroy, RunHandler
    <3> QED
      BY <1>n, <2>2, <3>1 DEF Ready
  <2> QED
    BY <2>3, <2>4
<1> QED
  BY <1>1, <1>2, <1>3 DEF Acts

(* ... and those who stay put.                                             *)
LEMMA BusinessStep ==
  ASSUME IInv, LTypeOK, Agenda, OwnBusiness, [LNext]_lvars
  PROVE  OwnBusiness'
<1> SUFFICES ASSUME NEW u \in Threads
             PROVE  ScopeOf(u)'
  BY DEF OwnBusiness
<1>1. CASE Acts(u)
  BY <1>1, ActorsBusiness
<1>2. CASE ~Acts(u)
  <2>1. StaysPut(u) /\ ScopeOf(u)
    BY <1>2, BystandersStayPut DEF IInv, OwnBusiness
  <2>2. /\ pin[u] # NULL => pin[u] \in Recs /\ key'[pin[u]] = key[pin[u]]
        /\ own[u] # NULL => own[u] \in Recs /\ key'[own[u]] = key[own[u]]
    BY KeysStay DEF IInv, TypeOK, ReferencesAreLive
  <2> QED
    BY <2>1, <2>2 DEF ScopeOf, StaysPut
<1> QED
  BY <1>1, <1>2

(* Two threads never have one recording pinned.                            *)
LEMMA PinsAreApart ==
  ASSUME AppsAreSerial, IInv, OwnBusiness, NEW t \in Threads, NEW u \in Threads,
         pin[t] # NULL, pin[t] = pin[u]
  PROVE  t = u
<1>1. pin[t] \in Recs /\ key[pin[t]] \in Keys
  BY DEF IInv, TypeOK, ReferencesAreLive, UnbornIsUnknown
<1>2. CallOf(key[pin[t]]) \in Calls
  BY <1>1 DEF Keys, CallOf
<1>3. ThreadCall[t] = ThreadCall[u] /\ ThreadCall[t] # NULL
  BY <1>2, LifecycleAssumption DEF OwnBusiness, ScopeOf
<1> QED
  BY <1>3 DEF AppsAreSerial

-----------------------------------------------------------------------------
(* A start on a call and whoever takes recordings of the call are the same *)
(* thread, or the taker is the unload.                                     *)
LEMMA TakerIsOwn ==
  ASSUME AppsAreSerial, IInv, LTypeOK, Agenda, OwnBusiness, NEW t \in Threads, NEW k \in Keys,
         LStopNamed(t, k) \/ LDrainClaim(t, k) \/ \E r \in Recs : LStartInsert(t, k, r)
  PROVE  job[t] = "unload" \/ (t = OwnThread[CallOf(k)] /\ ThreadCall[t] = CallOf(k))
<1> USE LifecycleAssumption DEF AppsAreSerial
<1>1. CallOf(k) \in Calls
  BY DEF Keys, CallOf
<1>2. CASE LStopNamed(t, k) \/ \E r \in Recs : LStartInsert(t, k, r)
  BY <1>1, <1>2 DEF LStopNamed, LStartInsert
<1>3. CASE LDrainClaim(t, k)
  <2>1. pc[t] = "claim" /\ CallOf(k) \in scope[t]
    BY <1>3 DEF LDrainClaim, DrainClaim, OwnBusiness, ScopeOf
  <2>2. CASE job[t] # "unload"
    <3>1. ScopeOf(t)
      BY DEF OwnBusiness
    <3>2. scope[t] = {ThreadCall[t]}
      BY <2>1, <2>2, <3>1 DEF ScopeOf
    <3>3. CallOf(k) = ThreadCall[t]
      BY <2>1, <3>2
    <3> QED
      BY <1>1, <3>3
  <2> QED
    BY <2>2
<1> QED
  BY <1>2, <1>3

(* No start begins on a call while its thread is busy, nor once it has     *)
(* hung up or the module is unloading.                                     *)
LEMMA InsertIsAlone ==
  ASSUME AppsAreSerial, IInv, LTypeOK, Agenda, NEW t \in Threads, NEW k \in Keys, NEW r \in Recs,
         LStartInsert(t, k, r)
  PROVE  /\ module = "loaded" /\ module' = "loaded"
         /\ t = OwnThread[CallOf(k)] /\ ThreadCall[t] = CallOf(k) /\ CallOf(k) \in Calls
         /\ call[CallOf(k)] = "up" /\ pc[t] = "idle" /\ job[t] = "none"
         /\ \A u \in Threads : ThreadCall[u] = CallOf(k) => u = t
BY LifecycleAssumption
   DEF LStartInsert, MayRun, Ready, Starts, callVars, AppsAreSerial, Agenda, JobOf, Keys, CallOf

(* A thread is in a start by its insert or because it was, with its pin.   *)
LEMMA StartsBegin ==
  ASSUME IInv, LTypeOK, [LNext]_lvars, NEW t \in Threads, pc'[t] = "start"
  PROVE  \/ \E k \in Keys, r \in Recs : LStartInsert(t, k, r)
         \/ pc[t] = "start" /\ pin'[t] = pin[t] /\ ~LStartDiscard(t)
<1> DEFINE Stays == pc[t] = "start" /\ pin'[t] = pin[t] /\ ~LStartDiscard(t)
<1> USE DEF IInv, TypeOK, vars
<1>0. ~LStartDiscard(t)
  BY DEF LStartDiscard, StartDiscard
<1>1. CASE ~Acts(t)
  BY <1>0, <1>1, BystandersStayPut DEF StaysPut
<1>2. CASE RunsHandler(t)
  BY <1>0, <1>2 DEF RunsHandler, OnHangup, OnDestroy, RunHandler, DrainBegin
<1>3. CASE LBegin(t)
  BY <1>3 DEF LBegin, LStartRefused, LStopAll, LChangeRefused, LStartExists, LStopMissing,
     LStopNamed, LAcquire, Unload, StartRefused, ChangeRefused, StartExists, StopMissing,
     ReturnAtOnce, StopNamed, Acquire, DrainBegin
<1>4. CASE LContinue(t)
  BY <1>0, <1>4 DEF LContinue, Detach, Bye, LFreePool, FreePool, HandlerScan, Unbind, LReturn,
     Return, BindHandler, InviteAnswered, WatchLeg, AttachBug, PublishMedia, LStartEnd, StartEnd,
     LDiscardEnd, DiscardEnd, Gate, Offer, Ungate, LChangeEnd, ChangeEnd, LDrainScan, DrainScan,
     LDrainNext, DrainNext, LDrainClaim, DrainClaim
<1> QED
  BY <1>1, <1>2, <1>3, <1>4 DEF Acts

(* A start keeps its recording listed: its call's thread is busy with it,  *)
(* and the unload has not begun.                                           *)
LEMMA StartHoldsStep ==
  ASSUME AppsAreSerial, IInv, LTypeOK, Agenda, UnloadIsAlone, OwnBusiness, StartHolds,
         [LNext]_lvars
  PROVE  StartHolds'
<1> SUFFICES ASSUME NEW t \in Threads, pc'[t] = "start"
             PROVE  (Listed(pin[t]) /\ ~doomed[pin[t]])'
  BY DEF StartHolds
<1>1. ASSUME NEW k \in Keys, NEW r \in Recs, LStartInsert(t, k, r)
      PROVE  (Listed(pin[t]) /\ ~doomed[pin[t]])'
  BY <1>1, RegistryAssumption
     DEF LStartInsert, StartInsert, Listed, IInv, TypeOK, UnbornIsUnknown
<1>2. ASSUME pc[t] = "start", pin'[t] = pin[t], ~LStartDiscard(t)
      PROVE  (Listed(pin[t]) /\ ~doomed[pin[t]])'
  <2> DEFINE r == pin[t]
  <2> DEFINE k == key[r]
  <2>1. r \in Recs /\ pool[r] # "unborn" /\ r # NULL
    BY <1>2 DEF IInv, TypeOK, PinsAreBalanced, ReferencesAreLive
  <2>2. key'[r] = k /\ k \in Keys /\ CallOf(k) \in Calls
    BY <2>1, KeysStay
  <2>3. hash[k] = r /\ ~doomed[r]
    BY <1>2 DEF StartHolds, Listed
  <2>4. ThreadCall[t] = CallOf(k) /\ t = OwnThread[CallOf(k)]
    <3>1. ScopeOf(t)
      BY DEF OwnBusiness
    <3>2. CallOf(k) = ThreadCall[t] /\ CallOf(k) # NULL
      BY <2>1, <2>2, <3>1, LifecycleAssumption DEF ScopeOf
    <3> QED
      BY <3>2 DEF AppsAreSerial
  <2>5. job[t] = "start"
    BY <1>2 DEF Agenda, JobOf
  <2>6. ASSUME NEW u \in Threads, LStopNamed(u, k) \/ LDrainClaim(u, k)
        PROVE  FALSE
    <3>1. job[u] # "unload"
      BY <2>5 DEF Agenda, JobOf, UnloadIsAlone
    <3>2. u = t
      BY <2>2, <2>4, <2>6, <3>1, TakerIsOwn
    <3> QED
      BY <1>2, <2>6, <3>2 DEF LStopNamed, StopNamed, Ready, LDrainClaim, DrainClaim
  <2>7. ASSUME NEW u \in Threads, LStartDiscard(u), pin[u] = r
        PROVE  FALSE
    BY <1>2, <2>1, <2>7, PinsAreApart
  <2>8. ASSUME NEW u \in Threads, NEW q \in Recs, LStartInsert(u, k, q)
        PROVE  FALSE
    BY <1>2, <2>2, <2>4, <2>8, InsertIsAlone
  <2>9. hash'[k] = r
    BY <2>2, <2>3, <2>6, <2>7, <2>8, EveryEntryMoves DEF EntryMoves
  <2>10. ~doomed'[r]
    <3>1. \A j \in Keys : hash[j] = r => j = k
      BY <2>1 DEF IInv, ListedIsNotDoomed
    <3> QED
      BY <2>1, <2>3, <2>6, <2>7, <3>1, EveryEntryMoves DEF RecMoves
  <2> QED
    BY <1>2, <2>2, <2>9, <2>10, RegistryAssumption DEF Listed
<1> QED
  BY <1>1, <1>2, StartsBegin

-----------------------------------------------------------------------------
(* Nothing is listed anywhere once the module unloads ...                  *)
LEMMA NothingArrivesLate ==
  ASSUME IInv, LTypeOK, [LNext]_lvars, NEW k \in Keys, hash'[k] # NULL,
         module # "loaded" \/ module' # "loaded"
  PROVE  hash[k] # NULL
<1>1. ASSUME NEW u \in Threads, NEW r \in Recs, LStartInsert(u, k, r)
      PROVE  module = "loaded" /\ module' = "loaded"
  BY <1>1 DEF LStartInsert, MayRun, Starts, callVars
<1> QED
  BY <1>1, EveryEntryMoves DEF EntryMoves

(* ... nor on a call whose thread is busy or that has hung up.             *)
LEMMA NothingArrives ==
  ASSUME AppsAreSerial, IInv, LTypeOK, Agenda, [LNext]_lvars, NEW k \in Keys, hash'[k] # NULL,
         \/ module # "loaded" \/ module' # "loaded"
         \/ call[CallOf(k)] # "up"
         \/ \E t \in Threads : ThreadCall[t] = CallOf(k) /\ pc[t] # "idle"
  PROVE  hash[k] # NULL
<1>1. ASSUME NEW u \in Threads, NEW r \in Recs, LStartInsert(u, k, r)
      PROVE  FALSE
  BY <1>1, InsertIsAlone
<1> QED
  BY <1>1, EveryEntryMoves DEF EntryMoves

(* How a drain goes on and how it, and a stop, come to their end.          *)
DrainMoves(t) ==
  /\ pc'[t] = "claim" =>
       \/ LDrainScan(t)
       \/ /\ pc[t] = "claim" /\ more'[t] = more[t] /\ scope'[t] = scope[t]
          /\ \/ todo'[t] = todo[t]
             \/ \E k \in Keys : hash'[k] = NULL /\ todo'[t] = todo[t] \ {k}
  /\ pc[t] \in {"scan", "claim"} => pc'[t] \in {"scan", "claim"} \/ LDrainNext(t)
  /\ pc'[t] = "return" =>
       \/ pc[t] = "return" /\ job'[t] = job[t] /\ named'[t] = named[t]
       \/ LDrainNext(t)
       \/ job'[t] = "stop" /\ \E k \in Keys : LStopMissing(t, k) \/ LStopNamed(t, k)
       \/ job'[t] \notin {"stop", "unload"}

(* A drain advances only by its scans and claims.                          *)
LEMMA EveryDrainMoves ==
  ASSUME IInv, LTypeOK, Agenda, [LNext]_lvars, NEW t \in Threads
  PROVE  DrainMoves(t)
<1> USE DEF IInv, TypeOK, LTypeOK, vars, threadVars, drainVars
<1>a. JobOf(t)
  BY DEF Agenda
<1>1. CASE ~Acts(t)
  BY <1>1, BystandersStayPut DEF StaysPut, DrainMoves
<1>2. CASE RunsHandler(t)
  BY <1>2 DEF RunsHandler, OnHangup, OnDestroy, RunHandler, DrainBegin, Ready, DrainMoves
<1>3. CASE LBegin(t)
  <2>1. pc[t] = "idle"
    BY <1>3 DEF LBegin, LStartRefused, LStopAll, Unload, LChangeRefused, LStartExists,
                LStartInsert, LAcquire, LStopMissing, LStopNamed, MayRun, Ready, DrainBegin
  <2>2. CASE \E k \in Keys : LStopMissing(t, k) \/ LStopNamed(t, k)
    <3>1. job'[t] = "stop" /\ pc'[t] = "return"
      BY <2>2 DEF LStopMissing, LStopNamed, Starts, StopMissing, ReturnAtOnce, StopNamed
    <3> QED
      BY <2>1, <2>2, <3>1 DEF DrainMoves
  <2>3. CASE LStopAll(t) \/ Unload(t)
    BY <2>1, <2>3 DEF LStopAll, Unload, DrainBegin, DrainMoves
  <2>4. CASE \/ LStartRefused(t) \/ \E j \in {"pause", "resume"} : LChangeRefused(t, j)
             \/ \E k \in Keys : LStartExists(t, k)
    <3>1. job'[t] \notin {"stop", "unload"} /\ pc'[t] = "return"
      BY <2>4 DEF LStartRefused, LChangeRefused, LStartExists, Starts, StartRefused,
                  ChangeRefused, StartExists, ReturnAtOnce
    <3> QED
      BY <2>1, <3>1 DEF DrainMoves
  <2>5. CASE \E k \in Keys : \/ \E j \in {"pause", "resume"} : LAcquire(t, k, j)
                             \/ \E r \in Recs : LStartInsert(t, k, r)
    <3>1. pc'[t] \in {"start", "change"}
      BY <2>5 DEF LAcquire, LStartInsert, Acquire, StartInsert
    <3> QED
      BY <2>1, <3>1 DEF DrainMoves
  <2> QED
    BY <1>3, <2>2, <2>3, <2>4, <2>5 DEF LBegin
<1>4. CASE LContinue(t)
  <2>1. CASE LDrainScan(t) \/ LDrainNext(t)
    BY <2>1 DEF LDrainScan, DrainScan, LDrainNext, DrainNext, DrainMoves
  <2>2. ASSUME NEW k \in Keys, LDrainClaim(t, k)
        PROVE  DrainMoves(t)
    <3>1. hash'[k] = NULL
      BY <2>2 DEF LDrainClaim, DrainClaim, Claim, recVars
    <3>2. /\ todo'[t] = todo[t] \ {k} /\ pc[t] = "claim" /\ pc'[t] = "claim"
          /\ more' = more /\ scope' = scope
      BY <2>2 DEF LDrainClaim, DrainClaim
    <3> QED
      BY <3>1, <3>2 DEF DrainMoves
  <2>3. CASE \/ Detach(t) \/ Bye(t) \/ LFreePool(t) \/ HandlerScan(t) \/ Unbind(t) \/ Gate(t)
             \/ Ungate(t) \/ Offer(t) \/ BindHandler(t) \/ InviteAnswered(t) \/ WatchLeg(t)
             \/ AttachBug(t) \/ PublishMedia(t)
    <3>1. UNCHANGED <<pc, todo, more, scope, job, named>>
      BY <2>3 DEF Detach, Bye, LFreePool, FreePool, HandlerScan, Unbind, Gate, Ungate, Offer, Goto,
         BindHandler, InviteAnswered, WatchLeg, AttachBug, PublishMedia
    <3> QED
      BY <3>1 DEF DrainMoves
  <2>4. CASE LReturn(t)
    BY <2>4 DEF LReturn, Return, DrainMoves
  <2>5. CASE LStartEnd(t) \/ LStartDiscard(t) \/ LDiscardEnd(t) \/ LChangeEnd(t)
    <3>1. job' = job /\ pc[t] \in {"start", "discard", "change"} /\ pc'[t] \in {"return", "discard"}
      BY <2>5 DEF LStartEnd, LStartDiscard, LDiscardEnd, LChangeEnd, Goto, StartEnd, StartDiscard,
         DiscardEnd, ChangeEnd
    <3> QED
      BY <1>a, <3>1 DEF JobOf, DrainMoves
  <2> QED
    BY <1>4, <2>1, <2>2, <2>3, <2>4, <2>5 DEF LContinue
<1> QED
  BY <1>1, <1>2, <1>3, <1>4 DEF Acts

(* The last pass of a drain misses nothing: what matches was there when it *)
(* scanned, and it fitted the batch.                                       *)
LEMMA LastPassStep ==
  ASSUME IInv, LTypeOK, Agenda, OwnBusiness, [LNext]_lvars, NEW t \in Threads, LastPass(t),
         AppsAreSerial \/ job[t] = "unload"
  PROVE  LastPass(t)'
<1> SUFFICES ASSUME pc'[t] = "claim", ~more'[t], NEW k \in Keys, hash'[k] # NULL,
                    CallOf(k) \in scope'[t]
             PROVE  k \in todo'[t]
  BY DEF LastPass
<1>1. CASE LDrainScan(t)
  <2>1. PICK B \in SUBSET Matches(scope[t]) :
          /\ BatchOf(B, Matches(scope[t]))
          /\ todo' = [todo EXCEPT ![t] = B]
          /\ more' = [more EXCEPT ![t] = FullBatch(B)]
    BY <1>1 DEF LDrainScan, DrainScan
  <2>2. UNCHANGED <<hash, scope>>
    BY <1>1 DEF LDrainScan, DrainScan, recVars
  <2>3. ~FullBatch(B) /\ todo'[t] = B
    BY <2>1 DEF IInv, TypeOK
  <2>4. B = Matches(scope[t])
    BY <2>1, <2>3, RegistryAssumption DEF BatchOf, FullBatch
  <2> QED
    BY <2>2, <2>3, <2>4 DEF Matches
<1>2. CASE ~LDrainScan(t)
  <2>1. /\ pc[t] = "claim" /\ more'[t] = more[t] /\ scope'[t] = scope[t]
        /\ \/ todo'[t] = todo[t]
           \/ \E j \in Keys : hash'[j] = NULL /\ todo'[t] = todo[t] \ {j}
    BY <1>2, EveryDrainMoves DEF DrainMoves
  <2>2. hash[k] # NULL
    <3>1. ScopeOf(t) /\ JobOf(t)
      BY DEF OwnBusiness, Agenda
    <3>2. CASE job[t] = "unload"
      <4>1. module # "loaded"
        BY <3>1, <3>2 DEF JobOf
      <4> QED
        BY <4>1, NothingArrivesLate
    <3>3. CASE job[t] # "unload"
      <4>1. scope[t] = {ThreadCall[t]}
        BY <2>1, <3>1, <3>3 DEF ScopeOf
      <4>2. ThreadCall[t] = CallOf(k)
        BY <2>1, <4>1
      <4> QED
        BY <2>1, <3>3, <4>2, NothingArrives
    <3> QED
      BY <3>2, <3>3
  <2>4. k \in todo[t]
    BY <2>1, <2>2 DEF LastPass
  <2> QED
    BY <2>1, <2>4
<1> QED
  BY <1>1, <1>2

(* A drain that is over has emptied its scope.                             *)
LEMMA DrainEnds ==
  ASSUME IInv, LTypeOK, Agenda, [LNext]_lvars, NEW t \in Threads, LastPass(t),
         LDrainNext(t), pc'[t] = "return"
  PROVE  /\ \A k \in Keys : CallOf(k) \in scope[t] => hash'[k] = NULL
         /\ pc[t] = "claim" /\ UNCHANGED <<hash, call, module, job, scope>>
<1>1. /\ pc[t] = "claim" /\ todo[t] = {} /\ UNCHANGED <<hash, call, module, job, scope>>
      /\ pc' = [pc EXCEPT ![t] = IF more[t] THEN "scan" ELSE "return"]
  BY DEF LDrainNext, DrainNext, recVars, callVars, drainVars
<1>2. ~more[t]
  BY <1>1 DEF IInv, TypeOK
<1> QED
  BY <1>1, <1>2 DEF LastPass

(* Nor does anything arrive before a stop has returned.                    *)
LEMMA StopOverStep ==
  ASSUME AppsAreSerial, IInv, LTypeOK, Agenda, OwnBusiness, DrainsAreComplete, [LNext]_lvars,
         NEW t \in Threads
  PROVE  StopIsOver(t)'
<1> SUFFICES ASSUME job'[t] = "stop", pc'[t] = "return", NEW k \in Keys,
                    CallOf(k) = ThreadCall[t], named'[t] \in {NULL, k[1]}
             PROVE  hash'[k] = NULL
  BY DEF StopIsOver, StopKeys
<1>1. CASE pc[t] = "return" /\ job'[t] = job[t] /\ named'[t] = named[t]
  <2>1. hash[k] = NULL
    BY <1>1 DEF DrainsAreComplete, StopIsOver, StopKeys
  <2> QED
    BY <1>1, <2>1, NothingArrives
<1>2. CASE LDrainNext(t)
  <2>1. pc[t] = "claim" /\ job[t] = "stop"
    BY <1>2, DrainEnds DEF DrainsAreComplete
  <2>2. CallOf(k) \in scope[t]
    BY <2>1 DEF OwnBusiness, ScopeOf
  <2> QED
    BY <1>2, <2>2, DrainEnds DEF DrainsAreComplete
<1>3. ASSUME NEW j \in Keys, LStopMissing(t, j) \/ LStopNamed(t, j)
      PROVE  hash'[k] = NULL
  <2>1. /\ CallOf(j) = ThreadCall[t] /\ named'[t] = j[1] /\ hash'[j] = NULL
    BY <1>3 DEF LStopMissing, LStopNamed, StopMissing, StopNamed, ReturnAtOnce, Claim, recVars,
                LTypeOK, IInv, TypeOK
  <2>2. j[1] # NULL
    BY LifecycleAssumption DEF Keys
  <2>3. k = j
    BY <2>1, <2>2 DEF Keys, CallOf
  <2> QED
    BY <2>1, <2>3
<1> QED
  BY <1>1, <1>2, <1>3, EveryDrainMoves DEF DrainMoves

(* A call that has hung up while it held the handler has been drained.     *)
LEMMA HangupOverStep ==
  ASSUME AppsAreSerial, IInv, LTypeOK, Agenda, UnloadIsAlone, OwnBusiness, DrainsAreComplete,
         HandlersFollow, [LNext]_lvars, NEW c \in Calls
  PROVE  HangupIsOver(c)'
<1> DEFINE t == OwnThread[c]
<1> SUFFICES ASSUME call'[c] \in {"reporting", "gone"}, module' = "loaded",
                    pc'[t] \notin {"scan", "claim"}, NEW k \in Keys, CallOf(k) = c,
                    hash'[k] # NULL
             PROVE  FALSE
  BY DEF HangupIsOver, HasLive
<1>t. t \in Threads /\ ThreadCall[t] = c
  BY LifecycleAssumption
<1>m. module = "loaded"
  BY EveryModuleMoves DEF ModuleMoves
<1>1. CASE call[c] \in {"reporting", "gone"}
  <2>1. hash[k] # NULL
    BY <1>1, NothingArrives
  <2>2. pc[t] \in {"scan", "claim"}
    BY <1>1, <1>m, <2>1 DEF DrainsAreComplete, HangupIsOver, HasLive
  <2>3. LDrainNext(t) /\ pc'[t] = "return"
    BY <1>t, <2>2, EveryDrainMoves DEF DrainMoves, LDrainNext, DrainNext, IInv, TypeOK
  <2>4. pc[t] = "claim" /\ job[t] # "unload"
    BY <1>1, <1>t, <2>3, DrainEnds DEF UnloadIsAlone, DrainsAreComplete
  <2>5. CallOf(k) \in scope[t]
    BY <1>t, <2>4 DEF OwnBusiness, ScopeOf
  <2> QED
    BY <1>t, <2>3, <2>5, DrainEnds DEF DrainsAreComplete
<1>2. CASE call[c] \notin {"reporting", "gone"}
  <2>1. OnHangup(c) /\ call[c] = "cleared"
    BY <1>2, EveryCallMoves DEF CallMoves
  <2>2. pc[t] = "idle"
    BY <2>1 DEF OnHangup, RunHandler, Ready
  <2>3. hash[k] # NULL
    BY <2>1, NothingArrives
  <2>4. at[t] # "bind"
    BY <1>t, <2>2 DEF Agenda, PlaceOf, Starting
  <2>5. bound[c]
    BY <1>m, <2>3, <2>4 DEF HandlersFollow, HandlerIsBound
  <2> QED
    BY <1>t, <2>1, <2>5 DEF OnHangup, RunHandler, DrainBegin, IInv, TypeOK
<1> QED
  BY <1>1, <1>2

(* Nor does the last pass of an unload, whose drain begins with a scan.    *)
LEMMA UnloadPassesStep ==
  ASSUME IInv, LTypeOK, Agenda, OwnBusiness, UnloadPasses, [LNext]_lvars
  PROVE  UnloadPasses'
<1> SUFFICES ASSUME NEW t \in Threads, job'[t] = "unload"
             PROVE  LastPass(t)'
  BY DEF UnloadPasses
<1>1. CASE job[t] = "unload"
  BY <1>1, LastPassStep DEF UnloadPasses
<1>2. CASE job[t] # "unload"
  <2>1. Unload(t)
    BY <1>2, EveryJobMoves DEF JobMoves
  <2>2. pc'[t] = "scan"
    BY <2>1 DEF Unload, DrainBegin, IInv, TypeOK
  <2> QED
    BY <2>2 DEF LastPass
<1> QED
  BY <1>1, <1>2

(* The unload leaves an empty table.                                       *)
LEMMA UnloadOverStep ==
  ASSUME IInv, LTypeOK, Agenda, UnloadIsAlone, OwnBusiness, UnloadPasses, UnloadIsOver,
         [LNext]_lvars
  PROVE  UnloadIsOver'
<1>1. ASSUME module' = "unloaded", NEW k \in Keys, hash'[k] # NULL
      PROVE  FALSE
  <2>1. hash[k] # NULL
    BY <1>1, NothingArrivesLate
  <2>2. module # "unloaded"
    BY <2>1 DEF UnloadIsOver
  <2>3. PICK t \in Threads : LReturn(t) /\ job[t] = "unload"
    BY <1>1, <2>2, EveryModuleMoves DEF ModuleMoves
  <2> QED
    BY <2>1, <2>3 DEF LReturn, Return, UnloadIsOver
<1>2. ASSUME NEW t \in Threads, job'[t] = "unload", pc'[t] = "return", NEW k \in Keys,
             hash'[k] # NULL
      PROVE  FALSE
  <2>1. CASE pc[t] = "return" /\ job'[t] = job[t]
    <3>1. module # "loaded"
      BY <1>2, <2>1 DEF Agenda, JobOf
    <3> QED
      BY <1>2, <2>1, <3>1, NothingArrivesLate DEF UnloadIsOver
  <2>2. CASE LDrainNext(t)
    <3>1. LDrainNext(t) => job'[t] = job[t]
      BY DEF LDrainNext
    <3>4. LastPass(t)
      BY <1>2, <2>2, <3>1 DEF UnloadPasses
    <3>5. pc[t] = "claim" /\ job[t] = "unload"
      BY <1>2, <2>2, <3>4, DrainEnds
    <3>2. scope[t] = Calls
      BY <3>5 DEF OwnBusiness, ScopeOf
    <3>3. CallOf(k) \in Calls
      BY DEF Keys, CallOf
    <3> QED
      BY <1>2, <2>2, <3>2, <3>3, <3>4, DrainEnds
  <2> QED
    BY <1>2, <2>1, <2>2, EveryDrainMoves DEF DrainMoves
<1> QED
  BY <1>1, <1>2 DEF UnloadIsOver

-----------------------------------------------------------------------------
(* Who binds and unbinds a call's handler, and how a thread gets there.    *)
BoundMoves(c) ==
  \/ bound'[c] = bound[c]
  \/ \E t \in Threads : BindHandler(t) /\ ThreadCall[t] = c /\ bound'[c]
  \/ \E t \in Threads : Unbind(t) /\ due[t] = c /\ ~bound'[c]
HandlerMoves(t) ==
  /\ at[t] = "bind" => at'[t] = "bind" \/ BindHandler(t)
  /\ at[t] = "unbind" =>
       Unbind(t) \/ (at'[t] = "unbind" /\ due'[t] = due[t] /\ job'[t] = job[t])
  /\ at'[t] = "unbind" =>
       /\ job'[t] = job[t]
       /\ at[t] = "unbind" \/ job[t] = "unload" \/ (HandlerScan(t) /\ ~HasLive(due[t]))
  /\ Settling(t) => Settling(t)' \/ Unbind(t) \/ (HandlerScan(t) /\ HasLive(due[t]))

(* Only BindHandler and Unbind touch a binding.                            *)
LEMMA EveryBoundMoves ==
  ASSUME LTypeOK, [LNext]_lvars, NEW c \in Calls
  PROVE  BoundMoves(c)
<1> USE DEF LTypeOK, BoundMoves, callVars
<1>1. ASSUME NEW t \in Threads, LBegin(t)
      PROVE  BoundMoves(c)
  BY <1>1 DEF LBegin, LStartRefused, LStopAll, Unload, LChangeRefused,
     LStartExists, LStartInsert, LAcquire, LStopMissing, LStopNamed, Starts
<1>2. ASSUME NEW t \in Threads, LContinue(t)
      PROVE  BoundMoves(c)
  <2>1. CASE BindHandler(t)
    <3>1. bound' = [bound EXCEPT ![ThreadCall[t]] = TRUE]
      BY <2>1 DEF BindHandler
    <3> QED
      BY <2>1, <3>1
  <2>2. CASE Unbind(t)
    <3>1. bound' = bound \/ bound' = [bound EXCEPT ![due[t]] = FALSE]
      BY <2>2 DEF Unbind
    <3> QED
      BY <2>2, <3>1
  <2>3. CASE ~BindHandler(t) /\ ~Unbind(t)
    BY <1>2, <2>3 DEF LContinue, Detach, Bye, LFreePool, HandlerScan, LReturn, InviteAnswered,
     WatchLeg, AttachBug, PublishMedia, LStartEnd, LStartDiscard, LDiscardEnd, Gate, Offer,
     Ungate, LChangeEnd, LDrainScan, LDrainNext, LDrainClaim
  <2> QED
    BY <2>1, <2>2, <2>3
<1>3. ASSUME NEW t \in Threads, RunsHandler(t)
      PROVE  BoundMoves(c)
  BY <1>3 DEF RunsHandler, OnHangup, OnDestroy, RunHandler
<1> QED
  BY <1>1, <1>2, <1>3, StepKinds, OutsideLeavesThreads

(* Whoever is to settle a handler does so before anything else.            *)
LEMMA EveryHandlerMoves ==
  ASSUME IInv, LTypeOK, Agenda, [LNext]_lvars, NEW t \in Threads
  PROVE  HandlerMoves(t)
<1> USE DEF IInv, TypeOK, PinsAreBalanced, LTypeOK, vars, threadVars, drainVars
<1>a. JobOf(t) /\ PlaceOf(t)
  BY DEF Agenda
<1>1. CASE ~Acts(t)
  <2>1. StaysPut(t)
    BY <1>1, BystandersStayPut
  <2> HIDE DEF TypeOK, LTypeOK
  <2> QED
    BY <2>1 DEF StaysPut, HandlerMoves, Settling
<1>2. CASE RunsHandler(t) \/ LBegin(t)
  <2>1. pc[t] = "idle"
    BY <1>2 DEF LBegin, LStartRefused, LStopAll, Unload, LChangeRefused, LStartExists,
                LStartInsert, LAcquire, LStopMissing, LStopNamed, MayRun, Ready, DrainBegin,
                RunsHandler, OnHangup, OnDestroy, RunHandler
  <2>2. job[t] = "none" /\ at[t] \notin {"bind", "settle", "unbind"}
    BY <1>a, <2>1 DEF JobOf, PlaceOf, Starting
  <2>3. at'[t] # "unbind"
    <3>1. ASSUME NEW k \in Keys, NEW j \in {"pause", "resume"}, LAcquire(t, k, j)
          PROVE  at'[t] # "unbind"
      BY <3>1 DEF LAcquire
    <3>2. ASSUME NEW k \in Keys, \/ LStopNamed(t, k) \/ LStartExists(t, k) \/ LStopMissing(t, k)
                                 \/ \E r \in Recs : LStartInsert(t, k, r)
          PROVE  at'[t] # "unbind"
      BY <2>2, <3>2 DEF LStopNamed, LStartExists, LStopMissing, LStartInsert
    <3>3. CASE \/ LStartRefused(t) \/ LStopAll(t) \/ Unload(t) \/ RunsHandler(t)
               \/ \E j \in {"pause", "resume"} : LChangeRefused(t, j)
      BY <2>2, <3>3 DEF LStartRefused, LStopAll, Unload, LChangeRefused, RunsHandler, OnHangup,
         OnDestroy, RunHandler
    <3> QED
      BY <1>2, <3>1, <3>2, <3>3 DEF LBegin
  <2> QED
    BY <2>1, <2>2, <2>3 DEF HandlerMoves, Settling
<1>4. CASE LContinue(t)
  <2> USE DEF HandlerMoves, Settling
  <2>1. CASE LDrainScan(t)
    BY <2>1 DEF LDrainScan, DrainScan
  <2>2. CASE LDrainNext(t)
    BY <1>a, <2>2 DEF LDrainNext, DrainNext, JobOf
  <2>3. ASSUME NEW k \in Keys, LDrainClaim(t, k)
        PROVE  HandlerMoves(t)
    <3>1. /\ at[t] = "none" /\ UNCHANGED <<pc, job>>
          /\ at' = at \/ (job[t] = "unload" /\ at' = [at EXCEPT ![t] = "unbind"])
      BY <2>3 DEF LDrainClaim, DrainClaim, Unbinds
    <3> QED
      BY <3>1
  <2>4. CASE Detach(t) \/ Bye(t) \/ LFreePool(t)
    <3>1. UNCHANGED <<pc, at, due, job>>
      BY <2>4 DEF Detach, Bye, LFreePool, FreePool
    <3> QED
      BY <3>1
  <2>5. CASE Unbind(t)
    BY <2>5 DEF Unbind
  <2>6. CASE HandlerScan(t)
    BY <2>6 DEF HandlerScan, Goto
  <2>7. CASE BindHandler(t)
    BY <2>7 DEF BindHandler, Goto
  <2>8. CASE \/ Gate(t) \/ Ungate(t) \/ InviteAnswered(t) \/ WatchLeg(t)
             \/ AttachBug(t) \/ PublishMedia(t)
    BY <2>8 DEF Gate, Ungate, Goto, InviteAnswered, WatchLeg, AttachBug, PublishMedia
  <2>9. CASE Offer(t)
    BY <2>9 DEF Offer, AfterOffer, Goto
  <2>10. CASE LReturn(t)
    BY <2>10 DEF LReturn, Return
  <2>11. CASE LStartEnd(t) \/ LStartDiscard(t) \/ LDiscardEnd(t) \/ LChangeEnd(t)
    BY <1>a, <2>11 DEF LStartEnd, LStartDiscard, LDiscardEnd, LChangeEnd, Goto, StartEnd,
       StartDiscard, DiscardEnd, ChangeEnd, JobOf, PlaceOf, Starting
  <2> QED
    BY <1>4, <2>1, <2>2, <2>3, <2>4, <2>5, <2>6, <2>7, <2>8, <2>9, <2>10, <2>11 DEF LContinue
<1> QED
  BY <1>1, <1>2, <1>4 DEF Acts

(* A start that binds the handler, a thread that unbinds it: whose.        *)
LEMMA BindersAreOwn ==
  ASSUME AppsAreSerial, LTypeOK, Agenda, NEW t \in Threads
  PROVE  /\ BindHandler(t) \/ HandlerScan(t) \/ (Unbind(t) /\ job[t] # "unload") =>
              ThreadCall[t] \in Calls /\ t = OwnThread[ThreadCall[t]]
         /\ HandlerScan(t) \/ (Unbind(t) /\ job[t] # "unload") => due[t] = ThreadCall[t]
         /\ BindHandler(t) => pc[t] = "start"
<1>1. JobOf(t) /\ PlaceOf(t) /\ DueOf(t)
  BY DEF Agenda
<1>2. BindHandler(t) => at[t] = "bind" /\ pc[t] = "start" /\ job[t] = "start"
  BY <1>1 DEF BindHandler, PlaceOf, JobOf, Starting
<1>3. HandlerScan(t) => at[t] = "settle" /\ job[t] \in {"start", "stop"}
  BY <1>1 DEF HandlerScan, PlaceOf
<1>4. Unbind(t) /\ job[t] # "unload" => at[t] = "unbind" /\ job[t] \in {"start", "stop"}
  BY <1>1 DEF Unbind, PlaceOf
<1>5. job[t] \in {"start", "stop"} => ThreadCall[t] \in Calls /\ t = OwnThread[ThreadCall[t]]
  BY <1>1, LifecycleAssumption DEF JobOf, AppsAreSerial
<1> QED
  BY <1>1, <1>2, <1>3, <1>4, <1>5 DEF DueOf

(* Nobody unbinds the handler of a call with a recording.                  *)
LEMMA UnbindDueStep ==
  ASSUME AppsAreSerial, IInv, LTypeOK, Agenda, UnbindIsDue, [LNext]_lvars
  PROVE  UnbindIsDue'
<1> SUFFICES ASSUME NEW t \in Threads, at'[t] = "unbind", job'[t] # "unload",
                    NEW k \in Keys, CallOf(k) = ThreadCall[t], hash'[k] # NULL
             PROVE  FALSE
  BY DEF UnbindIsDue, HasLive
<1>1. job[t] # "unload" /\ (at[t] = "unbind" \/ (HandlerScan(t) /\ ~HasLive(due[t])))
  BY EveryHandlerMoves DEF HandlerMoves
<1>2. pc[t] # "idle"
  BY <1>1 DEF Agenda, PlaceOf, HandlerScan
<1>3. hash[k] # NULL
  BY <1>2, NothingArrives
<1>4. CASE at[t] = "unbind"
  BY <1>1, <1>3, <1>4 DEF UnbindIsDue, HasLive
<1>5. CASE HandlerScan(t) /\ ~HasLive(due[t])
  BY <1>3, <1>5, BindersAreOwn DEF HasLive
<1> QED
  BY <1>1, <1>4, <1>5

(* A start binds the handler before it does anything else, and it stays    *)
(* bound while the call has a recording.                                   *)
LEMMA BoundStep ==
  ASSUME AppsAreSerial, IInv, LTypeOK, Agenda, UnbindIsDue, HandlerIsBound, [LNext]_lvars
  PROVE  HandlerIsBound'
<1> SUFFICES ASSUME module' = "loaded", NEW k \in Keys, hash'[k] # NULL
             PROVE  bound'[CallOf(k)] \/ at'[OwnThread[CallOf(k)]] = "bind"
  BY DEF HandlerIsBound
<1> DEFINE c == CallOf(k)
<1> DEFINE t == OwnThread[c]
<1>0. c \in Calls /\ t \in Threads /\ ThreadCall[t] = c
  BY LifecycleAssumption DEF Keys, CallOf
<1>1. CASE hash[k] = NULL
  <2>1. PICK u \in Threads, r \in Recs : LStartInsert(u, k, r)
    BY <1>1, EveryEntryMoves DEF EntryMoves
  <2>2. u = t
    BY <2>1, InsertIsAlone
  <2> QED
    BY <2>1, <2>2 DEF LStartInsert, LTypeOK
<1>2. CASE hash[k] # NULL
  <2>1. module = "loaded"
    BY EveryModuleMoves DEF ModuleMoves
  <2>2. CASE bound[c]
    <3>1. ASSUME NEW u \in Threads, Unbind(u), due[u] = c
          PROVE  FALSE
      <4>1. job[u] # "unload" /\ at[u] = "unbind"
        BY <2>1, <3>1 DEF Agenda, JobOf, Unbind
      <4>2. due[u] = ThreadCall[u]
        BY <3>1, <4>1, BindersAreOwn
      <4> QED
        BY <1>2, <3>1, <4>1, <4>2 DEF UnbindIsDue, HasLive
    <3> QED
      BY <1>0, <2>2, <3>1, EveryBoundMoves DEF BoundMoves
  <2>3. CASE ~bound[c]
    <3>1. at[t] = "bind"
      BY <1>2, <2>1, <2>3 DEF HandlerIsBound
    <3>2. CASE BindHandler(t)
      BY <1>0, <3>2 DEF BindHandler, LTypeOK
    <3> QED
      BY <1>0, <3>1, <3>2, EveryHandlerMoves DEF HandlerMoves
  <2> QED
    BY <2>2, <2>3
<1> QED
  BY <1>1, <1>2

(* The handler of a call that is up stays bound only for a recording or    *)
(* for as long as it takes to unbind it.                                   *)
LEMMA NeededStep ==
  ASSUME AppsAreSerial, IInv, LTypeOK, Agenda, UnloadIsAlone, OwnBusiness, StartHolds,
         HandlerIsNeeded, [LNext]_lvars
  PROVE  HandlerIsNeeded'
<1> SUFFICES ASSUME NEW c \in Calls, bound'[c], call'[c] = "up"
             PROVE  \/ HasLive(c)'
                    \/ Settling(OwnThread[c])'
                    \/ \E u \in Threads : job'[u] = "unload" /\ at'[u] = "unbind" /\ due'[u] = c
  BY DEF HandlerIsNeeded
<1> DEFINE t == OwnThread[c]
<1> DEFINE Unloading == \E u \in Threads : job'[u] = "unload" /\ at'[u] = "unbind" /\ due'[u] = c
<1>0. t \in Threads /\ ThreadCall[t] = c /\ call[c] = "up"
  BY LifecycleAssumption, EveryCallMoves DEF CallMoves
<1>u. ASSUME NEW u \in Threads, Unbind(u), due[u] = c
      PROVE  FALSE
  BY <1>0, <1>u DEF Unbind, LTypeOK
(* The last recording of the call goes: whoever took it will settle.       *)
<1>1. ASSUME NEW k \in Keys, CallOf(k) = c, hash[k] # NULL
      PROVE  HasLive(c)' \/ Settling(t)' \/ Unloading
  <2>1. CASE hash'[k] # NULL
    BY <1>1, <2>1 DEF HasLive
  <2>2. ASSUME NEW u \in Threads, LStopNamed(u, k)
        PROVE  Settling(t)'
    <3>1. at'[u] = "settle" /\ job[u] # "unload"
      BY <2>2 DEF LStopNamed, MayRun, Ready, Agenda, JobOf, LTypeOK
    <3> QED
      BY <1>1, <2>2, <3>1, TakerIsOwn DEF Settling
  <2>3. ASSUME NEW u \in Threads, LDrainClaim(u, k)
        PROVE  Settling(t)' \/ Unloading
    <3>1. /\ pc[u] = "claim" /\ pc'[u] = "claim" /\ job'[u] = job[u]
      BY <2>3 DEF LDrainClaim, DrainClaim
    <3>2. CASE job[u] = "unload"
      <4>1. at'[u] = "unbind" /\ due'[u] = c
        BY <1>1, <2>3, <3>2 DEF LDrainClaim, Unbinds, UuidOf, LTypeOK
      <4> QED
        BY <3>1, <3>2, <4>1
    <3>3. CASE job[u] # "unload"
      <4>1. u = t
        BY <1>1, <2>3, <3>3, TakerIsOwn
      <4>2. job[u] \in {"stop", "hangup"}
        BY <3>1, <3>3 DEF Agenda, JobOf
      <4>3. job[u] # "hangup"
        BY <1>0, <4>1 DEF Agenda, JobOf
      <4> QED
        BY <3>1, <4>1, <4>2, <4>3 DEF Settling
    <3> QED
      BY <3>2, <3>3
  <2>4. ASSUME NEW u \in Threads, LStartDiscard(u), key[pin[u]] = k, hash[k] = pin[u]
        PROVE  Settling(t)'
    <3>1. pc'[u] = "discard"
      BY <2>4 DEF LStartDiscard, StartDiscard, IInv, TypeOK
    <3>2. ThreadCall[u] = c
      <4>1. ScopeOf(u) /\ pin[u] # NULL
        BY <1>1, <2>4 DEF OwnBusiness
      <4> QED
        BY <1>1, <2>4, <4>1 DEF ScopeOf
    <3>3. u = t
      BY <3>2, LifecycleAssumption DEF AppsAreSerial
    <3> QED
      BY <3>1, <3>3 DEF Settling
  <2>5. CASE hash'[k] = NULL
    <3>1. EntryMoves(k) /\ NULL \notin Recs
      BY EveryEntryMoves, RegistryAssumption
    <3>2. PICK u \in Threads :
            \/ LStopNamed(u, k) \/ LDrainClaim(u, k)
            \/ LStartDiscard(u) /\ key[pin[u]] = k /\ hash[k] = pin[u]
      BY <1>1, <2>5, <3>1 DEF EntryMoves
    <3> QED
      BY <2>2, <2>3, <2>4, <3>2
  <2> QED
    BY <2>1, <2>5
<1>2. CASE ~bound[c]
  <2>1. PICK u \in Threads : BindHandler(u) /\ ThreadCall[u] = c
    BY <1>2, EveryBoundMoves DEF BoundMoves
  <2>2. pc[u] = "start"
    BY <2>1, BindersAreOwn
  <2>3. pin[u] \in Recs /\ pin[u] # NULL /\ pool[pin[u]] # "unborn"
    BY <2>2 DEF IInv, TypeOK, PinsAreBalanced, ReferencesAreLive
  <2>4. key[pin[u]] \in Keys /\ CallOf(key[pin[u]]) = c
    BY <2>1, <2>3, KeysStay DEF OwnBusiness, ScopeOf
  <2>5. hash[key[pin[u]]] # NULL
    BY <2>2, <2>3 DEF StartHolds, Listed
  <2> QED
    BY <1>1, <2>4, <2>5
<1>3. CASE bound[c]
  <2>1. CASE HasLive(c)
    BY <1>1, <2>1 DEF HasLive
  <2>2. CASE Settling(t)
    <3>1. HandlerScan(t) /\ HasLive(due[t]) => HasLive(c)
      BY <1>0, BindersAreOwn
    <3>2. ~Unbind(t)
      <4>1. Unbind(t) /\ job[t] # "unload" => due[t] = c
        BY <1>0, BindersAreOwn
      <4>2. job[t] # "unload"
        BY <1>0, LifecycleAssumption DEF Agenda, JobOf
      <4> QED
        BY <1>0, <1>u, <4>1, <4>2
    <3> QED
      BY <1>0, <1>1, <2>2, <3>1, <3>2, EveryHandlerMoves DEF HandlerMoves, HasLive
  <2>3. ASSUME NEW u \in Threads, job[u] = "unload", at[u] = "unbind", due[u] = c
        PROVE  Unloading
    <3>1. job'[u] = "unload" /\ at'[u] = "unbind" /\ due'[u] = c
      BY <1>u, <2>3, EveryHandlerMoves DEF HandlerMoves
    <3> QED
      BY <3>1
  <2> QED
    BY <1>0, <1>3, <2>1, <2>2, <2>3 DEF HandlerIsNeeded
<1> QED
  BY <1>2, <1>3

-----------------------------------------------------------------------------
(* Who starts a fork, who makes an offer, and how a pause or a resume goes *)
(* on.                                                                     *)
FlowMoves(r) ==
  /\ fork'[r] = "on" => fork[r] = "on" \/ \E t \in Threads : (AttachBug(t) \/ Ungate(t)) /\ pin[t] = r
  /\ \/ offered'[r] = offered[r]
     \/ offered'[r] = "sendonly"
     \/ \E t \in Threads : Offer(t) /\ pin[t] = r /\ job[t] = "pause"
  /\ offered'[r] # offered[r] => \E t \in Threads : Offer(t) /\ pin[t] = r
ChangeMoves(t) ==
  at'[t] \in {"ungate", "offer", "succeeded", "failed"} =>
    \/ job'[t] = "resume" /\ at'[t] = "offer"
    \/ /\ pin'[t] = pin[t] /\ job'[t] = job[t] /\ pc[t] = "change"
       /\ \/ at'[t] = at[t]
          \/ at'[t] = "offer" /\ Gate(t)
          \/ at'[t] = "ungate" /\ Offer(t) /\ offered'[pin[t]] = "sendonly"
          \/ at'[t] \in {"succeeded", "failed"} /\ at[t] = "offer"
          \/ at'[t] = "succeeded" /\ Ungate(t)

(* Audio starts only with an attach or a resume, offers come from pauses   *)
(* and resumes.                                                            *)
LEMMA EveryFlowMoves ==
  ASSUME LTypeOK, [LNext]_lvars, NEW r \in Recs
  PROVE  FlowMoves(r)
<1> USE DEF LTypeOK, FlowMoves, srsVars, forkVars
<1>1. ASSUME NEW t \in Threads, LBegin(t)
      PROVE  FlowMoves(r)
  BY <1>1 DEF LBegin, LStartRefused, LStopAll, Unload, LChangeRefused, LStartExists,
     LStartInsert, LAcquire, LStopMissing, LStopNamed, Starts
<1>2. ASSUME NEW t \in Threads, LContinue(t)
      PROVE  FlowMoves(r)
  <2>1. CASE AttachBug(t)
    <3>1. fork' = [fork EXCEPT ![pin[t]] = "on"] /\ offered' = offered
      BY <2>1 DEF AttachBug
    <3> QED
      BY <2>1, <3>1
  <2>2. CASE Ungate(t)
    <3>1. offered' = offered /\ \E v : fork' = [fork EXCEPT ![pin[t]] = v]
      BY <2>2 DEF Ungate
    <3> QED
      BY <2>2, <3>1
  <2>3. CASE Offer(t)
    <3>1. fork' = fork
      BY <2>3 DEF Offer
    <3>2. PICK ok \in BOOLEAN : offered' = [offered EXCEPT ![pin[t]] =
            IF ~ok THEN @ ELSE IF job[t] = "pause" THEN "inactive" ELSE "sendonly"]
      BY <2>3 DEF Offer
    <3> QED
      BY <2>3, <3>1, <3>2
  <2>4. CASE Gate(t) \/ Detach(t)
    BY <2>4 DEF Gate, Detach
  <2>5. CASE ~(AttachBug(t) \/ Ungate(t) \/ Offer(t) \/ Gate(t) \/ Detach(t))
    <3>1. UNCHANGED <<fork, offered>>
      BY <1>2, <2>5 DEF LContinue, Bye, LFreePool, HandlerScan, Unbind, LReturn, BindHandler,
         InviteAnswered, WatchLeg, PublishMedia, LStartEnd, LStartDiscard, LDiscardEnd,
         LChangeEnd, LDrainScan, LDrainNext, LDrainClaim
    <3> QED
      BY <3>1
  <2> QED
    BY <2>1, <2>2, <2>3, <2>4, <2>5
<1>3. ASSUME NEW c \in Calls,
             CallHangsUp(c) \/ CoreRemovesBugs(c) \/ OnHangup(c) \/ OnDestroy(c)
      PROVE  FlowMoves(r)
  BY <1>3 DEF CallHangsUp, CoreRemovesBugs, OnHangup, OnDestroy, RunHandler
<1>4. ASSUME NEW q \in Recs, LegHangsUp(q) \/ LegHandlers(q) \/ MediaTick(q)
      PROVE  FlowMoves(r)
  BY <1>4 DEF LegHangsUp, LegHandlers, MediaTick
<1>5. CASE UNCHANGED lvars
  BY <1>5 DEF lvars
<1> QED
  BY <1>1, <1>2, <1>3, <1>4, <1>5 DEF LNext

(* A pause gates first, a resume offers first.                             *)
LEMMA EveryChangeMoves ==
  ASSUME IInv, LTypeOK, Agenda, [LNext]_lvars, NEW t \in Threads
  PROVE  ChangeMoves(t)
<1> SUFFICES ASSUME at'[t] \in {"ungate", "offer", "succeeded", "failed"}
             PROVE  \/ job'[t] = "resume" /\ at'[t] = "offer"
                    \/ /\ pin'[t] = pin[t] /\ job'[t] = job[t] /\ pc[t] = "change"
                       /\ \/ at'[t] = at[t]
                          \/ at'[t] = "offer" /\ Gate(t)
                          \/ at'[t] = "ungate" /\ Offer(t) /\ offered'[pin[t]] = "sendonly"
                          \/ at'[t] \in {"succeeded", "failed"} /\ at[t] = "offer"
                          \/ at'[t] = "succeeded" /\ Ungate(t)
  BY DEF ChangeMoves
<1> USE DEF IInv, TypeOK, PinsAreBalanced, LTypeOK, vars, threadVars, drainVars
<1>a. JobOf(t) /\ PlaceOf(t)
  BY DEF Agenda
<1>b. at[t] \in {"ungate", "offer", "succeeded", "failed", "gate"} <=> pc[t] = "change"
  BY <1>a DEF PlaceOf, ChangeSteps
<1>1. CASE ~Acts(t)
  <2>1. StaysPut(t)
    BY <1>1, BystandersStayPut
  <2> QED
    BY <1>b, <2>1 DEF StaysPut
<1>2. CASE RunsHandler(t) \/ LBegin(t)
  <2>1. pc[t] = "idle"
    BY <1>2 DEF LBegin, LStartRefused, LStopAll, Unload, LChangeRefused, LStartExists,
                LStartInsert, LAcquire, LStopMissing, LStopNamed, MayRun, Ready, DrainBegin,
                RunsHandler, OnHangup, OnDestroy, RunHandler
  <2>2. ASSUME NEW k \in Keys, NEW j \in {"pause", "resume"}, LAcquire(t, k, j)
        PROVE  job'[t] = "resume" /\ at'[t] = "offer"
    BY <2>2 DEF LAcquire, Starts
  <2>3. ASSUME NEW k \in Keys, \/ LStartExists(t, k) \/ LStopMissing(t, k) \/ LStopNamed(t, k)
                               \/ \E r \in Recs : LStartInsert(t, k, r)
        PROVE  FALSE
    BY <1>b, <2>1, <2>3 DEF LStartExists, LStopMissing, LStopNamed, LStartInsert
  <2>4. CASE \/ LStartRefused(t) \/ LStopAll(t) \/ Unload(t) \/ RunsHandler(t)
             \/ \E j \in {"pause", "resume"} : LChangeRefused(t, j)
    BY <1>b, <2>1, <2>4 DEF LStartRefused, LStopAll, Unload, LChangeRefused, RunsHandler,
       OnHangup, OnDestroy, RunHandler
  <2> QED
    BY <1>2, <2>2, <2>3, <2>4 DEF LBegin
<1>4. CASE LContinue(t)
  <2>1. CASE Gate(t)
    BY <1>b, <2>1 DEF Gate, Goto
  <2>2. CASE Ungate(t)
    BY <1>b, <2>2 DEF Ungate, Goto
  <2>3. CASE Offer(t)
    <3>1. PICK ok \in BOOLEAN :
            /\ offered' = [offered EXCEPT ![pin[t]] =
                 IF ~ok THEN @ ELSE IF job[t] = "pause" THEN "inactive" ELSE "sendonly"]
            /\ Goto(t, AfterOffer(t, ok))
      BY <2>3 DEF Offer
    <3>2. at[t] = "offer" /\ pc[t] = "change" /\ pin[t] \in Recs /\ pin'[t] = pin[t]
      BY <1>b, <2>3 DEF Offer
    <3>3. job'[t] = job[t] /\ at'[t] = AfterOffer(t, ok)
      BY <3>1 DEF Goto
    <3> QED
      BY <2>3, <3>1, <3>2, <3>3 DEF AfterOffer
  <2>4. CASE ~Gate(t) /\ ~Ungate(t) /\ ~Offer(t)
    <3>1. at'[t] = at[t] \/ at'[t] \notin {"ungate", "offer", "succeeded", "failed"}
      BY <1>4, <2>4 DEF LContinue, Detach, Bye, LFreePool, HandlerScan, Unbind, LReturn,
         BindHandler, InviteAnswered, WatchLeg, AttachBug, PublishMedia, LStartEnd,
         LStartDiscard, LDiscardEnd, LChangeEnd, LDrainScan, LDrainNext, LDrainClaim, Goto
    <3>2. pc[t] = "change" /\ at[t] \in {"ungate", "offer", "succeeded", "failed"}
      BY <1>b, <3>1
    <3>3. pin'[t] = pin[t] /\ job'[t] = job[t]
      BY <1>4, <2>4, <3>1, <3>2 DEF LContinue, Detach, Bye, LFreePool, FreePool, HandlerScan, Unbind,
         LReturn, BindHandler, InviteAnswered, WatchLeg, AttachBug, PublishMedia, LStartEnd,
         LStartDiscard, LDiscardEnd, DiscardEnd, LChangeEnd, LDrainScan, DrainScan, LDrainNext,
         DrainNext, LDrainClaim, DrainClaim, Goto
    <3> QED
      BY <3>1, <3>2, <3>3
  <2> QED
    BY <2>1, <2>2, <2>3, <2>4
<1> QED
  BY <1>1, <1>2, <1>4 DEF Acts

(* The offers come first in every step.                                    *)
LEMMA OffersStep ==
  ASSUME AppsAreSerial, IInv, SilentInv, Agenda, OwnBusiness, OffersComeFirst, [LNext]_lvars
  PROVE  OffersComeFirst'
<1>l. LTypeOK /\ Placed /\ ForksAreOwned
  BY DEF SilentInv
<1>f. \A r \in Recs : FlowMoves(r)
  BY <1>l, EveryFlowMoves
<1>p. \A t \in Threads : pc[t] \in {"start", "discard", "change"} =>
        pin[t] \in Recs /\ pin[t] # NULL /\ pool[pin[t]] = "live"
  BY DEF IInv, TypeOK, PinsAreBalanced, ReferencesAreLive
<1>a. \A t \in Threads : JobOf(t) /\ PlaceOf(t)
  BY DEF Agenda
<1>o. ASSUME NEW t \in Threads, Offer(t)
      PROVE  at[t] = "offer" /\ pc[t] = "change" /\ pool' = pool /\ fork' = fork
  BY <1>a, <1>o DEF Offer, PlaceOf, ChangeSteps, vars, recVars, forkVars
<1>b. ASSUME NEW t \in Threads, AttachBug(t)
      PROVE  at[t] = "attach" /\ pc[t] = "start" /\ UNCHANGED offered
  BY <1>a, <1>b DEF AttachBug, PlaceOf, Starting, srsVars
<1>u. ASSUME NEW t \in Threads, Ungate(t)
      PROVE  at[t] = "ungate" /\ pc[t] = "change" /\ job[t] = "resume" /\ UNCHANGED offered
  BY <1>a, <1>u DEF Ungate, PlaceOf, ChangeSteps, srsVars
<1>1. ASSUME NEW r \in Recs, fork'[r] = "on"
      PROVE  offered'[r] = "sendonly"
  <2>1. CASE fork[r] = "on"
    <3>1. offered[r] = "sendonly"
      BY <2>1 DEF OffersComeFirst, FlowsOnlyWhenOffered
    <3>2. ASSUME NEW t \in Threads, Offer(t), pin[t] = r, job[t] = "pause"
          PROVE  FALSE
      BY <1>o, <2>1, <3>2 DEF OffersComeFirst, OfferOf
    <3> QED
      BY <1>f, <3>1, <3>2 DEF FlowMoves
  <2>2. ASSUME NEW t \in Threads, AttachBug(t) \/ Ungate(t), pin[t] = r
        PROVE  offered'[r] = "sendonly"
    BY <1>b, <1>u, <2>2 DEF OffersComeFirst, OfferOf
  <2> QED
    BY <1>1, <1>f, <2>1, <2>2 DEF FlowMoves
<1>2. ASSUME NEW r \in Recs, pool'[r] = "unborn"
      PROVE  offered'[r] = "sendonly"
  <2>1. pool[r] = "unborn"
    BY <1>2, <1>l, EveryEntryMoves DEF RecMoves
  <2>2. offered[r] = "sendonly"
    BY <2>1 DEF OffersComeFirst
  <2>3. ASSUME NEW t \in Threads, Offer(t)
        PROVE  pin[t] # r
    BY <1>o, <1>p, <2>1, <2>3
  <2> QED
    BY <1>f, <2>2, <2>3 DEF FlowMoves
<1>3. ASSUME NEW t \in Threads, pc'[t] = "start"
      PROVE  offered'[pin'[t]] = "sendonly"
  <2>1. ASSUME NEW k \in Keys, NEW r \in Recs, LStartInsert(t, k, r)
        PROVE  offered'[pin'[t]] = "sendonly"
    <3>1. pin'[t] = r /\ pool[r] = "unborn" /\ offered' = offered
      BY <2>1 DEF LStartInsert, StartInsert, Starts, srsVars, IInv, TypeOK
    <3> QED
      BY <3>1 DEF OffersComeFirst
  <2>2. ASSUME pc[t] = "start", pin'[t] = pin[t]
        PROVE  offered'[pin'[t]] = "sendonly"
    <3>1. offered[pin[t]] = "sendonly"
      BY <2>2 DEF OffersComeFirst, OfferOf
    <3>2. ASSUME NEW u \in Threads, Offer(u), pin[u] = pin[t]
          PROVE  FALSE
      <4>1. u = t
        BY <1>p, <2>2, <3>2, PinsAreApart
      <4> QED
        BY <1>o, <2>2, <3>2, <4>1
    <3> QED
      BY <1>f, <1>p, <2>2, <3>1, <3>2 DEF FlowMoves
  <2> QED
    BY <1>3, <1>l, <2>1, <2>2, StartsBegin
<1>c. \A t \in Threads : ChangeMoves(t)
  BY <1>l, EveryChangeMoves
<1>4. ASSUME NEW t \in Threads, at'[t] = "ungate"
      PROVE  offered'[pin'[t]] = "sendonly"
  <2>1. /\ pin'[t] = pin[t] /\ pc[t] = "change"
        /\ at[t] = "ungate" \/ offered'[pin[t]] = "sendonly"
    BY <1>4, <1>c DEF ChangeMoves
  <2>2. CASE at[t] = "ungate"
    <3>1. offered[pin[t]] = "sendonly"
      BY <2>2 DEF OffersComeFirst, OfferOf
    <3>2. ASSUME NEW u \in Threads, Offer(u), pin[u] = pin[t]
          PROVE  FALSE
      <4>1. u = t
        BY <1>p, <2>1, <3>2, PinsAreApart
      <4> QED
        BY <1>o, <2>2, <3>2, <4>1
    <3> QED
      BY <1>f, <1>p, <2>1, <3>1, <3>2 DEF FlowMoves
  <2> QED
    BY <2>1, <2>2
<1>5. ASSUME NEW t \in Threads, job'[t] = "pause", at'[t] \in {"offer", "succeeded", "failed"}
      PROVE  fork'[pin'[t]] # "on"
  <2>1. pin'[t] = pin[t] /\ job[t] = "pause" /\ pc[t] = "change"
    BY <1>5, <1>c DEF ChangeMoves
  <2>2. pin[t] \in Recs /\ pin[t] # NULL
    BY <1>p, <2>1
  <2>3. \A u \in Threads : pin[u] = pin[t] => u = t
    BY <2>2, PinsAreApart
  <2>4. CASE Gate(t)
    <3>1. fork[pin[t]] = "on" => media[pin[t]]
      <4>1. ASSUME NEW u \in Threads, at[u] = "publish", pin[u] = pin[t]
            PROVE  FALSE
        BY <2>3, <2>4, <4>1 DEF Gate
      <4> QED
        BY <1>l, <2>2, <4>1 DEF ForksAreOwned
    <3> QED
      BY <1>l, <2>1, <2>2, <2>4, <3>1 DEF Gate, LTypeOK
  <2>5. CASE ~Gate(t)
    <3>1. ~Ungate(t)
      BY <1>u, <2>1
    <3>2. at[t] \in {"offer", "succeeded", "failed"}
      BY <1>5, <1>c, <2>1, <2>5, <3>1 DEF ChangeMoves
    <3>3. fork[pin[t]] # "on"
      BY <2>1, <3>2 DEF OffersComeFirst, OfferOf
    <3>4. ASSUME NEW u \in Threads, AttachBug(u) \/ Ungate(u), pin[u] = pin[t]
          PROVE  FALSE
      BY <1>b, <2>1, <2>3, <3>1, <3>4
    <3> QED
      BY <1>f, <2>1, <2>2, <3>3, <3>4 DEF FlowMoves
  <2> QED
    BY <2>4, <2>5
<1> QED
  BY <1>1, <1>2, <1>3, <1>4, <1>5 DEF OffersComeFirst, FlowsOnlyWhenOffered, OfferOf

-----------------------------------------------------------------------------
(* The inductive invariant, on top of the table's and the lifecycle's.     *)
LEMMA SerialInit == LInit => SerialInv
<1> SUFFICES ASSUME LInit
             PROVE  SerialInv
  OBVIOUS
<1> USE LifecycleAssumption DEF LInit, Init
<1>1. Agenda
  BY DEF Agenda, JobOf, PlaceOf, DueOf, Starting, ChangeSteps
<1>2. UnloadIsAlone
  BY DEF UnloadIsAlone
<1>3. OwnBusiness /\ StartHolds
  BY DEF OwnBusiness, ScopeOf, StartHolds
<1>4. DrainsAreComplete
  BY DEF DrainsAreComplete, LastPass, StopIsOver, HangupIsOver, UnloadIsOver
<1>5. HandlersFollow
  BY DEF HandlersFollow, HandlerIsBound, HandlerIsNeeded, UnbindIsDue
<1>6. OffersComeFirst
  BY DEF OffersComeFirst, FlowsOnlyWhenOffered, OfferOf
<1> QED
  BY <1>1, <1>2, <1>3, <1>4, <1>5, <1>6 DEF SerialInv

(* On any threads the unload's part of it holds.                           *)
THEOREM UnloadInvariant == LSpec => []UnloadInv
<1>1. LInit => UnloadInv
  BY SerialInit DEF SerialInv, DrainsAreComplete, UnloadInv, UnloadPasses
<1>2. ASSUME IInv, SilentInv, UnloadInv, [LNext]_lvars
      PROVE  UnloadInv'
  <2>1. LTypeOK
    BY <1>2 DEF SilentInv
  <2> QED
    BY <1>2, <2>1, AgendaStep, UnloadStep, BusinessStep, UnloadPassesStep, UnloadOverStep
       DEF UnloadInv
<1> QED
  BY <1>1, <1>2, LifecycleKeepsTable, LifecycleInvariant, PTL DEF LSpec

(* Once the module is unloaded, every recording there ever was is freed,   *)
(* but for one whose own call is hanging up and tearing it down: whatever  *)
(* starts, stops and pauses ran on which threads before.                   *)
THEOREM UnloadsEndAll == LSpec => []UnloadEndsAll
<1>1. ASSUME IInv, UnloadInv
      PROVE  UnloadEndsAll
  <2> SUFFICES ASSUME module = "unloaded", NEW r \in Recs, pool[r] = "live"
               PROVE  \E t \in Threads : own[t] = r /\ job[t] = "hangup"
    BY DEF UnloadEndsAll
  <2>1. \A t \in Threads : job[t] \in {"none", "hangup"} /\ JobOf(t)
    BY <1>1 DEF UnloadInv, UnloadIsAlone, Agenda, JobOf
  <2>2. \A k \in Keys : hash[k] = NULL
    BY <1>1 DEF UnloadInv, UnloadIsOver
  <2>3. key[r] \in Keys /\ r # NULL
    BY <1>1, RegistryAssumption DEF IInv, TypeOK, UnbornIsUnknown
  <2>4. ~Listed(r)
    BY <2>2, <2>3 DEF Listed
  <2>5. PICK t \in Threads : own[t] = r \/ pin[t] = r
    BY <1>1, <2>4 DEF IInv, RetiredHasHeir
  <2>6. pin[t] = NULL
    BY <1>1, <2>1 DEF IInv, PinsAreBalanced, JobOf
  <2>7. pc[t] # "idle"
    BY <1>1, <2>3, <2>5, <2>6 DEF IInv, PinsAreBalanced
  <2> QED
    BY <2>1, <2>3, <2>5, <2>6, <2>7 DEF JobOf
<1> QED
  BY <1>1, LifecycleKeepsTable, UnloadInvariant, PTL

(* Each step of the lifecycle keeps every part of the invariant.           *)
LEMMA SerialStep ==
  ASSUME AppsAreSerial, IInv, SilentInv, SerialInv, [LNext]_lvars
  PROVE  SerialInv'
<1> USE DEF SerialInv
<1>1. LTypeOK
  BY DEF SilentInv
<1>2. Agenda' /\ UnloadIsAlone' /\ OwnBusiness'
  BY <1>1, AgendaStep, UnloadStep, BusinessStep
<1>3. StartHolds'
  BY <1>1, StartHoldsStep
<1>4. DrainsAreComplete'
  <2>1. UnbindIsDue /\ HandlersFollow
    BY DEF HandlersFollow
  <2>2. \A t \in Threads : LastPass(t)' /\ StopIsOver(t)'
    BY <1>1, LastPassStep, StopOverStep DEF DrainsAreComplete
  <2>3. \A c \in Calls : HangupIsOver(c)'
    BY <1>1, <2>1, HangupOverStep
  <2>4. UnloadIsOver'
    BY <1>1, UnloadOverStep DEF DrainsAreComplete, UnloadPasses
  <2> QED
    BY <2>2, <2>3, <2>4 DEF DrainsAreComplete
<1>5. HandlersFollow'
  BY <1>1, BoundStep, NeededStep, UnbindDueStep DEF HandlersFollow
<1>6. OffersComeFirst'
  BY OffersStep
<1> QED
  BY <1>2, <1>3, <1>4, <1>5, <1>6

(* With the apps of a call on the call's own thread the invariant holds.   *)
THEOREM SerialInvariant ==
  ASSUME AppsAreSerial
  PROVE  LSpec => []SerialInv
<1>1. LInit => SerialInv
  BY SerialInit
<1>2. IInv /\ SilentInv /\ SerialInv /\ [LNext]_lvars => SerialInv'
  BY SerialStep
<1> QED
  BY <1>1, <1>2, LifecycleKeepsTable, LifecycleInvariant, PTL DEF LSpec

(***************************************************************************)
(* What the dialplan is promised.                                          *)
(***************************************************************************)

(* A fork runs only in a dialog whose last offer said sendonly: whatever   *)
(* pauses, resumes, re-INVITEs that fail and leg ends do to it.            *)
THEOREM AudioFollowsOffer ==
  ASSUME AppsAreSerial
  PROVE  LSpec => []FlowsOnlyWhenOffered
BY SerialInvariant, PTL DEF SerialInv, OffersComeFirst

(* A recording of a call with nothing listed and nobody at work is freed.  *)
LEMMA NobodyHasIt ==
  ASSUME IInv, NEW r \in Recs, key[r] # NULL, hash[key[r]] = NULL, pool[r] # "freed"
  PROVE  /\ key[r] \in Keys /\ pool[r] = "live"
         /\ \E t \in Threads : own[t] = r \/ pin[t] = r
<1>1. key[r] \in Keys /\ pool[r] = "live" /\ r # NULL
  BY RegistryAssumption DEF IInv, TypeOK, UnbornIsUnknown
<1> QED
  BY <1>1 DEF IInv, RetiredHasHeir, Listed

(* Once a call is gone and the module is at rest, whether it is loaded or  *)
(* not, no recording of the call is left.                                  *)
THEOREM HungUpCallsAreClean ==
  ASSUME AppsAreSerial
  PROVE  LSpec => []CallGoneIsClean
<1>1. ASSUME IInv, SilentInv, SerialInv
      PROVE  CallGoneIsClean
  <2> SUFFICES ASSUME NEW c \in Calls, call[c] = "gone", \A t \in Threads : pc[t] = "idle",
                      NEW r \in Recs, OnCall(r, c), pool[r] # "freed"
               PROVE  FALSE
    BY DEF CallGoneIsClean
  <2>1. key[r] \in Keys /\ CallOf(key[r]) = c
    BY <1>1 DEF OnCall, IInv, TypeOK
  <2>2. module # "unloading"
    BY <1>1 DEF SerialInv, UnloadIsAlone, Agenda, JobOf
  <2>3. hash[key[r]] = NULL
    <3>1. CASE module = "loaded"
      <4>1. HangupIsOver(c) /\ OwnThread[c] \in Threads
        BY <1>1, LifecycleAssumption DEF SerialInv, DrainsAreComplete
      <4> QED
        BY <2>1, <3>1, <4>1 DEF HangupIsOver, HasLive
    <3>2. CASE module = "unloaded"
      BY <1>1, <2>1, <3>2 DEF SerialInv, DrainsAreComplete, UnloadIsOver
    <3> QED
      BY <1>1, <2>2, <3>1, <3>2 DEF SilentInv, LTypeOK
  <2>4. PICK t \in Threads : own[t] = r \/ pin[t] = r
    BY <1>1, <2>3, NobodyHasIt DEF OnCall
  <2> QED
    BY <1>1, <2>4, RegistryAssumption DEF IInv, PinsAreBalanced
<1> QED
  BY <1>1, SerialInvariant, LifecycleKeepsTable, LifecycleInvariant, PTL

(* After the unload the table is empty and no call that is up still holds  *)
(* the module's handler.                                                   *)
THEOREM UnloadIsClean ==
  ASSUME AppsAreSerial
  PROVE  LSpec => []UnloadLeavesNothing
<1>1. ASSUME SerialInv
      PROVE  UnloadLeavesNothing
  <2> SUFFICES ASSUME module = "unloaded"
               PROVE  /\ \A k \in Keys : hash[k] = NULL
                      /\ \A c \in Calls : call[c] = "up" => ~bound[c]
    BY DEF UnloadLeavesNothing
  <2>1. \A k \in Keys : hash[k] = NULL
    BY <1>1 DEF SerialInv, DrainsAreComplete, UnloadIsOver
  <2>2. ASSUME NEW c \in Calls, call[c] = "up", bound[c]
        PROVE  FALSE
    <3> DEFINE t == OwnThread[c]
    <3>1. t \in Threads /\ ThreadCall[t] = c /\ c # NULL
      BY LifecycleAssumption
    <3>2. \A u \in Threads : job[u] \in {"none", "hangup"}
      BY <1>1 DEF SerialInv, UnloadIsAlone, Agenda, JobOf
    <3>3. ~HasLive(c)
      BY <2>1 DEF HasLive
    <3>4. ~Settling(t)
      BY <1>1, <3>1, <3>2 DEF SerialInv, Agenda, JobOf, PlaceOf, Settling
    <3>5. \A u \in Threads : job[u] # "unload"
      BY <3>2
    <3> QED
      BY <1>1, <2>2, <3>3, <3>4, <3>5 DEF SerialInv, HandlersFollow, HandlerIsNeeded
  <2> QED
    BY <2>1, <2>2
<1> QED
  BY <1>1, SerialInvariant, PTL

(* A pause that found its recording returns with no audio flowing: it      *)
(* gated the fork before it offered anything, and nobody else attaches or  *)
(* re-opens it meanwhile.                                                  *)
THEOREM PausesAreSilent ==
  ASSUME AppsAreSerial
  PROVE  LSpec => PauseIsSilent
<1> DEFINE Good == \A t \in Threads :
                     pc[t] = "change" /\ pc'[t] = "return" /\ job[t] = "pause"
                       => fork[pin[t]] # "on"
<1>1. ASSUME IInv, SilentInv, SerialInv, [LNext]_lvars
      PROVE  Good
  <2> SUFFICES ASSUME NEW t \in Threads, pc[t] = "change", pc'[t] = "return", job[t] = "pause"
               PROVE  fork[pin[t]] # "on"
    OBVIOUS
  <2> USE DEF IInv, TypeOK, vars
  <2>1. LTypeOK
    BY <1>1 DEF SilentInv
  <2>2. LContinue(t)
    <3>1. Acts(t)
      BY <1>1, <2>1, BystandersStayPut DEF StaysPut
    <3>2. LBegin(t) \/ RunsHandler(t) => pc[t] = "idle"
      BY DEF LBegin, LStartRefused, LStopAll, Unload, LChangeRefused, LStartExists,
         LStartInsert, LAcquire, LStopMissing, LStopNamed, MayRun, Ready, DrainBegin,
         RunsHandler, OnHangup, OnDestroy, RunHandler
    <3> QED
      BY <3>1, <3>2 DEF Acts
  <2>3. LChangeEnd(t)
    BY <2>2 DEF LContinue, Detach, Bye, LFreePool, FreePool, HandlerScan, Unbind, LReturn, Return,
       BindHandler, InviteAnswered, WatchLeg, AttachBug, PublishMedia, LStartEnd, StartEnd,
       LStartDiscard, StartDiscard, LDiscardEnd, DiscardEnd, Gate, Offer, Ungate, LDrainScan,
       DrainScan, LDrainNext, DrainNext, LDrainClaim, DrainClaim
  <2>4. at[t] \in {"succeeded", "failed"}
    BY <2>3 DEF LChangeEnd
  <2> QED
    BY <1>1, <2>4 DEF SerialInv, OffersComeFirst, OfferOf
<1>2. Good => [Good]_lvars
  OBVIOUS
<1> QED
  BY <1>1, <1>2, SerialInvariant, LifecycleKeepsTable, LifecycleInvariant, PTL
     DEF LSpec, PauseIsSilent

(* When a stop returns, no audio flows for the handle it named, nor for    *)
(* any handle of the call if it named none: what it found it tore down,    *)
(* and what others had retired is gone too.                                *)
THEOREM StopsAreSilent ==
  ASSUME AppsAreSerial
  PROVE  LSpec => StopIsSilent
<1> DEFINE Good == \A t \in Threads :
                     job[t] = "stop" /\ job'[t] = "none"
                       => \A r \in Recs : key[r] \in StopKeys(t) => fork[r] # "on"
<1>1. ASSUME IInv, SilentInv, SerialInv, [LNext]_lvars
      PROVE  Good
  <2> SUFFICES ASSUME NEW t \in Threads, job[t] = "stop", job'[t] = "none",
                      NEW r \in Recs, key[r] \in StopKeys(t)
               PROVE  fork[r] # "on"
    OBVIOUS
  <2>1. LReturn(t)
    BY <1>1, EveryJobMoves DEF SilentInv, JobMoves
  <2>2. pc[t] = "return" /\ own[t] = NULL /\ pin[t] = NULL
    BY <1>1, <2>1 DEF LReturn, Return, IInv, PinsAreBalanced
  <2>3. key[r] \in Keys /\ CallOf(key[r]) = ThreadCall[t]
    BY DEF StopKeys
  <2>4. hash[key[r]] = NULL
    BY <1>1, <2>2 DEF SerialInv, DrainsAreComplete, StopIsOver
  <2>5. CASE pool[r] = "freed"
    BY <1>1, <2>5 DEF SilentInv, FreedIsSilent
  <2>6. CASE pool[r] # "freed"
    <3>1. PICK u \in Threads : own[u] = r \/ pin[u] = r
      BY <1>1, <2>3, <2>4, <2>6, NobodyHasIt, RegistryAssumption
    <3>2. job[u] # "unload"
      BY <1>1 DEF SerialInv, Agenda, JobOf, UnloadIsAlone
    <3>3. ThreadCall[u] = ThreadCall[t]
      <4>1. ScopeOf(u) /\ r # NULL
        BY <1>1, RegistryAssumption DEF SerialInv, OwnBusiness
      <4> QED
        BY <2>3, <3>1, <3>2, <4>1 DEF ScopeOf
    <3>4. ThreadCall[t] \in Calls /\ ThreadCall[t] # NULL
      BY <2>3, LifecycleAssumption DEF Keys, CallOf
    <3>5. u = t
      BY <3>3, <3>4 DEF AppsAreSerial
    <3> QED
      BY <2>2, <3>1, <3>5, RegistryAssumption
  <2> QED
    BY <2>5, <2>6
<1>2. Good => [Good]_lvars
  OBVIOUS
<1> QED
  BY <1>1, <1>2, SerialInvariant, LifecycleKeepsTable, LifecycleInvariant, PTL
     DEF LSpec, StopIsSilent
=============================================================================
