----------------------- MODULE RecordingLifecycleProofs -----------------------
(***************************************************************************)
(* Proofs about RecordingLifecycle for any number of calls, handles,       *)
(* recordings and threads, with any assignment of threads to calls.        *)
(***************************************************************************)
EXTENDS RecordingLifecycle, RecordingRegistryProofs

(***************************************************************************)
(* The life of a recording obeys the table's protocol.                     *)
(***************************************************************************)

(* Every step of a call, a leg, a fork or an app is a step of the table or *)
(* leaves the table alone.                                                 *)
LEMMA LifecycleStep == [LNext]_lvars => [Next]_vars
<1> SUFFICES ASSUME [LNext]_lvars
             PROVE  [Next]_vars
  OBVIOUS
<1>1. ASSUME NEW t \in Threads, LBegin(t)
      PROVE  Next \/ UNCHANGED vars
  <2>1. CASE LStartRefused(t) \/ LStopAll(t) \/ Unload(t)
    <3>1. StartRefused(t) \/ (\E c \in Calls : DrainBegin(t, {c})) \/ DrainBegin(t, Calls)
      BY <2>1, LifecycleAssumption
         DEF LStartRefused, LStopAll, Unload, MayRun
    <3> QED
      BY <3>1 DEF Next, Begin
  <2>2. ASSUME NEW j \in {"pause", "resume"}, LChangeRefused(t, j)
        PROVE  Next
    BY <2>2 DEF LChangeRefused, Next, Begin
  <2>3. ASSUME NEW k \in Keys,
               \/ LStartExists(t, k)
               \/ \E r \in Recs : LStartInsert(t, k, r)
               \/ \E j \in {"pause", "resume"} : LAcquire(t, k, j)
               \/ LStopMissing(t, k)
               \/ LStopNamed(t, k)
        PROVE  Next
    BY <2>3 DEF LStartExists, LStartInsert, LAcquire, LStopMissing, LStopNamed, Next, Begin
  <2> QED
    BY <1>1, <2>1, <2>2, <2>3 DEF LBegin
<1>2. ASSUME NEW t \in Threads, LContinue(t)
      PROVE  Next \/ UNCHANGED vars
  <2>1. CASE \/ Detach(t) \/ Bye(t) \/ HandlerScan(t) \/ Unbind(t)
             \/ BindHandler(t) \/ InviteAnswered(t) \/ WatchLeg(t)
             \/ AttachBug(t) \/ PublishMedia(t) \/ Gate(t) \/ Offer(t) \/ Ungate(t)
    BY <2>1 DEF Detach, Bye, HandlerScan, Unbind, BindHandler, InviteAnswered,
                WatchLeg, AttachBug, PublishMedia, Gate, Offer, Ungate
  <2>2. CASE \/ LFreePool(t) \/ LReturn(t) \/ LStartEnd(t) \/ LStartDiscard(t)
             \/ LDiscardEnd(t) \/ LChangeEnd(t) \/ LDrainScan(t) \/ LDrainNext(t)
             \/ \E k \in Keys : LDrainClaim(t, k)
    <3>1. Continue(t)
      BY <2>2 DEF LFreePool, LReturn, LStartEnd, LStartDiscard, LDiscardEnd,
                  LChangeEnd, LDrainScan, LDrainNext, LDrainClaim, Continue
    <3> QED
      BY <3>1 DEF Next
  <2> QED
    BY <1>2, <2>1, <2>2 DEF LContinue
<1>3. ASSUME NEW c \in Calls,
             CallHangsUp(c) \/ CoreRemovesBugs(c) \/ OnHangup(c) \/ OnDestroy(c)
      PROVE  Next \/ UNCHANGED vars
  <2>1. UNCHANGED vars \/ DrainBegin(OwnThread[c], {c})
    BY <1>3 DEF CallHangsUp, CoreRemovesBugs, OnHangup, OnDestroy, RunHandler
  <2> QED
    BY <2>1, LifecycleAssumption DEF Next, Begin
<1>4. ASSUME NEW r \in Recs, LegHangsUp(r) \/ LegHandlers(r) \/ MediaTick(r)
      PROVE  Next \/ UNCHANGED vars
  BY <1>4 DEF LegHangsUp, LegHandlers, MediaTick, Next
<1>5. CASE UNCHANGED lvars
  BY <1>5 DEF lvars
<1> QED
  BY <1>1, <1>2, <1>3, <1>4, <1>5 DEF LNext

(* The apps, the handlers, the legs, the forks and the unload together are *)
(* an execution of the table's protocol, so everything proved of the       *)
(* protocol holds of them.                                                 *)
THEOREM LifecycleImplementsRegistry == LSpec => ImplementsRegistry
<1>1. LInit => Init
  BY DEF LInit
<1> QED
  BY <1>1, LifecycleStep, PTL DEF LSpec, Spec, ImplementsRegistry

(* In particular the table's invariants.                                   *)
THEOREM LifecycleKeepsTable == LSpec => []IInv
BY LifecycleImplementsRegistry, RegistryInvariant, PTL DEF ImplementsRegistry

(* Whatever the apps, the handlers, the legs and the unload do, recordings *)
(* pass from owner to owner as RecordingOwnership says they do.            *)
THEOREM LifecycleImplementsOwnership == LSpec => ImplementsOwnership
BY LifecycleImplementsRegistry, RegistryRefinesOwnership, PTL DEF ImplementsRegistry

(* A start that reports success leaves its recording where the other apps  *)
(* of the call find it, whatever those of other calls do meanwhile.        *)
THEOREM LifecycleListsItsStarts == LSpec => StartSuccessIsListed
BY LifecycleImplementsRegistry, StartSuccessIsReachable, PTL DEF ImplementsRegistry

(***************************************************************************)
(* A freed recording has neither a fork nor a leg.                         *)
(***************************************************************************)

(* Every step keeps the types.                                             *)
LEMMA LTypeStep ==
  ASSUME LTypeOK, [LNext]_lvars
  PROVE  LTypeOK'
<1> USE LifecycleAssumption DEF LTypeOK, callVars, srsVars, forkVars, threadVars
<1>1. ASSUME NEW t \in Threads, LBegin(t)
      PROVE  LTypeOK'
  <2>1. CASE LStartRefused(t)
    BY <2>1 DEF LStartRefused, Starts
  <2>2. CASE LStopAll(t)
    BY <2>2 DEF LStopAll, Starts
  <2>3. CASE Unload(t)
    BY <2>3 DEF Unload
  <2>4. ASSUME NEW j \in {"pause", "resume"}, LChangeRefused(t, j)
        PROVE  LTypeOK'
    BY <2>4 DEF LChangeRefused, Starts
  <2>5. ASSUME NEW k \in Keys, LStartExists(t, k)
        PROVE  LTypeOK'
    BY <2>5 DEF LStartExists, Starts
  <2>6. ASSUME NEW k \in Keys, NEW r \in Recs, LStartInsert(t, k, r)
        PROVE  LTypeOK'
    BY <2>6 DEF LStartInsert, Starts
  <2>7. ASSUME NEW k \in Keys, NEW j \in {"pause", "resume"}, LAcquire(t, k, j)
        PROVE  LTypeOK'
    BY <2>7 DEF LAcquire, Starts
  <2>8. ASSUME NEW k \in Keys, LStopMissing(t, k)
        PROVE  LTypeOK'
    BY <2>8 DEF LStopMissing, Starts, Keys
  <2>9. ASSUME NEW k \in Keys, LStopNamed(t, k)
        PROVE  LTypeOK'
    BY <2>9 DEF LStopNamed, Keys
  <2> QED
    BY <1>1, <2>1, <2>2, <2>3, <2>4, <2>5, <2>6, <2>7, <2>8, <2>9 DEF LBegin
<1>2. ASSUME NEW t \in Threads, LContinue(t)
      PROVE  LTypeOK'
  <2>1. CASE Detach(t)
    BY <2>1 DEF Detach
  <2>2. CASE Bye(t)
    BY <2>2 DEF Bye
  <2>3. CASE LFreePool(t)
    BY <2>3 DEF LFreePool
  <2>4. CASE HandlerScan(t)
    BY <2>4 DEF HandlerScan, Goto
  <2>5. CASE Unbind(t)
    BY <2>5 DEF Unbind
  <2>6. CASE LReturn(t)
    BY <2>6 DEF LReturn
  <2>7. CASE BindHandler(t)
    BY <2>7 DEF BindHandler, Goto
  <2>8. CASE InviteAnswered(t)
    BY <2>8 DEF InviteAnswered, Goto
  <2>9. CASE WatchLeg(t)
    BY <2>9 DEF WatchLeg, Goto
  <2>10. CASE AttachBug(t)
    BY <2>10 DEF AttachBug, Goto
  <2>11. CASE PublishMedia(t)
    BY <2>11 DEF PublishMedia, Goto
  <2>12. CASE LStartEnd(t)
    BY <2>12 DEF LStartEnd, Goto
  <2>13. CASE LStartDiscard(t)
    BY <2>13 DEF LStartDiscard, Goto
  <2>14. CASE LDiscardEnd(t)
    BY <2>14 DEF LDiscardEnd
  <2>15. CASE Gate(t)
    BY <2>15 DEF Gate, Goto
  <2>16. CASE Offer(t)
    <3>1. PICK ok \in BOOLEAN :
            /\ offered' = [offered EXCEPT ![pin[t]] =
                 IF ~ok THEN @ ELSE IF job[t] = "pause" THEN "inactive" ELSE "sendonly"]
            /\ Goto(t, AfterOffer(t, ok))
      BY <2>16 DEF Offer
    <3>2. AfterOffer(t, ok) \in {"failed", "ungate", "succeeded"}
      BY DEF AfterOffer
    <3>3. at' \in [Threads -> {"none", "bind", "invite", "watch", "attach", "publish",
                               "finish", "gate", "offer", "ungate", "succeeded",
                               "failed", "settle", "unbind"}]
      BY <3>1, <3>2 DEF Goto
    <3>4. offered' \in [Recs -> {"sendonly", "inactive"}]
      BY <3>1
    <3>5. \A d \in BOOLEAN : (d /\ leg[pin[t]] = "up") \in BOOLEAN
      OBVIOUS
    <3>6. dialog' \in [Recs -> BOOLEAN]
      BY <2>16, <3>5 DEF Offer
    <3> QED
      BY <2>16, <3>1, <3>3, <3>4, <3>6 DEF Offer, Goto
  <2>17. CASE Ungate(t)
    BY <2>17 DEF Ungate, Goto
  <2>18. CASE LChangeEnd(t)
    BY <2>18 DEF LChangeEnd, Goto
  <2>19. CASE LDrainScan(t)
    BY <2>19 DEF LDrainScan
  <2>20. CASE LDrainNext(t)
    BY <2>20 DEF LDrainNext
  <2>21. ASSUME NEW k \in Keys, LDrainClaim(t, k)
         PROVE  LTypeOK'
    BY <2>21 DEF LDrainClaim, UuidOf, Keys, CallOf
  <2> QED
    BY <1>2, <2>1, <2>2, <2>3, <2>4, <2>5, <2>6, <2>7, <2>8, <2>9, <2>10, <2>11, <2>12, <2>13, <2>14, <2>15, <2>16, <2>17, <2>18, <2>19, <2>20, <2>21 DEF LContinue
<1>3. ASSUME NEW c \in Calls,
             CallHangsUp(c) \/ CoreRemovesBugs(c) \/ OnHangup(c) \/ OnDestroy(c)
      PROVE  LTypeOK'
  BY <1>3 DEF CallHangsUp, CoreRemovesBugs, OnHangup, OnDestroy, RunHandler
<1>4. ASSUME NEW r \in Recs, LegHangsUp(r) \/ LegHandlers(r) \/ MediaTick(r)
      PROVE  LTypeOK'
  BY <1>4 DEF LegHangsUp, LegHandlers, MediaTick
<1>5. CASE UNCHANGED lvars
  BY <1>5 DEF lvars
<1> QED
  BY <1>1, <1>2, <1>3, <1>4, <1>5 DEF LNext

(* The steps of a start that hold something not yet on the recording.      *)
Starting == {"bind", "invite", "watch", "attach", "publish", "finish"}

(* A thread is in such a step only inside a start, with its pin held.      *)
Placed == \A t \in Threads : at[t] \in Starting => pc[t] = "start"

(* A bug not in media_ctx is about to be put there by the start that       *)
(* attached it; a leg whose UUID is not in invite_ctx likewise.            *)
ForksAreOwned ==
  \A r \in Recs : fork[r] # "off" =>
    media[r] \/ \E t \in Threads : at[t] = "publish" /\ pin[t] = r
LegsAreOwned ==
  \A r \in Recs : leg[r] = "up" =>
    dialog[r] \/ \E t \in Threads : at[t] = "watch" /\ pin[t] = r

SilentInv ==
  /\ LTypeOK
  /\ Placed
  /\ ForksAreOwned
  /\ LegsAreOwned
  /\ FreedIsSilent

(* How one step moves a thread between the steps of a start, and that it   *)
(* keeps its pin meanwhile.                                                *)
Moves(u) ==
  /\ at'[u] \in Starting => pc'[u] = "start"
  /\ at[u] \in {"watch", "publish"} /\ at'[u] = at[u] => pin'[u] = pin[u]
  /\ at[u] = "publish" /\ at'[u] # at[u] => PublishMedia(u)
  /\ at[u] = "watch" /\ at'[u] # at[u] => WatchLeg(u)

(* Every step of any thread moves them so.                                 *)
LEMMA EveryStepMoves ==
  ASSUME TypeOK, LTypeOK, Placed, [LNext]_lvars, NEW u \in Threads
  PROVE  Moves(u)
<1> USE LifecycleAssumption DEF TypeOK, LTypeOK, Placed, Starting, Moves, threadVars
<1>1. ASSUME NEW t \in Threads, LBegin(t)
      PROVE  Moves(u)
  <2>1. pc[t] = "idle" /\ at[t] \notin Starting
    BY <1>1 DEF LBegin, LStartRefused, LStopAll, Unload, LChangeRefused, LStartExists,
                LStartInsert, LAcquire, LStopMissing, LStopNamed, MayRun, Ready, DrainBegin
  <2>2. pin' = [pin EXCEPT ![t] = pin'[t]] /\ pc' = [pc EXCEPT ![t] = pc'[t]]
    BY <1>1 DEF LBegin, LStartRefused, LStopAll, Unload, LChangeRefused, LStartExists,
                LStartInsert, LAcquire, LStopMissing, LStopNamed, StartRefused,
                ChangeRefused, StartExists, StopMissing, ReturnAtOnce, StartInsert,
                Acquire, StopNamed, DrainBegin
  <2>3. at' = [at EXCEPT ![t] = at'[t]] /\ (at'[t] \in Starting => pc'[t] = "start")
    BY <1>1, <2>1 DEF LBegin, LStartRefused, LStopAll, Unload, LChangeRefused, LStartExists,
                LStartInsert, LAcquire, LStopMissing, LStopNamed, StartInsert
  <2> QED
    BY <2>1, <2>2, <2>3
<1>2. ASSUME NEW t \in Threads, LContinue(t)
      PROVE  Moves(u)
  <2>1. CASE Detach(t) \/ Bye(t)
    BY <2>1 DEF Detach, Bye, vars
  <2>2. CASE LFreePool(t)
    BY <2>2 DEF LFreePool, FreePool
  <2>3. CASE HandlerScan(t) \/ Unbind(t)
    BY <2>3 DEF HandlerScan, Unbind, Goto, vars
  <2>4. CASE LReturn(t)
    BY <2>4 DEF LReturn, Return
  <2>5. CASE BindHandler(t) \/ InviteAnswered(t)
    BY <2>5 DEF BindHandler, InviteAnswered, Goto, vars
  <2>6. CASE WatchLeg(t)
    <3>1. at[t] = "watch" /\ at' = [at EXCEPT ![t] = "attach"] /\ UNCHANGED <<pc, pin>>
      BY <2>6 DEF WatchLeg, Goto, vars
    <3>2. u = t => WatchLeg(u)
      BY <2>6
    <3> QED
      BY <3>1, <3>2
  <2>7. CASE PublishMedia(t)
    <3>1. at[t] = "publish" /\ at' = [at EXCEPT ![t] = "finish"] /\ UNCHANGED <<pc, pin>>
      BY <2>7 DEF PublishMedia, Goto, vars
    <3>2. u = t => PublishMedia(u)
      BY <2>7
    <3> QED
      BY <3>1, <3>2
  <2>8. CASE AttachBug(t)
    BY <2>8 DEF AttachBug, Goto, vars
  <2>9. CASE LStartEnd(t)
    BY <2>9 DEF LStartEnd, StartEnd, Release, Goto
  <2>10. CASE LStartDiscard(t)
    BY <2>10 DEF LStartDiscard, StartDiscard, Goto
  <2>11. CASE LDiscardEnd(t)
    BY <2>11 DEF LDiscardEnd, DiscardEnd, Release
  <2>12. CASE Gate(t) \/ Ungate(t)
    BY <2>12 DEF Gate, Ungate, Goto, vars
  <2>13. CASE Offer(t)
    BY <2>13 DEF Offer, AfterOffer, Goto, vars
  <2>14. CASE LChangeEnd(t)
    BY <2>14 DEF LChangeEnd, ChangeEnd, Release, Goto
  <2>15. CASE LDrainScan(t)
    BY <2>15 DEF LDrainScan, DrainScan
  <2>16. CASE LDrainNext(t)
    BY <2>16 DEF LDrainNext, DrainNext
  <2>17. ASSUME NEW k \in Keys, LDrainClaim(t, k)
         PROVE  Moves(u)
    BY <2>17 DEF LDrainClaim, DrainClaim
  <2> QED
    BY <1>2, <2>1, <2>2, <2>3, <2>4, <2>5, <2>6, <2>7, <2>8, <2>9, <2>10, <2>11,
       <2>12, <2>13, <2>14, <2>15, <2>16, <2>17 DEF LContinue
<1>3. ASSUME NEW c \in Calls,
             CallHangsUp(c) \/ CoreRemovesBugs(c) \/ OnHangup(c) \/ OnDestroy(c)
      PROVE  Moves(u)
  BY <1>3 DEF CallHangsUp, CoreRemovesBugs, OnHangup, OnDestroy, RunHandler,
              DrainBegin, Ready, vars
<1>4. ASSUME NEW r \in Recs, LegHangsUp(r) \/ LegHandlers(r) \/ MediaTick(r)
      PROVE  Moves(u)
  BY <1>4 DEF LegHangsUp, LegHandlers, MediaTick, LegEnded, vars
<1>5. CASE UNCHANGED lvars
  BY <1>5 DEF lvars, vars
<1> QED
  BY <1>1, <1>2, <1>3, <1>4, <1>5 DEF LNext

(* A fork outside media_ctx stays with the start that attached it.         *)
LEMMA ForksStep ==
  ASSUME TypeOK, SilentInv, [LNext]_lvars
  PROVE  ForksAreOwned'
<1> USE DEF SilentInv
<1> SUFFICES ASSUME NEW r \in Recs, fork'[r] # "off", ~media'[r]
             PROVE  \E t \in Threads : at'[t] = "publish" /\ pin'[t] = r
  BY DEF ForksAreOwned
<1>1. \A u \in Threads : Moves(u)
  BY EveryStepMoves
<1>2. ASSUME fork[r] # "off", ~media[r]
      PROVE  \E t \in Threads : at'[t] = "publish" /\ pin'[t] = r
  <2>1. PICK u \in Threads : at[u] = "publish" /\ pin[u] = r
    BY <1>2 DEF ForksAreOwned
  <2>2. ~PublishMedia(u)
    BY <2>1 DEF PublishMedia, SilentInv, LTypeOK
  <2> QED
    BY <1>1, <2>1, <2>2 DEF Moves
<1>3. ASSUME fork[r] = "off" \/ media[r]
      PROVE  \E t \in Threads : at'[t] = "publish" /\ pin'[t] = r
  <2> USE DEF LTypeOK
  <2>1. ASSUME NEW t \in Threads, LBegin(t)
        PROVE  FALSE
    BY <1>3, <2>1 DEF LBegin, LStartRefused, LStopAll, Unload, LChangeRefused,
       LStartExists, LStartInsert, LAcquire, LStopMissing, LStopNamed, Starts, forkVars
  <2>2. ASSUME NEW t \in Threads, LContinue(t)
        PROVE  \E v \in Threads : at'[v] = "publish" /\ pin'[v] = r
    <3>1. CASE AttachBug(t)
      BY <1>3, <3>1 DEF AttachBug, Goto, TypeOK, vars
    <3>2. CASE Detach(t)
      BY <1>3, <3>2 DEF Detach, TypeOK
    <3>3. CASE PublishMedia(t) \/ Gate(t) \/ Ungate(t)
      BY <1>3, <3>3 DEF PublishMedia, Gate, Ungate, TypeOK
    <3>4. CASE ~(AttachBug(t) \/ Detach(t) \/ PublishMedia(t) \/ Gate(t) \/ Ungate(t))
      <4>1. UNCHANGED forkVars
        BY <2>2, <3>4 DEF LContinue, Bye, LFreePool, HandlerScan, Unbind, LReturn,
           BindHandler, InviteAnswered, WatchLeg, LStartEnd, LStartDiscard, LDiscardEnd,
           Offer, LChangeEnd, LDrainScan, LDrainNext, LDrainClaim
      <4> QED
        BY <1>3, <4>1 DEF forkVars
    <3> QED
      BY <3>1, <3>2, <3>3, <3>4
  <2>3. ASSUME NEW c \in Calls,
               CallHangsUp(c) \/ CoreRemovesBugs(c) \/ OnHangup(c) \/ OnDestroy(c)
        PROVE  FALSE
    BY <1>3, <2>3 DEF CallHangsUp, CoreRemovesBugs, OnHangup, OnDestroy, RunHandler, forkVars
  <2>4. ASSUME NEW q \in Recs, LegHangsUp(q) \/ LegHandlers(q) \/ MediaTick(q)
        PROVE  FALSE
    BY <1>3, <2>4 DEF LegHangsUp, LegHandlers, MediaTick, forkVars
  <2>5. CASE UNCHANGED lvars
    BY <1>3, <2>5 DEF lvars, forkVars
  <2> QED
    BY <2>1, <2>2, <2>3, <2>4, <2>5 DEF LNext
<1> QED
  BY <1>2, <1>3

(* An answered leg outside invite_ctx stays with the start that called it. *)
LEMMA LegsStep ==
  ASSUME TypeOK, SilentInv, [LNext]_lvars
  PROVE  LegsAreOwned'
<1> USE DEF SilentInv
<1> SUFFICES ASSUME NEW r \in Recs, leg'[r] = "up", ~dialog'[r]
             PROVE  \E t \in Threads : at'[t] = "watch" /\ pin'[t] = r
  BY DEF LegsAreOwned
<1>1. \A u \in Threads : Moves(u)
  BY EveryStepMoves
<1>2. ASSUME leg[r] = "up", ~dialog[r]
      PROVE  \E t \in Threads : at'[t] = "watch" /\ pin'[t] = r
  <2>1. PICK u \in Threads : at[u] = "watch" /\ pin[u] = r
    BY <1>2 DEF LegsAreOwned
  <2>2. ~WatchLeg(u)
    BY <2>1 DEF WatchLeg, LTypeOK
  <2> QED
    BY <1>1, <2>1, <2>2 DEF Moves
<1>3. ASSUME leg[r] # "up" \/ dialog[r]
      PROVE  \E t \in Threads : at'[t] = "watch" /\ pin'[t] = r
  <2> USE DEF LTypeOK
  <2>1. ASSUME NEW t \in Threads, LBegin(t)
        PROVE  FALSE
    BY <1>3, <2>1 DEF LBegin, LStartRefused, LStopAll, Unload, LChangeRefused,
       LStartExists, LStartInsert, LAcquire, LStopMissing, LStopNamed, Starts, srsVars
  <2>2. ASSUME NEW t \in Threads, LContinue(t)
        PROVE  \E v \in Threads : at'[v] = "watch" /\ pin'[v] = r
    <3>1. CASE InviteAnswered(t)
      BY <1>3, <3>1 DEF InviteAnswered, Goto, TypeOK, vars
    <3>2. CASE Bye(t)
      BY <1>3, <3>2 DEF Bye, TypeOK
    <3>3. CASE WatchLeg(t)
      BY <1>3, <3>3 DEF WatchLeg, TypeOK
    <3>5. CASE Offer(t)
      <4>1. leg' = leg /\ dialog' = [dialog EXCEPT ![pin[t]] =
                                      IF leg[pin[t]] = "up" THEN @ ELSE FALSE]
        BY <3>5 DEF Offer
      <4> QED
        BY <1>3, <4>1
    <3>4. CASE ~(InviteAnswered(t) \/ Bye(t) \/ WatchLeg(t) \/ Offer(t))
      <4>1. UNCHANGED srsVars
        BY <2>2, <3>4 DEF LContinue, Detach, LFreePool, HandlerScan, Unbind, LReturn,
           BindHandler, AttachBug, PublishMedia, LStartEnd, LStartDiscard, LDiscardEnd,
           Gate, Ungate, LChangeEnd, LDrainScan, LDrainNext, LDrainClaim
      <4> QED
        BY <1>3, <4>1 DEF srsVars
    <3> QED
      BY <3>1, <3>2, <3>3, <3>4, <3>5
  <2>3. ASSUME NEW c \in Calls,
               CallHangsUp(c) \/ CoreRemovesBugs(c) \/ OnHangup(c) \/ OnDestroy(c)
        PROVE  FALSE
    BY <1>3, <2>3 DEF CallHangsUp, CoreRemovesBugs, OnHangup, OnDestroy, RunHandler, srsVars
  <2>4. ASSUME NEW q \in Recs, LegHangsUp(q) \/ LegHandlers(q) \/ MediaTick(q)
        PROVE  FALSE
    BY <1>3, <2>4 DEF LegHangsUp, LegHandlers, MediaTick, srsVars
  <2>5. CASE UNCHANGED lvars
    BY <1>3, <2>5 DEF lvars, srsVars
  <2> QED
    BY <2>1, <2>2, <2>3, <2>4, <2>5 DEF LNext
<1> QED
  BY <1>2, <1>3

(* A recording is freed with its fork and leg gone: the thread that frees  *)
(* it is its sole owner, so no start can be about to publish either.       *)
LEMMA FreedStep ==
  ASSUME IInv, SilentInv, [LNext]_lvars
  PROVE  FreedIsSilent'
<1> USE DEF SilentInv
<1>t. TypeOK
  BY DEF IInv
<1>p. \A t \in Threads : at[t] \in Starting => pin[t] \in Recs /\ pool[pin[t]] = "live"
  BY DEF IInv, TypeOK, Placed, PinsAreBalanced, ReferencesAreLive
<1> SUFFICES ASSUME NEW r \in Recs, pool'[r] = "freed"
             PROVE  fork'[r] = "off" /\ leg'[r] # "up"
  BY DEF FreedIsSilent
<1>1. CASE pool[r] = "freed"
  <2>1. fork[r] = "off" /\ leg[r] # "up"
    BY <1>1 DEF FreedIsSilent
  <2>2. ASSUME NEW t \in Threads, LContinue(t)
        PROVE  fork'[r] = "off" /\ leg'[r] # "up"
    <3>1. CASE InviteAnswered(t) \/ AttachBug(t)
      <4>1. pin[t] \in Recs /\ pin[t] # r
        BY <1>1, <1>p, <3>1 DEF InviteAnswered, AttachBug, Starting
      <4> QED
        BY <2>1, <3>1, <4>1 DEF InviteAnswered, AttachBug, forkVars, srsVars, LTypeOK
    <3>2. CASE Detach(t) \/ Bye(t)
      BY <2>1, <3>2 DEF Detach, Bye, forkVars, srsVars, LTypeOK
    <3>3. CASE Gate(t) \/ Ungate(t)
      BY <2>1, <3>3 DEF Gate, Ungate, srsVars, LTypeOK
    <3>4. CASE ~(\/ InviteAnswered(t) \/ AttachBug(t) \/ Detach(t) \/ Bye(t)
                 \/ Gate(t) \/ Ungate(t))
      <4>1. UNCHANGED <<fork, leg>>
        BY <2>2, <3>4 DEF LContinue, LFreePool, HandlerScan, Unbind, LReturn,
           BindHandler, WatchLeg, PublishMedia, LStartEnd, LStartDiscard, LDiscardEnd,
           Offer, LChangeEnd, LDrainScan, LDrainNext, LDrainClaim, forkVars, srsVars
      <4> QED
        BY <2>1, <4>1
    <3> QED
      BY <3>1, <3>2, <3>3, <3>4
  <2>3. ASSUME NEW t \in Threads, LBegin(t)
        PROVE  fork'[r] = "off" /\ leg'[r] # "up"
    BY <2>1, <2>3 DEF LBegin, LStartRefused, LStopAll, Unload, LChangeRefused,
       LStartExists, LStartInsert, LAcquire, LStopMissing, LStopNamed, Starts,
       forkVars, srsVars
  <2>4. ASSUME NEW c \in Calls,
               CallHangsUp(c) \/ CoreRemovesBugs(c) \/ OnHangup(c) \/ OnDestroy(c)
        PROVE  fork'[r] = "off" /\ leg'[r] # "up"
    BY <2>1, <2>4 DEF CallHangsUp, CoreRemovesBugs, OnHangup, OnDestroy, RunHandler,
       forkVars, srsVars, LTypeOK
  <2>5. ASSUME NEW q \in Recs, LegHangsUp(q) \/ LegHandlers(q) \/ MediaTick(q)
        PROVE  fork'[r] = "off" /\ leg'[r] # "up"
    BY <2>1, <2>5 DEF LegHangsUp, LegHandlers, MediaTick, forkVars, srsVars, LTypeOK
  <2>6. CASE UNCHANGED lvars
    BY <2>1, <2>6 DEF lvars, forkVars, srsVars
  <2> QED
    BY <2>2, <2>3, <2>4, <2>5, <2>6 DEF LNext
<1>2. CASE pool[r] # "freed"
  <2>1. PICK t \in Threads : LFreePool(t) /\ own[t] = r
    <3>1. ASSUME NEW t \in Threads, LBegin(t)
          PROVE  FALSE
      BY <1>t, <1>2, <3>1 DEF LBegin, LStartRefused, LStopAll, Unload, LChangeRefused,
         LStartExists, LStartInsert, LAcquire, LStopMissing, LStopNamed, StartRefused,
         ChangeRefused, StartExists, StartInsert, Acquire, StopMissing, StopNamed, Claim,
         ReturnAtOnce, DrainBegin, recVars, TypeOK
    <3>2. ASSUME NEW t \in Threads, LContinue(t), ~LFreePool(t)
          PROVE  FALSE
      <4>1. pool' = pool
        BY <3>2 DEF LContinue, Detach, Bye, HandlerScan, Unbind, LReturn, Return,
           BindHandler, InviteAnswered, WatchLeg, AttachBug, PublishMedia, LStartEnd,
           StartEnd, LStartDiscard, StartDiscard, LDiscardEnd, DiscardEnd, Gate, Offer,
           Ungate, LChangeEnd, ChangeEnd, Release, LDrainScan, DrainScan, LDrainNext,
           DrainNext, LDrainClaim, DrainClaim, Claim, vars, recVars
      <4> QED
        BY <1>2, <4>1
    <3>3. ASSUME NEW t \in Threads, LFreePool(t)
          PROVE  own[t] = r
      BY <1>t, <1>2, <3>3 DEF LFreePool, FreePool, TypeOK
    <3>4. ASSUME NEW c \in Calls,
                 CallHangsUp(c) \/ CoreRemovesBugs(c) \/ OnHangup(c) \/ OnDestroy(c)
          PROVE  FALSE
      BY <1>2, <3>4 DEF CallHangsUp, CoreRemovesBugs, OnHangup, OnDestroy, RunHandler,
         DrainBegin, vars, recVars
    <3>5. ASSUME NEW q \in Recs, LegHangsUp(q) \/ LegHandlers(q) \/ MediaTick(q)
          PROVE  FALSE
      BY <1>2, <3>5 DEF LegHangsUp, LegHandlers, MediaTick, LegEnded, vars, recVars
    <3>6. ~UNCHANGED lvars
      BY <1>2 DEF lvars, vars, recVars
    <3> QED
      BY <3>1, <3>2, <3>3, <3>4, <3>5, <3>6 DEF LNext
  <2>2. own[t] # NULL
    BY <2>1 DEF LFreePool
  <2>4. TornDown(r) /\ UNCHANGED <<fork, leg>>
    BY <2>1 DEF LFreePool, forkVars, srsVars
  <2>5. \A u \in Threads : pin[u] # r
    BY <2>1, <2>2 DEF IInv, SoleOwner
  <2> QED
    BY <2>4, <2>5 DEF TornDown, ForksAreOwned, LegsAreOwned
<1> QED
  BY <1>1, <1>2

(* The inductive invariant, together with the table's.                     *)
THEOREM LifecycleInvariant == LSpec => []SilentInv
<1>1. LInit => SilentInv
  BY DEF LInit, Init, SilentInv, LTypeOK, Placed, Starting, ForksAreOwned,
         LegsAreOwned, FreedIsSilent
<1>2. IInv /\ SilentInv /\ [LNext]_lvars => SilentInv'
  <2> SUFFICES ASSUME IInv, SilentInv, [LNext]_lvars
               PROVE  SilentInv'
    OBVIOUS
  <2>1. TypeOK /\ LTypeOK /\ Placed
    BY DEF IInv, SilentInv
  <2>2. Placed'
    BY <2>1, EveryStepMoves DEF Moves, Placed
  <2> QED
    BY <2>1, <2>2, LTypeStep, ForksStep, LegsStep, FreedStep DEF SilentInv
<1> QED
  BY <1>1, <1>2, LifecycleKeepsTable, PTL DEF LSpec

(* teardown_recording leaves no fork and no leg behind, in every           *)
(* interleaving of any number of starts, pauses, stops, hangups and leg    *)
(* ends.                                                                   *)
THEOREM FreedRecordingsAreSilent == LSpec => []FreedIsSilent
BY LifecycleInvariant, PTL DEF SilentInv

(* Type correctness of the lifecycle's own variables.                      *)
THEOREM LifecycleTypes == LSpec => []LTypeOK
BY LifecycleInvariant, PTL DEF SilentInv

(* No recording leg is hung up by us while its fork still runs: the owner  *)
(* has detached the bug by then, and nobody else can attach one, for the   *)
(* owner shares the recording with no start.                               *)
THEOREM ByeFollowsDetach == LSpec => ByeAfterDetach
<1> DEFINE Good == \A r \in Recs : leg[r] = "up" /\ leg'[r] = "down" => fork[r] = "off"
<1>1. ASSUME IInv, SilentInv, LNext
      PROVE  Good
  <2> SUFFICES ASSUME NEW r \in Recs, leg[r] = "up", leg'[r] = "down"
               PROVE  fork[r] = "off"
    OBVIOUS
  <2>1. leg \in [Recs -> {"none", "up", "ending", "down"}]
    BY <1>1 DEF SilentInv, LTypeOK
  <2>2. PICK t \in Threads : Bye(t)
    <3>1. ASSUME NEW t \in Threads, LBegin(t)
          PROVE  FALSE
      BY <3>1 DEF LBegin, LStartRefused, LStartExists, LStartInsert, LChangeRefused,
         LAcquire, LStopMissing, LStopNamed, LStopAll, Unload, Starts, srsVars
    <3>2. ASSUME NEW t \in Threads, LContinue(t), ~Bye(t)
          PROVE  FALSE
      BY <2>1, <3>2 DEF LContinue, Detach, LFreePool, HandlerScan, Unbind, LReturn,
         BindHandler, InviteAnswered, WatchLeg, AttachBug, PublishMedia, LStartEnd,
         LStartDiscard, LDiscardEnd, Gate, Offer, Ungate, LChangeEnd, LDrainScan,
         LDrainNext, LDrainClaim, srsVars
    <3>3. ASSUME NEW c \in Calls,
                 CallHangsUp(c) \/ CoreRemovesBugs(c) \/ OnHangup(c) \/ OnDestroy(c)
          PROVE  FALSE
      BY <3>3 DEF CallHangsUp, CoreRemovesBugs, OnHangup, OnDestroy, RunHandler, srsVars
    <3>4. ASSUME NEW q \in Recs, LegHangsUp(q) \/ LegHandlers(q) \/ MediaTick(q)
          PROVE  FALSE
      BY <2>1, <3>4 DEF LegHangsUp, LegHandlers, MediaTick, srsVars
    <3> QED
      BY <1>1, <3>1, <3>2, <3>3, <3>4 DEF LNext
  <2>3. own[t] = r /\ ~media[r]
    BY <2>1, <2>2 DEF Bye, ByeDue
  <2>4. \A u \in Threads : pin[u] # r
    BY <1>1, <2>2, <2>3 DEF IInv, SoleOwner, Bye
  <2> QED
    BY <1>1, <2>3, <2>4 DEF SilentInv, ForksAreOwned
<1>2. Good \/ UNCHANGED lvars => [Good]_lvars
  OBVIOUS
<1> QED
  BY <1>1, <1>2, LifecycleKeepsTable, LifecycleInvariant, PTL DEF LSpec, ByeAfterDetach
=============================================================================
