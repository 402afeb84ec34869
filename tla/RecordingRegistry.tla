-------------------------- MODULE RecordingRegistry --------------------------
(***************************************************************************)
(* The recordings table of recording_session.c: globals.recordings_hash,   *)
(* the pins and dooms that guard a recording_t's pool, and every operation *)
(* that touches them. One action is one hold of recordings_mutex (or the   *)
(* pool free that ends a teardown); between two actions of one thread any  *)
(* other thread may run. What happens to the SIP leg, the media bug and    *)
(* the call between those holds is RecordingLifecycle's business.          *)
(***************************************************************************)
EXTENDS Naturals, FiniteSets

CONSTANTS
  Calls,     \* call legs, by channel UUID
  Handles,   \* recording handles (a recording server's name, or ad hoc)
  Recs,      \* the recording_t allocations a behaviour may make
  Threads,   \* threads that run the module's apps, handlers and shutdown
  NULL,      \* the null pointer
  Batch      \* SIPREC_DRAIN_BATCH

(* siprec_recording_key: distinct (handle, call) pairs have distinct keys. *)
Keys == Handles \X Calls
CallOf(k) == k[2]

ASSUME RegistryAssumption ==
  /\ IsFiniteSet(Threads)
  /\ NULL \notin Recs
  /\ NULL \notin Keys
  /\ Batch \in Nat \ {0}

VARIABLES
  hash,        \* recordings_hash: key -> recording or NULL
  pool,        \* pool[r]: is r's memory pool unborn, live or freed
  key,         \* recording->key
  use_count,   \* recording->use_count
  doomed,      \* recording->doomed
  leg_gone,    \* recording->leg_gone
  pc,          \* where each thread is
  pin,         \* the recording the thread's running operation has pinned
  own,         \* the recording the thread must tear down, as sole owner
  todo,        \* drain_recordings: the keys of the batch not yet claimed
  more,        \* drain_recordings: the batch was full, so scan again
  scope,       \* drain_recordings: the calls whose recordings it takes
  ret          \* what the thread's latest operation returns

recVars == <<hash, pool, key, use_count, doomed, leg_gone>>
drainVars == <<todo, more, scope>>
vars == <<recVars, pc, pin, own, drainVars, ret>>

Init ==
  /\ hash = [k \in Keys |-> NULL]
  /\ pool = [r \in Recs |-> "unborn"]
  /\ key = [r \in Recs |-> NULL]
  /\ use_count = [r \in Recs |-> 0]
  /\ doomed = [r \in Recs |-> FALSE]
  /\ leg_gone = [r \in Recs |-> FALSE]
  /\ pc = [t \in Threads |-> "idle"]
  /\ pin = [t \in Threads |-> NULL]
  /\ own = [t \in Threads |-> NULL]
  /\ todo = [t \in Threads |-> {}]
  /\ more = [t \in Threads |-> FALSE]
  /\ scope = [t \in Threads |-> {}]
  /\ ret = [t \in Threads |-> "none"]

-----------------------------------------------------------------------------
(* The tests the code makes while it holds recordings_mutex. A definition  *)
(* named Faulty... is its successor with a plausible bug: it is used only  *)
(* to show that some property notices the bug.                             *)

Listed(r) == key[r] # NULL /\ hash[key[r]] = r

(* A listed recording that a start must report as existing.                *)
FaultyBusy(r) == ~leg_gone[r]
Busy(r) == use_count[r] > 0 \/ ~leg_gone[r]

(* claim_recording: a pinned recording is doomed, not handed over.         *)
FaultyPinned(r) == use_count[r] > 1
Pinned(r) == use_count[r] > 0

(* release_recording: the last pin of a doomed recording inherits it.      *)
FaultyInheritsAny(r) == doomed[r]
FaultyInheritsNone(r) == use_count[r] = 0 /\ doomed[r]
InheritsTeardown(r) == use_count[r] = 1 /\ doomed[r]

(* discard_pending_recording: the key may since belong to another start.   *)
FaultyListedAny(r) == TRUE
StillListed(r) == hash[key[r]] = r

(* start_recording_session: the pin the new entry is inserted with.        *)
StartPins == 1

Ready(t) == pc[t] = "idle" /\ own[t] = NULL

-----------------------------------------------------------------------------
(* Steps shared by the operations.                                         *)

(* claim_recording on a key that is listed.                                *)
Claim(t, k) ==
  LET r == hash[k] IN
  /\ hash' = [hash EXCEPT ![k] = NULL]
  /\ doomed' = [doomed EXCEPT ![r] = @ \/ Pinned(r)]
  /\ own' = [own EXCEPT ![t] = IF Pinned(r) THEN NULL ELSE r]
  /\ UNCHANGED <<pool, key, use_count, leg_gone>>

(* release_recording.                                                      *)
Release(t) ==
  LET r == pin[t] IN
  /\ use_count' = [use_count EXCEPT ![r] = @ - 1]
  /\ own' = [own EXCEPT ![t] = IF InheritsTeardown(r) THEN r ELSE NULL]
  /\ pin' = [pin EXCEPT ![t] = NULL]
  /\ UNCHANGED <<hash, pool, key, doomed, leg_gone, drainVars>>

(* teardown_recording's last statement: the pool, and the recording_t in   *)
(* it, are gone. Until then the owner does nothing else.                   *)
FreePool(t) ==
  /\ own[t] # NULL
  /\ pool' = [pool EXCEPT ![own[t]] = "freed"]
  /\ own' = [own EXCEPT ![t] = NULL]
  /\ UNCHANGED <<hash, key, use_count, doomed, leg_gone, pc, pin, drainVars, ret>>

(* The operation is over and its outcome published; its locals die here.   *)
Return(t) ==
  /\ pc[t] = "return" /\ own[t] = NULL
  /\ pc' = [pc EXCEPT ![t] = "idle"]
  /\ ret' = [ret EXCEPT ![t] = "none"]
  /\ scope' = [scope EXCEPT ![t] = {}]
  /\ more' = [more EXCEPT ![t] = FALSE]
  /\ UNCHANGED <<recVars, pin, own, todo>>

(* An operation that touches nothing and returns st.                       *)
ReturnAtOnce(t, st) ==
  /\ Ready(t)
  /\ ret' = [ret EXCEPT ![t] = st]
  /\ pc' = [pc EXCEPT ![t] = "return"]
  /\ UNCHANGED <<recVars, pin, own, drainVars>>

-----------------------------------------------------------------------------
(* siprec: start_recording_session.                                        *)

(* A gate before the table is reached (SRC disabled, no handle, media not  *)
(* up, no memory, no server): the call ends with the recording refused.    *)
StartRefused(t) == ReturnAtOnce(t, "failed")

StartExists(t, k) ==
  /\ hash[k] # NULL /\ Busy(hash[k])
  /\ ReturnAtOnce(t, "exists")

(* Duplicate check and insert under one hold; a stale entry becomes this   *)
(* thread's to tear down.                                                  *)
StartInsert(t, k, r) ==
  /\ Ready(t)
  /\ pool[r] = "unborn"
  /\ hash[k] # NULL => ~Busy(hash[k])
  /\ hash' = [hash EXCEPT ![k] = r]
  /\ pool' = [pool EXCEPT ![r] = "live"]
  /\ key' = [key EXCEPT ![r] = k]
  /\ use_count' = [use_count EXCEPT ![r] = StartPins]
  /\ pin' = [pin EXCEPT ![t] = r]
  /\ own' = [own EXCEPT ![t] = hash[k]]
  /\ pc' = [pc EXCEPT ![t] = "start"]
  /\ UNCHANGED <<doomed, leg_gone, drainVars, ret>>

(* The INVITE was answered and the media attached: drop the start pin. A   *)
(* stop that arrived meanwhile doomed the recording, and the start failed. *)
StartEnd(t) ==
  /\ pc[t] = "start" /\ own[t] = NULL
  /\ ret' = [ret EXCEPT ![t] = IF doomed[pin[t]] THEN "failed" ELSE "success"]
  /\ Release(t)
  /\ pc' = [pc EXCEPT ![t] = "return"]

(* discard_pending_recording, first hold: some step of the start failed.   *)
StartDiscard(t) ==
  LET r == pin[t] IN
  /\ pc[t] = "start" /\ own[t] = NULL
  /\ hash' = IF StillListed(r) THEN [hash EXCEPT ![key[r]] = NULL] ELSE hash
  /\ doomed' = [doomed EXCEPT ![r] = TRUE]
  /\ pc' = [pc EXCEPT ![t] = "discard"]
  /\ UNCHANGED <<pool, key, use_count, leg_gone, pin, own, drainVars, ret>>

(* discard_pending_recording, second hold.                                 *)
FaultyDiscardEnd(t) ==
  /\ pc[t] = "discard"
  /\ ret' = [ret EXCEPT ![t] = "failed"]
  /\ pc' = [pc EXCEPT ![t] = "return"]
  /\ UNCHANGED <<recVars, pin, own, drainVars>>
DiscardEnd(t) ==
  /\ pc[t] = "discard"
  /\ Release(t)
  /\ ret' = [ret EXCEPT ![t] = "failed"]
  /\ pc' = [pc EXCEPT ![t] = "return"]

-----------------------------------------------------------------------------
(* siprec_pause and siprec_resume: siprec_change_direction.                *)

(* acquire_recording found the recording and pinned it.                    *)
Acquire(t, k) ==
  LET r == hash[k] IN
  /\ Ready(t)
  /\ r # NULL
  /\ use_count' = [use_count EXCEPT ![r] = @ + 1]
  /\ pin' = [pin EXCEPT ![t] = r]
  /\ pc' = [pc EXCEPT ![t] = "change"]
  /\ UNCHANGED <<hash, pool, key, doomed, leg_gone, own, drainVars, ret>>

(* acquire_recording found nothing (or a resume was refused up front).     *)
ChangeRefused(t) == ReturnAtOnce(t, "failed")

ChangeEnd(t, st) ==
  /\ pc[t] = "change"
  /\ Release(t)
  /\ ret' = [ret EXCEPT ![t] = st]
  /\ pc' = [pc EXCEPT ![t] = "return"]

-----------------------------------------------------------------------------
(* siprec_stop, the call's hangup and the module's shutdown.               *)

StopMissing(t, k) == hash[k] = NULL /\ ReturnAtOnce(t, "no_recording")

(* stop_recording_session_for_server with a name.                          *)
StopNamed(t, k) ==
  /\ Ready(t)
  /\ hash[k] # NULL
  /\ Claim(t, k)
  /\ ret' = [ret EXCEPT ![t] = "success"]
  /\ pc' = [pc EXCEPT ![t] = "return"]
  /\ UNCHANGED <<pin, drainVars>>

(* drain_recordings: one call's recordings, or everything at shutdown.     *)
DrainBegin(t, C) ==
  /\ Ready(t)
  /\ scope' = [scope EXCEPT ![t] = C]
  /\ ret' = [ret EXCEPT ![t] = "no_recording"]
  /\ pc' = [pc EXCEPT ![t] = "scan"]
  /\ UNCHANGED <<recVars, pin, own, todo, more>>

Matches(C) == {k \in Keys : hash[k] # NULL /\ CallOf(k) \in C}

(* SIPREC_DRAIN_BATCH bounds a pass; only a short pass is the last one.    *)
BatchOf(B, M) == IF Cardinality(M) < Batch THEN B = M
                 ELSE Cardinality(B) = Batch
FaultyFullBatch(B) == Cardinality(B) <= Batch
FaultyFullBatchNever(B) == FALSE
FullBatch(B) == Cardinality(B) >= Batch

(* Copy a batch of matching keys under the lock; the hash yields them in   *)
(* no particular order.                                                    *)
DrainScan(t) ==
  /\ pc[t] = "scan"
  /\ \E B \in SUBSET Matches(scope[t]) :
       /\ BatchOf(B, Matches(scope[t]))
       /\ todo' = [todo EXCEPT ![t] = B]
       /\ more' = [more EXCEPT ![t] = FullBatch(B)]
  /\ pc' = [pc EXCEPT ![t] = "claim"]
  /\ UNCHANGED <<recVars, pin, own, scope, ret>>

(* Re-find and claim one key of the batch: it may be gone by now, or name  *)
(* a recording younger than the scan.                                      *)
DrainClaim(t, k) ==
  /\ pc[t] = "claim" /\ own[t] = NULL
  /\ k \in todo[t]
  /\ todo' = [todo EXCEPT ![t] = @ \ {k}]
  /\ IF hash[k] # NULL
     THEN Claim(t, k) /\ ret' = [ret EXCEPT ![t] = "success"]
     ELSE UNCHANGED <<recVars, own, ret>>
  /\ UNCHANGED <<pc, pin, more, scope>>

DrainNext(t) ==
  /\ pc[t] = "claim" /\ own[t] = NULL
  /\ todo[t] = {}
  /\ pc' = [pc EXCEPT ![t] = IF more[t] THEN "scan" ELSE "return"]
  /\ UNCHANGED <<recVars, pin, own, drainVars, ret>>

-----------------------------------------------------------------------------
(* siprec_recording_leg_ended, on the recording leg's own thread: mark the *)
(* recording if it is still the one listed under its key.                  *)
LegEnded(r) ==
  /\ Listed(r)
  /\ leg_gone' = [leg_gone EXCEPT ![r] = TRUE]
  /\ UNCHANGED <<hash, pool, key, use_count, doomed, pc, pin, own, drainVars, ret>>

(* The steps of an operation already begun.                                *)
Continue(t) ==
  \/ FreePool(t)
  \/ Return(t)
  \/ StartEnd(t)
  \/ StartDiscard(t)
  \/ DiscardEnd(t)
  \/ \E st \in {"success", "failed"} : ChangeEnd(t, st)
  \/ DrainScan(t)
  \/ \E k \in Keys : DrainClaim(t, k)
  \/ DrainNext(t)

Begin(t) ==
  \/ StartRefused(t)
  \/ ChangeRefused(t)
  \/ \E k \in Keys :
       \/ StartExists(t, k)
       \/ \E r \in Recs : StartInsert(t, k, r)
       \/ Acquire(t, k)
       \/ StopMissing(t, k)
       \/ StopNamed(t, k)
  \/ \E c \in Calls : DrainBegin(t, {c})
  \/ DrainBegin(t, Calls)

Next ==
  \/ \E t \in Threads : Begin(t) \/ Continue(t)
  \/ \E r \in Recs : LegEnded(r)

Spec == Init /\ [][Next]_vars

(* An operation once begun goes on: the mutex is never held across a       *)
(* blocking call, and the INVITE is bounded by originate_timeout. Nothing  *)
(* obliges a thread to begin one.                                          *)
FairSpec == Spec /\ \A t \in Threads : WF_vars(Continue(t))

-----------------------------------------------------------------------------
(* Properties.                                                             *)

PinnedBy(r) == {t \in Threads : pin[t] = r}

(* Every variable keeps its type; in particular no release ever drops a    *)
(* pin that was not taken (use_count stays natural).                       *)
TypeOK ==
  /\ hash \in [Keys -> Recs \cup {NULL}]
  /\ pool \in [Recs -> {"unborn", "live", "freed"}]
  /\ key \in [Recs -> Keys \cup {NULL}]
  /\ use_count \in [Recs -> Nat]
  /\ doomed \in [Recs -> BOOLEAN]
  /\ leg_gone \in [Recs -> BOOLEAN]
  /\ pc \in [Threads -> {"idle", "start", "discard", "change",
                         "scan", "claim", "return"}]
  /\ pin \in [Threads -> Recs \cup {NULL}]
  /\ own \in [Threads -> Recs \cup {NULL}]
  /\ todo \in [Threads -> SUBSET Keys]
  /\ more \in [Threads -> BOOLEAN]
  /\ scope \in [Threads -> SUBSET Calls]
  /\ ret \in [Threads -> {"none", "success", "failed", "exists", "no_recording"}]

(* No use after free: whatever a thread has pinned, or must tear down, or  *)
(* can find in the hash is allocated (claim_recording's TOCTOU comment).   *)
ReferencesAreLive ==
  /\ \A t \in Threads : pin[t] # NULL => pool[pin[t]] = "live"
  /\ \A t \in Threads : own[t] # NULL => pool[own[t]] = "live"
  /\ \A k \in Keys : hash[k] # NULL => pool[hash[k]] = "live"

(* "The sole owner": no two threads ever tear down the same recording, and *)
(* the one that does shares it with no pin and no hash entry.              *)
SoleOwner ==
  \A t \in Threads : own[t] # NULL =>
    /\ \A u \in Threads : own[u] = own[t] => u = t
    /\ \A u \in Threads : pin[u] # own[t]
    /\ ~Listed(own[t])

(* use_count is exactly the number of operations holding a pin, so the     *)
(* last release is the last use.                                           *)
PinsCounted == \A r \in Recs : use_count[r] = Cardinality(PinnedBy(r))

(* acquire_recording's "in the hash is by construction not yet doomed":    *)
(* what a find returns is under its own key and nobody has retired it.     *)
ListedIsNotDoomed ==
  \A k \in Keys : hash[k] # NULL => key[hash[k]] = k /\ ~doomed[hash[k]]

(* No leak: an allocated recording that can no longer be found is doomed   *)
(* with a pin left whose release will free it, or some thread is tearing   *)
(* it down.                                                                *)
RetiredHasHeir ==
  \A r \in Recs : pool[r] = "live" /\ ~Listed(r) =>
    \E t \in Threads : own[t] = r \/ (pin[t] = r /\ doomed[r])

(* Every pin is balanced by a release, and every teardown a thread was     *)
(* handed is done before its operation returns.                            *)
PinsAreBalanced ==
  \A t \in Threads :
    /\ pin[t] # NULL <=> pc[t] \in {"start", "discard", "change"}
    /\ pc[t] \in {"idle", "discard", "change", "scan"} => own[t] = NULL
    /\ pc[t] = "discard" => doomed[pin[t]]

(* A recording_t that was never inserted is known to nobody.               *)
UnbornIsUnknown ==
  \A r \in Recs : IF pool[r] = "unborn"
                  THEN key[r] = NULL /\ use_count[r] = 0 /\ ~doomed[r]
                  ELSE key[r] # NULL

(* Together these are inductive; RecordingRegistryProofs proves it.        *)
IInv ==
  /\ TypeOK
  /\ ReferencesAreLive
  /\ SoleOwner
  /\ PinsCounted
  /\ ListedIsNotDoomed
  /\ RetiredHasHeir
  /\ PinsAreBalanced
  /\ UnbornIsUnknown

(* A start that reports success leaves its own recording in the hash, so   *)
(* pause, stop and hangup can reach it: a stop that came first made the    *)
(* start fail instead.                                                     *)
StartSuccessIsListed ==
  [][\A t \in Threads :
       pc[t] = "start" /\ pc'[t] = "return" /\ ret'[t] = "success"
         => hash'[key[pin[t]]] = pin[t]]_vars

(* Every recording taken out of the hash is eventually freed.              *)
RetiredIsFreed ==
  \A r \in Recs : (pool[r] = "live" /\ ~Listed(r)) ~> (pool[r] = "freed")

(* Every operation returns; a drain does not scan forever.                 *)
OperationsReturn == \A t \in Threads : (pc[t] # "idle") ~> (pc[t] = "idle")

(* The recordings table as its callers see it.                             *)
PhaseOf(r) == IF pool[r] # "live" THEN pool[r]
              ELSE IF Listed(r) THEN "listed" ELSE "retired"

Ownership == INSTANCE RecordingOwnership WITH
  phase <- [r \in Recs |-> PhaseOf(r)],
  users <- [r \in Recs |-> PinnedBy(r)],
  listing <- [k \in Keys |-> {hash[k]} \ {NULL}]

(* The locking protocol implements the ownership discipline: created once, *)
(* retired once, freed once, and only when unused.                         *)
ImplementsOwnership == Ownership!Spec
=============================================================================
