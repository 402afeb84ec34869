------------------------- MODULE RecordingOwnership -------------------------
(***************************************************************************)
(* What the recordings table promises its callers, whatever the locking.   *)
(* A recording_t is created listed under its key and used by its creator,  *)
(* may be joined by further users while it is listed, is retired exactly   *)
(* once, and is freed exactly once, when it is retired and nobody uses it. *)
(* RecordingRegistry, the code's own protocol, implements this module.     *)
(***************************************************************************)
EXTENDS FiniteSets

CONSTANTS Recs, Threads, Keys

VARIABLES
  phase,    \* phase[r]: where recording r is in its life
  users,    \* users[r]: the threads that rely on r staying allocated
  listing   \* listing[k]: the recordings listed under key k (at most one)

vars == <<phase, users, listing>>

Phases == {"unborn", "listed", "retired", "freed"}

TypeOK ==
  /\ phase \in [Recs -> Phases]
  /\ users \in [Recs -> SUBSET Threads]
  /\ listing \in [Keys -> SUBSET Recs]

Init ==
  /\ phase = [r \in Recs |-> "unborn"]
  /\ users = [r \in Recs |-> {}]
  /\ listing = [k \in Keys |-> {}]

(* Thread t creates r under k. A recording already listed there is retired *)
(* in the same step, and only if nobody uses it.                           *)
Create(t, k, r) ==
  /\ phase[r] = "unborn"
  /\ \A s \in listing[k] : users[s] = {}
  /\ phase' = [s \in Recs |-> IF s = r THEN "listed"
                              ELSE IF s \in listing[k] THEN "retired"
                              ELSE phase[s]]
  /\ users' = [users EXCEPT ![r] = {t}]
  /\ listing' = [listing EXCEPT ![k] = {r}]

Join(t, r) ==
  /\ phase[r] = "listed"
  /\ t \notin users[r]
  /\ users' = [users EXCEPT ![r] = @ \cup {t}]
  /\ UNCHANGED <<phase, listing>>

Leave(t, r) ==
  /\ t \in users[r]
  /\ users' = [users EXCEPT ![r] = @ \ {t}]
  /\ UNCHANGED <<phase, listing>>

Retire(k, r) ==
  /\ r \in listing[k]
  /\ phase' = [phase EXCEPT ![r] = "retired"]
  /\ listing' = [listing EXCEPT ![k] = {}]
  /\ UNCHANGED users

Free(r) ==
  /\ phase[r] = "retired"
  /\ users[r] = {}
  /\ phase' = [phase EXCEPT ![r] = "freed"]
  /\ UNCHANGED <<users, listing>>

Next ==
  \E r \in Recs :
    \/ Free(r)
    \/ \E k \in Keys : Retire(k, r)
    \/ \E t \in Threads : Join(t, r) \/ Leave(t, r)
    \/ \E t \in Threads, k \in Keys : Create(t, k, r)

Spec == Init /\ [][Next]_vars
=============================================================================
