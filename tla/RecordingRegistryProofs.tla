----------------------- MODULE RecordingRegistryProofs -----------------------
(***************************************************************************)
(* Proofs about RecordingRegistry for every set of calls, handles,         *)
(* recordings and (finitely many) threads and every batch size.            *)
(***************************************************************************)
EXTENDS RecordingRegistry, FiniteSetTheorems, TLAPS

(***************************************************************************)
(* Type correctness.                                                       *)
(***************************************************************************)

(* claim_recording keeps the types of what it touches.                     *)
LEMMA ClaimType ==
  ASSUME TypeOK, NEW t \in Threads, NEW k \in Keys, hash[k] # NULL, Claim(t, k)
  PROVE  /\ hash' \in [Keys -> Recs \cup {NULL}]
         /\ doomed' \in [Recs -> BOOLEAN]
         /\ own' \in [Threads -> Recs \cup {NULL}]
  BY DEF TypeOK, Claim, Pinned

(* release_recording keeps the types; it needs a pin to drop, or the count *)
(* would leave the naturals.                                               *)
LEMMA ReleaseType ==
  ASSUME TypeOK, NEW t \in Threads, pin[t] # NULL, use_count[pin[t]] > 0, Release(t)
  PROVE  /\ use_count' \in [Recs -> Nat]
         /\ pin' \in [Threads -> Recs \cup {NULL}]
         /\ own' \in [Threads -> Recs \cup {NULL}]
  BY DEF TypeOK, Release, InheritsTeardown

(* A thread with a pin is counted, so the count it drops is positive.      *)
LEMMA PinIsCounted ==
  ASSUME TypeOK, PinsCounted, NEW t \in Threads, pin[t] # NULL
  PROVE  use_count[pin[t]] > 0
<1> DEFINE r == pin[t]
<1>1. r \in Recs
  BY DEF TypeOK
<1>2. t \in PinnedBy(r) /\ IsFiniteSet(PinnedBy(r))
  BY FS_Subset, RegistryAssumption DEF PinnedBy
<1>3. Cardinality(PinnedBy(r)) \in Nat /\ Cardinality(PinnedBy(r)) # 0
  BY <1>2, FS_CardinalityType, FS_EmptySet
<1> QED
  BY <1>1, <1>3 DEF PinsCounted

(* Every step keeps the types.                                             *)
LEMMA TypeStep ==
  ASSUME TypeOK, PinsCounted, PinsAreBalanced, [Next]_vars
  PROVE  TypeOK'
<1>1. ASSUME NEW t \in Threads, NEW st \in {"success", "failed", "exists", "no_recording"},
             ReturnAtOnce(t, st)
      PROVE  TypeOK'
  BY <1>1 DEF TypeOK, ReturnAtOnce, recVars, drainVars
<1>2. ASSUME NEW t \in Threads, Begin(t)
      PROVE  TypeOK'
  <2>1. CASE StartRefused(t) \/ ChangeRefused(t)
    BY <1>1, <2>1 DEF StartRefused, ChangeRefused
  <2>2. ASSUME NEW k \in Keys, StartExists(t, k) \/ StopMissing(t, k)
        PROVE  TypeOK'
    BY <1>1, <2>2 DEF StartExists, StopMissing
  <2>3. ASSUME NEW k \in Keys, NEW r \in Recs, StartInsert(t, k, r)
        PROVE  TypeOK'
    BY <2>3 DEF TypeOK, StartInsert, StartPins, drainVars
  <2>4. ASSUME NEW k \in Keys, Acquire(t, k)
        PROVE  TypeOK'
    BY <2>4 DEF TypeOK, Acquire, drainVars
  <2>5. ASSUME NEW k \in Keys, StopNamed(t, k)
        PROVE  TypeOK'
    BY <2>5, ClaimType DEF TypeOK, StopNamed, Claim, drainVars
  <2>6. ASSUME NEW C \in SUBSET Calls, DrainBegin(t, C)
        PROVE  TypeOK'
    BY <2>6 DEF TypeOK, DrainBegin, recVars
  <2> QED
    BY <1>2, <2>1, <2>2, <2>3, <2>4, <2>5, <2>6 DEF Begin
<1>3. ASSUME NEW t \in Threads, Continue(t)
      PROVE  TypeOK'
  <2>1. CASE FreePool(t)
    BY <2>1 DEF TypeOK, FreePool, drainVars
  <2>2. CASE Return(t)
    BY <2>2 DEF TypeOK, Return, recVars
  <2>3. ASSUME pin[t] # NULL, Release(t)
        PROVE  /\ use_count' \in [Recs -> Nat]
               /\ pin' \in [Threads -> Recs \cup {NULL}]
               /\ own' \in [Threads -> Recs \cup {NULL}]
    BY <2>3, PinIsCounted, ReleaseType
  <2>4. CASE StartEnd(t)
    BY <2>3, <2>4 DEF TypeOK, PinsAreBalanced, StartEnd, Release, drainVars
  <2>5. CASE StartDiscard(t)
    BY <2>5 DEF TypeOK, StartDiscard, StillListed, drainVars
  <2>6. CASE DiscardEnd(t)
    BY <2>3, <2>6 DEF TypeOK, PinsAreBalanced, DiscardEnd, Release, drainVars
  <2>7. ASSUME NEW st \in {"success", "failed"}, ChangeEnd(t, st)
        PROVE  TypeOK'
    BY <2>3, <2>7 DEF TypeOK, PinsAreBalanced, ChangeEnd, Release, drainVars
  <2>8. CASE DrainScan(t)
    <3>1. PICK B \in SUBSET Matches(scope[t]) :
            /\ todo' = [todo EXCEPT ![t] = B]
            /\ more' = [more EXCEPT ![t] = FullBatch(B)]
      BY <2>8 DEF DrainScan
    <3>2. B \in SUBSET Keys /\ FullBatch(B) \in BOOLEAN
      BY DEF Matches, FullBatch
    <3> QED
      BY <2>8, <3>1, <3>2 DEF TypeOK, DrainScan, recVars
  <2>9. ASSUME NEW k \in Keys, DrainClaim(t, k)
        PROVE  TypeOK'
    BY <2>9, ClaimType DEF TypeOK, DrainClaim, Claim, recVars
  <2>10. CASE DrainNext(t)
    BY <2>10 DEF TypeOK, DrainNext, recVars, drainVars
  <2> QED
    BY <1>3, <2>1, <2>2, <2>4, <2>5, <2>6, <2>7, <2>8, <2>9, <2>10 DEF Continue
<1>4. ASSUME NEW r \in Recs, LegEnded(r)
      PROVE  TypeOK'
  BY <1>4 DEF TypeOK, LegEnded, drainVars
<1>5. CASE UNCHANGED vars
  BY <1>5 DEF TypeOK, vars, recVars, drainVars
<1> QED
  BY <1>2, <1>3, <1>4, <1>5 DEF Next

(***************************************************************************)
(* The table: what each kind of lock hold does to the parts of IInv that   *)
(* do not mention pc.                                                      *)
(***************************************************************************)

Table ==
  /\ ReferencesAreLive
  /\ SoleOwner
  /\ PinsCounted
  /\ ListedIsNotDoomed
  /\ RetiredHasHeir
  /\ UnbornIsUnknown

(* use_count is positive exactly when some thread holds a pin, and it is   *)
(* the number of pins.                                                     *)
LEMMA CountedPins ==
  ASSUME PinsCounted, NEW r \in Recs
  PROVE  /\ use_count[r] \in Nat
         /\ use_count[r] > 0 <=> \E t \in Threads : pin[t] = r
         /\ \A t \in Threads : pin[t] = r /\ use_count[r] # 1 =>
              \E u \in Threads \ {t} : pin[u] = r
<1>1. IsFiniteSet(PinnedBy(r))
  BY FS_Subset, RegistryAssumption DEF PinnedBy
<1>2. use_count[r] = Cardinality(PinnedBy(r)) /\ use_count[r] \in Nat
  BY <1>1, FS_CardinalityType DEF PinsCounted
<1>3. use_count[r] = 0 <=> PinnedBy(r) = {}
  BY <1>1, <1>2, FS_EmptySet
<1>4. ASSUME NEW t \in Threads, pin[t] = r, use_count[r] # 1
      PROVE  \E u \in Threads \ {t} : pin[u] = r
  <2>1. PinnedBy(r) # {t}
    BY <1>2, <1>4, FS_Singleton
  <2> QED
    BY <1>4, <2>1 DEF PinnedBy
<1> QED
  BY <1>2, <1>3, <1>4 DEF PinnedBy

(* Steps that leave the table and the threads' references alone.           *)
LEMMA TableUnchanged ==
  ASSUME Table, UNCHANGED <<hash, pool, key, use_count, doomed, pin, own>>
  PROVE  Table'
  BY DEF Table, ReferencesAreLive, SoleOwner, PinsCounted, ListedIsNotDoomed,
         RetiredHasHeir, UnbornIsUnknown, Listed, PinnedBy

(* claim_recording: an unpinned recording passes to its claimer, a pinned  *)
(* one is left to its last release.                                        *)
LEMMA ClaimKeepsTable ==
  ASSUME TypeOK, Table, NEW t \in Threads, NEW k \in Keys,
         hash[k] # NULL, own[t] = NULL, Claim(t, k), UNCHANGED pin
  PROVE  Table'
<1> DEFINE r == hash[k]
<1>a. NULL \notin Recs
  BY RegistryAssumption
<1>b. /\ hash \in [Keys -> Recs \cup {NULL}] /\ key \in [Recs -> Keys \cup {NULL}]
      /\ doomed \in [Recs -> BOOLEAN] /\ own \in [Threads -> Recs \cup {NULL}]
      /\ pin \in [Threads -> Recs \cup {NULL}]
  BY DEF TypeOK
<1>1. r \in Recs /\ key[r] = k /\ Listed(r) /\ ~doomed[r] /\ pool[r] = "live"
  BY <1>a, <1>b, RegistryAssumption DEF Table, ListedIsNotDoomed, ReferencesAreLive, Listed
<1>2. Pinned(r) <=> \E u \in Threads : pin[u] = r
  BY <1>1, CountedPins DEF Table, Pinned
<1>3. \A u \in Threads : own[u] # r
  BY <1>1, <1>a DEF Table, SoleOwner
<1>4. \A s \in Recs : Listed(s)' <=> Listed(s) /\ s # r
  BY <1>1, <1>a, <1>b DEF Claim, Table, ListedIsNotDoomed, Listed
<1>5. /\ pool' = pool /\ key' = key /\ use_count' = use_count /\ pin' = pin
      /\ hash' = [hash EXCEPT ![k] = NULL]
      /\ doomed' = [doomed EXCEPT ![r] = @ \/ Pinned(r)]
      /\ own' = [own EXCEPT ![t] = IF Pinned(r) THEN NULL ELSE r]
  BY DEF Claim
<1>6. ReferencesAreLive'
  BY <1>1, <1>5, <1>a, <1>b DEF Table, ReferencesAreLive
<1>7. SoleOwner'
  BY <1>1, <1>2, <1>3, <1>4, <1>5, <1>a, <1>b DEF Table, SoleOwner
<1>8. PinsCounted'
  BY <1>5 DEF Table, PinsCounted, PinnedBy
<1>9. ListedIsNotDoomed'
  BY <1>1, <1>5, <1>a, <1>b DEF Table, ListedIsNotDoomed
<1>10. RetiredHasHeir'
  BY <1>1, <1>2, <1>3, <1>4, <1>5, <1>a, <1>b DEF Table, RetiredHasHeir
<1>11. UnbornIsUnknown'
  BY <1>1, <1>5, <1>a, <1>b DEF Table, UnbornIsUnknown
<1> QED
  BY <1>6, <1>7, <1>8, <1>9, <1>10, <1>11 DEF Table

(* Taking or dropping one pin keeps use_count equal to the number of pins. *)
LEMMA OnePinMore ==
  ASSUME TypeOK, PinsCounted, NEW t \in Threads, NEW r \in Recs, pin[t] = NULL,
         pin' = [pin EXCEPT ![t] = r],
         use_count' = [use_count EXCEPT ![r] = @ + 1]
  PROVE  PinsCounted'
<1>1. NULL \notin Recs /\ pin \in [Threads -> Recs \cup {NULL}]
      /\ use_count \in [Recs -> Nat]
  BY RegistryAssumption DEF TypeOK
<1>2. PinnedBy(r)' = PinnedBy(r) \cup {t} /\ t \notin PinnedBy(r)
  BY <1>1 DEF PinnedBy
<1>3. \A s \in Recs : s # r => PinnedBy(s)' = PinnedBy(s)
  BY <1>1 DEF PinnedBy
<1>4. IsFiniteSet(PinnedBy(r))
  BY FS_Subset, RegistryAssumption DEF PinnedBy
<1>5. Cardinality(PinnedBy(r)') = Cardinality(PinnedBy(r)) + 1
  BY <1>2, <1>4, FS_AddElement
<1> QED
  BY <1>1, <1>3, <1>5 DEF PinsCounted

(* The same for a release.                                                 *)
LEMMA OnePinLess ==
  ASSUME TypeOK, PinsCounted, NEW t \in Threads, NEW r \in Recs, pin[t] = r,
         pin' = [pin EXCEPT ![t] = NULL],
         use_count' = [use_count EXCEPT ![r] = @ - 1]
  PROVE  PinsCounted'
<1>1. NULL \notin Recs /\ pin \in [Threads -> Recs \cup {NULL}]
      /\ use_count \in [Recs -> Nat]
  BY RegistryAssumption DEF TypeOK
<1>2. PinnedBy(r)' = PinnedBy(r) \ {t} /\ t \in PinnedBy(r)
  BY <1>1 DEF PinnedBy
<1>3. \A s \in Recs : s # r => PinnedBy(s)' = PinnedBy(s)
  BY <1>1 DEF PinnedBy
<1>4. IsFiniteSet(PinnedBy(r))
  BY FS_Subset, RegistryAssumption DEF PinnedBy
<1>5. Cardinality(PinnedBy(r)') = Cardinality(PinnedBy(r)) - 1
  BY <1>2, <1>4, FS_RemoveElement
<1> QED
  BY <1>1, <1>3, <1>5 DEF PinsCounted

(* release_recording: only the last pin of a doomed recording inherits it. *)
LEMMA ReleaseKeepsTable ==
  ASSUME TypeOK, Table, NEW t \in Threads,
         pin[t] # NULL, own[t] = NULL, Release(t)
  PROVE  Table'
<1> DEFINE r == pin[t]
<1>a. NULL \notin Recs
  BY RegistryAssumption
<1>b. /\ hash \in [Keys -> Recs \cup {NULL}] /\ key \in [Recs -> Keys \cup {NULL}]
      /\ use_count \in [Recs -> Nat] /\ own \in [Threads -> Recs \cup {NULL}]
      /\ pin \in [Threads -> Recs \cup {NULL}]
  BY DEF TypeOK
<1>1. r \in Recs /\ pool[r] = "live" /\ key[r] # NULL
  BY <1>a, <1>b DEF Table, ReferencesAreLive, UnbornIsUnknown
<1>2. /\ hash' = hash /\ pool' = pool /\ key' = key /\ doomed' = doomed
      /\ use_count' = [use_count EXCEPT ![r] = @ - 1]
      /\ own' = [own EXCEPT ![t] = IF InheritsTeardown(r) THEN r ELSE NULL]
      /\ pin' = [pin EXCEPT ![t] = NULL]
  BY DEF Release
<1>3. \A s \in Recs : Listed(s)' <=> Listed(s)
  BY <1>2 DEF Listed
<1>4. \A u \in Threads : own[u] # r
  BY <1>a, <1>b, <1>1 DEF Table, SoleOwner
<1>5. doomed[r] => ~Listed(r)
  BY <1>1, <1>b DEF Table, ListedIsNotDoomed, Listed
<1>6. InheritsTeardown(r) => \A u \in Threads : pin[u] = r => u = t
  <2>1. ASSUME NEW u \in Threads, u # t, pin[u] = r, use_count[r] = 1
        PROVE  FALSE
    <3>1. PinnedBy(r) \ {t} # {} /\ t \in PinnedBy(r) /\ IsFiniteSet(PinnedBy(r))
      BY <2>1, FS_Subset, RegistryAssumption DEF PinnedBy
    <3>2. Cardinality(PinnedBy(r)) = 1
      BY <1>1, <2>1 DEF Table, PinsCounted
    <3>3. IsFiniteSet(PinnedBy(r) \ {t}) /\ Cardinality(PinnedBy(r) \ {t}) = 0
      BY <3>1, <3>2, FS_RemoveElement
    <3> QED
      BY <3>1, <3>3, FS_EmptySet
  <2> QED
    BY <2>1 DEF InheritsTeardown
<1>7. ReferencesAreLive'
  BY <1>1, <1>2, <1>a, <1>b DEF Table, ReferencesAreLive
<1>8. SoleOwner'
  BY <1>1, <1>2, <1>3, <1>4, <1>5, <1>6, <1>a, <1>b DEF Table, SoleOwner, InheritsTeardown
<1>9. PinsCounted'
  BY <1>1, <1>2, OnePinLess DEF Table
<1>10. ListedIsNotDoomed'
  BY <1>2 DEF Table, ListedIsNotDoomed
<1>11. RetiredHasHeir'
  <2> SUFFICES ASSUME NEW s \in Recs, pool[s] = "live", ~Listed(s)
               PROVE  \E u \in Threads : own'[u] = s \/ (pin'[u] = s /\ doomed[s])
    BY <1>2, <1>3 DEF RetiredHasHeir
  <2>1. PICK u \in Threads : own[u] = s \/ (pin[u] = s /\ doomed[s])
    BY DEF Table, RetiredHasHeir
  <2>2. CASE u # t
    BY <1>2, <1>b, <2>1, <2>2
  <2>3. CASE u = t
    <3>1. s = r /\ doomed[r]
      BY <1>a, <2>1, <2>3
    <3>2. CASE use_count[r] = 1
      BY <1>2, <1>b, <3>1, <3>2 DEF InheritsTeardown
    <3>3. CASE use_count[r] # 1
      <4>1. PICK w \in Threads \ {t} : pin[w] = r
        BY <1>1, <3>3, CountedPins DEF Table
      <4> QED
        BY <1>2, <1>b, <3>1, <4>1
    <3> QED
      BY <3>2, <3>3
  <2> QED
    BY <2>2, <2>3
<1>12. UnbornIsUnknown'
  BY <1>1, <1>2, <1>b DEF Table, UnbornIsUnknown
<1> QED
  BY <1>7, <1>8, <1>9, <1>10, <1>11, <1>12 DEF Table

(* acquire_recording: the pinned recording is listed, so it has no owner.  *)
LEMMA AcquireKeepsTable ==
  ASSUME TypeOK, Table, NEW t \in Threads, NEW k \in Keys,
         pin[t] = NULL, Acquire(t, k)
  PROVE  Table'
<1> DEFINE r == hash[k]
<1>a. NULL \notin Recs
  BY RegistryAssumption
<1>b. /\ hash \in [Keys -> Recs \cup {NULL}] /\ own \in [Threads -> Recs \cup {NULL}]
      /\ use_count \in [Recs -> Nat] /\ pin \in [Threads -> Recs \cup {NULL}]
  BY DEF TypeOK
<1>1. r \in Recs /\ key[r] = k /\ Listed(r) /\ pool[r] = "live"
  BY <1>a, <1>b, RegistryAssumption
     DEF Acquire, Table, ListedIsNotDoomed, ReferencesAreLive, Listed
<1>2. /\ hash' = hash /\ pool' = pool /\ key' = key /\ doomed' = doomed /\ own' = own
      /\ use_count' = [use_count EXCEPT ![r] = @ + 1]
      /\ pin' = [pin EXCEPT ![t] = r]
  BY DEF Acquire
<1>3. \A s \in Recs : Listed(s)' <=> Listed(s)
  BY <1>2 DEF Listed
<1>4. \A u \in Threads : own[u] # r
  BY <1>1, <1>a DEF Table, SoleOwner
<1>5. ReferencesAreLive'
  BY <1>1, <1>2, <1>a, <1>b DEF Table, ReferencesAreLive
<1>6. SoleOwner'
  BY <1>1, <1>2, <1>3, <1>4, <1>a, <1>b DEF Table, SoleOwner
<1>7. PinsCounted'
  BY <1>1, <1>2, OnePinMore DEF Table
<1>8. ListedIsNotDoomed'
  BY <1>2 DEF Table, ListedIsNotDoomed
<1>9. RetiredHasHeir'
  BY <1>1, <1>2, <1>3, <1>a, <1>b DEF Table, RetiredHasHeir
<1>10. UnbornIsUnknown'
  BY <1>1, <1>2, <1>b DEF Table, UnbornIsUnknown
<1> QED
  BY <1>5, <1>6, <1>7, <1>8, <1>9, <1>10 DEF Table

(* start_recording_session's insert: nobody knew the new recording, and a  *)
(* stale one it replaces was unpinned, so its new owner is its only user.  *)
LEMMA InsertKeepsTable ==
  ASSUME TypeOK, Table, NEW t \in Threads, NEW k \in Keys, NEW r \in Recs,
         pin[t] = NULL, StartInsert(t, k, r)
  PROVE  Table'
<1> DEFINE stale == hash[k]
<1>a. NULL \notin Recs /\ NULL \notin Keys
  BY RegistryAssumption
<1>b. /\ hash \in [Keys -> Recs \cup {NULL}] /\ own \in [Threads -> Recs \cup {NULL}]
      /\ key \in [Recs -> Keys \cup {NULL}] /\ pool \in [Recs -> {"unborn", "live", "freed"}]
      /\ use_count \in [Recs -> Nat] /\ pin \in [Threads -> Recs \cup {NULL}]
  BY DEF TypeOK
<1>1. pool[r] = "unborn" /\ key[r] = NULL /\ use_count[r] = 0 /\ ~doomed[r] /\ own[t] = NULL
  BY DEF StartInsert, Ready, Table, UnbornIsUnknown
<1>2. /\ hash' = [hash EXCEPT ![k] = r] /\ pool' = [pool EXCEPT ![r] = "live"]
      /\ key' = [key EXCEPT ![r] = k] /\ doomed' = doomed
      /\ use_count' = [use_count EXCEPT ![r] = 1]
      /\ pin' = [pin EXCEPT ![t] = r] /\ own' = [own EXCEPT ![t] = stale]
  BY DEF StartInsert, StartPins
<1>3. \A u \in Threads : own[u] # r /\ pin[u] # r
  BY <1>1, <1>a, <1>b DEF Table, ReferencesAreLive
<1>4. \A l \in Keys : hash[l] # r
  BY <1>1, <1>a DEF Table, ReferencesAreLive
<1>5. ASSUME stale # NULL
      PROVE  /\ stale \in Recs /\ stale # r /\ key[stale] = k /\ pool[stale] = "live"
             /\ \A u \in Threads : pin[u] # stale /\ own[u] # stale
  <2>1. stale \in Recs /\ stale # r /\ key[stale] = k /\ pool[stale] = "live"
    BY <1>5, <1>4, <1>b DEF Table, ListedIsNotDoomed, ReferencesAreLive
  <2>2. use_count[stale] = 0
    BY <1>5, <1>b, <2>1 DEF StartInsert, Busy
  <2>3. \A u \in Threads : pin[u] # stale
    BY <2>1, <2>2, CountedPins DEF Table
  <2>4. Listed(stale)
    BY <1>a, <2>1 DEF Listed
  <2>5. \A u \in Threads : own[u] # stale
    BY <1>5, <2>4 DEF Table, SoleOwner
  <2> QED
    BY <2>1, <2>3, <2>5
<1>6. \A s \in Recs : Listed(s)' <=> (s = r \/ (Listed(s) /\ s # stale))
  BY <1>1, <1>2, <1>4, <1>5, <1>a, <1>b DEF Listed, Table, ListedIsNotDoomed
<1>7. ReferencesAreLive'
  BY <1>2, <1>3, <1>4, <1>5, <1>a, <1>b DEF Table, ReferencesAreLive
<1>8. SoleOwner'
  <2> SUFFICES ASSUME NEW u \in Threads, own'[u] # NULL
               PROVE  /\ \A w \in Threads : own'[w] = own'[u] => w = u
                      /\ \A w \in Threads : pin'[w] # own'[u]
                      /\ ~Listed(own[u])'
    BY DEF SoleOwner
  <2>a. own'[u] \in Recs
    BY <1>2, <1>b
  <2>b. Listed(own[u])' <=> (own'[u] = r \/ (Listed(own'[u]) /\ own'[u] # stale))
    <3> DEFINE L(s) == key'[s] # NULL /\ hash'[key'[s]] = s
    <3>1. \A s \in Recs : L(s) <=> (s = r \/ (Listed(s) /\ s # stale))
      BY <1>6 DEF Listed
    <3>2. L(own'[u]) <=> (own'[u] = r \/ (Listed(own'[u]) /\ own'[u] # stale))
      <4> HIDE DEF L
      <4> QED BY <2>a, <3>1
    <3> QED
      BY <3>2 DEF Listed
  <2>1. CASE u = t
    <3>1. own'[u] = stale /\ stale # NULL
      BY <1>2, <1>b, <2>1
    <3>2. stale # r /\ \A w \in Threads : pin[w] # stale /\ own[w] # stale
      BY <1>5, <3>1
    <3> QED
      BY <1>2, <1>b, <2>1, <2>b, <3>1, <3>2
  <2>2. CASE u # t
    <3>1. own'[u] = own[u] /\ own[u] \in Recs /\ own[u] # NULL /\ own[u] # stale /\ own[u] # r
      BY <1>2, <1>3, <1>5, <1>b, <2>2
    <3>2. \A w \in Threads : w # t => own'[w] = own[w] /\ pin'[w] = pin[w]
      BY <1>2, <1>b
    <3>3. own'[t] = stale /\ pin'[t] = r
      BY <1>2, <1>b
    <3>4. /\ \A w \in Threads : own[w] = own[u] => w = u
          /\ \A w \in Threads : pin[w] # own[u]
          /\ ~Listed(own[u])
      BY <3>1 DEF Table, SoleOwner
    <3> QED
      BY <2>b, <3>1, <3>2, <3>3, <3>4
  <2> QED
    BY <2>1, <2>2
<1>9. PinsCounted'
  <2>1. use_count' = [use_count EXCEPT ![r] = @ + 1]
    BY <1>1, <1>2, <1>b
  <2> QED
    BY <1>2, <2>1, OnePinMore DEF Table
<1>10. ListedIsNotDoomed'
  BY <1>1, <1>2, <1>4, <1>a, <1>b DEF Table, ListedIsNotDoomed
<1>11. RetiredHasHeir'
  <2> SUFFICES ASSUME NEW s \in Recs, pool'[s] = "live", ~Listed(s)'
               PROVE  \E u \in Threads : own'[u] = s \/ (pin'[u] = s /\ doomed[s])
    BY <1>2 DEF RetiredHasHeir
  <2>1. CASE s = stale
    BY <1>2, <1>b, <2>1
  <2>2. CASE s # stale
    <3>1. s # r /\ pool[s] = "live" /\ ~Listed(s)
      BY <1>2, <1>6, <1>b, <2>2
    <3>2. PICK u \in Threads : own[u] = s \/ (pin[u] = s /\ doomed[s])
      BY <3>1 DEF Table, RetiredHasHeir
    <3>3. u # t
      BY <1>1, <1>a, <3>2
    <3> QED
      BY <1>2, <1>b, <3>2, <3>3
  <2> QED
    BY <2>1, <2>2
<1>12. UnbornIsUnknown'
  BY <1>2, <1>a, <1>b DEF Table, UnbornIsUnknown
<1> QED
  BY <1>7, <1>8, <1>9, <1>10, <1>11, <1>12 DEF Table

(* discard_pending_recording's first hold: it takes out of the hash only   *)
(* the caller's own recording, and the caller's pin will free it.          *)
LEMMA DiscardKeepsTable ==
  ASSUME TypeOK, Table, NEW t \in Threads, pin[t] # NULL, StartDiscard(t)
  PROVE  Table'
<1> DEFINE r == pin[t]
<1>a. NULL \notin Recs
  BY RegistryAssumption
<1>b. /\ hash \in [Keys -> Recs \cup {NULL}] /\ own \in [Threads -> Recs \cup {NULL}]
      /\ key \in [Recs -> Keys \cup {NULL}] /\ doomed \in [Recs -> BOOLEAN]
      /\ pin \in [Threads -> Recs \cup {NULL}]
  BY DEF TypeOK
<1>1. r \in Recs /\ pool[r] = "live" /\ key[r] \in Keys
  BY <1>a, <1>b DEF Table, ReferencesAreLive, UnbornIsUnknown
<1>2. /\ hash' = IF hash[key[r]] = r THEN [hash EXCEPT ![key[r]] = NULL] ELSE hash
      /\ doomed' = [doomed EXCEPT ![r] = TRUE]
      /\ pool' = pool /\ key' = key /\ use_count' = use_count /\ pin' = pin /\ own' = own
  BY DEF StartDiscard, StillListed
<1>3. \A s \in Recs : Listed(s)' <=> Listed(s) /\ s # r
  BY <1>1, <1>2, <1>a, <1>b DEF Listed
<1>4. ReferencesAreLive'
  BY <1>1, <1>2, <1>b DEF Table, ReferencesAreLive
<1>5. SoleOwner'
  BY <1>2, <1>3, <1>a, <1>b DEF Table, SoleOwner
<1>6. PinsCounted'
  BY <1>2 DEF Table, PinsCounted, PinnedBy
<1>7. ListedIsNotDoomed'
  BY <1>1, <1>2, <1>a, <1>b DEF Table, ListedIsNotDoomed
<1>8. RetiredHasHeir'
  BY <1>1, <1>2, <1>3, <1>b DEF Table, RetiredHasHeir
<1>9. UnbornIsUnknown'
  BY <1>1, <1>2, <1>b DEF Table, UnbornIsUnknown, ReferencesAreLive
<1> QED
  BY <1>4, <1>5, <1>6, <1>7, <1>8, <1>9 DEF Table

(* The pool free: its owner was the only thread that knew the recording.   *)
LEMMA FreeKeepsTable ==
  ASSUME TypeOK, Table, NEW t \in Threads, FreePool(t)
  PROVE  Table'
<1> DEFINE r == own[t]
<1>a. NULL \notin Recs
  BY RegistryAssumption
<1>b. /\ hash \in [Keys -> Recs \cup {NULL}] /\ own \in [Threads -> Recs \cup {NULL}]
      /\ key \in [Recs -> Keys \cup {NULL}] /\ pin \in [Threads -> Recs \cup {NULL}]
      /\ pool \in [Recs -> {"unborn", "live", "freed"}]
  BY DEF TypeOK
<1>1. r \in Recs /\ pool[r] = "live" /\ ~Listed(r) /\ key[r] # NULL
  BY <1>a, <1>b DEF FreePool, Table, ReferencesAreLive, SoleOwner, UnbornIsUnknown
<1>2. /\ pool' = [pool EXCEPT ![r] = "freed"] /\ own' = [own EXCEPT ![t] = NULL]
      /\ hash' = hash /\ key' = key /\ use_count' = use_count /\ doomed' = doomed
      /\ pin' = pin
  BY DEF FreePool
<1>3. \A u \in Threads : pin[u] # r /\ (u # t => own[u] # r)
  BY DEF FreePool, Table, SoleOwner
<1>4. \A k \in Keys : hash[k] # r
  BY <1>1, <1>a DEF Table, ListedIsNotDoomed, Listed
<1>5. \A s \in Recs : Listed(s)' <=> Listed(s)
  BY <1>2 DEF Listed
<1>6. ReferencesAreLive'
  BY <1>2, <1>3, <1>4, <1>a, <1>b DEF Table, ReferencesAreLive
<1>7. SoleOwner'
  BY <1>2, <1>5, <1>a, <1>b DEF Table, SoleOwner
<1>8. PinsCounted'
  BY <1>2 DEF Table, PinsCounted, PinnedBy
<1>9. ListedIsNotDoomed'
  BY <1>2 DEF Table, ListedIsNotDoomed
<1>10. RetiredHasHeir'
  BY <1>2, <1>5, <1>b DEF Table, RetiredHasHeir
<1>11. UnbornIsUnknown'
  BY <1>1, <1>2, <1>b DEF Table, UnbornIsUnknown
<1> QED
  BY <1>6, <1>7, <1>8, <1>9, <1>10, <1>11 DEF Table

(***************************************************************************)
(* The induction.                                                          *)
(***************************************************************************)

(* What an operation holds follows from where it is.                       *)
LEMMA PinsStep ==
  ASSUME IInv, [Next]_vars
  PROVE  PinsAreBalanced'
<1> USE DEF IInv
<1>a. NULL \notin Recs
  BY RegistryAssumption
<1>b. /\ pc \in [Threads -> {"idle", "start", "discard", "change", "scan", "claim", "return"}]
      /\ pin \in [Threads -> Recs \cup {NULL}] /\ own \in [Threads -> Recs \cup {NULL}]
      /\ doomed \in [Recs -> BOOLEAN] /\ hash \in [Keys -> Recs \cup {NULL}]
  BY DEF TypeOK
<1>1. ASSUME NEW t \in Threads, NEW st, ReturnAtOnce(t, st)
      PROVE  PinsAreBalanced'
  BY <1>1, <1>b DEF PinsAreBalanced, ReturnAtOnce, Ready, recVars
<1>2. ASSUME NEW t \in Threads, Begin(t)
      PROVE  PinsAreBalanced'
  <2>1. CASE StartRefused(t) \/ ChangeRefused(t)
    BY <1>1, <2>1 DEF StartRefused, ChangeRefused
  <2>2. ASSUME NEW k \in Keys, StartExists(t, k) \/ StopMissing(t, k)
        PROVE  PinsAreBalanced'
    BY <1>1, <2>2 DEF StartExists, StopMissing
  <2>3. ASSUME NEW k \in Keys, NEW r \in Recs, StartInsert(t, k, r)
        PROVE  PinsAreBalanced'
    BY <1>a, <1>b, <2>3 DEF PinsAreBalanced, StartInsert, Ready
  <2>4. ASSUME NEW k \in Keys, Acquire(t, k)
        PROVE  PinsAreBalanced'
    BY <1>a, <1>b, <2>4 DEF PinsAreBalanced, Acquire, Ready
  <2>5. ASSUME NEW k \in Keys, StopNamed(t, k)
        PROVE  PinsAreBalanced'
    BY <1>a, <1>b, <2>5 DEF PinsAreBalanced, StopNamed, Claim, Ready
  <2>6. ASSUME NEW C, DrainBegin(t, C)
        PROVE  PinsAreBalanced'
    BY <1>b, <2>6 DEF PinsAreBalanced, DrainBegin, Ready, recVars
  <2> QED
    BY <1>2, <2>1, <2>2, <2>3, <2>4, <2>5, <2>6 DEF Begin
<1>3. ASSUME NEW t \in Threads, Continue(t)
      PROVE  PinsAreBalanced'
  <2>1. CASE FreePool(t)
    BY <1>b, <2>1 DEF PinsAreBalanced, FreePool
  <2>2. CASE Return(t)
    BY <1>b, <2>2 DEF PinsAreBalanced, Return, recVars
  <2>3. CASE StartEnd(t)
    BY <1>b, <2>3 DEF PinsAreBalanced, StartEnd, Release
  <2>4. CASE StartDiscard(t)
    <3>1. pin[t] \in Recs
      BY <1>b, <2>4 DEF PinsAreBalanced, StartDiscard
    <3> QED
      BY <1>b, <2>4, <3>1 DEF PinsAreBalanced, StartDiscard
  <2>5. CASE DiscardEnd(t)
    BY <1>b, <2>5 DEF PinsAreBalanced, DiscardEnd, Release
  <2>6. ASSUME NEW st, ChangeEnd(t, st)
        PROVE  PinsAreBalanced'
    BY <1>b, <2>6 DEF PinsAreBalanced, ChangeEnd, Release
  <2>7. CASE DrainScan(t)
    BY <1>b, <2>7 DEF PinsAreBalanced, DrainScan, recVars
  <2>8. ASSUME NEW k \in Keys, DrainClaim(t, k)
        PROVE  PinsAreBalanced'
    BY <1>a, <1>b, <2>8 DEF PinsAreBalanced, DrainClaim, Claim, recVars
  <2>9. CASE DrainNext(t)
    BY <1>b, <2>9 DEF PinsAreBalanced, DrainNext, recVars
  <2> QED
    BY <1>3, <2>1, <2>2, <2>3, <2>4, <2>5, <2>6, <2>7, <2>8, <2>9 DEF Continue
<1>4. ASSUME NEW r \in Recs, LegEnded(r)
      PROVE  PinsAreBalanced'
  BY <1>4 DEF PinsAreBalanced, LegEnded
<1>5. CASE UNCHANGED vars
  BY <1>5 DEF PinsAreBalanced, vars, recVars
<1> QED
  BY <1>2, <1>3, <1>4, <1>5 DEF Next

(* Every step keeps the table and the threads' references to it in order.  *)
LEMMA TableStep ==
  ASSUME IInv, [Next]_vars
  PROVE  Table'
<1>1. TypeOK /\ Table /\ PinsAreBalanced
  BY DEF IInv, Table
<1>2. ASSUME NEW t \in Threads, Begin(t)
      PROVE  Table'
  <2>1. CASE StartRefused(t) \/ ChangeRefused(t)
    BY <1>1, <2>1, TableUnchanged DEF StartRefused, ChangeRefused, ReturnAtOnce, recVars
  <2>2. ASSUME NEW k \in Keys, StartExists(t, k) \/ StopMissing(t, k)
        PROVE  Table'
    BY <1>1, <2>2, TableUnchanged DEF StartExists, StopMissing, ReturnAtOnce, recVars
  <2>3. ASSUME NEW k \in Keys, NEW r \in Recs, StartInsert(t, k, r)
        PROVE  Table'
    BY <1>1, <2>3, InsertKeepsTable DEF PinsAreBalanced, StartInsert, Ready
  <2>4. ASSUME NEW k \in Keys, Acquire(t, k)
        PROVE  Table'
    BY <1>1, <2>4, AcquireKeepsTable DEF PinsAreBalanced, Acquire, Ready
  <2>5. ASSUME NEW k \in Keys, StopNamed(t, k)
        PROVE  Table'
    BY <1>1, <2>5, ClaimKeepsTable DEF StopNamed, Ready
  <2>6. ASSUME NEW C, DrainBegin(t, C)
        PROVE  Table'
    BY <1>1, <2>6, TableUnchanged DEF DrainBegin, recVars
  <2> QED
    BY <1>2, <2>1, <2>2, <2>3, <2>4, <2>5, <2>6 DEF Begin
<1>3. ASSUME NEW t \in Threads, Continue(t)
      PROVE  Table'
  <2>1. CASE FreePool(t)
    BY <1>1, <2>1, FreeKeepsTable
  <2>2. CASE Return(t)
    BY <1>1, <2>2, TableUnchanged DEF Return, recVars
  <2>3. CASE StartEnd(t)
    BY <1>1, <2>3, ReleaseKeepsTable DEF PinsAreBalanced, StartEnd
  <2>4. CASE StartDiscard(t)
    BY <1>1, <2>4, DiscardKeepsTable DEF PinsAreBalanced, StartDiscard
  <2>5. CASE DiscardEnd(t)
    BY <1>1, <2>5, ReleaseKeepsTable DEF PinsAreBalanced, DiscardEnd
  <2>6. ASSUME NEW st, ChangeEnd(t, st)
        PROVE  Table'
    BY <1>1, <2>6, ReleaseKeepsTable DEF PinsAreBalanced, ChangeEnd
  <2>7. CASE DrainScan(t)
    BY <1>1, <2>7, TableUnchanged DEF DrainScan, recVars
  <2>8. ASSUME NEW k \in Keys, DrainClaim(t, k)
        PROVE  Table'
    <3>1. CASE hash[k] # NULL
      BY <1>1, <2>8, <3>1, ClaimKeepsTable DEF DrainClaim
    <3>2. CASE hash[k] = NULL
      BY <1>1, <2>8, <3>2, TableUnchanged DEF DrainClaim, recVars
    <3> QED
      BY <3>1, <3>2
  <2>9. CASE DrainNext(t)
    BY <1>1, <2>9, TableUnchanged DEF DrainNext, recVars
  <2> QED
    BY <1>3, <2>1, <2>2, <2>3, <2>4, <2>5, <2>6, <2>7, <2>8, <2>9 DEF Continue
<1>4. ASSUME NEW r \in Recs, LegEnded(r)
      PROVE  Table'
  BY <1>1, <1>4, TableUnchanged DEF LegEnded
<1>5. CASE UNCHANGED vars
  BY <1>1, <1>5, TableUnchanged DEF vars, recVars
<1> QED
  BY <1>2, <1>3, <1>4, <1>5 DEF Next

(* An empty table satisfies the invariant.                                 *)
LEMMA InitIInv == Init => IInv
<1> SUFFICES ASSUME Init PROVE IInv
  OBVIOUS
<1>1. \A r \in Recs : PinnedBy(r) = {}
  BY RegistryAssumption DEF Init, PinnedBy
<1>2. PinsCounted
  BY <1>1, FS_EmptySet DEF PinsCounted, Init
<1>3. TypeOK
  BY DEF Init, TypeOK
<1>4. ReferencesAreLive /\ SoleOwner /\ ListedIsNotDoomed /\ RetiredHasHeir
      /\ PinsAreBalanced /\ UnbornIsUnknown
  BY DEF Init, ReferencesAreLive, SoleOwner, ListedIsNotDoomed, RetiredHasHeir,
         PinsAreBalanced, UnbornIsUnknown
<1> QED
  BY <1>2, <1>3, <1>4 DEF IInv

(* The table's invariants hold together, in every behaviour of any number  *)
(* of threads: this is the protocol argument of claim_recording,           *)
(* acquire_recording and release_recording.                                *)
THEOREM RegistryInvariant == Spec => []IInv
<1>1. IInv /\ [Next]_vars => IInv'
  <2> SUFFICES ASSUME IInv, [Next]_vars PROVE IInv'
    OBVIOUS
  <2>1. TypeOK'
    BY TypeStep DEF IInv
  <2>2. Table' /\ PinsAreBalanced'
    BY TableStep, PinsStep
  <2> QED
    BY <2>1, <2>2 DEF IInv, Table
<1> QED
  BY <1>1, InitIInv, PTL DEF Spec

(* Type correctness; in particular use_count never goes negative.          *)
THEOREM RegistryTypes == Spec => []TypeOK
BY RegistryInvariant, PTL DEF IInv

(* No use after free of a recording_t by any thread (claim_recording).     *)
THEOREM NoUseAfterFree == Spec => []ReferencesAreLive
BY RegistryInvariant, PTL DEF IInv

(* At most one thread ever tears a recording down (claim_recording).       *)
THEOREM TeardownIsExclusive == Spec => []SoleOwner
BY RegistryInvariant, PTL DEF IInv

(* use_count counts the pins exactly.                                      *)
THEOREM UseCountIsExact == Spec => []PinsCounted
BY RegistryInvariant, PTL DEF IInv

(* A retired recording always has somebody left to free it.                *)
THEOREM NothingLeaks == Spec => []RetiredHasHeir
BY RegistryInvariant, PTL DEF IInv

(* What acquire_recording finds is its own key's and not yet doomed.       *)
THEOREM FindsAreNotDoomed == Spec => []ListedIsNotDoomed
BY RegistryInvariant, PTL DEF IInv

(* Every operation releases what it pinned and frees what it was handed.   *)
THEOREM PinsAreReleased == Spec => []PinsAreBalanced
BY RegistryInvariant, PTL DEF IInv

(* A successful start leaves its recording where a stop can find it.       *)
THEOREM StartSuccessIsReachable == Spec => StartSuccessIsListed
<1> DEFINE Good == \A t \in Threads :
             pc[t] = "start" /\ pc'[t] = "return" /\ ret'[t] = "success"
               => hash'[key[pin[t]]] = pin[t]
<1>1. ASSUME IInv, Next
      PROVE  Good
  <2> SUFFICES ASSUME NEW t \in Threads,
                      pc[t] = "start", pc'[t] = "return", ret'[t] = "success"
               PROVE  hash'[key[pin[t]]] = pin[t]
    OBVIOUS
  <2>1. StartEnd(t)
    <3>1. pc \in [Threads -> {"idle", "start", "discard", "change", "scan", "claim", "return"}]
      BY <1>1 DEF IInv, TypeOK
    <3>2. ASSUME NEW u \in Threads, Begin(u)
          PROVE  pc'[t] # "return"
      BY <3>1, <3>2 DEF Begin, StartRefused, ChangeRefused, StartExists, StartInsert, Acquire,
         StopMissing, StopNamed, DrainBegin, ReturnAtOnce, Ready
    <3>3. ASSUME NEW u \in Threads, Continue(u), ~StartEnd(u)
          PROVE  pc'[t] # "return"
      BY <3>1, <3>3 DEF Continue, FreePool, Return, StartDiscard, DiscardEnd, ChangeEnd,
         DrainScan, DrainClaim, DrainNext
    <3>4. ASSUME NEW r \in Recs, LegEnded(r)
          PROVE  pc'[t] # "return"
      BY <3>4 DEF LegEnded
    <3>5. PICK u \in Threads : StartEnd(u)
      BY <1>1, <3>2, <3>3, <3>4 DEF Next
    <3> QED
      BY <3>1, <3>5 DEF StartEnd
  <2>2. pin[t] \in Recs /\ pool[pin[t]] = "live" /\ ~doomed[pin[t]]
    BY <1>1, <2>1 DEF IInv, TypeOK, PinsAreBalanced, StartEnd, ReferencesAreLive
  <2>3. Listed(pin[t])
    BY <1>1, <2>2, RegistryAssumption DEF IInv, RetiredHasHeir, SoleOwner
  <2> QED
    BY <2>1, <2>3 DEF StartEnd, Release, Listed
<1>2. Good \/ UNCHANGED vars => [Good]_vars
  OBVIOUS
<1> QED
  BY <1>1, <1>2, RegistryInvariant, PTL DEF Spec, StartSuccessIsListed

-----------------------------------------------------------------------------
(***************************************************************************)
(* The table implements RecordingOwnership: every lock hold of the code    *)
(* is one step of the ownership discipline, or none.                       *)
(***************************************************************************)

(* What the refinement mapping reads.                                      *)
mapped == <<hash, pool, key, pin>>

(* A step that leaves these alone is a stutter of the discipline.          *)
LEMMA MappedUnchanged ==
  ASSUME UNCHANGED mapped
  PROVE  UNCHANGED Ownership!vars
<1>1. \A r \in Recs : PhaseOf(r)' = PhaseOf(r)
  BY DEF mapped, PhaseOf, Listed
<1>2. \A r \in Recs : PinnedBy(r)' = PinnedBy(r)
  BY DEF mapped, PinnedBy
<1>3. hash' = hash
  BY DEF mapped
<1> QED
  BY <1>1, <1>2, <1>3 DEF Ownership!vars

(* release_recording: the thread leaves.                                   *)
LEMMA ReleaseIsLeave ==
  ASSUME IInv, NEW t \in Threads, NEW r \in Recs, pin[t] = r, Release(t)
  PROVE  Ownership!Leave(t, r)
<1>1. pin \in [Threads -> Recs \cup {NULL}] /\ NULL \notin Recs
  BY RegistryAssumption DEF IInv, TypeOK
<1>2. hash' = hash /\ pool' = pool /\ key' = key /\ pin' = [pin EXCEPT ![t] = NULL]
  BY DEF Release
<1>3. \A s \in Recs : PhaseOf(s)' = PhaseOf(s)
  BY <1>2 DEF PhaseOf, Listed
<1>4. \A s \in Recs : PinnedBy(s)' = IF s = r THEN PinnedBy(s) \ {t} ELSE PinnedBy(s)
  BY <1>1, <1>2 DEF PinnedBy
<1>5. t \in PinnedBy(r)
  BY DEF PinnedBy
<1> QED
  BY <1>1, <1>2, <1>3, <1>4, <1>5 DEF Ownership!Leave

(* acquire_recording: the thread joins a listed recording.                 *)
LEMMA AcquireIsJoin ==
  ASSUME IInv, NEW t \in Threads, NEW k \in Keys, NEW r \in Recs,
         hash[k] = r, Acquire(t, k)
  PROVE  Ownership!Join(t, r)
<1>1. /\ pin \in [Threads -> Recs \cup {NULL}] /\ NULL \notin Recs /\ NULL \notin Keys
      /\ hash \in [Keys -> Recs \cup {NULL}]
  BY RegistryAssumption DEF IInv, TypeOK
<1>2. key[r] = k /\ pool[r] = "live"
  BY <1>1 DEF IInv, ListedIsNotDoomed, ReferencesAreLive
<1>3. PhaseOf(r) = "listed"
  BY <1>1, <1>2 DEF PhaseOf, Listed
<1>4. pin[t] = NULL
  BY DEF IInv, PinsAreBalanced, Acquire, Ready
<1>5. hash' = hash /\ pool' = pool /\ key' = key /\ pin' = [pin EXCEPT ![t] = r]
  BY DEF Acquire
<1>6. \A s \in Recs : PhaseOf(s)' = PhaseOf(s)
  BY <1>5 DEF PhaseOf, Listed
<1>7. \A s \in Recs : PinnedBy(s)' = IF s = r THEN PinnedBy(s) \cup {t} ELSE PinnedBy(s)
  BY <1>1, <1>4, <1>5 DEF PinnedBy
<1>8. t \notin PinnedBy(r)
  BY <1>1, <1>2, <1>4 DEF PinnedBy
<1> QED
  BY <1>2, <1>3, <1>5, <1>6, <1>7, <1>8 DEF Ownership!Join

(* Taking a listed recording out of the hash retires it.                   *)
LEMMA UnlistingIsRetire ==
  ASSUME IInv, NEW k \in Keys, NEW r \in Recs, hash[k] = r,
         hash' = [hash EXCEPT ![k] = NULL], UNCHANGED <<pool, key, pin>>
  PROVE  Ownership!Retire(k, r)
<1>1. /\ NULL \notin Recs /\ NULL \notin Keys
      /\ hash \in [Keys -> Recs \cup {NULL}] /\ key \in [Recs -> Keys \cup {NULL}]
  BY RegistryAssumption DEF IInv, TypeOK
<1>2. pool[r] = "live" /\ key[r] = k
  BY <1>1 DEF IInv, ListedIsNotDoomed, ReferencesAreLive
<1>3. \A s \in Recs : PhaseOf(s)' = IF s = r THEN "retired" ELSE PhaseOf(s)
  BY <1>1, <1>2 DEF PhaseOf, Listed
<1>4. \A s \in Recs : PinnedBy(s)' = PinnedBy(s)
  BY DEF PinnedBy
<1> QED
  BY <1>1, <1>2, <1>3, <1>4 DEF Ownership!Retire

(* start_recording_session's insert: the new recording is created, and a   *)
(* stale one it replaces is retired, unused.                               *)
LEMMA InsertIsCreate ==
  ASSUME IInv, NEW t \in Threads, NEW k \in Keys, NEW r \in Recs, StartInsert(t, k, r)
  PROVE  Ownership!Create(t, k, r)
<1> DEFINE stale == hash[k]
<1>1. /\ pin \in [Threads -> Recs \cup {NULL}] /\ NULL \notin Recs /\ NULL \notin Keys
      /\ hash \in [Keys -> Recs \cup {NULL}] /\ key \in [Recs -> Keys \cup {NULL}]
      /\ pool \in [Recs -> {"unborn", "live", "freed"}] /\ use_count \in [Recs -> Nat]
  BY RegistryAssumption DEF IInv, TypeOK
<1>2. /\ pool[r] = "unborn" /\ key[r] = NULL /\ pin[t] = NULL
      /\ \A u \in Threads : pin[u] # r
      /\ \A l \in Keys : hash[l] # r
  BY <1>1 DEF IInv, UnbornIsUnknown, PinsAreBalanced, ReferencesAreLive, StartInsert, Ready
<1>3. /\ hash' = [hash EXCEPT ![k] = r] /\ pool' = [pool EXCEPT ![r] = "live"]
      /\ key' = [key EXCEPT ![r] = k] /\ pin' = [pin EXCEPT ![t] = r]
  BY DEF StartInsert
<1>4. stale # NULL => /\ stale \in Recs /\ key[stale] = k /\ pool[stale] = "live"
                      /\ PinnedBy(stale) = {}
  <2> SUFFICES ASSUME stale # NULL
               PROVE  /\ stale \in Recs /\ key[stale] = k /\ pool[stale] = "live"
                      /\ PinnedBy(stale) = {}
    OBVIOUS
  <2>1. stale \in Recs /\ key[stale] = k /\ pool[stale] = "live"
    BY <1>1 DEF IInv, ListedIsNotDoomed, ReferencesAreLive
  <2>2. use_count[stale] = 0
    BY <1>1, <2>1 DEF StartInsert, Busy
  <2> QED
    BY <2>1, <2>2, CountedPins DEF IInv, PinnedBy
<1>5. \A s \in Recs : PhaseOf(s)' = IF s = r THEN "listed"
                                    ELSE IF s = stale THEN "retired" ELSE PhaseOf(s)
  BY <1>1, <1>2, <1>3, <1>4 DEF PhaseOf, Listed
<1>6. \A s \in Recs : PinnedBy(s)' = IF s = r THEN {t} ELSE PinnedBy(s)
  BY <1>1, <1>2, <1>3 DEF PinnedBy
<1>7. PhaseOf(r) = "unborn"
  BY <1>2 DEF PhaseOf
<1>8. \A s : s \in ({stale} \ {NULL}) <=> s = stale /\ stale # NULL
  OBVIOUS
<1>9. \A l \in Keys : {hash'[l]} \ {NULL} = IF l = k THEN {r} ELSE {hash[l]} \ {NULL}
  BY <1>1, <1>3
<1>10. \A s \in Recs : s \in ({stale} \ {NULL}) <=> s = stale
  BY <1>1
<1> QED
  BY <1>4, <1>5, <1>6, <1>7, <1>8, <1>9, <1>10 DEF Ownership!Create

(* The end of a teardown frees a retired recording nobody uses.            *)
LEMMA FreePoolIsFree ==
  ASSUME IInv, NEW t \in Threads, NEW r \in Recs, own[t] = r, FreePool(t)
  PROVE  Ownership!Free(r)
<1>1. /\ NULL \notin Recs /\ own \in [Threads -> Recs \cup {NULL}]
      /\ pool \in [Recs -> {"unborn", "live", "freed"}]
  BY RegistryAssumption DEF IInv, TypeOK
<1>2. /\ pool[r] = "live" /\ ~Listed(r)
      /\ \A u \in Threads : pin[u] # r
  BY <1>1 DEF IInv, SoleOwner, ReferencesAreLive, FreePool
<1>3. PhaseOf(r) = "retired" /\ PinnedBy(r) = {}
  BY <1>2 DEF PhaseOf, PinnedBy
<1>4. /\ pool' = [pool EXCEPT ![r] = "freed"]
      /\ hash' = hash /\ key' = key /\ pin' = pin
  BY DEF FreePool
<1>5. \A s \in Recs : PhaseOf(s)' = IF s = r THEN "freed" ELSE PhaseOf(s)
  BY <1>1, <1>2, <1>4 DEF PhaseOf, Listed
<1>6. \A s \in Recs : PinnedBy(s)' = PinnedBy(s)
  BY <1>4 DEF PinnedBy
<1> QED
  BY <1>2, <1>3, <1>4, <1>5, <1>6 DEF Ownership!Free

(* Every step of the protocol is a step of the discipline, or changes      *)
(* nothing the discipline speaks of.                                       *)
LEMMA StepRefines ==
  ASSUME IInv, [Next]_vars
  PROVE  [Ownership!Next]_(Ownership!vars)
<1>1. /\ hash \in [Keys -> Recs \cup {NULL}] /\ NULL \notin Recs
      /\ pin \in [Threads -> Recs \cup {NULL}] /\ own \in [Threads -> Recs \cup {NULL}]
      /\ key \in [Recs -> Keys \cup {NULL}]
      /\ \A t \in Threads : pin[t] # NULL <=> pc[t] \in {"start", "discard", "change"}
  BY RegistryAssumption DEF IInv, TypeOK, PinsAreBalanced
<1>2. ASSUME UNCHANGED mapped
      PROVE  [Ownership!Next]_(Ownership!vars)
  BY <1>2, MappedUnchanged
<1>3. ASSUME NEW t \in Threads, pin[t] # NULL, Release(t)
      PROVE  Ownership!Next
  <2>1. PICK r \in Recs : pin[t] = r
    BY <1>1, <1>3
  <2>2. Ownership!Leave(t, r)
    BY <1>3, <2>1, ReleaseIsLeave
  <2> QED
    BY <2>2 DEF Ownership!Next
<1>4. ASSUME NEW t \in Threads, NEW k \in Keys, hash[k] # NULL, Claim(t, k), UNCHANGED pin
      PROVE  Ownership!Next
  <2>1. PICK r \in Recs : hash[k] = r
    BY <1>1, <1>4
  <2>2. Ownership!Retire(k, r)
    BY <1>4, <2>1, UnlistingIsRetire DEF Claim
  <2> QED
    BY <2>2 DEF Ownership!Next
<1>5. ASSUME NEW t \in Threads, Begin(t)
      PROVE  [Ownership!Next]_(Ownership!vars)
  <2>1. CASE StartRefused(t) \/ ChangeRefused(t)
    BY <1>2, <2>1 DEF StartRefused, ChangeRefused, ReturnAtOnce, recVars, mapped
  <2>2. ASSUME NEW k \in Keys, StartExists(t, k) \/ StopMissing(t, k)
        PROVE  UNCHANGED mapped
    BY <2>2 DEF StartExists, StopMissing, ReturnAtOnce, recVars, mapped
  <2>3. ASSUME NEW k \in Keys, NEW r \in Recs, StartInsert(t, k, r)
        PROVE  Ownership!Next
    BY <2>3, InsertIsCreate DEF Ownership!Next
  <2>4. ASSUME NEW k \in Keys, Acquire(t, k)
        PROVE  Ownership!Next
    <3>1. PICK r \in Recs : hash[k] = r
      BY <1>1, <2>4 DEF Acquire
    <3>2. Ownership!Join(t, r)
      BY <2>4, <3>1, AcquireIsJoin
    <3> QED
      BY <3>2 DEF Ownership!Next
  <2>5. ASSUME NEW k \in Keys, StopNamed(t, k)
        PROVE  Ownership!Next
    BY <1>4, <2>5 DEF StopNamed
  <2>6. ASSUME NEW C, DrainBegin(t, C)
        PROVE  UNCHANGED mapped
    BY <2>6 DEF DrainBegin, recVars, mapped
  <2> QED
    BY <1>2, <1>5, <2>1, <2>2, <2>3, <2>4, <2>5, <2>6 DEF Begin
<1>6. ASSUME NEW t \in Threads, Continue(t)
      PROVE  [Ownership!Next]_(Ownership!vars)
  <2>1. CASE FreePool(t)
    <3>1. PICK r \in Recs : own[t] = r
      BY <1>1, <2>1 DEF FreePool
    <3>2. Ownership!Free(r)
      BY <2>1, <3>1, FreePoolIsFree
    <3> QED
      BY <3>2 DEF Ownership!Next
  <2>2. CASE Return(t) \/ DrainScan(t) \/ DrainNext(t)
    BY <1>2, <2>2 DEF Return, DrainScan, DrainNext, recVars, mapped
  <2>3. CASE StartEnd(t) \/ DiscardEnd(t)
    BY <1>1, <1>3, <2>3 DEF StartEnd, DiscardEnd
  <2>4. ASSUME NEW st, ChangeEnd(t, st)
        PROVE  Ownership!Next
    BY <1>1, <1>3, <2>4 DEF ChangeEnd
  <2>5. CASE StartDiscard(t)
    <3>1. pin[t] \in Recs /\ key[pin[t]] \in Keys
      BY <1>1, <2>5 DEF StartDiscard, IInv, ReferencesAreLive, UnbornIsUnknown
    <3>2. CASE StillListed(pin[t])
      <4>1. PICK r \in Recs, k \in Keys : r = pin[t] /\ k = key[r] /\ hash[k] = r
        BY <3>1, <3>2 DEF StillListed
      <4>2. hash' = [hash EXCEPT ![k] = NULL] /\ UNCHANGED <<pool, key, pin>>
        BY <2>5, <3>2, <4>1 DEF StartDiscard
      <4>3. Ownership!Retire(k, r)
        BY <4>1, <4>2, UnlistingIsRetire
      <4> QED
        BY <4>3 DEF Ownership!Next
    <3>3. CASE ~StillListed(pin[t])
      BY <1>2, <2>5, <3>3 DEF StartDiscard, mapped
    <3> QED
      BY <3>2, <3>3
  <2>6. ASSUME NEW k \in Keys, DrainClaim(t, k)
        PROVE  [Ownership!Next]_(Ownership!vars)
    <3>1. CASE hash[k] # NULL
      BY <1>4, <2>6, <3>1 DEF DrainClaim
    <3>2. CASE hash[k] = NULL
      BY <1>2, <2>6, <3>2 DEF DrainClaim, recVars, mapped
    <3> QED
      BY <3>1, <3>2
  <2> QED
    BY <1>6, <2>1, <2>2, <2>3, <2>4, <2>5, <2>6 DEF Continue
<1>7. ASSUME NEW r \in Recs, LegEnded(r)
      PROVE  UNCHANGED mapped
  BY <1>7 DEF LegEnded, mapped
<1>8. CASE UNCHANGED vars
  BY <1>2, <1>8 DEF vars, recVars, mapped
<1> QED
  BY <1>2, <1>5, <1>6, <1>7, <1>8 DEF Next

(* The locking protocol of recording_session.c implements the ownership    *)
(* discipline its callers rely on.                                         *)
THEOREM RegistryRefinesOwnership == Spec => ImplementsOwnership
<1>1. Init => Ownership!Init
  <2> SUFFICES ASSUME Init PROVE Ownership!Init
    OBVIOUS
  <2>1. \A r \in Recs : PhaseOf(r) = "unborn"
    BY DEF Init, PhaseOf
  <2>2. \A r \in Recs : PinnedBy(r) = {}
    BY RegistryAssumption DEF Init, PinnedBy
  <2>3. \A k \in Keys : {hash[k]} \ {NULL} = {}
    BY DEF Init
  <2> QED
    BY <2>1, <2>2, <2>3 DEF Ownership!Init
<1>2. IInv /\ [Next]_vars => [Ownership!Next]_(Ownership!vars)
  BY StepRefines
<1> QED
  BY <1>1, <1>2, RegistryInvariant, PTL DEF Spec, ImplementsOwnership, Ownership!Spec
=============================================================================
