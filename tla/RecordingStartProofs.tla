-------------------------- MODULE RecordingStartProofs --------------------------
(***************************************************************************)
(* Proofs about RecordingStart and the modules it is made of, for every    *)
(* file of entries, every list of calls and every bound: what the chains   *)
(* of the table hold, where the failover walk goes, what the metadata says *)
(* and what a start leaves behind.                                         *)
(* The start appends to a StringBuilder, so each of its steps is one of    *)
(* the builder's or none, and the builder's invariant comes for free.  The *)
(* rest of the invariant relates the program counter to what is held, the  *)
(* candidates to the file, the INVITEs to the candidates, and the text to  *)
(* the call it is about.                                                   *)
(***************************************************************************)
EXTENDS RecordingStart, StringBuilderProofs, FiniteSetTheorems, SequenceTheorems,
        WellFoundedInduction

-----------------------------------------------------------------------------
(* The inductive invariant.                                                *)

Pcs == {"idle", "check", "insert", "compose", "build", "profile", "walk", "attach",
        "release", "publish", "done"}
Over == {"publish", "done"}        \* siprec_start_app has returned
Reasons ==
  {"", "bad uri", "usage", "disabled", "no server", "invalid options", "no metadata",
   "no profile", "exhausted", "not attached", "stopped"}
Copies ==
  [adhoc : {FALSE}, host : {e.host : e \in Entries}, port : {e.port : e \in Entries},
   transport : {e.transport : e \in Entries}, separate : {e.separate : e \in Entries},
   entry : Nat, home : {"recording"}]
AdHocs == {AdHoc(a.uri)[1] : a \in Args}
Readings ==
  {[channel |-> c, aors |-> Aors(c, made)] : c \in Calls, made \in SUBSET {"caller", "callee"}}
Invitations ==
  [entry : Nat, uri : {UriFor(s) : s \in Copies \cup AdHocs}, labels : {{"1"}, {"1", "2"}}]

Dialogs == {"none", "up", "ended", "gone"}
Results == {"", "success", "exists", "failed"}

StartTypes ==
  start \in
    [pc : Pcs, args : Args \cup {NoArgs}, chain : Seq(Copies \cup AdHocs),
     separate : BOOLEAN, call : Readings \cup {NoCall}, todo : Seq(Fragments),
     pool : {"none", "live", "freed"}, doomed : BOOLEAN, taken : BOOLEAN,
     invites : Seq(Invitations), dialog : Dialogs, attached : BOOLEAN,
     result : Results, reason : Reasons]

(* The chains of the table, and the entries whose pool is live, are those  *)
(* the file has; an unload leaves neither.                                 *)
TableFollowsFile ==
  /\ module \in {"loading", "loaded", "unloaded"}
  /\ config \in Seq(Entries)
  /\ servers \in [Names -> Seq(Nat)]
  /\ pools = IF module = "unloaded" THEN {} ELSE GoodEntries
  /\ \A n \in Names : Lists(servers[n], IF module = "unloaded" THEN {} ELSE GoodOf(n))

(* A start runs only between a load and the next reload, so the file it    *)
(* resolved its handle in stays the one that was read.                     *)
FileStands ==
  /\ start.pc = "idle" <=> start = Idle
  /\ start.pc # "idle" => start.args \in Args /\ module # "loading"
  /\ start.pc = "check" => /\ module = "loaded"
                           /\ start = [Idle EXCEPT !.pc = "check", !.args = start.args]

(* What a start holds while it runs: nobody but itself undoes any of it,   *)
(* though the SRS may end the leg.                                         *)
HeldWhileRunning ==
  /\ start.pc \in {"insert", "compose", "build", "profile", "walk"} =>
       start.pool = "live" /\ start.dialog = "none" /\ ~start.attached
  /\ start.pc \in {"attach", "release"} =>
       /\ start.pool = "live" /\ start.dialog \in {"up", "gone"}
       /\ start.attached = (start.pc = "release")
  /\ start.pc \notin Over => ~start.taken
  /\ stage = CASE start.pc = "build" -> "open"
               [] start.pc \in {"profile", "walk"} -> "whole"
               [] OTHER -> "none"

(* What siprec_start_app has returned says what was left of the recording  *)
(* when its pin was let go, and whoever has come since took it as a whole; *)
(* its outcome is published as it was returned, and not before.            *)
ResultStands ==
  start.pc \in Over =>
    /\ start.result # ""
    /\ IF start.result # "success" \/ start.taken THEN NothingLeft
       ELSE start.dialog \in {"up", "gone"} /\ start.attached /\ start.pool = "live"
    /\ start.result = "success" => start.dialog # "none" /\ ~start.doomed

ReasonStands == start.pc \in Over /\ start.result = "failed" => TriedAll

StatusFollows ==
  /\ start.pc = "done" => status = start.result
  /\ start.pc \notin {"idle", "done"} => status = ""

(* The candidates of a start are the entries of its handle, whatever has   *)
(* become of the table meanwhile, or stand for its ad hoc URI.             *)
ChainFollowsFile ==
  start.pc # "idle" =>
    \/ start.chain = << >>
    \/ /\ start.args.uri # NoUri /\ UriCheck(start.args.uri) = ""
       /\ start.chain = AdHoc(start.args.uri)
    \/ /\ start.args.uri = NoUri
       /\ \E s \in Seq(Nat) : /\ Lists(s, GoodOf(start.args.handle))
                              /\ start.chain = [i \in 1 .. Len(s) |-> Copied(s[i])]

(* The INVITEs sent are the first candidates', in their order.             *)
InvitesFollowChain ==
  /\ Len(start.invites) <= MaxAttempts /\ Len(start.invites) <= Len(start.chain)
  /\ \A i \in 1 .. Len(start.invites) :
       start.invites[i] = [entry |-> start.chain[i].entry, uri |-> UriFor(start.chain[i]),
                           labels |-> OfferLabels]

(* The text is about the call that was read: what was appended and what is *)
(* still to come are its elements.                                         *)
TextFollowsCall ==
  start.pc \in {"build", "profile", "walk"} =>
    \E c \in Calls, made \in SUBSET {"caller", "callee"} :
      /\ start.call = [channel |-> c, aors |-> Aors(c, made)]
      /\ Elements(OptionsOf(c, Aors(c, made), start.separate)) =
           asked \o (IF start.pc = "build" THEN start.todo ELSE << >>)

(* The buffer is as long as what was appended, until that is too much.     *)
LengthIsSum ==
  stage = "open" =>
    IF err THEN starved \/ SumOfSizes(asked) + 1 > MaxCap ELSE len = SumOfSizes(asked)

StartInv ==
  /\ BuilderInv
  /\ StartTypes
  /\ TableFollowsFile
  /\ FileStands
  /\ HeldWhileRunning
  /\ ChainFollowsFile
  /\ InvitesFollowChain
  /\ TextFollowsCall
  /\ LengthIsSum
  /\ ResultStands
  /\ ReasonStands
  /\ StatusFollows

-----------------------------------------------------------------------------
(* The length of a text.  SumOfSizes is a recursive function: that there   *)
(* is one, and only one, is shown by a least position where it would fail. *)

Sums(s, n, f) == f = [i \in 0 .. n |-> IF i = 0 THEN 0 ELSE f[i - 1] + Size(s[i])]

(* A set of naturals has a least element.                                  *)
LEMMA HasLeast ==
  ASSUME NEW S \in SUBSET Nat, S # {}
  PROVE  \E x \in S : \A y \in S : x <= y
<1>1. \E x \in S : \A y \in S : ~(<<y, x>> \in OpToRel(<, Nat))
  <2>1. IsWellFoundedOn(OpToRel(<, Nat), Nat)
    BY NatLessThanWellFounded
  <2> HIDE DEF OpToRel
  <2> QED
    BY <2>1, WFMin
<1>2. \A x, y \in Nat : ~(<<y, x>> \in OpToRel(<, Nat)) => x <= y
  BY DEF OpToRel
<1> QED
  BY <1>1, <1>2

(* The running sums of a sequence exist.                                   *)
LEMMA SumExists ==
  ASSUME NEW s, NEW len_s \in Nat, \A i \in 1 .. len_s : Size(s[i]) \in Nat
  PROVE  \E f \in [0 .. len_s -> Nat] : Sums(s, len_s, f)
<1> DEFINE Good(n) == \E f \in [0 .. n -> Nat] : Sums(s, n, f)
           Bad == {n \in 0 .. len_s : ~Good(n)}
<1>1. Good(0)
  <2> DEFINE f == [i \in 0 .. 0 |-> 0]
  <2>1. f \in [0 .. 0 -> Nat] /\ Sums(s, 0, f)
    BY DEF Sums
  <2> QED
    BY <2>1
<1>2. ASSUME NEW n \in 0 .. len_s, n < len_s, Good(n)
      PROVE  Good(n + 1)
  <2>1. PICK f \in [0 .. n -> Nat] : Sums(s, n, f)
    BY <1>2
  <2> DEFINE g == [i \in 0 .. n + 1 |-> IF i = n + 1 THEN f[n] + Size(s[n + 1]) ELSE f[i]]
  <2>2. g \in [0 .. n + 1 -> Nat]
    BY <1>2, <2>1
  <2>3. ASSUME NEW i \in 0 .. n + 1
        PROVE  g[i] = IF i = 0 THEN 0 ELSE g[i - 1] + Size(s[i])
    <3>1. CASE i = n + 1
      BY <1>2, <3>1
    <3>2. CASE i # n + 1
      <4>1. i \in 0 .. n /\ (i # 0 => i - 1 \in 0 .. n)
        BY <2>3, <3>2, <1>2
      <4>2. f[i] = IF i = 0 THEN 0 ELSE f[i - 1] + Size(s[i])
        BY <2>1, <4>1 DEF Sums
      <4> QED
        BY <4>1, <4>2, <1>2
    <3> QED
      BY <3>1, <3>2
  <2>4. Sums(s, n + 1, g)
    <3>1. g = [i \in 0 .. n + 1 |-> g[i]]
      OBVIOUS
    <3> HIDE DEF g
    <3> QED
      BY <2>3, <3>1 DEF Sums
  <2> QED
    BY <2>2, <2>4
<1> HIDE DEF Good
<1>3. Bad = {}
  <2> SUFFICES ASSUME Bad # {}
               PROVE  FALSE
    OBVIOUS
  <2>1. Bad \in SUBSET Nat
    OBVIOUS
  <2>2. PICK n \in Bad : \A m \in Bad : n <= m
    BY <2>1, HasLeast
  <2>3. n # 0 /\ n \in Nat /\ n <= len_s /\ ~Good(n)
    BY <1>1, <2>2
  <2>4. n - 1 \in 0 .. len_s /\ n - 1 < len_s /\ Good(n - 1)
    BY <2>2, <2>3
  <2>5. Good((n - 1) + 1)
    BY <1>2, <2>4
  <2> QED
    BY <2>3, <2>5
<1> QED
  BY <1>3, SMTT(30) DEF Good

(* Any running sums of a sequence are its running sums.                    *)
LEMMA SumIsUnique ==
  ASSUME NEW s, NEW n \in Nat, NEW f \in [0 .. n -> Nat], Sums(s, n, f),
         NEW g, Sums(s, n, g)
  PROVE  g[n] = f[n]
<1> DEFINE Bad == {i \in 0 .. n : g[i] # f[i]}
<1>1. ASSUME Bad # {}
      PROVE  FALSE
  <2>1. Bad \in SUBSET Nat
    OBVIOUS
  <2>2. PICK k \in Bad : \A m \in Bad : k <= m
    BY <1>1, <2>1, HasLeast
  <2>3. k # 0
    <3>1. f[0] = 0 /\ g[0] = 0
      BY DEF Sums
    <3> QED
      BY <2>2, <3>1
  <2>4. k \in 0 .. n /\ k - 1 \in 0 .. n /\ g[k - 1] = f[k - 1]
    BY <2>2, <2>3
  <2>5. g[k] = g[k - 1] + Size(s[k]) /\ f[k] = f[k - 1] + Size(s[k])
    BY <2>3, <2>4 DEF Sums
  <2> QED
    BY <2>2, <2>4, <2>5
<1> QED
  BY <1>1

(* The sum of the sizes is the last of the running sums.                   *)
LEMMA SumIs ==
  ASSUME NEW s, NEW n \in Nat, n = Len(s), NEW f \in [0 .. n -> Nat], Sums(s, n, f)
  PROVE  SumOfSizes(s) = f[n]
<1> DEFINE g == CHOOSE h : h = [i \in 0 .. n |-> IF i = 0 THEN 0 ELSE h[i - 1] + Size(s[i])]
<1>1. SumOfSizes(s) = g[n]
  BY DEF SumOfSizes
<1>2. Sums(s, n, g)
  BY DEF Sums
<1> HIDE DEF g
<1> QED
  BY <1>1, <1>2, SumIsUnique

(* No fragment has no length.                                              *)
LEMMA SumOfNothing == SumOfSizes(<< >>) = 0
<1> DEFINE g == [i \in 0 .. 0 |-> 0]
<1>1. g \in [0 .. 0 -> Nat] /\ Sums(<< >>, 0, g) /\ g[0] = 0
  BY DEF Sums
<1> HIDE DEF g
<1> QED
  BY <1>1, SumIs

(* One more fragment adds its size.                                        *)
LEMMA SumGrows ==
  ASSUME NEW S, NEW s \in Seq(S), NEW e \in S, \A x \in S : Size(x) \in Nat
  PROVE  /\ SumOfSizes(s) \in Nat
         /\ SumOfSizes(Append(s, e)) = SumOfSizes(s) + Size(e)
<1> DEFINE n == Len(s)
           t == Append(s, e)
<1>1. n \in Nat /\ n + 1 \in Nat /\ t \in Seq(S) /\ Len(t) = n + 1 /\ t[n + 1] = e
      /\ (\A i \in 1 .. n : t[i] = s[i]) /\ (\A i \in 1 .. n + 1 : Size(t[i]) \in Nat)
  OBVIOUS
<1> HIDE DEF n, t
<1>2. PICK f \in [0 .. n + 1 -> Nat] : Sums(t, n + 1, f)
  BY <1>1, SumExists
<1>3. SumOfSizes(t) = f[n + 1] /\ f[n + 1] = f[n] + Size(e)
  <2>1. SumOfSizes(t) = f[n + 1]
    BY <1>1, <1>2, SumIs
  <2>2. f[n + 1] = f[n] + Size(e)
    <3>1. n + 1 \in 0 .. n + 1 /\ n + 1 # 0 /\ (n + 1) - 1 = n
      BY <1>1
    <3>2. f[n + 1] = IF n + 1 = 0 THEN 0 ELSE f[(n + 1) - 1] + Size(t[n + 1])
      BY <1>2, <3>1 DEF Sums
    <3> QED
      BY <1>1, <3>1, <3>2
  <2> QED
    BY <2>1, <2>2
<1>4. SumOfSizes(s) = f[n]
  <2> DEFINE g == [i \in 0 .. n |-> f[i]]
  <2>1. g \in [0 .. n -> Nat] /\ g[n] = f[n]
    BY <1>1, <1>2
  <2>2. Sums(s, n, g)
    <3>1. ASSUME NEW i \in 0 .. n
          PROVE  f[i] = IF i = 0 THEN 0 ELSE g[i - 1] + Size(s[i])
      BY <1>1, <1>2, <3>1, SMTT(30) DEF Sums
    <3> QED
      BY <3>1 DEF Sums
  <2> HIDE DEF g
  <2> QED
    BY <1>1, <2>1, <2>2, SumIs DEF n
<1>5. f[n] \in Nat
  BY <1>1, <1>2
<1> QED
  BY <1>3, <1>4, <1>5 DEF t

-----------------------------------------------------------------------------
(* The table.                                                              *)

(* Only the empty chain lists nothing.                                     *)
LEMMA NothingListed ==
  ASSUME NEW s \in Seq(Nat), NEW S, Lists(s, S)
  PROVE  S = {} <=> s = << >>
<1>1. Len(s) \in Nat /\ (Len(s) > 0 => s[1] \in S) /\ (Len(s) = 0 <=> s = << >>)
  BY DEF Lists
<1>2. Len(s) = 0 => S = {}
  BY <1>1 DEF Lists
<1> QED
  BY <1>1, <1>2

(* A later entry goes to the end of a chain.                               *)
LEMMA ListsGrow ==
  ASSUME NEW s \in Seq(Nat), NEW S, Lists(s, S), NEW id \in Nat, \A x \in S : x < id
  PROVE  Append(s, id) \in Seq(Nat) /\ Lists(Append(s, id), S \cup {id})
<1> DEFINE t == Append(s, id)
           n == Len(s)
<1>1. n \in Nat /\ t \in Seq(Nat) /\ Len(t) = n + 1 /\ t[n + 1] = id
      /\ (\A i \in 1 .. n : t[i] = s[i]) /\ (\A i \in 1 .. n : s[i] \in S /\ s[i] \in Nat)
      /\ (\A i, j \in 1 .. n : i < j => s[i] < s[j])
      /\ S = {s[i] : i \in 1 .. n}
  BY DEF Lists
<1> HIDE DEF t, n
<1>2. {t[i] : i \in 1 .. n + 1} = S \cup {id}
  <2>1. \A i \in 1 .. n + 1 : i \in 1 .. n \/ i = n + 1
    BY <1>1
  <2>2. {t[i] : i \in 1 .. n + 1} \subseteq S \cup {id}
    BY <1>1, <2>1
  <2>3. ASSUME NEW x \in S \cup {id}
        PROVE  \E i \in 1 .. n + 1 : x = t[i]
    <3>1. CASE x = id
      BY <1>1, <3>1
    <3>2. CASE x \in S
      <4>1. PICK i \in 1 .. n : x = s[i]
        BY <1>1, <3>2
      <4> QED
        BY <1>1, <4>1
    <3> QED
      BY <2>3, <3>1, <3>2
  <2> QED
    BY <2>2, <2>3
<1>3. ASSUME NEW i \in 1 .. n + 1, NEW j \in 1 .. n + 1, i < j
      PROVE  t[i] < t[j]
  <2>1. i \in 1 .. n /\ (j \in 1 .. n \/ j = n + 1)
    BY <1>1, <1>3
  <2>2. s[i] < id
    BY <1>1, <2>1
  <2> QED
    BY <1>1, <1>3, <2>1, <2>2
<1> QED
  BY <1>1, <1>2, <1>3 DEF Lists, t

(* The first entries of a chain are those of the file up to the last one.  *)
LEMMA FirstAreListed ==
  ASSUME NEW s \in Seq(Nat), NEW S, Lists(s, S), NEW k \in 1 .. Len(s), NEW t, Len(t) = k,
         \A i \in 1 .. k : t[i] = s[i]
  PROVE  Lists(t, {x \in S : x <= t[k]})
<1> DEFINE n == Len(s)
<1>1. n \in Nat /\ k \in 1 .. n
      /\ (\A i \in 1 .. n : s[i] \in S /\ s[i] \in Nat)
      /\ (\A i, j \in 1 .. n : i < j => s[i] < s[j])
      /\ S = {s[i] : i \in 1 .. n}
  BY DEF Lists
<1> HIDE DEF n
<1>2. \A i \in 1 .. k : i \in 1 .. n
  BY <1>1
<1>3. ASSUME NEW i \in 1 .. k
      PROVE  t[i] \in S /\ t[i] <= t[k]
  <2>1. t[i] = s[i] /\ t[k] = s[k] /\ s[i] \in S /\ s[i] \in Nat /\ s[k] \in Nat
    BY <1>1, <1>2, <1>3
  <2>2. CASE i = k
    BY <2>1, <2>2
  <2>3. CASE i < k
    <3>1. s[i] < s[k]
      BY <1>1, <1>2, <1>3, <2>3
    <3> QED
      BY <2>1, <3>1
  <2>4. i = k \/ i < k
    BY <1>1, <1>3
  <2> QED
    BY <2>2, <2>3, <2>4
<1>4. ASSUME NEW x \in S, x <= t[k]
      PROVE  \E i \in 1 .. k : x = t[i]
  <2>1. PICK i \in 1 .. n : x = s[i]
    BY <1>1, <1>4
  <2>2. ~(k < i)
    <3>1. t[k] = s[k] /\ s[k] \in Nat /\ s[i] \in Nat /\ (k < i => s[k] < s[i])
      BY <1>1, <2>1, SMTT(30)
    <3> QED
      BY <1>4, <2>1, <3>1
  <2>3. i \in 1 .. k
    BY <1>1, <2>1, <2>2
  <2> QED
    BY <2>1, <2>3
<1>5. {t[i] : i \in 1 .. k} = {x \in S : x <= t[k]}
  BY <1>3, <1>4
<1>6. \A i, j \in 1 .. k : i < j => t[i] < t[j]
  BY <1>1, <1>2
<1> QED
  BY <1>5, <1>6 DEF Lists

(* Every entry of a file has a chain it may be in.                         *)
LEMMA GoodAreEntries ==
  ASSUME config \in Seq(Entries)
  PROVE  /\ GoodEntries \in SUBSET (1 .. Len(config)) /\ Len(config) \in Nat
         /\ \A i \in GoodEntries : /\ config[i] \in Entries /\ config[i].name \in Names
                                   /\ ConfigError(config[i]) = "" /\ i \in GoodOf(config[i].name)
         /\ \A n : GoodOf(n) \in SUBSET GoodEntries
<1>0. Len(config) \in Nat /\ \A i \in 1 .. Len(config) : config[i] \in Entries
  OBVIOUS
<1>1. GoodEntries \in SUBSET (1 .. Len(config))
  BY DEF GoodEntries
<1>2. ASSUME NEW i \in GoodEntries
      PROVE  /\ config[i] \in Entries /\ config[i].name \in Names
             /\ ConfigError(config[i]) = "" /\ i \in GoodOf(config[i].name)
  <2>1. i \in 1 .. Len(config) /\ ConfigError(config[i]) = ""
    BY <1>2 DEF GoodEntries
  <2>2. config[i] \in Entries
    BY <1>0, <2>1
  <2> QED
    BY <1>2, <2>1, <2>2 DEF GoodOf, Names
<1>3. \A n : GoodOf(n) \in SUBSET GoodEntries
  BY DEF GoodOf
<1> QED
  BY <1>0, <1>1, <1>2, <1>3

(* An unload frees every entry that was loaded.                            *)
LEMMA AllAreFreed ==
  ASSUME TableFollowsFile, module # "unloaded"
  PROVE  Freed = GoodEntries
<1>1. \A n \in Names : {servers[n][i] : i \in 1 .. Len(servers[n])} = GoodOf(n)
  BY DEF TableFollowsFile, Lists
<1>2. Freed = UNION {GoodOf(n) : n \in Names}
  BY <1>1 DEF Freed
<1>3. config \in Seq(Entries)
  BY DEF TableFollowsFile
<1> QED
  BY <1>2, <1>3, GoodAreEntries

(* Nothing is loaded yet.                                                  *)
LEMMA TableInitInv == TableInit => TableFollowsFile
<1> SUFFICES ASSUME TableInit
             PROVE  TableFollowsFile
  OBVIOUS
<1>1. config = << >> /\ GoodEntries = {} /\ pools = {} /\ module = "loading"
  BY DEF TableInit, GoodEntries
<1>2. \A n \in Names : GoodOf(n) = {} /\ servers[n] = << >>
  BY <1>1 DEF TableInit, GoodOf
<1>3. Lists(<< >>, {})
  BY DEF Lists
<1>4. servers \in [Names -> Seq(Nat)] /\ config \in Seq(Entries)
  BY <1>1 DEF TableInit
<1>5. \A n \in Names : Lists(servers[n], GoodOf(n))
  BY <1>2, <1>3
<1> QED
  BY <1>1, <1>4, <1>5 DEF TableFollowsFile

(* A good entry joins its name's chain, a bad one none.                    *)
LEMMA LoadEntryStep ==
  ASSUME TableFollowsFile, NEW e \in Entries, LoadEntry(e)
  PROVE  TableFollowsFile'
<1>0. PICK id \in Nat : id = Len(config) + 1
  BY DEF TableFollowsFile
<1>1. /\ config \in Seq(Entries) /\ servers \in [Names -> Seq(Nat)] /\ pools = GoodEntries
      /\ \A n \in Names : Lists(servers[n], GoodOf(n))
      /\ module = "loading" /\ module' = "loading" /\ config' = Append(config, e)
  BY DEF TableFollowsFile, LoadEntry
<1>2. /\ config' \in Seq(Entries) /\ Len(config') = id /\ config'[id] = e
      /\ \A i \in 1 .. id - 1 : config'[i] = config[i]
      /\ \A i \in 1 .. id : i \in 1 .. id - 1 \/ i = id
      /\ Len(config) = id - 1 /\ id \notin 1 .. id - 1 /\ id \in 1 .. id
      /\ e.name \in Names
  BY <1>0, <1>1 DEF Names
<1>3. GoodEntries \in SUBSET (1 .. id - 1) /\ \A x \in GoodEntries : x < id
  <2>1. GoodEntries \in SUBSET (1 .. id - 1)
    BY <1>2 DEF GoodEntries
  <2> QED
    BY <1>0, <2>1
<1>4. GoodEntries' = IF ConfigError(e) = "" THEN GoodEntries \cup {id} ELSE GoodEntries
  <2>1. GoodEntries' = {i \in 1 .. id : ConfigError(config'[i]) = ""}
    BY <1>2 DEF GoodEntries
  <2>2. \A i \in 1 .. id - 1 : ConfigError(config'[i]) = ConfigError(config[i]) /\ i \in 1 .. id
    BY <1>2
  <2>3. ConfigError(config'[id]) = ConfigError(e)
    BY <1>2
  <2>4. GoodEntries = {i \in 1 .. id - 1 : ConfigError(config[i]) = ""}
    BY <1>2 DEF GoodEntries
  <2> QED
    BY <1>2, <2>1, <2>2, <2>3, <2>4
<1>5. \A n : GoodOf(n)' = IF ConfigError(e) = "" /\ e.name = n THEN GoodOf(n) \cup {id} ELSE GoodOf(n)
  <2>1. \A i \in GoodEntries : config'[i] = config[i]
    BY <1>2, <1>3
  <2>2. ASSUME NEW n
        PROVE  GoodOf(n)' = IF ConfigError(e) = "" /\ e.name = n THEN GoodOf(n) \cup {id}
                                                                ELSE GoodOf(n)
    BY <1>2, <1>4, <2>1 DEF GoodOf
  <2> QED
    BY <2>2
<1>6. CASE ConfigError(e) # ""
  <2>1. servers' = servers /\ pools' = pools
    BY <1>6 DEF LoadEntry
  <2> QED
    BY <1>1, <1>2, <1>4, <1>5, <1>6, <2>1 DEF TableFollowsFile
<1>7. CASE ConfigError(e) = ""
  <2>1. servers' = [servers EXCEPT ![e.name] = Append(@, id)] /\ pools' = pools \cup {id}
    BY <1>0, <1>7 DEF LoadEntry
  <2>2. ASSUME NEW n \in Names
        PROVE  servers'[n] \in Seq(Nat) /\ Lists(servers'[n], GoodOf(n)')
    <3>1. CASE n = e.name
      <4>1. servers'[n] = Append(servers[n], id) /\ GoodOf(n)' = GoodOf(n) \cup {id}
        BY <1>1, <1>5, <1>7, <2>1, <2>2, <3>1
      <4>2. \A x \in GoodOf(n) : x < id
        BY <1>3 DEF GoodOf
      <4>3. servers[n] \in Seq(Nat) /\ Lists(servers[n], GoodOf(n))
        BY <1>1, <2>2
      <4> QED
        BY <4>1, <4>2, <4>3, ListsGrow
    <3>2. CASE n # e.name
      BY <1>1, <1>5, <2>1, <2>2, <3>2
    <3> QED
      BY <3>1, <3>2
  <2>3. servers' \in [Names -> Seq(Nat)]
    BY <1>1, <2>1, <2>2
  <2> QED
    BY <1>1, <1>2, <1>4, <1>7, <2>1, <2>2, <2>3 DEF TableFollowsFile
<1> QED
  BY <1>6, <1>7

(* An unload, or a load that fails, leaves an empty table.                 *)
LEMMA FreeServersStep ==
  ASSUME TableFollowsFile, module # "unloaded", FreeServers
  PROVE  TableFollowsFile'
<1>1. /\ module' = "unloaded" /\ config' = config /\ servers' = [n \in Names |-> << >>]
      /\ pools' = pools \ Freed /\ pools = GoodEntries
  BY DEF FreeServers, TableFollowsFile
<1>2. pools' = {}
  BY <1>1, AllAreFreed
<1>3. servers' \in [Names -> Seq(Nat)]
  BY <1>1
<1>4. \A n \in Names : Lists(servers'[n], {})
  BY <1>1 DEF Lists
<1>5. config \in Seq(Entries)
  BY DEF TableFollowsFile
<1> QED
  BY <1>1, <1>2, <1>3, <1>4, <1>5 DEF TableFollowsFile

(* The table after a step of the configuration.                            *)
LEMMA ConfigureTable ==
  ASSUME TableFollowsFile, Configure
  PROVE  TableFollowsFile'
<1>1. ASSUME NEW e \in Entries, LoadEntry(e)
      PROVE  TableFollowsFile'
  BY <1>1, LoadEntryStep
<1>2. CASE LoadDone
  <2>1. /\ module = "loading" /\ module' = "loaded" /\ config' = config
        /\ servers' = servers /\ pools' = pools
    BY <1>2 DEF LoadDone
  <2>2. GoodEntries' = GoodEntries /\ \A n : GoodOf(n)' = GoodOf(n)
    BY <2>1 DEF GoodEntries, GoodOf
  <2> QED
    BY <2>1, <2>2 DEF TableFollowsFile
<1>3. CASE LoadFails
  BY <1>3, FreeServersStep DEF LoadFails
<1>4. CASE Reload
  <2>1. /\ module = "unloaded" /\ module' = "loading" /\ config' = << >>
        /\ servers' = servers /\ pools' = pools
    BY <1>4 DEF Reload
  <2>2. GoodEntries' = {} /\ \A n : GoodOf(n)' = {}
    BY <2>1 DEF GoodEntries, GoodOf
  <2>3. config' \in Seq(Entries) /\ servers' \in [Names -> Seq(Nat)] /\ pools' = {}
    BY <2>1 DEF TableFollowsFile
  <2>4. \A n \in Names : Lists(servers'[n], GoodOf(n)')
    BY <2>1, <2>2 DEF TableFollowsFile
  <2> QED
    BY <2>1, <2>2, <2>3, <2>4 DEF TableFollowsFile
<1> QED
  BY <1>1, <1>2, <1>3, <1>4 DEF Configure

-----------------------------------------------------------------------------
(* Identifiers.  Scan is a recursive function over the characters; that    *)
(* there is one is shown as it is for SumOfSizes, from the last character. *)

(* One pass of siprec_metadata_uuid_to_id's loop, with f for what is after.*)
Pass(uuid, f, i) ==
  IF i = Len(uuid) THEN [ok |-> TRUE, bytes |-> << >>]
  ELSE IF Len(uuid) = 36 /\ i \in HyphensAt
  THEN IF uuid[i + 1] = "-" THEN f[i + 1] ELSE Refused
  ELSE IF i + 1 >= Len(uuid) \/ HexNibble(uuid[i + 1]) < 0 \/ HexNibble(uuid[i + 1 + 1]) < 0
  THEN Refused
  ELSE [f[i + 2] EXCEPT !.bytes =
          <<16 * HexNibble(uuid[i + 1]) + HexNibble(uuid[i + 1 + 1])>> \o @]
Scans(uuid, k, f) == f = [i \in k .. Len(uuid) |-> Pass(uuid, f, i)]

(* A pass looks at later characters only.                                  *)
LEMMA PassLooksAhead ==
  ASSUME NEW uuid, Len(uuid) \in Nat, NEW f, NEW g, NEW i \in 0 .. Len(uuid),
         \A j \in i + 1 .. Len(uuid) : f[j] = g[j]
  PROVE  Pass(uuid, f, i) = Pass(uuid, g, i)
<1>1. i < Len(uuid) => f[i + 1] = g[i + 1]
  OBVIOUS
<1>2. i + 1 < Len(uuid) => f[i + 2] = g[i + 2]
  OBVIOUS
<1>3. CASE i = Len(uuid) \/ (Len(uuid) = 36 /\ i \in HyphensAt)
  <2>1. i = Len(uuid) \/ i < Len(uuid)
    OBVIOUS
  <2> QED
    BY <1>1, <1>3, <2>1, Zenon DEF Pass
<1>4. CASE ~(i = Len(uuid) \/ (Len(uuid) = 36 /\ i \in HyphensAt))
  <2>1. i + 1 >= Len(uuid) \/ i + 1 < Len(uuid)
    OBVIOUS
  <2> QED
    BY <1>2, <1>4, <2>1, Zenon DEF Pass
<1> QED
  BY <1>3, <1>4

(* The scan of a name exists.                                              *)
LEMMA ScanExists ==
  ASSUME NEW uuid, Len(uuid) \in Nat
  PROVE  \E f : Scans(uuid, 0, f)
<1> DEFINE size == Len(uuid)
           Good(n) == \E f : Scans(uuid, size - n, f)
           Bad == {n \in 0 .. size : ~Good(n)}
<1>1. Good(0)
  <2> DEFINE f == [i \in size .. size |-> [ok |-> TRUE, bytes |-> << >>]]
  <2>1. \A i \in size .. size : Pass(uuid, f, i) = [ok |-> TRUE, bytes |-> << >>]
    BY DEF Pass
  <2>2. f = [i \in size .. size |-> Pass(uuid, f, i)]
    BY <2>1
  <2>3. Scans(uuid, size - 0, f)
    BY <2>2 DEF Scans
  <2> QED
    BY <2>3
<1>2. ASSUME NEW n \in 0 .. size, n < size, Good(n)
      PROVE  Good(n + 1)
  <2> DEFINE k == size - n
  <2>1. PICK f : Scans(uuid, k, f)
    BY <1>2
  <2>2. k \in 1 .. size /\ size - (n + 1) = k - 1
    BY <1>2
  <2> HIDE DEF k
  <2> DEFINE g == [i \in k - 1 .. size |-> IF i = k - 1 THEN Pass(uuid, f, i) ELSE f[i]]
  <2>3. \A j \in k .. size : g[j] = f[j]
    BY <2>2
  <2>4. ASSUME NEW i \in k - 1 .. size
        PROVE  g[i] = Pass(uuid, g, i)
    <3>1. i \in 0 .. size /\ \A j \in i + 1 .. size : f[j] = g[j]
      BY <2>2, <2>3
    <3>2. Pass(uuid, f, i) = Pass(uuid, g, i)
      BY <3>1, PassLooksAhead
    <3>3. i # k - 1 => f[i] = Pass(uuid, f, i)
      BY <2>1, <2>2 DEF Scans
    <3> QED
      BY <3>2, <3>3
  <2>5. g = [i \in k - 1 .. size |-> g[i]]
    OBVIOUS
  <2> HIDE DEF g
  <2>6. Scans(uuid, k - 1, g)
    BY <2>4, <2>5 DEF Scans
  <2> QED
    BY <2>2, <2>6
<1> HIDE DEF Good
<1>3. Bad = {}
  <2> SUFFICES ASSUME Bad # {} PROVE FALSE
    OBVIOUS
  <2>1. PICK n \in Bad : \A y \in Bad : n <= y
    <3>1. Bad \in SUBSET Nat
      OBVIOUS
    <3> HIDE DEF Bad
    <3> QED
      BY <3>1, HasLeast
  <2>2. n # 0 /\ n - 1 \in 0 .. size /\ n - 1 < size /\ n - 1 \notin Bad
    BY <1>1, <2>1
  <2>3. Good(n - 1)
    BY <2>2
  <2>4. Good(n - 1 + 1)
    BY <1>2, <2>2, <2>3
  <2> QED
    BY <2>1, <2>4
<1>4. Good(size)
  BY <1>3
<1> QED
  BY <1>4 DEF Good

(* So the scan at a character is one pass before the scan behind it.       *)
LEMMA ScanUnfolds ==
  ASSUME NEW uuid, Len(uuid) \in Nat, NEW i \in 0 .. Len(uuid)
  PROVE  Scan(uuid)[i] = Pass(uuid, Scan(uuid), i)
<1>1. Scan(uuid) = CHOOSE f : Scans(uuid, 0, f)
  BY DEF Scan, Scans, Pass
<1>2. Scans(uuid, 0, Scan(uuid))
  BY <1>1, ScanExists
<1> QED
  BY <1>2 DEF Scans

(* The value of a digit.                                                   *)
LEMMA Nibbles ==
  ASSUME NEW c
  PROVE  /\ HexNibble(c) \in -1 .. 15
         /\ HexNibble(c) >= 0 <=> c \in HexChars
  BY DEF HexNibble, HexChars

(* Where byte k begins, counted from 0; 16 is behind the last.             *)
Place(uuid, k) == 2 * k + IF Len(uuid) = 36 THEN HyphensBefore(2 * k + 1) ELSE 0
ByteAt(uuid, k) == 16 * HexNibble(Digit(uuid, 2 * k + 1)) + HexNibble(Digit(uuid, 2 * k + 2))
Fits(uuid, k) == Digit(uuid, 2 * k + 1) \in HexChars /\ Digit(uuid, 2 * k + 2) \in HexChars
HyphensFrom(uuid, i) ==
  Len(uuid) = 36 => \A h \in HyphensAt : h >= i => uuid[h + 1] = "-"

(* Byte k is the two digits at i, and n is where the next one begins.       *)
ByteStands(uuid, k, i, n) ==
         /\ i \in Nat /\ i + 1 < Len(uuid)
         /\ ~(Len(uuid) = 36 /\ i \in HyphensAt)
         /\ Digit(uuid, 2 * k + 1) = uuid[i + 1] /\ Digit(uuid, 2 * k + 2) = uuid[i + 1 + 1]
         /\ \/ /\ n = i + 2
               /\ HyphensFrom(uuid, i) <=> HyphensFrom(uuid, i + 2)
            \/ /\ n = i + 3 /\ i + 2 < Len(uuid)
               /\ Len(uuid) = 36 /\ i + 2 \in HyphensAt
               /\ HyphensFrom(uuid, i) <=> uuid[i + 3] = "-" /\ HyphensFrom(uuid, i + 3)

(* Bytes follow each other, but for the hyphens between the groups.        *)
LEMMA Places ==
  ASSUME NEW uuid, Len(uuid) \in {32, 36}, NEW k \in 0 .. 15
  PROVE  ByteStands(uuid, k, Place(uuid, k), Place(uuid, k + 1))
<1> DEFINE i == Place(uuid, k)
<1>a. i = Place(uuid, k)
  OBVIOUS
<1> HIDE DEF i
<1>1. CASE Len(uuid) = 32
  BY <1>1, <1>a DEF Place, Digit, HyphensFrom, ByteStands
<1>2. CASE Len(uuid) = 36
  <2>1. i = 2 * k + HyphensBefore(2 * k + 1)
    BY <1>2, <1>a DEF Place
  <2>2. Place(uuid, k + 1) = 2 * k + 2 + HyphensBefore(2 * k + 3)
    BY <1>2 DEF Place
  <2>3. HyphensBefore(2 * k + 2) = HyphensBefore(2 * k + 1)
    BY DEF HyphensBefore
  <2>4. Digit(uuid, 2 * k + 1) = uuid[i + 1] /\ Digit(uuid, 2 * k + 2) = uuid[i + 1 + 1]
    <3>1. /\ Digit(uuid, 2 * k + 1) = uuid[2 * k + 1 + HyphensBefore(2 * k + 1)]
          /\ Digit(uuid, 2 * k + 2) = uuid[2 * k + 2 + HyphensBefore(2 * k + 1)]
      BY <1>2, <2>3 DEF Digit
    <3>2. HyphensBefore(2 * k + 1) \in 0 .. 4
      BY DEF HyphensBefore
    <3>3. 2 * k + 1 + HyphensBefore(2 * k + 1) = i + 1
          /\ 2 * k + 2 + HyphensBefore(2 * k + 1) = i + 1 + 1
      BY <2>1, <3>2
    <3> QED
      BY <3>1, <3>3
  <2>5. HyphensAt = {8, 13, 18, 23}
    BY DEF HyphensAt
  <2>6. ASSUME NEW j \in 0 .. 36
        PROVE  HyphensFrom(uuid, j) <=> /\ j <= 8 => uuid[9] = "-"
                                        /\ j <= 13 => uuid[14] = "-"
                                        /\ j <= 18 => uuid[19] = "-"
                                        /\ j <= 23 => uuid[24] = "-"
    BY <1>2, <2>5 DEF HyphensFrom
  <2>7. /\ i \in 0 .. 34 /\ ~(i \in HyphensAt)
        /\ \/ Place(uuid, k + 1) = i + 2 /\ ~(i + 1 \in HyphensAt) /\ ~(i + 2 \in HyphensAt)
           \/ Place(uuid, k + 1) = i + 3 /\ i + 2 \in HyphensAt
    BY <2>1, <2>2, <2>5 DEF HyphensBefore
  <2>8. ~(i + 2 \in HyphensAt) => (HyphensFrom(uuid, i) <=> HyphensFrom(uuid, i + 2))
    BY <2>5, <2>6, <2>7
  <2>9. i + 2 \in HyphensAt =>
           /\ i + 3 \in 0 .. 36 /\ i + 2 < 36
           /\ HyphensFrom(uuid, i) <=> uuid[i + 3] = "-" /\ HyphensFrom(uuid, i + 3)
    BY <2>5, <2>6, <2>7
  <2> QED
    BY <1>2, <1>a, <2>4, <2>7, <2>8, <2>9 DEF ByteStands
<1> QED
  BY <1>1, <1>2

(* What the scan has found from byte k on: it accepts exactly if the rest  *)
(* is digits with hyphens where they belong, and then has their bytes.     *)
Scanned(uuid, k) ==
  LET r == Scan(uuid)[Place(uuid, k)] IN
  /\ r \in [ok : BOOLEAN, bytes : Seq(Int)]
  /\ r.ok <=> (\A j \in k .. 15 : Fits(uuid, j)) /\ HyphensFrom(uuid, Place(uuid, k))
  /\ r.ok => /\ Len(r.bytes) = 16 - k
             /\ \A j \in k .. 15 : r.bytes[j - k + 1] = ByteAt(uuid, j)

(* Behind the last character nothing is missing.                           *)
LEMMA ScannedAtEnd ==
  ASSUME NEW uuid, Len(uuid) \in {32, 36}
  PROVE  Scanned(uuid, 16)
<1>1. Place(uuid, 16) = Len(uuid)
  BY DEF Place, HyphensBefore
<1>2. Scan(uuid)[Len(uuid)] = [ok |-> TRUE, bytes |-> << >>]
  <2>1. Len(uuid) \in Nat /\ Len(uuid) \in 0 .. Len(uuid)
    OBVIOUS
  <2>2. Scan(uuid)[Len(uuid)] = Pass(uuid, Scan(uuid), Len(uuid))
    BY <2>1, ScanUnfolds
  <2> QED
    BY <2>2 DEF Pass
<1>3. HyphensFrom(uuid, Len(uuid))
  BY DEF HyphensFrom, HyphensAt
<1> DEFINE r == Scan(uuid)[Place(uuid, 16)]
<1>4. r = [ok |-> TRUE, bytes |-> << >>]
  BY <1>1, <1>2
<1>5. r \in [ok : BOOLEAN, bytes : Seq(Int)] /\ r.ok /\ Len(r.bytes) = 0
  BY <1>4
<1>6. 16 .. 15 = {}
  OBVIOUS
<1> HIDE DEF r
<1> QED
  BY <1>1, <1>3, <1>5, <1>6 DEF Scanned, r

(* One byte more.                                                          *)
LEMMA ScannedBefore ==
  ASSUME NEW uuid, Len(uuid) \in {32, 36}, NEW k \in 0 .. 15, Scanned(uuid, k + 1)
  PROVE  Scanned(uuid, k)
<1> DEFINE i == Place(uuid, k)
           n == Place(uuid, k + 1)
           r == Scan(uuid)[i]
           s == Scan(uuid)[n]
           rest == Scan(uuid)[i + 2]
<1>a. i = Place(uuid, k) /\ n = Place(uuid, k + 1)
  OBVIOUS
<1> HIDE DEF i, n
<1>b. ByteStands(uuid, k, i, n)
  <2>1. ByteStands(uuid, k, Place(uuid, k), Place(uuid, k + 1))
    BY Places
  <2> QED
    BY <1>a, <2>1
<1>1. /\ i \in Nat /\ i + 1 < Len(uuid) /\ Len(uuid) \in Nat
      /\ ~(Len(uuid) = 36 /\ i \in HyphensAt)
      /\ Digit(uuid, 2 * k + 1) = uuid[i + 1] /\ Digit(uuid, 2 * k + 2) = uuid[i + 1 + 1]
  <2>1. Len(uuid) \in Nat
    OBVIOUS
  <2> QED
    BY <1>b, <2>1 DEF ByteStands
<1>2. /\ s \in [ok : BOOLEAN, bytes : Seq(Int)]
      /\ s.ok <=> (\A j \in k + 1 .. 15 : Fits(uuid, j)) /\ HyphensFrom(uuid, n)
      /\ s.ok => /\ Len(s.bytes) = 16 - (k + 1)
                 /\ \A j \in k + 1 .. 15 : s.bytes[j - (k + 1) + 1] = ByteAt(uuid, j)
  BY <1>a DEF Scanned
<1>3. /\ rest \in [ok : BOOLEAN, bytes : Seq(Int)]
      /\ rest.ok <=> (\A j \in k + 1 .. 15 : Fits(uuid, j)) /\ HyphensFrom(uuid, i)
      /\ rest.ok => rest = s
  <2>1. CASE n = i + 2 /\ (HyphensFrom(uuid, i) <=> HyphensFrom(uuid, i + 2))
    BY <1>2, <2>1
  <2>2. CASE /\ n = i + 3 /\ i + 2 < Len(uuid) /\ Len(uuid) = 36 /\ i + 2 \in HyphensAt
             /\ HyphensFrom(uuid, i) <=> uuid[i + 3] = "-" /\ HyphensFrom(uuid, i + 3)
    <3>1. rest = IF uuid[i + 3] = "-" THEN s ELSE Refused
      <4>1. rest = Pass(uuid, Scan(uuid), i + 2)
        <5>1. i + 2 \in 0 .. Len(uuid)
          BY <1>1, <2>2
        <5> QED
          BY <1>1, <5>1, ScanUnfolds
      <4>2. i + 2 # Len(uuid) /\ i + 2 + 1 = i + 3
        BY <1>1, <2>2
      <4> QED
        BY <2>2, <4>1, <4>2 DEF Pass
    <3>2. Refused \in [ok : BOOLEAN, bytes : Seq(Int)] /\ ~Refused.ok
      BY DEF Refused
    <3> HIDE DEF s, rest
    <3> QED
      BY <1>2, <2>2, <3>1, <3>2
  <2> QED
    BY <1>b, <2>1, <2>2 DEF ByteStands
<1>4. r = IF HexNibble(uuid[i + 1]) < 0 \/ HexNibble(uuid[i + 1 + 1]) < 0 THEN Refused
          ELSE [rest EXCEPT !.bytes = <<ByteAt(uuid, k)>> \o @]
  <2>1. r = Pass(uuid, Scan(uuid), i)
    BY <1>1, ScanUnfolds
  <2>2. i # Len(uuid) /\ ~(i + 1 >= Len(uuid))
    BY <1>1
  <2> QED
    BY <1>1, <2>1, <2>2 DEF Pass, ByteAt
<1>5. HexNibble(uuid[i + 1]) < 0 \/ HexNibble(uuid[i + 1 + 1]) < 0 <=> ~Fits(uuid, k)
  <2>1. \A c : HexNibble(c) < 0 <=> c \notin HexChars
    <3>1. \A m \in -1 .. 15 : m < 0 <=> ~(m >= 0)
      OBVIOUS
    <3> QED
      BY <3>1, Nibbles
  <2> QED
    BY <1>1, <2>1, Zenon DEF Fits
<1>6. (\A j \in k .. 15 : Fits(uuid, j)) <=> Fits(uuid, k) /\ \A j \in k + 1 .. 15 : Fits(uuid, j)
  OBVIOUS
<1>7. CASE ~Fits(uuid, k)
  <2>1. r = Refused
    BY <1>4, <1>5, <1>7
  <2>2. r \in [ok : BOOLEAN, bytes : Seq(Int)] /\ ~r.ok
    BY <2>1 DEF Refused
  <2>3. ~ \A j \in k .. 15 : Fits(uuid, j)
    BY <1>6, <1>7
  <2> HIDE DEF r
  <2> QED
    BY <1>a, <2>2, <2>3 DEF Scanned, r
<1>8. CASE Fits(uuid, k)
  <2> DEFINE b == ByteAt(uuid, k)
  <2>1. b \in Int
    BY Nibbles DEF ByteAt
  <2>2. r = [rest EXCEPT !.bytes = <<b>> \o @]
    BY <1>4, <1>5, <1>8
  <2> HIDE DEF b, r, rest, s
  <2>3. r.ok = rest.ok /\ r.bytes = <<b>> \o rest.bytes /\ r \in [ok : BOOLEAN, bytes : Seq(Int)]
    <3>1. rest = [ok |-> rest.ok, bytes |-> rest.bytes] /\ rest.ok \in BOOLEAN /\ rest.bytes \in Seq(Int)
      BY <1>3
    <3>2. r = [ok |-> rest.ok, bytes |-> <<b>> \o rest.bytes]
      BY <2>2, <3>1
    <3>3. <<b>> \o rest.bytes \in Seq(Int)
      BY <2>1, <3>1
    <3> QED
      BY <3>1, <3>2, <3>3
  <2>4. ASSUME rest.ok
        PROVE  /\ Len(r.bytes) = 16 - k
               /\ \A j \in k .. 15 : r.bytes[j - k + 1] = ByteAt(uuid, j)
    <3>1. /\ rest.bytes \in Seq(Int) /\ Len(rest.bytes) = 15 - k
          /\ \A j \in k + 1 .. 15 : rest.bytes[j - k] = ByteAt(uuid, j)
      <4>1. /\ rest.bytes \in Seq(Int) /\ Len(rest.bytes) = 16 - (k + 1)
            /\ \A j \in k + 1 .. 15 : rest.bytes[j - (k + 1) + 1] = ByteAt(uuid, j)
        BY <1>2, <1>3, <2>4, Zenon
      <4>2. \A j \in k + 1 .. 15 : j - (k + 1) + 1 = j - k
        OBVIOUS
      <4> QED
        BY <4>1, <4>2
    <3>2. /\ Len(r.bytes) = 1 + Len(rest.bytes)
          /\ r.bytes[1] = b
          /\ \A m \in 1 .. Len(rest.bytes) : r.bytes[m + 1] = rest.bytes[m]
      <4>1. /\ Len(<<b>> \o rest.bytes) = 1 + Len(rest.bytes)
            /\ (<<b>> \o rest.bytes)[1] = b
            /\ \A m \in 1 .. Len(rest.bytes) : (<<b>> \o rest.bytes)[m + 1] = rest.bytes[m]
        BY <2>1, <3>1, SMTT(30)
      <4> QED
        BY <2>3, <4>1, Zenon
    <3>3. ASSUME NEW j \in k + 1 .. 15
          PROVE  r.bytes[j - k + 1] = ByteAt(uuid, j)
      <4>1. j - k \in 1 .. Len(rest.bytes)
        <5>1. j \in Int /\ k \in Int /\ k + 1 <= j /\ j <= 15
          BY <3>3
        <5>2. Len(rest.bytes) = 15 - k
          BY <3>1
        <5> QED
          BY <5>1, <5>2
      <4> QED
        BY <3>1, <3>2, <4>1
    <3>4. k - k + 1 = 1 /\ \A j \in k .. 15 : j = k \/ j \in k + 1 .. 15
      OBVIOUS
    <3>5. Len(r.bytes) = 16 - k
      BY <3>1, <3>2
    <3> QED
      BY <3>2, <3>3, <3>4, <3>5 DEF b
  <2> QED
    BY <1>a, <1>3, <1>6, <1>8, <2>3, <2>4 DEF Scanned, r
<1> QED
  BY <1>7, <1>8

(* The whole scan.                                                         *)
LEMMA ScannedAll ==
  ASSUME NEW uuid, Len(uuid) \in {32, 36}
  PROVE  Scanned(uuid, 0)
<1> DEFINE Bad == {n \in 0 .. 16 : ~Scanned(uuid, 16 - n)}
<1>1. SUFFICES ASSUME Bad # {} PROVE FALSE
  OBVIOUS
<1>2. PICK n \in Bad : \A y \in Bad : n <= y
  <2>1. Bad \in SUBSET Nat
    OBVIOUS
  <2> HIDE DEF Bad
  <2> QED
    BY <1>1, <2>1, HasLeast
<1>3. n # 0
  BY <1>2, ScannedAtEnd
<1>4. n - 1 \notin Bad /\ n - 1 \in 0 .. 15
  BY <1>2, <1>3
<1>5. Scanned(uuid, 16 - (n - 1)) /\ 16 - (n - 1) = 16 - n + 1 /\ 16 - n \in 0 .. 15
  BY <1>4
<1> QED
  BY <1>2, <1>5, ScannedBefore

(* A name has bytes exactly if it is a UUID, and they are its digits.      *)
LEMMA BytesAreTheDigits ==
  ASSUME NEW uuid, Len(uuid) \in Nat
  PROVE  /\ BytesOf(uuid) # NoId <=> IsUuid(uuid)
         /\ IsUuid(uuid) => /\ BytesOf(uuid) \in [1 .. 16 -> 0 .. 255]
                            /\ \A k \in 0 .. 15 : BytesOf(uuid)[k + 1] = ByteAt(uuid, k)
<1>1. CASE Len(uuid) \in {32, 36}
  <2> DEFINE r == Scan(uuid)[0]
  <2>1. Place(uuid, 0) = 0
    BY DEF Place, HyphensBefore
  <2>2. /\ r \in [ok : BOOLEAN, bytes : Seq(Int)]
        /\ r.ok <=> (\A j \in 0 .. 15 : Fits(uuid, j)) /\ HyphensFrom(uuid, 0)
        /\ r.ok => /\ Len(r.bytes) = 16
                   /\ \A j \in 0 .. 15 : r.bytes[j + 1] = ByteAt(uuid, j)
    <3>1. Scanned(uuid, 0)
      BY <1>1, ScannedAll
    <3>2. \A j \in 0 .. 15 : j - 0 + 1 = j + 1
      OBVIOUS
    <3>3. 16 - 0 = 16
      OBVIOUS
    <3> QED
      BY <2>1, <3>1, <3>2, <3>3 DEF Scanned
  <2> HIDE DEF r
  <2>3. BytesOf(uuid) = IF r.ok THEN r.bytes ELSE NoId
    BY <1>1, <2>2 DEF BytesOf, r, Refused, NoId
  <2>4. r.ok => r.bytes # NoId
    BY <2>2 DEF NoId
  <2>5. (\A j \in 0 .. 15 : Fits(uuid, j)) <=> \A n \in 1 .. 32 : Digit(uuid, n) \in HexChars
    <3>1. ASSUME \A j \in 0 .. 15 : Fits(uuid, j), NEW n \in 1 .. 32
          PROVE  Digit(uuid, n) \in HexChars
      <4>1. PICK j \in 0 .. 15 : n = 2 * j + 1 \/ n = 2 * j + 2
        <5>1. (n - 1) \div 2 \in 0 .. 15
              /\ (n = 2 * ((n - 1) \div 2) + 1 \/ n = 2 * ((n - 1) \div 2) + 2)
          OBVIOUS
        <5> QED
          BY <5>1
      <4>2. Fits(uuid, j)
        BY <3>1
      <4> QED
        BY <4>1, <4>2 DEF Fits
    <3>2. ASSUME \A n \in 1 .. 32 : Digit(uuid, n) \in HexChars, NEW j \in 0 .. 15
          PROVE  Fits(uuid, j)
      <4>1. 2 * j + 1 \in 1 .. 32 /\ 2 * j + 2 \in 1 .. 32
        OBVIOUS
      <4> QED
        BY <3>2, <4>1 DEF Fits
    <3> QED
      BY <3>1, <3>2
  <2>6. HyphensFrom(uuid, 0) <=> (Len(uuid) = 36 => \A h \in {9, 14, 19, 24} : uuid[h] = "-")
    BY DEF HyphensFrom, HyphensAt
  <2>7. IsUuid(uuid) <=> r.ok
    <3> DEFINE hex == \A n \in 1 .. 32 : Digit(uuid, n) \in HexChars
               apart == \A h \in {9, 14, 19, 24} : uuid[h] = "-"
    <3>1. IsUuid(uuid) <=> (Len(uuid) = 32 \/ (Len(uuid) = 36 /\ apart)) /\ hex
      BY DEF IsUuid
    <3>2. r.ok <=> hex /\ (Len(uuid) = 36 => apart)
      BY <2>2, <2>5, <2>6, Zenon
    <3>3. 36 # 32
      OBVIOUS
    <3> HIDE DEF hex, apart
    <3> QED
      BY <1>1, <3>1, <3>2, <3>3, Zenon
  <2>8. ASSUME r.ok, NEW k \in 0 .. 15
        PROVE  ByteAt(uuid, k) \in 0 .. 255
    <3>1. Fits(uuid, k)
      BY <2>2, <2>8
    <3>2. \A c \in HexChars : HexNibble(c) \in 0 .. 15
      <4>1. \A m \in -1 .. 15 : m >= 0 => m \in 0 .. 15
        OBVIOUS
      <4> QED
        BY <4>1, Nibbles
    <3>3. /\ HexNibble(Digit(uuid, 2 * k + 1)) \in 0 .. 15
          /\ HexNibble(Digit(uuid, 2 * k + 2)) \in 0 .. 15
      BY <3>1, <3>2 DEF Fits
    <3>4. \A x, y \in 0 .. 15 : 16 * x + y \in 0 .. 255
      OBVIOUS
    <3> QED
      BY <3>3, <3>4, Zenon DEF ByteAt
  <2>9. ASSUME r.ok
        PROVE  r.bytes \in [1 .. 16 -> 0 .. 255]
    <3>1. r.bytes \in Seq(Int) /\ Len(r.bytes) = 16
      BY <2>2, <2>9
    <3>2. \A m \in 1 .. 16 : r.bytes[m] \in 0 .. 255
      <4>1. ASSUME NEW m \in 1 .. 16
            PROVE  r.bytes[m] \in 0 .. 255
        <5>1. m - 1 \in 0 .. 15 /\ m - 1 + 1 = m
          OBVIOUS
        <5>2. r.bytes[m - 1 + 1] = ByteAt(uuid, m - 1)
          BY <2>2, <2>9, <5>1
        <5>3. ByteAt(uuid, m - 1) \in 0 .. 255
          BY <2>8, <2>9, <5>1
        <5> QED
          BY <5>1, <5>2, <5>3
      <4> QED
        BY <4>1
    <3> QED
      BY <3>1, <3>2
  <2> QED
    BY <2>2, <2>3, <2>4, <2>7, <2>9
<1>2. CASE Len(uuid) \notin {32, 36}
  BY <1>2 DEF BytesOf, IsUuid, Refused, NoId
<1> QED
  BY <1>1, <1>2

(* Four digits of 64 spell a number.                                       *)
Spelt(v) ==
         /\ (v \div 262144) % 64 \in 0 .. 63 /\ (v \div 4096) % 64 \in 0 .. 63
         /\ (v \div 64) % 64 \in 0 .. 63 /\ (v \div 1) % 64 \in 0 .. 63
         /\ ((((v \div 262144) % 64) * 64 + ((v \div 4096) % 64)) * 64 + ((v \div 64) % 64)) * 64
              + ((v \div 1) % 64) = v

(* Every number of 24 bits is four digits, none of them the padding.       *)
LEMMA FourDigits ==
  ASSUME NEW v \in Nat, v < 16777216
  PROVE  Spelt(v)
<1> DEFINE x == v \div 64
           y == v \div 4096
           z == v \div 262144
<1>1. v = 64 * x + (v % 64) /\ v \div 1 = v /\ v % 64 \in 0 .. 63
  BY SMTT(20)
<1>2. x = 64 * y + (x % 64) /\ x % 64 \in 0 .. 63 /\ x \in Nat
  BY SMTT(20)
<1>3. y = 64 * z + (y % 64) /\ y % 64 \in 0 .. 63 /\ y \in Nat
  BY SMTT(20)
<1>4. z % 64 = z /\ z \in Nat /\ z % 64 \in 0 .. 63
  BY SMTT(20)
<1> HIDE DEF x, y, z
<1>5. ((z * 64 + (y % 64)) * 64 + (x % 64)) * 64 + (v % 64) = v
  BY <1>1, <1>2, <1>3, <1>4, SMTT(20)
<1> QED
  BY <1>1, <1>2, <1>3, <1>4, <1>5, SMTT(20) DEF x, y, z, Spelt

(* Three bytes as one number.                                              *)
Holds(v, a, b, c) ==
         /\ v \in Nat /\ v < 16777216
         /\ (v \div 65536) % 256 = a /\ (v \div 256) % 256 = b /\ (v \div 1) % 256 = c

(* The digits of a full group.                                             *)
LEMMA GroupOfThree ==
  ASSUME NEW bytes \in [1 .. 16 -> 0 .. 255], NEW g \in 0 .. 4, NEW m \in 0 .. 2
  PROVE  DecodedByte(Base64(bytes), 3 * g + m) = bytes[3 * g + m + 1]
<1> DEFINE a == bytes[3 * g + 1]
           b == bytes[3 * g + 2]
           c == bytes[3 * g + 3]
           v == a * 65536 + b * 256 + c
           id == Base64(bytes)
           d(p) == (v \div 64 ^ (3 - p)) % 64
<1>1. a \in 0 .. 255 /\ b \in 0 .. 255 /\ c \in 0 .. 255
  <2>1. 3 * g + 1 \in 1 .. 16 /\ 3 * g + 2 \in 1 .. 16 /\ 3 * g + 3 \in 1 .. 16
    BY SMT
  <2> QED
    BY <2>1, SMT
<1>2. ASSUME NEW p \in 0 .. 3
      PROVE  id[4 * g + p + 1] = d(p)
  <2>1. /\ 4 * g + p + 1 \in 1 .. 24 /\ 4 * g + p + 1 <= 20
        /\ (4 * g + p + 1 - 1) \div 4 = g /\ (4 * g + p + 1 - 1) % 4 = p
    BY SMT
  <2> QED
    BY <2>1, SMT DEF Base64
<1>a. v = a * 65536 + b * 256 + c
  BY SMT
<1> HIDE DEF a, b, c, v, id
<1>3. v \in Nat /\ v < 16777216
      /\ (v \div 65536) % 256 = a /\ (v \div 256) % 256 = b /\ (v \div 1) % 256 = c
  <2>1. Holds(v, a, b, c)
    BY <1>1, <1>a, SMTT(20) DEF Holds
  <2> QED
    BY <2>1, SMTT(20) DEF Holds
<1>4. /\ d(0) = (v \div 262144) % 64 /\ d(1) = (v \div 4096) % 64
      /\ d(2) = (v \div 64) % 64 /\ d(3) = (v \div 1) % 64
  BY SMT
<1>5. /\ \A p \in 0 .. 3 : d(p) \in 0 .. 63
      /\ ((d(0) * 64 + d(1)) * 64 + d(2)) * 64 + d(3) = v
  <2>1. /\ d(0) \in 0 .. 63 /\ d(1) \in 0 .. 63 /\ d(2) \in 0 .. 63 /\ d(3) \in 0 .. 63
        /\ ((d(0) * 64 + d(1)) * 64 + d(2)) * 64 + d(3) = v
    <3>1. /\ (v \div 262144) % 64 \in 0 .. 63 /\ (v \div 4096) % 64 \in 0 .. 63
          /\ (v \div 64) % 64 \in 0 .. 63 /\ (v \div 1) % 64 \in 0 .. 63
          /\ ((((v \div 262144) % 64) * 64 + ((v \div 4096) % 64)) * 64 + ((v \div 64) % 64)) * 64
               + ((v \div 1) % 64) = v
      <4>1. Spelt(v)
        BY <1>3, FourDigits, SMTT(20)
      <4> QED
        BY <4>1, SMTT(20) DEF Spelt
    <3> HIDE DEF d
    <3> QED
      BY <1>4, <3>1, SMTT(20)
  <2>2. \A p \in 0 .. 3 : p = 0 \/ p = 1 \/ p = 2 \/ p = 3
    BY SMT
  <2> HIDE DEF d
  <2> QED
    BY <2>1, <2>2, SMT
<1> HIDE DEF d
<1>6. ASSUME NEW p \in 0 .. 3
      PROVE  Value(id, 4 * g + p + 1) = d(p)
  BY <1>2, <1>5, SMT DEF Value
<1>7. /\ Value(id, 4 * g + 1) = d(0) /\ Value(id, 4 * g + 2) = d(1)
      /\ Value(id, 4 * g + 3) = d(2) /\ Value(id, 4 * g + 4) = d(3)
  <2>1. /\ 4 * g + 0 + 1 = 4 * g + 1 /\ 4 * g + 1 + 1 = 4 * g + 2
        /\ 4 * g + 2 + 1 = 4 * g + 3 /\ 4 * g + 3 + 1 = 4 * g + 4
    BY SMT
  <2>2. 0 \in 0 .. 3 /\ 1 \in 0 .. 3 /\ 2 \in 0 .. 3 /\ 3 \in 0 .. 3
    BY SMT
  <2>3. /\ Value(id, 4 * g + 0 + 1) = d(0) /\ Value(id, 4 * g + 1 + 1) = d(1)
        /\ Value(id, 4 * g + 2 + 1) = d(2) /\ Value(id, 4 * g + 3 + 1) = d(3)
    BY <1>6, <2>2, SMT
  <2> QED
    BY <2>1, <2>3, SMT
<1>8. DecodedByte(id, 3 * g + m) = (v \div 256 ^ (2 - m)) % 256
  <2>1. (3 * g + m) \div 3 = g /\ (3 * g + m) % 3 = m
    BY SMT
  <2> DEFINE w == ((Value(id, 4 * g + 1) * 64 + Value(id, 4 * g + 2)) * 64
                    + Value(id, 4 * g + 3)) * 64 + Value(id, 4 * g + 4)
  <2>2. DecodedByte(id, 3 * g + m) = (w \div (256 ^ (2 - m))) % 256
    BY <2>1, SMT DEF DecodedByte
  <2>3. w = v
    BY <1>5, <1>7, SMT
  <2> HIDE DEF w
  <2> QED
    BY <2>2, <2>3, SMT
<1>9. CASE m = 0
  <2>1. DecodedByte(id, 3 * g + m) = a
    BY <1>3, <1>8, <1>9, SMT
  <2> QED
    BY <1>9, <2>1, SMT DEF a, id
<1>10. CASE m = 1
  <2>1. DecodedByte(id, 3 * g + m) = b
    BY <1>3, <1>8, <1>10, SMT
  <2> QED
    BY <1>10, <2>1, SMT DEF b, id
<1>11. CASE m = 2
  <2>1. DecodedByte(id, 3 * g + m) = c
    BY <1>3, <1>8, <1>11, SMT
  <2> QED
    BY <1>11, <2>1, SMT DEF c, id
<1> QED
  BY <1>9, <1>10, <1>11, SMT

(* The last byte, alone in its group.                                      *)
LEMMA LastByte ==
  ASSUME NEW bytes \in [1 .. 16 -> 0 .. 255]
  PROVE  DecodedByte(Base64(bytes), 15) = bytes[16]
<1> DEFINE id == Base64(bytes)
           b == bytes[16]
<1>1. b \in 0 .. 255
  BY SMT
<1>2. id[21] = b \div 4 /\ id[22] = (b % 4) * 16 /\ id[23] = 64 /\ id[24] = 64
  <2>1. 21 \in 1 .. 24 /\ 22 \in 1 .. 24 /\ 23 \in 1 .. 24 /\ 24 \in 1 .. 24
    BY SMT
  <2> QED
    BY SMT DEF Base64
<1> HIDE DEF id, b
<1>3. /\ Value(id, 21) = b \div 4 /\ Value(id, 22) = (b % 4) * 16
      /\ Value(id, 23) = 0 /\ Value(id, 24) = 0
  BY <1>1, <1>2, SMT DEF Value
<1>4. DecodedByte(id, 15) = (((((b \div 4) * 64 + (b % 4) * 16) * 64 + 0) * 64 + 0) \div 65536) % 256
  <2>1. 15 \div 3 = 5 /\ 15 % 3 = 0 /\ 4 * 5 = 20 /\ 256 ^ (2 - 0) = 65536
    BY SMT
  <2>2. 20 + 1 = 21 /\ 20 + 2 = 22 /\ 20 + 3 = 23 /\ 20 + 4 = 24
    BY SMT
  <2> QED
    BY <1>3, <2>1, <2>2, SMT DEF DecodedByte
<1> QED
  BY <1>1, <1>4, SMT DEF b, id

(* Base64 of 16 bytes spells those bytes.                                  *)
LEMMA Base64Decodes ==
  ASSUME NEW bytes \in [1 .. 16 -> 0 .. 255]
  PROVE  /\ Base64(bytes) # NoId
         /\ \A k \in 0 .. 15 : DecodedByte(Base64(bytes), k) = bytes[k + 1]
<1>1. Base64(bytes) # NoId
  <2>1. DOMAIN Base64(bytes) = 1 .. 24 /\ DOMAIN NoId = {}
    BY DEF Base64, NoId
  <2>2. 1 \in 1 .. 24
    OBVIOUS
  <2> QED
    BY <2>1, <2>2
<1>2. ASSUME NEW k \in 0 .. 15
      PROVE  DecodedByte(Base64(bytes), k) = bytes[k + 1]
  <2>1. CASE k = 15
    <3>1. 15 + 1 = 16
      OBVIOUS
    <3> QED
      BY <2>1, <3>1, LastByte, Zenon
  <2>2. CASE k # 15
    <3>1. k \div 3 \in 0 .. 4 /\ k % 3 \in 0 .. 2 /\ 3 * (k \div 3) + (k % 3) = k
      BY <2>2
    <3>2. DecodedByte(Base64(bytes), 3 * (k \div 3) + (k % 3)) = bytes[3 * (k \div 3) + (k % 3) + 1]
      BY <3>1, GroupOfThree
    <3> QED
      BY <3>1, <3>2
  <2> QED
    BY <2>1, <2>2
<1> QED
  BY <1>1, <1>2

(* Whatever its characters, a name has an identifier exactly if it carries *)
(* a UUID, and the identifier then spells that UUID and nothing else       *)
(* (siprec_metadata_uuid_to_id).                                           *)
THEOREM EveryNameIdentifies ==
  ASSUME NEW S, NEW name \in Seq(S)
  PROVE  IdentifiesUuid(name)
<1> DEFINE uuid == Stripped(name)
<1>1. Len(uuid) \in Nat
  BY DEF Stripped
<1>a. uuid = Stripped(name)
  OBVIOUS
<1> HIDE DEF uuid
<1>2. /\ BytesOf(uuid) # NoId <=> IsUuid(uuid)
      /\ IsUuid(uuid) => /\ BytesOf(uuid) \in [1 .. 16 -> 0 .. 255]
                         /\ \A k \in 0 .. 15 : BytesOf(uuid)[k + 1] = ByteAt(uuid, k)
  BY <1>1, BytesAreTheDigits
<1>3. UuidToId(name) = IF BytesOf(uuid) = NoId THEN NoId ELSE Base64(BytesOf(uuid))
  BY <1>a DEF UuidToId
<1>4. CarriesUuid(name) <=> IsUuid(uuid)
  BY <1>a DEF CarriesUuid
<1>5. ASSUME IsUuid(uuid)
      PROVE  /\ UuidToId(name) # NoId
             /\ \A k \in 0 .. 15 : DecodedByte(UuidToId(name), k) = ByteAt(uuid, k)
  BY <1>2, <1>3, <1>5, Base64Decodes
<1>6. ~IsUuid(uuid) => UuidToId(name) = NoId
  BY <1>2, <1>3
<1> QED
  BY <1>a, <1>4, <1>5, <1>6 DEF IdentifiesUuid, ByteAt

-----------------------------------------------------------------------------
(* The document.                                                           *)

(* The parties of a call never lack an AOR: what has none is "unknown".    *)
LEMMA AorsAreSet ==
  ASSUME NEW c \in Calls, NEW made
  PROVE  Aors(c, made).caller # Unset /\ Aors(c, made).callee # Unset
<1>1. ASSUME NEW raw \in Parties, NEW host, raw # Unset
      PROVE  MetadataAor(raw, host) # Unset
  BY <1>1 DEF MetadataAor, Unset, Parties
<1>2. c.from \in Parties /\ c.fromNumber \in Parties /\ c.to \in Parties /\ c.toNumber \in Parties
  BY StartAssumption
<1>3. Unknown # Unset
  BY DEF Unknown, Unset
<1> HIDE DEF MetadataAor, Unset, Unknown
<1> QED
  BY <1>1, <1>2, <1>3 DEF Aors, RecordingAor

(* The identifier of the session is the call's where its name has one.     *)
LEMMA SessionIds ==
  ASSUME NEW c \in Calls
  PROVE  SessionId(c.name, FreshUuid) = IF CarriesUuid(c.name) THEN "call" ELSE "fresh"
<1>1. ASSUME NEW name \in ChannelNames \cup {FreshUuid}
      PROVE  CarriesUuid(name) <=> UuidToId(name) # NoId
  <2>1. name \in Seq(STRING)
    BY StartAssumption
  <2>2. IdentifiesUuid(name)
    BY <2>1, EveryNameIdentifies
  <2> QED
    BY <2>2, Zenon DEF IdentifiesUuid
<1>2. c.name \in ChannelNames /\ CarriesUuid(FreshUuid)
  BY StartAssumption
<1> HIDE DEF UuidToId, NoId, CarriesUuid
<1> QED
  BY <1>1, <1>2 DEF SessionId

(* What start_recording_session fills in is never refused.                 *)
LEMMA OptionsAreValid ==
  ASSUME NEW c \in Calls, NEW made, NEW two \in BOOLEAN
  PROVE  ValidOptions(OptionsOf(c, Aors(c, made), two))
<1> DEFINE o == OptionsOf(c, Aors(c, made), two)
           near == [id |-> "stream", mode |-> "send", label |-> "1",
                    who |-> StreamOne(c.direction, two)]
           far == [id |-> "stream2", mode |-> "send", label |-> "2",
                   who |-> 3 - Rx(c.direction)]
<1>1. o.session_id # ""
  BY SessionIds DEF OptionsOf, Options
<1>2. o.participants = <<[id |-> "caller", aor |-> Aors(c, made).caller],
                         [id |-> "callee", aor |-> Aors(c, made).callee]>>
  BY DEF OptionsOf, Options
<1>3. o.streams = SubSeq(<<near, far>>, 1, IF two THEN 2 ELSE 1)
  BY DEF OptionsOf, Options
<1>4. \A i \in 1 .. Len(o.streams) : o.streams[i] = near \/ o.streams[i] = far
  <2> HIDE DEF near, far
  <2>1. CASE two
    BY <1>3, <2>1
  <2>2. CASE ~two
    BY <1>3, <2>2
  <2> QED
    BY <2>1, <2>2
<1>5. near.id # "" /\ far.id # "" /\ near.who \in 1 .. 2 /\ far.who \in 1 .. 2
  BY DEF StreamOne, Rx
<1> HIDE DEF o, near, far
<1>6. /\ Len(o.participants) = 2 /\ o.participants # << >>
      /\ \A i \in 1 .. 2 : o.participants[i].id # "" /\ o.participants[i].aor # Unset
  <2>1. Aors(c, made).caller # Unset /\ Aors(c, made).callee # Unset
    BY AorsAreSet
  <2> HIDE DEF Aors, Unset
  <2>2. Len(o.participants) = 2 /\ o.participants # << >>
    BY <1>2
  <2>3. /\ o.participants[1].id = "caller" /\ o.participants[1].aor = Aors(c, made).caller
        /\ o.participants[2].id = "callee" /\ o.participants[2].aor = Aors(c, made).callee
    BY <1>2
  <2>4. \A i \in 1 .. 2 : i = 1 \/ i = 2
    OBVIOUS
  <2> QED
    BY <2>1, <2>2, <2>3, <2>4
<1>7. ValidOptions(o)
  BY <1>1, <1>4, <1>5, <1>6 DEF ValidOptions
<1> QED
  BY <1>7 DEF o

(* The elements of a document, spelled out.                                *)
GroupOf(o) == [tag |-> "group", id |-> o.group_id, time |-> o.time]
SessionOf(o) ==
  [tag |-> "session", id |-> o.session_id, group |-> o.group_id, time |-> o.time]
StreamOf(o, i) ==
  [tag |-> "stream", id |-> o.streams[i].id, session |-> o.session_id,
   label |-> o.streams[i].label]
AttendsOf(o, i) ==
  [tag |-> "participantsessionassoc", participant |-> o.participants[i].id,
   session |-> o.session_id, time |-> o.time]
SendsOf(o, i) ==
  [tag |-> "participantstreamassoc", stream |-> o.streams[i].id, mode |-> o.streams[i].mode,
   participant |-> o.participants[o.streams[i].who].id]

(* m participants and n streams: one after the other, in the order in      *)
(* which siprec_metadata_build appends them.                               *)
SpelledOut(doc, o, m, n) ==
  /\ Len(doc) = 4 + m + n + m + n + 1
  /\ doc[1].tag = "recording" /\ doc[2].tag = "datamode"
  /\ doc[3] = GroupOf(o) /\ doc[4] = SessionOf(o)
  /\ \A i \in 1 .. m : doc[4 + i] = Participant(o.participants[i])
  /\ \A i \in 1 .. n : doc[4 + m + i] = StreamOf(o, i)
  /\ \A i \in 1 .. m : doc[4 + m + n + i] = AttendsOf(o, i)
  /\ \A i \in 1 .. n : doc[4 + m + n + m + i] = SendsOf(o, i)
  /\ doc[4 + m + n + m + n + 1].tag = "end"

IsSeq(s) == \E S : s \in Seq(S)

(* Two sequences one after the other.                                      *)
LEMMA Joined ==
  ASSUME NEW s, NEW t, IsSeq(s), IsSeq(t)
  PROVE  /\ IsSeq(s \o t) /\ Len(s \o t) = Len(s) + Len(t)
         /\ Len(s) \in Nat /\ Len(t) \in Nat
         /\ \A i \in 1 .. Len(s) : (s \o t)[i] = s[i]
         /\ \A i \in 1 .. Len(t) : (s \o t)[Len(s) + i] = t[i]
<1>1. PICK S, T : s \in Seq(S) /\ t \in Seq(T)
  BY DEF IsSeq
<1>2. s \in Seq(S \cup T) /\ t \in Seq(S \cup T)
  BY <1>1
<1>3. s \o t \in Seq(S \cup T)
  BY <1>2
<1>4. IsSeq(s \o t)
  BY <1>3 DEF IsSeq
<1> QED
  BY <1>2, <1>4

(* One element for each member of a sequence.                              *)
LEMMA EachIsSeq ==
  ASSUME NEW n \in Nat, NEW s, s = [i \in 1 .. n |-> s[i]]
  PROVE  IsSeq(s) /\ Len(s) = n
<1>1. s \in [1 .. n -> {s[i] : i \in 1 .. n}]
  OBVIOUS
<1>2. s \in Seq({s[i] : i \in 1 .. n}) /\ Len(s) = n
  BY <1>1
<1> QED
  BY <1>2 DEF IsSeq

(* A tuple of one or two.                                                  *)
LEMMA TuplesAreSeqs ==
  ASSUME NEW a, NEW b
  PROVE  /\ IsSeq(<<a>>) /\ Len(<<a>>) = 1 /\ <<a>>[1] = a
         /\ IsSeq(<<a, b>>) /\ Len(<<a, b>>) = 2 /\ <<a, b>>[1] = a /\ <<a, b>>[2] = b
<1>1. <<a>> \in Seq({a, b}) /\ <<a, b>> \in Seq({a, b})
  OBVIOUS
<1>2. IsSeq(<<a>>) /\ IsSeq(<<a, b>>)
  BY <1>1 DEF IsSeq
<1> QED
  BY <1>2

(* Eight sequences in a row, two of m and two of n elements among them.    *)
Row(m, n, front, groups, session, parties, strms, attends, sends, back, all) ==
  /\ IsSeq(front) /\ Len(front) = 2 /\ IsSeq(groups) /\ Len(groups) = 1
  /\ IsSeq(session) /\ Len(session) = 1 /\ IsSeq(back) /\ Len(back) = 1
  /\ IsSeq(parties) /\ Len(parties) = m /\ IsSeq(strms) /\ Len(strms) = n
  /\ IsSeq(attends) /\ Len(attends) = m /\ IsSeq(sends) /\ Len(sends) = n
  /\ all = front \o groups \o session \o parties \o strms \o attends \o sends \o back

(* Where each element of a row stands.                                     *)
LEMMA InARow ==
  ASSUME NEW m \in Nat, NEW n \in Nat,
         NEW front, NEW groups, NEW session, NEW parties, NEW strms, NEW attends,
         NEW sends, NEW back, NEW all,
         Row(m, n, front, groups, session, parties, strms, attends, sends, back, all)
  PROVE  /\ IsSeq(all) /\ Len(all) = 4 + m + n + m + n + 1
         /\ all[1] = front[1] /\ all[2] = front[2] /\ all[3] = groups[1] /\ all[4] = session[1]
         /\ \A i \in 1 .. m : all[4 + i] = parties[i]
         /\ \A i \in 1 .. n : all[4 + m + i] = strms[i]
         /\ \A i \in 1 .. m : all[4 + m + n + i] = attends[i]
         /\ \A i \in 1 .. n : all[4 + m + n + m + i] = sends[i]
         /\ all[4 + m + n + m + n + 1] = back[1]
<1>1. PICK d1 : d1 = front \o groups
  OBVIOUS
<1>2. PICK d2 : d2 = d1 \o session
  OBVIOUS
<1>3. PICK d3 : d3 = d2 \o parties
  OBVIOUS
<1>4. PICK d4 : d4 = d3 \o strms
  OBVIOUS
<1>5. PICK d5 : d5 = d4 \o attends
  OBVIOUS
<1>6. PICK d6 : d6 = d5 \o sends
  OBVIOUS
<1>7. PICK d7 : d7 = d6 \o back
  OBVIOUS
<1>8. /\ IsSeq(d1) /\ Len(d1) = 3
      /\ \A i \in 1 .. 2 : d1[i] = front[i]
      /\ \A i \in 1 .. 1 : d1[2 + i] = groups[i]
  <2>1. IsSeq(front) /\ IsSeq(groups) /\ Len(front) = 2 /\ Len(groups) = 1
    BY DEF Row
  <2>2. /\ IsSeq(d1) /\ Len(d1) = Len(front) + Len(groups)
        /\ \A i \in 1 .. Len(front) : d1[i] = front[i]
        /\ \A i \in 1 .. Len(groups) : d1[Len(front) + i] = groups[i]
    <3>1. IsSeq(front) /\ IsSeq(groups)
      BY <2>1
    <3> QED
      BY ONLY <1>1, <3>1, Joined
  <2> QED
    BY <2>1, <2>2
<1>9. /\ IsSeq(d2) /\ Len(d2) = 4
      /\ \A i \in 1 .. 3 : d2[i] = d1[i]
      /\ \A i \in 1 .. 1 : d2[3 + i] = session[i]
  <2>1. IsSeq(d1) /\ IsSeq(session) /\ Len(d1) = 3 /\ Len(session) = 1
    BY <1>8 DEF Row
  <2>2. /\ IsSeq(d2) /\ Len(d2) = Len(d1) + Len(session)
        /\ \A i \in 1 .. Len(d1) : d2[i] = d1[i]
        /\ \A i \in 1 .. Len(session) : d2[Len(d1) + i] = session[i]
    <3>1. IsSeq(d1) /\ IsSeq(session)
      BY <2>1
    <3> QED
      BY ONLY <1>2, <3>1, Joined
  <2> QED
    BY <2>1, <2>2
<1>10. /\ IsSeq(d3) /\ Len(d3) = 4 + m
       /\ \A i \in 1 .. 4 : d3[i] = d2[i]
       /\ \A i \in 1 .. m : d3[4 + i] = parties[i]
  <2>1. IsSeq(d2) /\ IsSeq(parties) /\ Len(d2) = 4 /\ Len(parties) = m
    BY <1>9 DEF Row
  <2>2. /\ IsSeq(d3) /\ Len(d3) = Len(d2) + Len(parties)
        /\ \A i \in 1 .. Len(d2) : d3[i] = d2[i]
        /\ \A i \in 1 .. Len(parties) : d3[Len(d2) + i] = parties[i]
    <3>1. IsSeq(d2) /\ IsSeq(parties)
      BY <2>1
    <3> QED
      BY ONLY <1>3, <3>1, Joined
  <2> QED
    BY <2>1, <2>2
<1>11. /\ IsSeq(d4) /\ Len(d4) = 4 + m + n
       /\ \A i \in 1 .. 4 + m : d4[i] = d3[i]
       /\ \A i \in 1 .. n : d4[4 + m + i] = strms[i]
  <2>1. IsSeq(d3) /\ IsSeq(strms) /\ Len(d3) = 4 + m /\ Len(strms) = n
    BY <1>10 DEF Row
  <2>2. /\ IsSeq(d4) /\ Len(d4) = Len(d3) + Len(strms)
        /\ \A i \in 1 .. Len(d3) : d4[i] = d3[i]
        /\ \A i \in 1 .. Len(strms) : d4[Len(d3) + i] = strms[i]
    <3>1. IsSeq(d3) /\ IsSeq(strms)
      BY <2>1
    <3> QED
      BY ONLY <1>4, <3>1, Joined
  <2> QED
    BY <2>1, <2>2
<1>12. /\ IsSeq(d5) /\ Len(d5) = 4 + m + n + m
       /\ \A i \in 1 .. 4 + m + n : d5[i] = d4[i]
       /\ \A i \in 1 .. m : d5[4 + m + n + i] = attends[i]
  <2>1. IsSeq(d4) /\ IsSeq(attends) /\ Len(d4) = 4 + m + n /\ Len(attends) = m
    BY <1>11 DEF Row
  <2>2. /\ IsSeq(d5) /\ Len(d5) = Len(d4) + Len(attends)
        /\ \A i \in 1 .. Len(d4) : d5[i] = d4[i]
        /\ \A i \in 1 .. Len(attends) : d5[Len(d4) + i] = attends[i]
    <3>1. IsSeq(d4) /\ IsSeq(attends)
      BY <2>1
    <3> QED
      BY ONLY <1>5, <3>1, Joined
  <2> QED
    BY <2>1, <2>2
<1>13. /\ IsSeq(d6) /\ Len(d6) = 4 + m + n + m + n
       /\ \A i \in 1 .. 4 + m + n + m : d6[i] = d5[i]
       /\ \A i \in 1 .. n : d6[4 + m + n + m + i] = sends[i]
  <2>1. IsSeq(d5) /\ IsSeq(sends) /\ Len(d5) = 4 + m + n + m /\ Len(sends) = n
    BY <1>12 DEF Row
  <2>2. /\ IsSeq(d6) /\ Len(d6) = Len(d5) + Len(sends)
        /\ \A i \in 1 .. Len(d5) : d6[i] = d5[i]
        /\ \A i \in 1 .. Len(sends) : d6[Len(d5) + i] = sends[i]
    <3>1. IsSeq(d5) /\ IsSeq(sends)
      BY <2>1
    <3> QED
      BY ONLY <1>6, <3>1, Joined
  <2> QED
    BY <2>1, <2>2
<1>14. /\ IsSeq(d7) /\ Len(d7) = 4 + m + n + m + n + 1
       /\ \A i \in 1 .. 4 + m + n + m + n : d7[i] = d6[i]
       /\ \A i \in 1 .. 1 : d7[4 + m + n + m + n + i] = back[i]
  <2>1. IsSeq(d6) /\ IsSeq(back) /\ Len(d6) = 4 + m + n + m + n /\ Len(back) = 1
    BY <1>13 DEF Row
  <2>2. /\ IsSeq(d7) /\ Len(d7) = Len(d6) + Len(back)
        /\ \A i \in 1 .. Len(d6) : d7[i] = d6[i]
        /\ \A i \in 1 .. Len(back) : d7[Len(d6) + i] = back[i]
    <3>1. IsSeq(d6) /\ IsSeq(back)
      BY <2>1
    <3> QED
      BY ONLY <1>7, <3>1, Joined
  <2> QED
    BY <2>1, <2>2
<1>15. \A i \in 1 .. 4 + m + n + m : d7[i] = d5[i]
  BY <1>13, <1>14
<1>16. \A i \in 1 .. 4 + m + n : d7[i] = d4[i]
  BY <1>12, <1>15
<1>17. \A i \in 1 .. 4 + m : d7[i] = d3[i]
  BY <1>11, <1>16
<1>18. \A i \in 1 .. 4 : d7[i] = d2[i]
  BY <1>10, <1>17
<1>19. d7[1] = front[1] /\ d7[2] = front[2] /\ d7[3] = groups[1] /\ d7[4] = session[1]
  <2>1. d2[4] = session[1] /\ d1[3] = groups[1] /\ d1[1] = front[1] /\ d1[2] = front[2]
    <3>1. 1 \in 1 .. 1 /\ 3 + 1 = 4 /\ 2 + 1 = 3
      OBVIOUS
    <3>2. d2[3 + 1] = session[1] /\ d1[2 + 1] = groups[1]
      BY <1>8, <1>9, <3>1
    <3> QED
      BY <1>8, <3>1, <3>2
  <2> QED
    BY <1>9, <1>18, <2>1
<1>20. ASSUME NEW i \in 1 .. m PROVE d7[4 + i] = parties[i]
  <2>1. 4 + i \in 1 .. 4 + m
    OBVIOUS
  <2> QED
    BY <1>10, <1>17, <2>1
<1>21. ASSUME NEW i \in 1 .. n PROVE d7[4 + m + i] = strms[i]
  <2>1. 4 + m + i \in 1 .. 4 + m + n
    OBVIOUS
  <2> QED
    BY <1>11, <1>16, <2>1
<1>22. \A i \in 1 .. m : d7[4 + m + n + i] = attends[i]
  BY <1>12, <1>15
<1>23. \A i \in 1 .. n : d7[4 + m + n + m + i] = sends[i]
  BY <1>13, <1>14
<1>24. d7[4 + m + n + m + n + 1] = back[1]
  BY <1>14
<1>25. d7 = all
  BY <1>1, <1>2, <1>3, <1>4, <1>5, <1>6, <1>7 DEF Row
<1> QED
  BY <1>14, <1>19, <1>20, <1>21, <1>22, <1>23, <1>24, <1>25

(* The document of any options with a group.                               *)
LEMMA ElementsSpelledOut ==
  ASSUME NEW o, o.group_id # "", NEW m \in Nat, NEW n \in Nat,
         Len(o.participants) = m, Len(o.streams) = n
  PROVE  SpelledOut(Elements(o), o, m, n) /\ IsSeq(Elements(o))
<1> DEFINE front == <<[tag |-> "recording"], [tag |-> "datamode", mode |-> o.datamode]>>
           groups == <<GroupOf(o)>>
           session == <<SessionOf(o)>>
           parties == [i \in 1 .. m |-> Participant(o.participants[i])]
           strms == [i \in 1 .. n |-> StreamOf(o, i)]
           attends == [i \in 1 .. m |-> AttendsOf(o, i)]
           sends == [i \in 1 .. n |-> SendsOf(o, i)]
           back == <<[tag |-> "end"]>>
<1>1. Elements(o) = front \o groups \o session \o parties \o strms \o attends \o sends \o back
  <2>1. Groups(o) = groups /\ Sessions(o) = session
    BY DEF Groups, Sessions, GroupOf, SessionOf
  <2>2. Each(o.participants, Participant) = parties
    BY DEF Each
  <2>3. Streams(o) = strms
    BY DEF Streams, Each, StreamOf
  <2>4. SessionAssocs(o) = attends
    BY DEF SessionAssocs, Each, AttendsOf
  <2>5. StreamAssocs(o) = sends
    BY DEF StreamAssocs, Each, SendsOf
  <2> HIDE DEF front, groups, session, parties, strms, attends, sends, back
  <2> QED
    BY <2>1, <2>2, <2>3, <2>4, <2>5 DEF Elements, front, back
<1>2. /\ IsSeq(front) /\ Len(front) = 2 /\ front[1].tag = "recording" /\ front[2].tag = "datamode"
      /\ IsSeq(groups) /\ Len(groups) = 1 /\ groups[1] = GroupOf(o)
      /\ IsSeq(session) /\ Len(session) = 1 /\ session[1] = SessionOf(o)
      /\ IsSeq(back) /\ Len(back) = 1 /\ back[1].tag = "end"
  BY TuplesAreSeqs
<1>3. /\ IsSeq(parties) /\ Len(parties) = m /\ \A i \in 1 .. m : parties[i] = Participant(o.participants[i])
      /\ IsSeq(attends) /\ Len(attends) = m /\ \A i \in 1 .. m : attends[i] = AttendsOf(o, i)
  BY EachIsSeq
<1>4. /\ IsSeq(strms) /\ Len(strms) = n /\ \A i \in 1 .. n : strms[i] = StreamOf(o, i)
      /\ IsSeq(sends) /\ Len(sends) = n /\ \A i \in 1 .. n : sends[i] = SendsOf(o, i)
  BY EachIsSeq
<1> HIDE DEF front, groups, session, parties, strms, attends, sends, back
<1>5. /\ IsSeq(Elements(o)) /\ Len(Elements(o)) = 4 + m + n + m + n + 1
      /\ Elements(o)[1] = front[1] /\ Elements(o)[2] = front[2]
      /\ Elements(o)[3] = groups[1] /\ Elements(o)[4] = session[1]
      /\ \A i \in 1 .. m : Elements(o)[4 + i] = parties[i]
      /\ \A i \in 1 .. n : Elements(o)[4 + m + i] = strms[i]
      /\ \A i \in 1 .. m : Elements(o)[4 + m + n + i] = attends[i]
      /\ \A i \in 1 .. n : Elements(o)[4 + m + n + m + i] = sends[i]
      /\ Elements(o)[4 + m + n + m + n + 1] = back[1]
  <2>1. Row(m, n, front, groups, session, parties, strms, attends, sends, back, Elements(o))
    BY <1>1, <1>2, <1>3, <1>4 DEF Row
  <2> QED
    BY ONLY <2>1, InARow
<1> QED
  BY <1>2, <1>3, <1>4, <1>5 DEF SpelledOut

(* Which element stands where.                                             *)
TagAt(i, m, n) ==
  CASE i = 1 -> "recording" [] i = 2 -> "datamode" [] i = 3 -> "group" [] i = 4 -> "session"
    [] i \in 5 .. 4 + m -> "participant"
    [] i \in 5 + m .. 4 + m + n -> "stream"
    [] i \in 5 + m + n .. 4 + m + n + m -> "participantsessionassoc"
    [] i \in 5 + m + n + m .. 4 + m + n + m + n -> "participantstreamassoc"
    [] OTHER -> "end"

(* Each element has the tag of its place.                                  *)
LEMMA TagsInPlace ==
  ASSUME NEW doc, NEW o, NEW m \in Nat, NEW n \in Nat, SpelledOut(doc, o, m, n)
  PROVE  \A i \in 1 .. Len(doc) : doc[i].tag = TagAt(i, m, n)
<1>0. Len(doc) = 4 + m + n + m + n + 1
  BY DEF SpelledOut
<1>1. /\ doc[1].tag = "recording" /\ doc[2].tag = "datamode" /\ doc[3].tag = "group"
      /\ doc[4].tag = "session"
  BY DEF SpelledOut, GroupOf, SessionOf
<1>2. ASSUME NEW i \in 5 .. 4 + m
      PROVE  doc[i].tag = "participant"
  <2>1. PICK k \in 1 .. m : 4 + k = i
    <3>1. i - (4) \in 1 .. m /\ 4 + (i - (4)) = i
      OBVIOUS
    <3> QED
      BY <3>1
  <2>2. doc[4 + k] = Participant(o.participants[k])
    BY <2>1 DEF SpelledOut
  <2> QED
    BY <2>1, <2>2 DEF Participant
<1>3. ASSUME NEW i \in 5 + m .. 4 + m + n
      PROVE  doc[i].tag = "stream"
  <2>1. PICK k \in 1 .. n : 4 + m + k = i
    <3>1. i - (4 + m) \in 1 .. n /\ 4 + m + (i - (4 + m)) = i
      OBVIOUS
    <3> QED
      BY <3>1
  <2>2. doc[4 + m + k] = StreamOf(o, k)
    BY <2>1 DEF SpelledOut
  <2> QED
    BY <2>1, <2>2 DEF StreamOf
<1>4. ASSUME NEW i \in 5 + m + n .. 4 + m + n + m
      PROVE  doc[i].tag = "participantsessionassoc"
  <2>1. PICK k \in 1 .. m : 4 + m + n + k = i
    <3>1. i - (4 + m + n) \in 1 .. m /\ 4 + m + n + (i - (4 + m + n)) = i
      OBVIOUS
    <3> QED
      BY <3>1
  <2>2. doc[4 + m + n + k] = AttendsOf(o, k)
    BY <2>1 DEF SpelledOut
  <2> QED
    BY <2>1, <2>2 DEF AttendsOf
<1>5. ASSUME NEW i \in 5 + m + n + m .. 4 + m + n + m + n
      PROVE  doc[i].tag = "participantstreamassoc"
  <2>1. PICK k \in 1 .. n : 4 + m + n + m + k = i
    <3>1. i - (4 + m + n + m) \in 1 .. n /\ 4 + m + n + m + (i - (4 + m + n + m)) = i
      OBVIOUS
    <3> QED
      BY <3>1
  <2>2. doc[4 + m + n + m + k] = SendsOf(o, k)
    BY <2>1 DEF SpelledOut
  <2> QED
    BY <2>1, <2>2 DEF SendsOf
<1>6. doc[4 + m + n + m + n + 1].tag = "end"
  BY DEF SpelledOut
<1>7. ASSUME NEW i \in 1 .. Len(doc)
      PROVE  \/ i \in 1 .. 4 \/ i \in 5 .. 4 + m \/ i \in 5 + m .. 4 + m + n
             \/ i \in 5 + m + n .. 4 + m + n + m
             \/ i \in 5 + m + n + m .. 4 + m + n + m + n \/ i = 4 + m + n + m + n + 1
  BY <1>0
<1>8. ASSUME NEW i \in 1 .. Len(doc)
      PROVE  doc[i].tag = TagAt(i, m, n)
  <2>1. CASE i \in 1 .. 4
    BY <1>1, <2>1, SMTT(30) DEF TagAt
  <2>2. CASE i \in 5 .. 4 + m
    BY <1>2, <2>2, SMTT(30) DEF TagAt
  <2>3. CASE i \in 5 + m .. 4 + m + n
    BY <1>3, <2>3, SMTT(30) DEF TagAt
  <2>4. CASE i \in 5 + m + n .. 4 + m + n + m
    BY <1>4, <2>4, SMTT(30) DEF TagAt
  <2>5. CASE i \in 5 + m + n + m .. 4 + m + n + m + n
    BY <1>5, <2>5 DEF TagAt
  <2>6. CASE i = 4 + m + n + m + n + 1
    BY <1>6, <2>6 DEF TagAt
  <2> QED
    BY <1>7, <1>8, <2>1, <2>2, <2>3, <2>4, <2>5, <2>6
<1> QED
  BY <1>8

(* The places with a tag are l in a row, after the first ones.             *)
Stretch(doc, m, n, tag, first, l) ==
  /\ first \in Nat /\ l \in Nat /\ first + l <= Len(doc)
  /\ \A i \in 1 .. Len(doc) : TagAt(i, m, n) = tag <=> i \in first + 1 .. first + l

Slice(doc, first, l) == {doc[first + i] : i \in 1 .. l}

(* The elements of each kind.                                              *)
ByKind(doc, o, m, n) ==
  /\ Tagged(doc, "session") = {SessionOf(o)}
  /\ Tagged(doc, "participant") = {Participant(o.participants[i]) : i \in 1 .. m}
  /\ Tagged(doc, "stream") = {StreamOf(o, i) : i \in 1 .. n}
  /\ Tagged(doc, "participantsessionassoc") = {AttendsOf(o, i) : i \in 1 .. m}
  /\ Tagged(doc, "participantstreamassoc") = {SendsOf(o, i) : i \in 1 .. n}

(* A document has these elements of each kind.                             *)
LEMMA ElementsByKind ==
  ASSUME NEW doc, NEW o, NEW m \in Nat, NEW n \in Nat, SpelledOut(doc, o, m, n)
  PROVE  ByKind(doc, o, m, n)
<1>0. Len(doc) = 4 + m + n + m + n + 1
  BY DEF SpelledOut
<1>1. \A i \in 1 .. Len(doc) : doc[i].tag = TagAt(i, m, n)
  BY TagsInPlace
<1>2. ASSUME NEW tag, NEW first, NEW l, Stretch(doc, m, n, tag, first, l)
      PROVE  Tagged(doc, tag) = Slice(doc, first, l)
  <2>1. {j \in 1 .. Len(doc) : doc[j].tag = tag} = first + 1 .. first + l
    BY <1>0, <1>1, <1>2 DEF Stretch
  <2>2. Tagged(doc, tag) = {doc[j] : j \in first + 1 .. first + l}
    BY <2>1 DEF Tagged
  <2>3. ASSUME NEW i \in 1 .. l
        PROVE  doc[first + i] \in {doc[j] : j \in first + 1 .. first + l}
    <3>1. first + i \in first + 1 .. first + l
      BY <1>2 DEF Stretch
    <3> QED
      BY <3>1
  <2>4. ASSUME NEW j \in first + 1 .. first + l
        PROVE  doc[j] \in {doc[first + i] : i \in 1 .. l}
    <3>1. j - first \in 1 .. l /\ first + (j - first) = j
      BY <1>2 DEF Stretch
    <3> QED
      BY <3>1
  <2> QED
    BY <2>2, <2>3, <2>4 DEF Slice
<1>3. Tagged(doc, "session") = Slice(doc, 3, 1)
  <2>1. Stretch(doc, m, n, "session", 3, 1)
    BY <1>0, SMTT(30) DEF TagAt, Stretch
  <2> QED
    BY <1>2, <2>1
<1>4. Tagged(doc, "participant") = Slice(doc, 4, m)
  <2>1. Stretch(doc, m, n, "participant", 4, m)
    BY <1>0, SMTT(30) DEF TagAt, Stretch
  <2> QED
    BY <1>2, <2>1
<1>5. Tagged(doc, "stream") = Slice(doc, 4 + m, n)
  <2>1. Stretch(doc, m, n, "stream", 4 + m, n)
    BY <1>0, SMTT(30) DEF TagAt, Stretch
  <2> QED
    BY <1>2, <2>1
<1>6. Tagged(doc, "participantsessionassoc") = Slice(doc, 4 + m + n, m)
  <2>1. Stretch(doc, m, n, "participantsessionassoc", 4 + m + n, m)
    BY <1>0, SMTT(30) DEF TagAt, Stretch
  <2> QED
    BY <1>2, <2>1
<1>7. Tagged(doc, "participantstreamassoc") = Slice(doc, 4 + m + n + m, n)
  <2>1. Stretch(doc, m, n, "participantstreamassoc", 4 + m + n + m, n)
    BY <1>0, SMTT(30) DEF TagAt, Stretch
  <2> QED
    BY <1>2, <2>1
<1>8. Slice(doc, 3, 1) = {SessionOf(o)}
  BY DEF SpelledOut, Slice
<1>9. /\ Slice(doc, 4, m) = {Participant(o.participants[i]) : i \in 1 .. m}
      /\ Slice(doc, 4 + m, n) = {StreamOf(o, i) : i \in 1 .. n}
  BY DEF SpelledOut, Slice
<1>10. /\ Slice(doc, 4 + m + n, m) = {AttendsOf(o, i) : i \in 1 .. m}
       /\ Slice(doc, 4 + m + n + m, n) = {SendsOf(o, i) : i \in 1 .. n}
  BY DEF SpelledOut, Slice
<1> QED
  BY <1>3, <1>4, <1>5, <1>6, <1>7, <1>8, <1>9, <1>10 DEF ByKind

(* The elements come in the order of the schema.                           *)
LEMMA InSchemaOrder ==
  ASSUME NEW doc, NEW o, NEW m \in Nat, NEW n \in Nat, SpelledOut(doc, o, m, n)
  PROVE  /\ \A i, j \in 1 .. Len(doc) : i < j => Rank[doc[i].tag] <= Rank[doc[j].tag]
         /\ doc[1].tag = "recording" /\ doc[Len(doc)].tag = "end"
<1>0. Len(doc) = 4 + m + n + m + n + 1
  BY DEF SpelledOut
<1>1. \A i \in 1 .. Len(doc) : doc[i].tag = TagAt(i, m, n)
  BY TagsInPlace
<1>2. /\ Rank["recording"] = 1 /\ Rank["datamode"] = 2 /\ Rank["group"] = 3
      /\ Rank["session"] = 4 /\ Rank["participant"] = 5 /\ Rank["stream"] = 6
      /\ Rank["participantsessionassoc"] = 7 /\ Rank["participantstreamassoc"] = 8
      /\ Rank["end"] = 9
  BY DEF Rank
<1>3. ASSUME NEW i \in 1 .. Len(doc)
      PROVE  Rank[TagAt(i, m, n)] =
               IF i <= 4 THEN i ELSE IF i <= 4 + m THEN 5 ELSE IF i <= 4 + m + n THEN 6
               ELSE IF i <= 4 + m + n + m THEN 7 ELSE IF i <= 4 + m + n + m + n THEN 8 ELSE 9
  <2>1. CASE i \in 1 .. 4
    <3>1. CASE i = 1
      BY <1>2, <3>1, SMTT(30) DEF TagAt
    <3>2. CASE i = 2
      BY <1>2, <3>2, SMTT(30) DEF TagAt
    <3>3. CASE i = 3
      BY <1>2, <3>3, SMTT(30) DEF TagAt
    <3>4. CASE i = 4
      BY <1>2, <3>4, SMTT(30) DEF TagAt
    <3> QED
      BY <2>1, <3>1, <3>2, <3>3, <3>4
  <2>2. CASE i \in 5 .. 4 + m
    BY <1>2, <2>2, SMTT(30) DEF TagAt
  <2>3. CASE i \in 5 + m .. 4 + m + n
    BY <1>2, <2>3, SMTT(30) DEF TagAt
  <2>4. CASE i \in 5 + m + n .. 4 + m + n + m
    BY <1>2, <2>4, SMTT(30) DEF TagAt
  <2>5. CASE i \in 5 + m + n + m .. 4 + m + n + m + n
    BY <1>2, <2>5, SMTT(30) DEF TagAt
  <2>6. CASE i = 4 + m + n + m + n + 1
    BY <1>2, <2>6, SMTT(30) DEF TagAt
  <2> QED
    BY <1>0, <2>1, <2>2, <2>3, <2>4, <2>5, <2>6
<1>4. \A i, j \in 1 .. Len(doc) : i < j => Rank[TagAt(i, m, n)] <= Rank[TagAt(j, m, n)]
  BY <1>0, <1>3
<1>5. doc[1].tag = "recording" /\ doc[Len(doc)].tag = "end"
  BY <1>0 DEF SpelledOut
<1> QED
  BY <1>1, <1>4, <1>5

(* The document of a call: two participants and a stream for each of them, *)
(* or one for both.                                                        *)
LEMMA CallDocument ==
  ASSUME NEW c \in Calls, NEW made, NEW two \in BOOLEAN
  PROVE  LET o == OptionsOf(c, Aors(c, made), two)
             aors == Aors(c, made)
             doc == Elements(o)
             rx == Rx(c.direction)
         IN /\ SpelledOut(doc, o, 2, IF two THEN 2 ELSE 1) /\ IsSeq(doc)
            /\ Tagged(doc, "session") = {SessionOf(o)} /\ SessionOf(o).id = o.session_id
            /\ Tagged(doc, "participant") =
                 {[tag |-> "participant", id |-> "caller", aor |-> aors.caller],
                  [tag |-> "participant", id |-> "callee", aor |-> aors.callee]}
            /\ Tagged(doc, "stream") = {StreamOf(o, i) : i \in 1 .. IF two THEN 2 ELSE 1}
            /\ Tagged(doc, "participantsessionassoc") = {AttendsOf(o, i) : i \in 1 .. 2}
            /\ Tagged(doc, "participantstreamassoc") =
                 {SendsOf(o, i) : i \in 1 .. IF two THEN 2 ELSE 1}
            /\ o.participants[1].id = "caller" /\ o.participants[2].id = "callee"
            /\ o.streams[1].id = "stream" /\ o.streams[1].label = "1"
            /\ o.streams[1].who = IF two THEN rx ELSE 1
            /\ two => /\ o.streams[2].id = "stream2" /\ o.streams[2].label = "2"
                      /\ o.streams[2].who = 3 - rx
<1> DEFINE o == OptionsOf(c, Aors(c, made), two)
           aors == Aors(c, made)
           n == IF two THEN 2 ELSE 1
           near == [id |-> "stream", mode |-> "send", label |-> "1",
                    who |-> StreamOne(c.direction, two)]
           far == [id |-> "stream2", mode |-> "send", label |-> "2",
                   who |-> 3 - Rx(c.direction)]
           p1 == [id |-> "caller", aor |-> aors.caller]
           p2 == [id |-> "callee", aor |-> aors.callee]
<1>1. o.group_id = "group" /\ o.group_id # ""
  BY DEF OptionsOf, Options
<1>2. o.participants = <<p1, p2>>
  BY DEF OptionsOf, Options
<1>3. o.streams = SubSeq(<<near, far>>, 1, n)
  BY DEF OptionsOf, Options
<1>4. /\ near.id = "stream" /\ near.label = "1"
      /\ near.who = IF two THEN Rx(c.direction) ELSE 1
      /\ far.id = "stream2" /\ far.label = "2" /\ far.who = 3 - Rx(c.direction)
  BY DEF StreamOne
<1>5. p1.id = "caller" /\ p1.aor = aors.caller /\ p2.id = "callee" /\ p2.aor = aors.callee
  OBVIOUS
<1> HIDE DEF near, far, p1, p2, o, aors
<1>6. Len(o.participants) = 2 /\ o.participants[1] = p1 /\ o.participants[2] = p2
  BY <1>2
<1>7. Len(o.streams) = n /\ o.streams[1] = near /\ (two => o.streams[2] = far)
  <2>1. CASE two
    BY <1>3, <2>1
  <2>2. CASE ~two
    BY <1>3, <2>2
  <2> QED
    BY <2>1, <2>2
<1>8. n \in Nat /\ 2 \in Nat
  OBVIOUS
<1> HIDE DEF n
<1>9. SpelledOut(Elements(o), o, 2, n) /\ IsSeq(Elements(o))
  BY <1>1, <1>6, <1>7, <1>8, ElementsSpelledOut
<1>10. /\ Tagged(Elements(o), "session") = {SessionOf(o)}
       /\ Tagged(Elements(o), "participant") = {Participant(o.participants[i]) : i \in 1 .. 2}
       /\ Tagged(Elements(o), "stream") = {StreamOf(o, i) : i \in 1 .. n}
       /\ Tagged(Elements(o), "participantsessionassoc") = {AttendsOf(o, i) : i \in 1 .. 2}
       /\ Tagged(Elements(o), "participantstreamassoc") = {SendsOf(o, i) : i \in 1 .. n}
  <2>1. ByKind(Elements(o), o, 2, n)
    BY <1>8, <1>9, ElementsByKind
  <2> QED
    BY <2>1 DEF ByKind
<1>11. {Participant(o.participants[i]) : i \in 1 .. 2} =
         {[tag |-> "participant", id |-> "caller", aor |-> aors.caller],
          [tag |-> "participant", id |-> "callee", aor |-> aors.callee]}
  <2>1. {Participant(o.participants[i]) : i \in 1 .. 2} = {Participant(p1), Participant(p2)}
    BY <1>6
  <2> QED
    BY <1>5, <2>1 DEF Participant
<1>12. SessionOf(o).id = o.session_id
  BY DEF SessionOf
<1> QED
  BY <1>4, <1>5, <1>6, <1>7, <1>9, <1>10, <1>11, <1>12 DEF o, n, aors

(* What the document of a call says.                                       *)
FarEnd(c) == IF c.direction = "inbound" THEN "caller" ELSE "callee"
Says(doc, c, aors, two) ==
  /\ WellFormed(doc)
  /\ Labels(doc) = IF two THEN {"1", "2"} ELSE {"1"}
  /\ \A p \in Tagged(doc, "participant") : p.aor = aors[p.id]
  /\ {p.id : p \in Tagged(doc, "participant")} = {"caller", "callee"}
  /\ two => /\ SpeakerOf(doc, "1") = FarEnd(c)
            /\ SpeakerOf(doc, "2") \in {"caller", "callee"} \ {FarEnd(c)}
  /\ \A u \in Tagged(doc, "session") : u.id = IF CarriesUuid(c.name) THEN "call" ELSE "fresh"

(* The speaker of a label is the sender of the one stream that bears it.   *)
LEMMA OneSpeaker ==
  ASSUME NEW doc, NEW label, NEW s \in Tagged(doc, "stream"), s.label = label,
         \A x \in Tagged(doc, "stream") : x.label = label => x = s,
         NEW a \in Tagged(doc, "participantstreamassoc"), a.stream = s.id,
         \A x \in Tagged(doc, "participantstreamassoc") : x.stream = s.id => x = a
  PROVE  SpeakerOf(doc, label) = a.participant
<1>1. (CHOOSE x \in Tagged(doc, "stream") : x.label = label) = s
  OBVIOUS
<1>2. (CHOOSE x \in Tagged(doc, "participantstreamassoc") : x.stream = s.id) = a
  OBVIOUS
<1> QED
  BY <1>1, <1>2 DEF SpeakerOf

(* It is well formed and describes its call.                               *)
LEMMA DocumentSays ==
  ASSUME NEW c \in Calls, NEW made, NEW two \in BOOLEAN
  PROVE  Says(Elements(OptionsOf(c, Aors(c, made), two)), c, Aors(c, made), two)
<1> DEFINE o == OptionsOf(c, Aors(c, made), two)
           doc == Elements(o)
           aors == Aors(c, made)
           rx == Rx(c.direction)
           s1 == StreamOf(o, 1)
           s2 == StreamOf(o, 2)
           a1 == SendsOf(o, 1)
           a2 == SendsOf(o, 2)
           p1 == [tag |-> "participant", id |-> "caller", aor |-> aors.caller]
           p2 == [tag |-> "participant", id |-> "callee", aor |-> aors.callee]
<1>1. /\ SpelledOut(doc, o, 2, IF two THEN 2 ELSE 1)
      /\ Tagged(doc, "session") = {SessionOf(o)} /\ SessionOf(o).id = o.session_id
      /\ Tagged(doc, "participant") = {p1, p2}
      /\ Tagged(doc, "stream") = {StreamOf(o, i) : i \in 1 .. IF two THEN 2 ELSE 1}
      /\ Tagged(doc, "participantsessionassoc") = {AttendsOf(o, i) : i \in 1 .. 2}
      /\ Tagged(doc, "participantstreamassoc") =
           {SendsOf(o, i) : i \in 1 .. IF two THEN 2 ELSE 1}
  BY CallDocument
<1>2. /\ o.participants[1].id = "caller" /\ o.participants[2].id = "callee"
      /\ o.streams[1].id = "stream" /\ o.streams[1].label = "1"
      /\ o.streams[1].who = IF two THEN rx ELSE 1
      /\ two => /\ o.streams[2].id = "stream2" /\ o.streams[2].label = "2"
                /\ o.streams[2].who = 3 - rx
  BY CallDocument
<1>3. o.session_id = IF CarriesUuid(c.name) THEN "call" ELSE "fresh"
  BY SessionIds DEF OptionsOf, Options
<1>4. p1.id = "caller" /\ p1.aor = aors.caller /\ p2.id = "callee" /\ p2.aor = aors.callee
  OBVIOUS
<1>5. (rx = 1 /\ FarEnd(c) = "caller") \/ (rx = 2 /\ FarEnd(c) = "callee")
  BY DEF Rx, FarEnd
<1> HIDE DEF o, doc, aors, rx, p1, p2
<1>6. /\ s1.id = "stream" /\ s1.label = "1" /\ s1.session = o.session_id
      /\ a1.stream = "stream" /\ a1.participant = o.participants[IF two THEN rx ELSE 1].id
      /\ a1.participant \in {"caller", "callee"} /\ (two => a1.participant = FarEnd(c))
  BY <1>2, <1>5 DEF StreamOf, SendsOf
<1>7. two => /\ s2.id = "stream2" /\ s2.label = "2" /\ s2.session = o.session_id
             /\ a2.stream = "stream2" /\ a2.participant = o.participants[3 - rx].id
             /\ a2.participant \in {"caller", "callee"} \ {FarEnd(c)}
  BY <1>2, <1>5 DEF StreamOf, SendsOf
<1> HIDE DEF s1, s2, a1, a2
<1>8. /\ Tagged(doc, "stream") = IF two THEN {s1, s2} ELSE {s1}
      /\ Tagged(doc, "participantstreamassoc") = IF two THEN {a1, a2} ELSE {a1}
  <2>1. {StreamOf(o, i) : i \in 1 .. 2} = {s1, s2} /\ {SendsOf(o, i) : i \in 1 .. 2} = {a1, a2}
    BY DEF s1, s2, a1, a2
  <2>2. {StreamOf(o, i) : i \in 1 .. 1} = {s1} /\ {SendsOf(o, i) : i \in 1 .. 1} = {a1}
    BY DEF s1, a1
  <2>3. CASE two
    BY <1>1, <2>1, <2>3
  <2>4. CASE ~two
    BY <1>1, <2>2, <2>4
  <2> QED
    BY <2>3, <2>4
<1>9. \A a \in Tagged(doc, "participantsessionassoc") : a.participant \in {"caller", "callee"}
  BY <1>1, <1>2 DEF AttendsOf
<1>10. WellFormed(doc)
  <2>1. /\ \A i, j \in 1 .. Len(doc) : i < j => Rank[doc[i].tag] <= Rank[doc[j].tag]
        /\ doc[1].tag = "recording" /\ doc[Len(doc)].tag = "end"
    <3>1. 2 \in Nat /\ (IF two THEN 2 ELSE 1) \in Nat
      OBVIOUS
    <3> QED
      BY <1>1, <3>1, InSchemaOrder
  <2>2. ASSUME NEW s \in Tagged(doc, "stream")
        PROVE  /\ \E u \in Tagged(doc, "session") : u.id = s.session
               /\ \E a \in Tagged(doc, "participantstreamassoc") :
                    /\ a.stream = s.id
                    /\ \A b \in Tagged(doc, "participantstreamassoc") : b.stream = s.id => a = b
    <3>1. s.session = o.session_id
      BY <1>6, <1>7, <1>8
    <3>2. \E u \in Tagged(doc, "session") : u.id = s.session
      BY <1>1, <3>1
    <3>3. CASE s = s1
      <4>1. a1 \in Tagged(doc, "participantstreamassoc") /\ a1.stream = s.id
        BY <1>6, <1>8, <3>3
      <4>2. \A b \in Tagged(doc, "participantstreamassoc") : b.stream = s.id => a1 = b
        BY <1>6, <1>7, <1>8, <3>3
      <4> QED
        BY <3>2, <4>1, <4>2
    <3>4. CASE two /\ s = s2
      <4>1. a2 \in Tagged(doc, "participantstreamassoc") /\ a2.stream = s.id
        BY <1>7, <1>8, <3>4
      <4>2. \A b \in Tagged(doc, "participantstreamassoc") : b.stream = s.id => a2 = b
        BY <1>6, <1>7, <1>8, <3>4
      <4> QED
        BY <3>2, <4>1, <4>2
    <3> QED
      BY <1>8, <2>2, <3>3, <3>4
  <2>3. ASSUME NEW a \in Tagged(doc, "participantsessionassoc")
                         \cup Tagged(doc, "participantstreamassoc")
        PROVE  \E p \in Tagged(doc, "participant") : p.id = a.participant
    <3>1. a.participant \in {"caller", "callee"}
      BY <1>6, <1>7, <1>8, <1>9
    <3> QED
      BY <1>1, <1>4, <3>1
  <2> QED
    BY <2>1, <2>2, <2>3 DEF WellFormed
<1>11. Labels(doc) = IF two THEN {"1", "2"} ELSE {"1"}
  <2>1. CASE two
    BY <1>6, <1>7, <1>8, <2>1 DEF Labels
  <2>2. CASE ~two
    BY <1>6, <1>8, <2>2 DEF Labels
  <2> QED
    BY <2>1, <2>2
<1>12. /\ \A p \in Tagged(doc, "participant") : p.aor = aors[p.id]
       /\ {p.id : p \in Tagged(doc, "participant")} = {"caller", "callee"}
  BY <1>1, <1>4
<1>13. ASSUME two
       PROVE  SpeakerOf(doc, "1") = FarEnd(c)
  BY <1>6, <1>7, <1>8, <1>13, OneSpeaker
<1>14. ASSUME two
       PROVE  SpeakerOf(doc, "2") \in {"caller", "callee"} \ {FarEnd(c)}
  BY <1>6, <1>7, <1>8, <1>14, OneSpeaker
<1>15. \A u \in Tagged(doc, "session") : u.id = IF CarriesUuid(c.name) THEN "call" ELSE "fresh"
  BY <1>1, <1>3
<1>16. Says(doc, c, aors, two)
  BY <1>10, <1>11, <1>12, <1>13, <1>14, <1>15 DEF Says
<1> QED
  BY <1>16 DEF doc, o, aors

-----------------------------------------------------------------------------
(* The candidates of a start: none, one that stands for its ad hoc URI, or *)
(* the good entries of its handle in the order of the file.                *)
LEMMA CandidatesAre ==
  ASSUME TableFollowsFile, module = "loaded", NEW a \in Args
  PROVE  /\ Candidates(a) \in Seq(Copies \cup AdHocs)
         /\ Candidates(a) = << >> => a.uri = NoUri /\ GoodOf(a.handle) = {}
         /\ a.uri # NoUri => Candidates(a) = AdHoc(a.uri)
         /\ a.uri = NoUri =>
              \E s \in Seq(Nat) : /\ Lists(s, GoodOf(a.handle))
                                  /\ Candidates(a) = [i \in 1 .. Len(s) |-> Copied(s[i])]
<1>1. config \in Seq(Entries) /\ servers \in [Names -> Seq(Nat)]
  BY DEF TableFollowsFile
<1>2. CASE a.uri # NoUri
  <2>1. Candidates(a) = AdHoc(a.uri)
    BY <1>2 DEF Candidates
  <2>2. AdHoc(a.uri) = <<AdHoc(a.uri)[1]>> /\ AdHoc(a.uri)[1] \in AdHocs
    BY DEF AdHoc, AdHocs
  <2>3. \A x \in AdHocs : <<x>> \in Seq(Copies \cup AdHocs) /\ <<x>> # << >>
    OBVIOUS
  <2> QED
    BY <1>2, <2>1, <2>2, <2>3
<1>3. CASE a.uri = NoUri /\ a.handle \notin Names
  <2>1. Candidates(a) = << >>
    BY <1>3 DEF Candidates
  <2>2. GoodOf(a.handle) = {}
    BY <1>1, <1>3, GoodAreEntries DEF GoodOf
  <2>3. << >> \in Seq(Nat) /\ << >> \in Seq(Copies \cup AdHocs) /\ Len(<< >>) = 0
    OBVIOUS
  <2>4. Lists(<< >>, {})
    BY DEF Lists
  <2>5. << >> = [i \in 1 .. Len(<< >>) |-> Copied(<< >>[i])]
    OBVIOUS
  <2> QED
    BY <1>3, <2>1, <2>2, <2>3, <2>4, <2>5
<1>4. CASE a.uri = NoUri /\ a.handle \in Names
  <2>1. PICK s \in Seq(Nat) : s = servers[a.handle]
    BY <1>1, <1>4
  <2>2. Lists(s, GoodOf(a.handle))
    BY <1>4, <2>1 DEF TableFollowsFile
  <2>3. Candidates(a) = [i \in 1 .. Len(s) |-> Copied(s[i])]
    BY <1>4, <2>1 DEF Candidates, Snapshot
  <2>4. ASSUME NEW i \in 1 .. Len(s)
        PROVE  Copied(s[i]) \in Copies
    <3>1. s[i] \in GoodOf(a.handle)
      BY <2>2 DEF Lists
    <3>2. s[i] \in GoodEntries
      BY <1>1, <3>1, GoodAreEntries
    <3>3. config[s[i]] \in Entries
      BY <1>1, <3>2, GoodAreEntries
    <3>4. s[i] \in Nat
      BY <2>4
    <3> QED
      BY <3>3, <3>4 DEF Copied, Copies, Home
  <2>5. Len(s) \in Nat
    OBVIOUS
  <2>6. Candidates(a) \in [1 .. Len(s) -> Copies \cup AdHocs]
    BY <2>3, <2>4
  <2>7. Candidates(a) \in Seq(Copies \cup AdHocs) /\ Len(Candidates(a)) = Len(s)
    BY <2>5, <2>6, LenProperties
  <2>8. Candidates(a) = << >> => GoodOf(a.handle) = {}
    BY <2>1, <2>2, <2>7, NothingListed, EmptySeq
  <2> QED
    BY <1>4, <2>2, <2>3, <2>7, <2>8
<1> QED
  BY <1>2, <1>3, <1>4

-----------------------------------------------------------------------------
(* Every step of a start is one of its builder, or none.                   *)

(* What is appended next is an element of the call's document.             *)
LEMMA HeadIsElement ==
  ASSUME StartInv, At("build"), start.todo # << >>
  PROVE  /\ Head(start.todo) \in Fragments /\ Size(Head(start.todo)) \in 1 .. SizeMax
         /\ Tail(start.todo) \in Seq(Fragments)
         /\ \A i \in 1 .. Len(asked) : Size(asked[i]) \in 1 .. SizeMax
         /\ asked \o start.todo = Append(asked, Head(start.todo)) \o Tail(start.todo)
<1>1. asked \in Seq(Fragments)
  BY DEF StartInv, BuilderInv, BuilderTypeOK
<1>2. start.todo \in Seq(Fragments)
  BY DEF StartInv, StartTypes
<1> DEFINE s == asked
           t == start.todo
           h == Head(t)
           u == Tail(t)
<1> HIDE DEF s, t
<1>3. h \in Fragments /\ u \in Seq(Fragments) /\ Len(u) = Len(t) - 1 /\ h = t[1]
      /\ (\A i \in 1 .. Len(u) : u[i] = t[i + 1]) /\ Len(t) \in Nat \ {0} /\ Len(s) \in Nat
  BY <1>1, <1>2, HeadTailProperties, EmptySeq, LenProperties DEF s, t
<1> HIDE DEF h, u
<1>4. s \o t = Append(s, h) \o u
  <2>1. Append(s, h) \in Seq(Fragments) /\ Len(Append(s, h)) = Len(s) + 1
        /\ (\A i \in 1 .. Len(s) : Append(s, h)[i] = s[i]) /\ Append(s, h)[Len(s) + 1] = h
    BY <1>1, <1>3, AppendProperties DEF s
  <2> DEFINE v == Append(s, h)
  <2> HIDE DEF v
  <2>2. /\ s \o t \in Seq(Fragments) /\ Len(s \o t) = Len(s) + Len(t)
        /\ \A i \in 1 .. Len(s) + Len(t) :
             (s \o t)[i] = IF i <= Len(s) THEN s[i] ELSE t[i - Len(s)]
    BY <1>1, <1>2, ConcatProperties DEF s, t
  <2>3. v \in Seq(Fragments) /\ Len(v) = Len(s) + 1
        /\ (\A i \in 1 .. Len(s) : v[i] = s[i]) /\ v[Len(s) + 1] = h
    BY <2>1 DEF v
  <2>4. /\ v \o u \in Seq(Fragments) /\ Len(v \o u) = Len(v) + Len(u)
        /\ \A i \in 1 .. Len(v) + Len(u) :
             (v \o u)[i] = IF i <= Len(v) THEN v[i] ELSE u[i - Len(v)]
    BY <1>3, <2>3, ConcatProperties
  <2>5. PICK x, y : x = s \o t /\ y = v \o u
    OBVIOUS
  <2>6. /\ Len(x) = Len(s) + Len(t) /\ Len(y) = Len(v) + Len(u)
        /\ x \in Seq(Fragments) /\ y \in Seq(Fragments)
    BY <2>2, <2>4, <2>5
  <2>7. ASSUME NEW i \in 1 .. Len(s) + Len(t)
        PROVE  x[i] = y[i]
    <3>1. x[i] = IF i <= Len(s) THEN s[i] ELSE t[i - Len(s)]
      BY <2>2, <2>5
    <3>2. y[i] = IF i <= Len(s) + 1 THEN v[i] ELSE u[i - (Len(s) + 1)]
      BY <1>3, <2>3, <2>4, <2>5, SMTT(30)
    <3>3. CASE i <= Len(s)
      BY <1>3, <2>3, <3>1, <3>2, <3>3
    <3>4. CASE i = Len(s) + 1
      BY <1>3, <2>3, <3>1, <3>2, <3>4
    <3>5. CASE i > Len(s) + 1
      <4>1. i - (Len(s) + 1) \in 1 .. Len(u) /\ (i - (Len(s) + 1)) + 1 = i - Len(s)
        BY <1>3, <2>7, <3>5
      <4> QED
        BY <1>3, <3>1, <3>2, <3>5, <4>1, SMTT(30)
    <3> QED
      BY <1>3, <2>7, <3>3, <3>4, <3>5
  <2>8. x = y
    <3>1. Len(x) = Len(y)
      BY <1>3, <2>3, <2>6
    <3> QED
      BY <2>6, <2>7, <3>1, SeqEqual
  <2> QED
    BY <2>5, <2>8 DEF v
<1>5. PICK c \in Calls, made \in SUBSET {"caller", "callee"} :
        Elements(OptionsOf(c, Aors(c, made), start.separate)) = s \o t
  BY DEF StartInv, TextFollowsCall, At, s, t
<1>6. start.separate \in BOOLEAN
  BY DEF StartInv, StartTypes
<1>7. Len(s \o t) = Len(s) + Len(t) /\ (s \o t)[Len(s) + 1] = t[1]
  <2>1. /\ Len(s \o t) = Len(s) + Len(t)
        /\ \A i \in 1 .. Len(s) + Len(t) :
             (s \o t)[i] = IF i <= Len(s) THEN s[i] ELSE t[i - Len(s)]
    BY <1>1, <1>2, ConcatProperties DEF s, t
  <2>2. Len(s) + 1 \in 1 .. Len(s) + Len(t) /\ ~(Len(s) + 1 <= Len(s)) /\ (Len(s) + 1) - Len(s) = 1
    BY <1>3
  <2> QED
    BY <2>1, <2>2
<1>8. Size(h) \in 1 .. SizeMax /\ \A i \in 1 .. Len(s) : Size(s[i]) \in 1 .. SizeMax
  <2>1. PICK d : d = Elements(OptionsOf(c, Aors(c, made), start.separate))
    OBVIOUS
  <2>2. \A i \in 1 .. Len(d) : Size(d[i]) \in 1 .. SizeMax
    BY <1>6, <2>1, ElementsAssumption
  <2>3. Len(s) + 1 \in 1 .. Len(d) /\ d[Len(s) + 1] = h
    BY <1>3, <1>5, <1>7, <2>1
  <2>4. \A i \in 1 .. Len(s) : i \in 1 .. Len(d) /\ d[i] = s[i]
    <3>1. \A i \in 1 .. Len(s) + Len(t) : d[i] = IF i <= Len(s) THEN s[i] ELSE t[i - Len(s)]
      BY <1>1, <1>2, <1>5, <2>1, ConcatProperties DEF s, t
    <3> QED
      BY <1>3, <1>5, <1>7, <2>1, <3>1
  <2> QED
    BY <2>2, <2>3, <2>4
<1> QED
  BY <1>3, <1>4, <1>8 DEF s, t, h, u

(* A start does nothing with its text but what the builder does.           *)
LEMMA BuilderMoves ==
  ASSUME StartInv, [Next]_vars
  PROVE  [BuilderNext]_builderVars
<1>1. CASE Compose
  BY <1>1 DEF Compose, BuilderNext
<1>2. CASE AppendElement
  <2>1. At("build") /\ start.todo # << >>
    BY <1>2 DEF AppendElement
  <2>2. PICK n \in {Size(Head(start.todo)), SizeMax} : Write(Head(start.todo), n)
    BY <1>2 DEF AppendElement
  <2>3. SizeMax \in 1 .. SizeMax
    BY BuilderAssumption
  <2>4. Head(start.todo) \in Fragments /\ n \in 1 .. SizeMax
    BY <2>1, <2>2, <2>3, HeadIsElement
  <2> QED
    BY <2>2, <2>4 DEF BuilderNext
<1>3. CASE BodyBuilt \/ BuildFails
  BY <1>3 DEF BodyBuilt, BuildFails, BuilderNext
<1>4. CASE NoProfile \/ InviteAnswered \/ Exhausted
  BY <1>4 DEF NoProfile, InviteAnswered, Exhausted, BuilderNext
<1>5. CASE Configure \/ Unload \/ Stopped \/ LegEnds
  BY <1>5 DEF Configure, Unload, Stopped, LegEnds
<1>6. CASE StartApp \/ RefuseStart \/ NoServer \/ Resolve \/ Exists \/ Insert
  BY <1>6 DEF StartApp, RefuseStart, NoServer, Resolve, Exists, Insert
<1>7. CASE Profile \/ InviteFails \/ Attach \/ AttachFails \/ Release \/ Publish \/ Return
  BY <1>7 DEF Profile, InviteFails, Attach, AttachFails, Release, Publish, Return
<1>8. CASE UNCHANGED vars
  BY <1>8 DEF vars
<1> QED
  BY <1>1, <1>2, <1>3, <1>4, <1>5, <1>6, <1>7, <1>8 DEF Next

(* So the builder's invariant comes with every step.                       *)
LEMMA BuilderKept ==
  ASSUME StartInv, [Next]_vars
  PROVE  BuilderInv'
BY BuilderMoves, BuilderStepInv DEF StartInv

-----------------------------------------------------------------------------
(* What a step must keep of the rest: the parts of the invariant about a   *)
(* start that goes on with its candidates and INVITEs, or ends.            *)

WalkStays ==
  /\ start'.args = start.args /\ start'.chain = start.chain
  /\ start'.separate = start.separate /\ start'.invites = start.invites
  /\ config' = config

(* The candidates and the INVITEs stay about the same file.                *)
LEMMA WalkStaysTrue ==
  ASSUME StartInv, WalkStays, start.pc # "idle"
  PROVE  ChainFollowsFile' /\ InvitesFollowChain'
<1>1. \A n : GoodOf(n)' = GoodOf(n)
  BY DEF WalkStays, GoodOf, GoodEntries
<1>2. \A i : Copied(i)' = Copied(i)
  BY DEF WalkStays, Copied
<1>3. ChainFollowsFile'
  BY <1>1, <1>2 DEF StartInv, ChainFollowsFile, WalkStays
<1>4. InvitesFollowChain'
  BY DEF StartInv, InvitesFollowChain, WalkStays, OfferLabels
<1> QED
  BY <1>3, <1>4

(* The text and its length stay true while the builder rests.              *)
LEMMA TextStaysTrue ==
  ASSUME StartInv, UNCHANGED builderVars
  PROVE  LengthIsSum'
BY DEF StartInv, LengthIsSum, builderVars, bufferVars

(* A text that is closed has no length.                                    *)
LEMMA ClosedText ==
  ASSUME stage' # "open"
  PROVE  LengthIsSum'
BY DEF LengthIsSum

TextStays == start'.call = start.call /\ start'.todo = start.todo
HoldsStay ==
  /\ start'.pool = start.pool /\ start'.doomed = start.doomed
  /\ start'.dialog = start.dialog /\ start'.attached = start.attached
  /\ start'.taken = start.taken

(* Nothing happens to the table.                                           *)
LEMMA TableStays ==
  ASSUME StartInv, UNCHANGED tableVars
  PROVE  TableFollowsFile' /\ config' = config /\ module' = module
<1>1. config' = config /\ module' = module /\ servers' = servers /\ pools' = pools
  BY DEF tableVars
<1>2. GoodEntries' = GoodEntries /\ \A n : GoodOf(n)' = GoodOf(n)
  BY <1>1 DEF GoodOf, GoodEntries
<1> QED
  BY <1>1, <1>2 DEF StartInv, TableFollowsFile

(* A start that has passed its checks goes on.                             *)
LEMMA GoesOnInv ==
  ASSUME StartInv, BuilderInv', UNCHANGED tableVars, status' = status,
         start.pc \notin Over \cup {"idle"}, start'.pc \notin Over \cup {"idle", "check"},
         start'.args = start.args, StartTypes', HeldWhileRunning', ChainFollowsFile',
         InvitesFollowChain', TextFollowsCall', LengthIsSum'
  PROVE  StartInv'
<1>1. TableFollowsFile' /\ module' = module
  BY TableStays
<1>2. FileStands'
  <2>1. Idle.pc = "idle"
    BY DEF Idle
  <2>2. start' # Idle
    BY <2>1
  <2> QED
    BY <1>1, <2>2 DEF StartInv, FileStands
<1>3. ResultStands' /\ ReasonStands'
  BY DEF ResultStands, ReasonStands
<1>4. StatusFollows'
  BY DEF StartInv, StatusFollows, Over
<1> QED
  BY <1>1, <1>2, <1>3, <1>4 DEF StartInv

(* A start ends: what is said of its result is all there is to see to.     *)
LEMMA EndsInv ==
  ASSUME StartInv, BuilderInv', UNCHANGED tableVars, status' = status,
         start.pc \notin {"idle", "done"}, start'.pc = "publish", stage' = "none",
         StartTypes', WalkStays, ResultStands', ReasonStands'
  PROVE  StartInv'
<1>1. TableFollowsFile' /\ module' = module
  BY TableStays
<1>2. FileStands'
  <2>1. Idle.pc = "idle"
    BY DEF Idle
  <2>2. start' # Idle
    BY <2>1
  <2> QED
    BY <1>1, <2>2 DEF StartInv, FileStands, WalkStays
<1>3. ChainFollowsFile' /\ InvitesFollowChain'
  BY WalkStaysTrue
<1>4. HeldWhileRunning' /\ TextFollowsCall' /\ LengthIsSum' /\ StatusFollows'
  BY DEF HeldWhileRunning, TextFollowsCall, LengthIsSum, StatusFollows, StartInv, Over
<1> QED
  BY <1>1, <1>2, <1>3, <1>4 DEF StartInv

(* A start that has ended: only what is left of its recording may change.  *)
LEMMA OverInv ==
  ASSUME StartInv, BuilderInv', UNCHANGED builderVars, TableFollowsFile',
         module' # "loading", WalkStays, start.pc \in Over, start'.pc \in Over,
         start'.reason = start.reason, start'.doomed = start.doomed,
         start'.result = start.result, StartTypes', ResultStands', StatusFollows'
  PROVE  StartInv'
<1>1. FileStands'
  <2>1. Idle.pc = "idle" /\ "idle" \notin Over /\ "check" \notin Over
    BY DEF Idle, Over
  <2>2. start' # Idle /\ start.pc # "idle"
    BY <2>1
  <2> QED
    BY <2>1, <2>2 DEF StartInv, FileStands, WalkStays
<1>2. ChainFollowsFile' /\ InvitesFollowChain'
  BY WalkStaysTrue DEF Over
<1>3. stage = "none" /\ stage' = stage
  BY DEF StartInv, HeldWhileRunning, Over, builderVars
<1>4. HeldWhileRunning' /\ TextFollowsCall' /\ LengthIsSum'
  BY <1>3 DEF HeldWhileRunning, TextFollowsCall, LengthIsSum, Over
<1>5. ReasonStands'
  <2>1. \A n : GoodOf(n)' = GoodOf(n)
    BY DEF WalkStays, GoodOf, GoodEntries
  <2> QED
    BY <2>1 DEF StartInv, ReasonStands, TriedAll, WalkStays
<1> QED
  BY <1>1, <1>2, <1>4, <1>5 DEF StartInv

-----------------------------------------------------------------------------
(* The steps.                                                              *)

(* The app begins.                                                         *)
LEMMA StartAppStep ==
  ASSUME StartInv, BuilderInv', StartApp
  PROVE  StartInv'
<1>1. PICK a \in Args : start' = [Idle EXCEPT !.pc = "check", !.args = a]
  BY DEF StartApp
<1>2. /\ start.pc = "idle" /\ module = "loaded" /\ status' = ""
      /\ UNCHANGED tableVars /\ UNCHANGED builderVars
  BY DEF StartApp, At
<1>3. /\ start'.pc = "check" /\ start'.args = a /\ start'.chain = << >>
      /\ start'.invites = << >> /\ start' # Idle /\ start'.pool = "none"
      /\ start'.taken = FALSE
      /\ start' = [Idle EXCEPT !.pc = "check", !.args = start'.args]
  BY <1>1 DEF Idle
<1>4. TableFollowsFile' /\ module' = module
  BY <1>2, TableStays
<1>5. StartTypes'
  <2>1. Idle \in [pc : Pcs, args : {NoArgs}, chain : {<< >>}, separate : BOOLEAN,
                 call : {NoCall}, todo : {<< >>}, pool : {"none", "live", "freed"},
                 doomed : BOOLEAN, taken : BOOLEAN, invites : {<< >>}, dialog : Dialogs,
                 attached : BOOLEAN, result : Results, reason : Reasons]
    BY DEF Idle, Pcs, Reasons, Dialogs, Results
  <2>2. << >> \in Seq(Copies \cup AdHocs) /\ << >> \in Seq(Fragments) /\ << >> \in Seq(Invitations)
    OBVIOUS
  <2>3. Idle \in [pc : Pcs, args : {NoArgs}, chain : Seq(Copies \cup AdHocs), separate : BOOLEAN,
                 call : {NoCall}, todo : Seq(Fragments), pool : {"none", "live", "freed"},
                 doomed : BOOLEAN, taken : BOOLEAN, invites : Seq(Invitations),
                 dialog : Dialogs, attached : BOOLEAN, result : Results, reason : Reasons]
    BY <2>1, <2>2
  <2>4. "check" \in Pcs
    BY DEF Pcs
  <2> QED
    BY <1>1, <2>3, <2>4 DEF StartTypes
<1>6. FileStands'
  BY <1>2, <1>3, <1>4 DEF FileStands
<1>7. HeldWhileRunning'
  <2>1. stage = "none" /\ stage' = stage
    BY <1>2 DEF StartInv, HeldWhileRunning, builderVars
  <2> QED
    BY <1>3, <2>1 DEF HeldWhileRunning
<1>8. ChainFollowsFile' /\ InvitesFollowChain' /\ TextFollowsCall'
  BY <1>3, StartAssumption DEF ChainFollowsFile, InvitesFollowChain, TextFollowsCall
<1>9. LengthIsSum'
  BY <1>2, TextStaysTrue
<1>10. ResultStands' /\ ReasonStands' /\ StatusFollows'
  BY <1>2, <1>3 DEF ResultStands, ReasonStands, StatusFollows, Over
<1> QED
  BY <1>4, <1>5, <1>6, <1>7, <1>8, <1>9, <1>10 DEF StartInv

(* A start that is refused held nothing yet.                               *)
LEMMA RefuseStartStep ==
  ASSUME StartInv, BuilderInv', RefuseStart
  PROVE  StartInv'
<1>1. PICK why \in {"bad uri", "usage", "disabled"} :
        start' = [[start EXCEPT !.reason = why] EXCEPT !.pc = "publish", !.result = "failed"]
  BY DEF RefuseStart, Fails, Ends, GoesOn
<1>2. /\ start.pc = "check" /\ status' = status
      /\ UNCHANGED tableVars /\ UNCHANGED builderVars
  BY DEF RefuseStart, At, Fails, Ends, GoesOn
<1>3. start = [Idle EXCEPT !.pc = "check", !.args = start.args] /\ StartTypes
  BY <1>2 DEF StartInv, FileStands
<1>4. /\ start'.pc = "publish" /\ start'.reason = why /\ start'.args = start.args
      /\ start'.result = "failed" /\ start'.chain = start.chain /\ start'.invites = start.invites
      /\ start'.separate = start.separate /\ start'.pool = start.pool
      /\ start'.dialog = start.dialog /\ start'.attached = start.attached
  BY <1>1, <1>3 DEF StartTypes
<1>5. start.pool = "none" /\ start.dialog = "none" /\ start.attached = FALSE
  BY <1>3 DEF Idle
<1>6. StartTypes'
  <2>1. "publish" \in Pcs /\ why \in Reasons /\ "failed" \in Results
    BY DEF Pcs, Reasons, Results
  <2>2. start' = [start EXCEPT !.reason = why, !.pc = "publish", !.result = "failed"]
    BY <1>1
  <2> QED
    BY <1>3, <2>1, <2>2 DEF StartTypes
<1>7. stage = "none" /\ stage' = stage
  BY <1>2 DEF StartInv, HeldWhileRunning, builderVars
<1>8. ResultStands' /\ ReasonStands'
  BY <1>4, <1>5 DEF ResultStands, ReasonStands, NothingLeft, TriedAll
<1>9. WalkStays
  BY <1>2, <1>4, TableStays DEF WalkStays
<1> QED
  BY <1>2, <1>4, <1>6, <1>7, <1>8, <1>9, EndsInv

(* No candidate: the pool that was made is freed again.                    *)
LEMMA NoServerStep ==
  ASSUME StartInv, BuilderInv', NoServer
  PROVE  StartInv'
<1>1. /\ start.pc = "check" /\ status' = status /\ Candidates(start.args) = << >>
      /\ UNCHANGED tableVars /\ UNCHANGED builderVars
      /\ start' = [start EXCEPT !.pool = "freed", !.reason = "no server", !.pc = "publish",
                                !.result = "failed"]
  BY DEF NoServer, At, Fails, Ends, GoesOn
<1>2. /\ start = [Idle EXCEPT !.pc = "check", !.args = start.args] /\ StartTypes
      /\ start.args \in Args /\ module = "loaded" /\ TableFollowsFile
  BY <1>1 DEF StartInv, FileStands
<1>3. /\ start'.pc = "publish" /\ start'.reason = "no server" /\ start'.args = start.args
      /\ start'.result = "failed" /\ start'.chain = start.chain /\ start'.invites = start.invites
      /\ start'.separate = start.separate /\ start'.pool = "freed"
      /\ start'.dialog = start.dialog /\ start'.attached = start.attached
  BY <1>1, <1>2 DEF StartTypes
<1>4. start.dialog = "none" /\ start.attached = FALSE
  BY <1>2 DEF Idle
<1>5. StartTypes'
  <2>1. "publish" \in Pcs /\ "no server" \in Reasons /\ "failed" \in Results
    BY DEF Pcs, Reasons, Results
  <2> QED
    BY <1>1, <1>2, <2>1 DEF StartTypes
<1>6. stage = "none" /\ stage' = stage
  BY <1>1 DEF StartInv, HeldWhileRunning, builderVars
<1>7. WalkStays
  BY <1>1, <1>3, TableStays DEF WalkStays
<1>8. start'.args.uri = NoUri /\ GoodOf(start.args.handle)' = {}
  <2>1. start.args.uri = NoUri /\ GoodOf(start.args.handle) = {}
    BY <1>1, <1>2, CandidatesAre
  <2> QED
    BY <1>7, <2>1 DEF WalkStays, GoodOf, GoodEntries
<1>9. ResultStands' /\ ReasonStands'
  BY <1>3, <1>4, <1>8 DEF ResultStands, ReasonStands, NothingLeft, TriedAll
<1> QED
  BY <1>1, <1>3, <1>5, <1>6, <1>7, <1>9, EndsInv

(* The candidates are copied, or made up for the ad hoc URI.               *)
LEMMA ResolveStep ==
  ASSUME StartInv, BuilderInv', Resolve
  PROVE  StartInv'
<1> DEFINE found == Candidates(start.args)
<1>1. PICK global \in BOOLEAN :
        start' = [start EXCEPT !.pc = "insert", !.pool = "live", !.chain = found,
                               !.separate = ModeOf(found[1], global)]
  BY DEF Resolve, GoesOn
<1>2. /\ start.pc = "check" /\ status' = status /\ ~UriRefused /\ found # << >>
      /\ UNCHANGED tableVars /\ UNCHANGED builderVars
  BY DEF Resolve, At, GoesOn
<1>3. /\ start = [Idle EXCEPT !.pc = "check", !.args = start.args] /\ StartTypes
      /\ start.args \in Args /\ module = "loaded" /\ TableFollowsFile
  BY <1>2 DEF StartInv, FileStands
<1>4. /\ found \in Seq(Copies \cup AdHocs)
      /\ start.args.uri # NoUri => found = AdHoc(start.args.uri)
      /\ start.args.uri = NoUri =>
           \E s \in Seq(Nat) : /\ Lists(s, GoodOf(start.args.handle))
                               /\ found = [i \in 1 .. Len(s) |-> Copied(s[i])]
  BY <1>3, CandidatesAre
<1>5. ModeOf(found[1], global) \in BOOLEAN
  BY DEF ModeOf
<1> HIDE DEF found
<1>6. /\ start'.pc = "insert" /\ start'.pool = "live" /\ start'.chain = found
      /\ start'.args = start.args /\ start'.invites = start.invites
      /\ start'.dialog = start.dialog /\ start'.attached = start.attached
      /\ start'.taken = start.taken
  BY <1>1, <1>3 DEF StartTypes
<1>7. /\ start.dialog = "none" /\ start.attached = FALSE /\ start.invites = << >>
      /\ start.taken = FALSE
  BY <1>3 DEF Idle
<1>8. StartTypes'
  <2>1. "insert" \in Pcs
    BY DEF Pcs
  <2> QED
    BY <1>1, <1>3, <1>4, <1>5, <2>1 DEF StartTypes
<1>9. stage = "none" /\ stage' = stage
  BY <1>2 DEF StartInv, HeldWhileRunning, builderVars
<1>10. config' = config /\ \A n : GoodOf(n)' = GoodOf(n)
  BY <1>2 DEF tableVars, GoodOf, GoodEntries
<1>11. ChainFollowsFile'
  <2>1. CASE start.args.uri # NoUri
    BY <1>2, <1>4, <1>6, <2>1 DEF ChainFollowsFile, UriRefused
  <2>2. CASE start.args.uri = NoUri
    <3>1. PICK s \in Seq(Nat) : /\ Lists(s, GoodOf(start.args.handle))
                                /\ found = [i \in 1 .. Len(s) |-> Copied(s[i])]
      BY <1>4, <2>2
    <3>2. Lists(s, GoodOf(start.args.handle)') /\ start'.args.uri = NoUri
      BY <1>6, <1>10, <2>2, <3>1
    <3>3. start'.chain = [i \in 1 .. Len(s) |-> Copied(s[i])']
      BY <1>6, <1>10, <3>1 DEF Copied
    <3> QED
      BY <3>2, <3>3 DEF ChainFollowsFile
  <2> QED
    BY <2>1, <2>2
<1>12. InvitesFollowChain'
  <2>1. Len(found) \in Nat /\ Len(<< >>) = 0
    BY <1>4, LenProperties
  <2> QED
    BY <1>6, <1>7, <2>1, StartAssumption DEF InvitesFollowChain
<1>13. HeldWhileRunning' /\ TextFollowsCall'
  BY <1>6, <1>7, <1>9 DEF HeldWhileRunning, TextFollowsCall
<1>14. LengthIsSum'
  BY <1>2, TextStaysTrue
<1> QED
  BY <1>2, <1>6, <1>8, <1>11, <1>12, <1>13, <1>14, GoesOnInv DEF Over

(* Another recording is live under the handle.                             *)
LEMMA ExistsStep ==
  ASSUME StartInv, BuilderInv', Exists
  PROVE  StartInv'
<1>1. /\ start.pc = "insert" /\ status' = status
      /\ UNCHANGED tableVars /\ UNCHANGED builderVars
      /\ start' = [start EXCEPT !.pool = "freed", !.pc = "publish", !.result = "exists"]
  BY DEF Exists, At, Ends, GoesOn
<1>2. StartTypes /\ start.dialog = "none" /\ ~start.attached
  BY <1>1 DEF StartInv, HeldWhileRunning
<1>3. /\ start'.pc = "publish" /\ start'.args = start.args /\ start'.result = "exists"
      /\ start'.chain = start.chain /\ start'.invites = start.invites
      /\ start'.separate = start.separate /\ start'.pool = "freed"
      /\ start'.dialog = start.dialog /\ start'.attached = start.attached
  BY <1>1, <1>2 DEF StartTypes
<1>4. StartTypes'
  <2>1. "publish" \in Pcs /\ "exists" \in Results
    BY DEF Pcs, Results
  <2> QED
    BY <1>1, <1>2, <2>1 DEF StartTypes
<1>5. stage = "none" /\ stage' = stage
  BY <1>1 DEF StartInv, HeldWhileRunning, builderVars
<1>6. WalkStays
  BY <1>1, <1>3, TableStays DEF WalkStays
<1>7. ResultStands' /\ ReasonStands'
  BY <1>2, <1>3 DEF ResultStands, ReasonStands, NothingLeft
<1> QED
  BY <1>1, <1>3, <1>4, <1>5, <1>6, <1>7, EndsInv

(* The recording is in the table, pinned and still without a dialog.       *)
LEMMA InsertStep ==
  ASSUME StartInv, BuilderInv', Insert
  PROVE  StartInv'
<1>1. /\ start.pc = "insert" /\ status' = status
      /\ UNCHANGED tableVars /\ UNCHANGED builderVars
      /\ start' = [start EXCEPT !.pc = "compose"]
  BY DEF Insert, At, GoesOn
<1>2. StartTypes
  BY DEF StartInv
<1>3. start'.pc = "compose" /\ HoldsStay /\ start'.args = start.args
      /\ start'.chain = start.chain /\ start'.invites = start.invites
      /\ start'.separate = start.separate
  BY <1>1, <1>2 DEF StartTypes, HoldsStay
<1>4. WalkStays
  BY <1>1, <1>3, TableStays DEF WalkStays
<1>5. StartTypes'
  <2>1. "compose" \in Pcs
    BY DEF Pcs
  <2> QED
    BY <1>1, <1>2, <2>1 DEF StartTypes
<1>6. HeldWhileRunning' /\ TextFollowsCall'
  <2>1. stage' = stage
    BY <1>1 DEF builderVars
  <2> QED
    BY <1>1, <1>3, <2>1 DEF StartInv, HeldWhileRunning, TextFollowsCall, HoldsStay, Over
<1>7. ChainFollowsFile' /\ InvitesFollowChain' /\ LengthIsSum'
  BY <1>1, <1>4, WalkStaysTrue, TextStaysTrue
<1> QED
  BY <1>1, <1>3, <1>5, <1>6, <1>7, GoesOnInv DEF Over

(* What is read of the call gives options that are never refused.          *)
LEMMA ComposeStep ==
  ASSUME StartInv, BuilderInv', Compose
  PROVE  StartInv'
<1>1. PICK c \in Calls, made \in SUBSET {"caller", "callee"} :
        LET o == OptionsOf(c, Aors(c, made), start.separate)
            read == [start EXCEPT !.call = [channel |-> c, aors |-> Aors(c, made)]]
        IN IF ValidOptions(o)
           THEN BeginText /\ GoesOn([read EXCEPT !.pc = "build", !.todo = Elements(o)])
           ELSE Fails("invalid options", Discarded(read)) /\ UNCHANGED builderVars
  BY DEF Compose
<1> DEFINE o == OptionsOf(c, Aors(c, made), start.separate)
           call == [channel |-> c, aors |-> Aors(c, made)]
           doc == Elements(o)
<1>2. StartTypes /\ start.separate \in BOOLEAN
  BY DEF StartInv, StartTypes
<1>3. ValidOptions(o)
  BY <1>2, OptionsAreValid
<1>4. /\ start.pc = "compose" /\ UNCHANGED tableVars
  BY DEF Compose, At
<1>5. /\ BeginText /\ status' = status
      /\ start' = [start EXCEPT !.call = call, !.pc = "build", !.todo = doc]
  BY <1>1, <1>3 DEF GoesOn
<1>6. doc \in Seq(Fragments)
  <2>1. IsSeq(doc)
    BY <1>2, CallDocument
  <2>2. PICK S : doc \in Seq(S)
    BY <2>1 DEF IsSeq
  <2>3. \A i \in 1 .. Len(doc) : doc[i] \in Fragments
    BY <1>2, ElementsAssumption
  <2> HIDE DEF doc
  <2>4. Len(doc) \in Nat /\ doc \in [1 .. Len(doc) -> S]
    BY <2>2, LenProperties
  <2>5. doc \in [1 .. Len(doc) -> Fragments]
    BY <2>3, <2>4
  <2> QED
    BY <2>4, <2>5, SeqDef
<1>7. call \in Readings
  BY DEF Readings
<1>8. asked = << >> /\ asked' = << >> /\ stage' = "open" /\ err' = FALSE /\ len' = 0
  BY <1>5 DEF BeginText, NoBuffer, StartInv, BuilderInv, TextIsAsked
<1>9. << >> \o doc = doc
  BY <1>6, ConcatEmptySeq
<1>10. call = [channel |-> c, aors |-> Aors(c, made)]
       /\ doc = Elements(OptionsOf(c, Aors(c, made), start.separate))
  OBVIOUS
<1> HIDE DEF o, call, doc
<1>11. /\ start'.pc = "build" /\ HoldsStay /\ start'.args = start.args
       /\ start'.chain = start.chain /\ start'.invites = start.invites
       /\ start'.separate = start.separate /\ start'.call = call /\ start'.todo = doc
  BY <1>2, <1>5 DEF StartTypes, HoldsStay
<1>12. StartTypes'
  <2>1. "build" \in Pcs
    BY DEF Pcs
  <2> QED
    BY <1>2, <1>5, <1>6, <1>7, <2>1 DEF StartTypes
<1>13. HeldWhileRunning'
  BY <1>4, <1>8, <1>11 DEF StartInv, HeldWhileRunning, HoldsStay, Over
<1>14. TextFollowsCall'
  <2>1. doc = asked' \o start'.todo
    BY <1>8, <1>9, <1>11
  <2> QED
    BY <1>10, <1>11, <2>1 DEF TextFollowsCall
<1>15. LengthIsSum'
  BY <1>8, SumOfNothing DEF LengthIsSum
<1>16. ChainFollowsFile' /\ InvitesFollowChain'
  <2>1. WalkStays
    BY <1>4, <1>11, TableStays DEF WalkStays
  <2> QED
    BY <1>4, <2>1, WalkStaysTrue
<1> QED
  BY <1>4, <1>5, <1>11, <1>12, <1>13, <1>14, <1>15, <1>16, GoesOnInv DEF Over

(* The buffer is as long as its fragments, or the reason why it is not is  *)
(* one of the two.                                                         *)
LEMMA WriteLength ==
  ASSUME StartInv, At("build"), start.todo # << >>,
         NEW n \in {Size(Head(start.todo)), SizeMax}, Write(Head(start.todo), n)
  PROVE  LengthIsSum'
<1> DEFINE h == Head(start.todo)
           S == {x \in Fragments : Size(x) \in Nat}
<1>1. Size(h) \in 1 .. SizeMax /\ h \in Fragments
      /\ \A i \in 1 .. Len(asked) : Size(asked[i]) \in 1 .. SizeMax
  BY HeadIsElement
<1>2. stage = "open" /\ asked \in Seq(Fragments) /\ len \in Nat /\ len <= MaxCap
  <2>1. stage = "open"
    BY DEF StartInv, HeldWhileRunning, At
  <2> QED
    BY <2>1, BuilderAssumption DEF StartInv, BuilderInv, BuilderTypeOK, NoOverrun, EmptyBuffer
<1>3. SumOfSizes(asked) \in Nat /\ SumOfSizes(Append(asked, h)) = SumOfSizes(asked) + Size(h)
  <2>1. h \in S
    BY <1>1
  <2>2. asked \in Seq(S)
    <3>1. Len(asked) \in Nat /\ asked \in [1 .. Len(asked) -> Fragments]
      BY <1>2, LenProperties
    <3>2. asked \in [1 .. Len(asked) -> S]
      BY <1>1, <3>1
    <3> QED
      BY <3>1, <3>2, SeqDef
  <2>3. \A x \in S : Size(x) \in Nat
    OBVIOUS
  <2> HIDE DEF S, h
  <2> QED
    BY <2>1, <2>2, <2>3, SumGrows
<1>4. n \in 1 .. SizeMax
  BY <1>1, BuilderAssumption
<1>5. asked' = Append(asked, h) /\ stage' = "open"
  BY <1>2 DEF Write, SkipText, RefuseText, NoMemory, WriteText, Hand
<1> HIDE DEF h
<1>6. CASE SkipText(h)
  <2>1. err /\ err' = err /\ starved' = starved
    BY <1>6 DEF SkipText
  <2>2. starved \/ SumOfSizes(asked) + 1 > MaxCap
    BY <1>2, <2>1 DEF StartInv, LengthIsSum
  <2>3. SumOfSizes(asked) + 1 > MaxCap => SumOfSizes(asked') + 1 > MaxCap
    BY <1>1, <1>3, <1>5, BuilderAssumption
  <2> QED
    BY <2>1, <2>2, <2>3 DEF LengthIsSum
<1>7. CASE RefuseText(h, n)
  <2>1. ~err /\ ~CanGrowBy(n) /\ err' = TRUE /\ starved' = (starved \/ n = SizeMax)
    BY <1>7 DEF RefuseText
  <2>2. len = SumOfSizes(asked)
    BY <1>2, <2>1 DEF StartInv, LengthIsSum
  <2>3. CASE n = SizeMax
    BY <2>1, <2>3 DEF LengthIsSum
  <2>4. CASE n # SizeMax
    <3>1. n = Size(h) /\ n <= SizeMax - 1
      BY <1>4, <2>4, BuilderAssumption DEF h
    <3>2. Wrap(SizeMax - n - 1) = SizeMax - n - 1
      BY <1>4, <3>1, WrapFits, BuilderAssumption
    <3>3. len > SizeMax - n - 1 \/ Wrap(len + n + 1) > MaxCap
      BY <1>4, <2>1, <3>1, <3>2, BuilderAssumption DEF CanGrowBy
    <3>4. len + n + 1 > MaxCap
      <4>1. CASE len > SizeMax - n - 1
        BY <1>2, <1>4, <4>1, BuilderAssumption
      <4>2. CASE ~(len > SizeMax - n - 1)
        <5>1. len + n + 1 \in 0 .. SizeMax
          BY <1>2, <1>4, <4>2, BuilderAssumption
        <5> QED
          BY <3>3, <4>2, <5>1, WrapFits
      <4> QED
        BY <4>1, <4>2
    <3>5. SumOfSizes(asked') + 1 > MaxCap
      BY <1>3, <1>5, <2>2, <3>1, <3>4
    <3> QED
      BY <2>1, <3>5 DEF LengthIsSum
  <2> QED
    BY <2>3, <2>4
<1>8. CASE NoMemory(h, n)
  BY <1>8 DEF NoMemory, LengthIsSum
<1>9. CASE WriteText(h, n)
  <2>1. ~err /\ CanGrowBy(n) /\ err' = err /\ len' = Wrap(len + n)
    BY <1>9 DEF WriteText
  <2>2. len = SumOfSizes(asked)
    BY <1>2, <2>1 DEF StartInv, LengthIsSum
  <2>3. n <= SizeMax - 1
    BY <1>4, <2>1, BuilderAssumption DEF CanGrowBy
  <2>4. n = Size(h)
    BY <1>4, <2>3, BuilderAssumption DEF h
  <2>5. Wrap(len + n) = len + n
    BY <1>2, <1>4, <2>1, GrowthFits
  <2>6. len' = SumOfSizes(asked')
    BY <1>3, <1>5, <2>1, <2>2, <2>4, <2>5
  <2> QED
    BY <2>1, <2>6 DEF LengthIsSum
<1>10. SkipText(h) \/ RefuseText(h, n) \/ NoMemory(h, n) \/ WriteText(h, n)
  BY DEF Write, h
<1> QED
  BY <1>6, <1>7, <1>8, <1>9, <1>10

(* One more element is appended, or refused and remembered as an error.    *)
LEMMA AppendElementStep ==
  ASSUME StartInv, BuilderInv', AppendElement
  PROVE  StartInv'
<1>1. PICK n \in {Size(Head(start.todo)), SizeMax} : Write(Head(start.todo), n)
  BY DEF AppendElement
<1>2. /\ start.pc = "build" /\ start.todo # << >> /\ At("build") /\ status' = status
      /\ UNCHANGED tableVars /\ start' = [start EXCEPT !.todo = Tail(start.todo)]
  BY DEF AppendElement, At, GoesOn
<1>3. StartTypes
  BY DEF StartInv
<1>4. start'.pc = "build" /\ HoldsStay /\ start'.args = start.args
      /\ start'.chain = start.chain /\ start'.invites = start.invites
      /\ start'.separate = start.separate /\ start'.call = start.call
      /\ start'.todo = Tail(start.todo)
  BY <1>2, <1>3 DEF StartTypes, HoldsStay
<1>5. stage' = stage /\ asked' = Append(asked, Head(start.todo))
  BY <1>1 DEF Write, SkipText, RefuseText, NoMemory, WriteText, Hand
<1>6. /\ Tail(start.todo) \in Seq(Fragments)
      /\ asked \o start.todo = Append(asked, Head(start.todo)) \o Tail(start.todo)
  BY <1>2, HeadIsElement
<1>7. StartTypes'
  BY <1>2, <1>3, <1>6 DEF StartTypes
<1>8. HeldWhileRunning'
  BY <1>2, <1>4, <1>5 DEF StartInv, HeldWhileRunning, HoldsStay
<1>9. TextFollowsCall'
  BY <1>2, <1>4, <1>5, <1>6, ZenonT(30) DEF StartInv, TextFollowsCall
<1>10. LengthIsSum'
  BY <1>1, <1>2, WriteLength
<1>11. ChainFollowsFile' /\ InvitesFollowChain'
  <2>1. WalkStays
    BY <1>2, <1>4, TableStays DEF WalkStays
  <2> QED
    BY <1>2, <2>1, WalkStaysTrue
<1> QED
  BY <1>2, <1>4, <1>7, <1>8, <1>9, <1>10, <1>11, GoesOnInv DEF Over

(* The whole text is taken.                                                *)
LEMMA BodyBuiltStep ==
  ASSUME StartInv, BuilderInv', BodyBuilt
  PROVE  StartInv'
<1>1. /\ start.pc = "build" /\ start.todo = << >> /\ status' = status /\ TakeWhole
      /\ UNCHANGED tableVars /\ start' = [start EXCEPT !.pc = "profile"]
  BY DEF BodyBuilt, At, GoesOn
<1>2. StartTypes
  BY DEF StartInv
<1>3. start'.pc = "profile" /\ HoldsStay /\ start'.args = start.args
      /\ start'.chain = start.chain /\ start'.invites = start.invites
      /\ start'.separate = start.separate /\ start'.call = start.call
  BY <1>1, <1>2 DEF StartTypes, HoldsStay
<1>4. stage' = "whole" /\ asked' = asked
  BY <1>1 DEF TakeWhole
<1>5. StartTypes'
  <2>1. "profile" \in Pcs
    BY DEF Pcs
  <2> QED
    BY <1>1, <1>2, <2>1 DEF StartTypes
<1>6. HeldWhileRunning' /\ LengthIsSum'
  BY <1>1, <1>3, <1>4 DEF StartInv, HeldWhileRunning, HoldsStay, LengthIsSum, Over
<1>7. TextFollowsCall'
  BY <1>1, <1>3, <1>4, ZenonT(30) DEF StartInv, TextFollowsCall
<1>8. ChainFollowsFile' /\ InvitesFollowChain'
  <2>1. WalkStays
    BY <1>1, <1>3, TableStays DEF WalkStays
  <2> QED
    BY <1>1, <2>1, WalkStaysTrue
<1> QED
  BY <1>1, <1>3, <1>5, <1>6, <1>7, <1>8, GoesOnInv DEF Over

(* The profile is found.                                                   *)
LEMMA ProfileStep ==
  ASSUME StartInv, BuilderInv', Profile
  PROVE  StartInv'
<1>1. /\ start.pc = "profile" /\ status' = status /\ UNCHANGED builderVars
      /\ UNCHANGED tableVars /\ start' = [start EXCEPT !.pc = "walk"]
  BY DEF Profile, At, GoesOn
<1>2. StartTypes
  BY DEF StartInv
<1>3. start'.pc = "walk" /\ HoldsStay /\ start'.args = start.args
      /\ start'.chain = start.chain /\ start'.invites = start.invites
      /\ start'.separate = start.separate /\ start'.call = start.call
  BY <1>1, <1>2 DEF StartTypes, HoldsStay
<1>4. stage' = stage /\ asked' = asked
  BY <1>1 DEF builderVars
<1>5. StartTypes'
  <2>1. "walk" \in Pcs
    BY DEF Pcs
  <2> QED
    BY <1>1, <1>2, <2>1 DEF StartTypes
<1>6. HeldWhileRunning'
  BY <1>1, <1>3, <1>4 DEF StartInv, HeldWhileRunning, HoldsStay, Over
<1>7. TextFollowsCall'
  BY <1>1, <1>3, <1>4, ZenonT(30) DEF StartInv, TextFollowsCall
<1>8. ChainFollowsFile' /\ InvitesFollowChain' /\ LengthIsSum'
  <2>1. WalkStays
    BY <1>1, <1>3, TableStays DEF WalkStays
  <2> QED
    BY <1>1, <2>1, WalkStaysTrue, TextStaysTrue
<1> QED
  BY <1>1, <1>3, <1>5, <1>6, <1>7, <1>8, GoesOnInv DEF Over

(* The fork is attached.                                                   *)
LEMMA AttachStep ==
  ASSUME StartInv, BuilderInv', Attach
  PROVE  StartInv'
<1>1. /\ start.pc = "attach" /\ status' = status /\ UNCHANGED builderVars
      /\ UNCHANGED tableVars /\ start' = [start EXCEPT !.pc = "release", !.attached = TRUE]
  BY DEF Attach, At, GoesOn
<1>2. StartTypes
  BY DEF StartInv
<1>3. start'.pc = "release" /\ start'.args = start.args
      /\ start'.chain = start.chain /\ start'.invites = start.invites
      /\ start'.separate = start.separate /\ start'.pool = start.pool
      /\ start'.dialog = start.dialog /\ start'.attached = TRUE
      /\ start'.taken = start.taken
  BY <1>1, <1>2 DEF StartTypes
<1>4. stage' = stage
  BY <1>1 DEF builderVars
<1>5. StartTypes'
  <2>1. "release" \in Pcs
    BY DEF Pcs
  <2> QED
    BY <1>1, <1>2, <2>1 DEF StartTypes
<1>6. HeldWhileRunning' /\ TextFollowsCall'
  BY <1>1, <1>3, <1>4 DEF StartInv, HeldWhileRunning, TextFollowsCall, Over
<1>7. ChainFollowsFile' /\ InvitesFollowChain' /\ LengthIsSum'
  <2>1. WalkStays
    BY <1>1, <1>3, TableStays DEF WalkStays
  <2> QED
    BY <1>1, <2>1, WalkStaysTrue, TextStaysTrue
<1> QED
  BY <1>1, <1>3, <1>5, <1>6, <1>7, GoesOnInv DEF Over

(* A recording is taken out of the table: under its start, or after it.    *)
LEMMA RemovedInv ==
  ASSUME StartInv, BuilderInv', UNCHANGED builderVars, status' = status, config' = config,
         TableFollowsFile', module' # "loading", Listed, start' = Removed
  PROVE  StartInv'
<1>1. StartTypes /\ stage' = stage /\ asked' = asked
  BY DEF StartInv, builderVars
<1>2. CASE Registered
  <2>1. start' = [start EXCEPT !.doomed = TRUE]
    BY <1>2 DEF Removed
  <2>2. start'.pc = start.pc /\ start'.args = start.args
        /\ start'.chain = start.chain /\ start'.invites = start.invites
        /\ start'.separate = start.separate /\ start'.pool = start.pool
        /\ start'.dialog = start.dialog /\ start'.attached = start.attached
        /\ start'.taken = start.taken /\ TextStays
    BY <1>1, <2>1 DEF StartTypes, TextStays
  <2>3. StartTypes'
    BY <1>1, <2>1 DEF StartTypes
  <2>4. start.pc \notin {"idle", "check"} /\ start.pc \notin Over
    BY <1>2 DEF Registered, Over
  <2>5. HeldWhileRunning' /\ StatusFollows' /\ ResultStands' /\ ReasonStands'
    <3>1. HeldWhileRunning'
      BY <1>1, <2>2, <2>4 DEF StartInv, HeldWhileRunning
    <3>2. ResultStands' /\ ReasonStands'
      BY <2>2, <2>4 DEF ResultStands, ReasonStands
    <3>3. StatusFollows'
      BY <2>2, <2>4 DEF StartInv, StatusFollows, Over
    <3> QED
      BY <3>1, <3>2, <3>3
  <2>6. TextFollowsCall'
    BY <1>1, <2>2 DEF StartInv, TextFollowsCall, TextStays
  <2>7. ChainFollowsFile' /\ InvitesFollowChain' /\ LengthIsSum'
    BY <2>2, <2>4, WalkStaysTrue, TextStaysTrue DEF WalkStays
  <2>8. FileStands'
    <3>1. Idle.pc = "idle"
      BY DEF Idle
    <3>2. start' # Idle
      BY <2>2, <2>4, <3>1
    <3> QED
      BY <2>2, <2>4, <3>2 DEF StartInv, FileStands
  <2> QED
    BY <2>3, <2>5, <2>6, <2>7, <2>8 DEF StartInv
<1>3. CASE ~Registered
  <2> DEFINE over == IF start.dialog = "up" THEN "ended" ELSE start.dialog
  <2>1. start.pc \in Over /\ start.result = "success" /\ ~start.taken
    BY <1>3 DEF Listed, Released, Over
  <2>2. start' = [start EXCEPT !.pool = "freed", !.attached = FALSE, !.dialog = over,
                               !.taken = TRUE]
    BY <1>3 DEF Removed, Discarded
  <2>3. over \in Dialogs /\ over \notin {"none", "up"} /\ ~start.doomed
    BY <1>1, <2>1 DEF StartInv, StartTypes, ResultStands, Dialogs
  <2> HIDE DEF over
  <2>4. start'.pc = start.pc /\ start'.args = start.args
        /\ start'.chain = start.chain /\ start'.invites = start.invites
        /\ start'.separate = start.separate /\ start'.pool = "freed"
        /\ start'.dialog = over /\ start'.attached = FALSE /\ start'.taken = TRUE
        /\ start'.doomed = start.doomed /\ start'.result = start.result
        /\ start'.reason = start.reason
    BY <1>1, <2>2 DEF StartTypes
  <2>5. StartTypes'
    BY <1>1, <2>2, <2>3 DEF StartTypes
  <2>6. ResultStands' /\ StatusFollows'
    BY <2>1, <2>3, <2>4 DEF StartInv, ResultStands, StatusFollows, NothingLeft
  <2> QED
    BY <2>1, <2>4, <2>5, <2>6, OverInv DEF WalkStays
<1> QED
  BY <1>2, <1>3

(* A stop or a hangup finds the recording in the table.                    *)
LEMMA StoppedStep ==
  ASSUME StartInv, BuilderInv', Stopped
  PROVE  StartInv'
<1>1. /\ Listed /\ start' = Removed /\ status' = status /\ UNCHANGED builderVars
      /\ UNCHANGED tableVars
  BY DEF Stopped, GoesOn
<1>2. TableFollowsFile' /\ config' = config /\ module' = module
  BY <1>1, TableStays
<1>3. module # "loading"
  BY <1>1 DEF StartInv, FileStands, Listed, Registered, Released
<1> QED
  BY <1>1, <1>2, <1>3, RemovedInv

(* The SRS ends the leg that answered.                                     *)
LEMMA LegEndsStep ==
  ASSUME StartInv, BuilderInv', LegEnds
  PROVE  StartInv'
<1>1. /\ start.dialog = "up" /\ status' = status /\ UNCHANGED builderVars
      /\ UNCHANGED tableVars /\ start' = [start EXCEPT !.dialog = "gone"]
  BY DEF LegEnds, GoesOn
<1>2. StartTypes
  BY DEF StartInv
<1>3. /\ start'.pc = start.pc /\ start'.args = start.args
      /\ start'.chain = start.chain /\ start'.invites = start.invites
      /\ start'.separate = start.separate /\ start'.pool = start.pool
      /\ start'.dialog = "gone" /\ start'.attached = start.attached
      /\ start'.taken = start.taken /\ start'.doomed = start.doomed
      /\ start'.result = start.result /\ start'.reason = start.reason
  BY <1>1, <1>2 DEF StartTypes
<1>4. StartTypes'
  BY <1>1, <1>2 DEF StartTypes, Dialogs
<1>5. start.pc \in Over \cup {"attach", "release"}
  <2>1. start.pc \notin {"idle", "check"}
    <3>1. Idle.dialog = "none" /\ \A a : [Idle EXCEPT !.pc = "check", !.args = a].dialog = "none"
      BY DEF Idle
    <3> QED
      BY <1>1, <3>1 DEF StartInv, FileStands
  <2> QED
    BY <1>1, <1>2, <2>1 DEF StartInv, StartTypes, HeldWhileRunning, Pcs, Over
<1>6. TableFollowsFile' /\ config' = config /\ module' = module
  BY <1>1, TableStays
<1>7. stage' = stage
  BY <1>1 DEF builderVars
<1>8. WalkStays
  BY <1>3, <1>6 DEF WalkStays
<1>9. CASE start.pc \in Over
  <2>1. ResultStands' /\ StatusFollows'
    BY <1>1, <1>3, <1>9 DEF StartInv, ResultStands, StatusFollows, NothingLeft
  <2>2. module' # "loading"
    BY <1>6, <1>9 DEF StartInv, FileStands, Over
  <2> QED
    BY <1>1, <1>3, <1>4, <1>6, <1>8, <1>9, <2>1, <2>2, OverInv
<1>10. CASE start.pc \in {"attach", "release"}
  <2>1. HeldWhileRunning' /\ TextFollowsCall'
    BY <1>3, <1>7, <1>10 DEF StartInv, HeldWhileRunning, TextFollowsCall
  <2>2. start.pc \notin Over \cup {"idle", "check"}
    BY <1>10 DEF Over
  <2>3. ChainFollowsFile' /\ InvitesFollowChain' /\ LengthIsSum'
    BY <1>1, <1>8, <2>2, WalkStaysTrue, TextStaysTrue
  <2> QED
    BY <1>1, <1>3, <1>4, <2>1, <2>2, <2>3, GoesOnInv
<1> QED
  BY <1>5, <1>9, <1>10

(* A start that has its recording fails and lets it go.                    *)
LEMMA GivesUp ==
  ASSUME StartInv, BuilderInv', UNCHANGED tableVars, stage' = "none",
         start.pc \notin Over \cup {"idle", "check"},
         NEW why \in {"no metadata", "no profile", "exhausted", "not attached", "stopped"},
         Fails(why, Discarded(start)),
         why = "exhausted" => Len(start.invites) = Min({MaxAttempts, Len(start.chain)}),
         why = "stopped" => start.doomed
  PROVE  StartInv'
<1> DEFINE over == IF start.dialog = "up" THEN "ended" ELSE start.dialog
<1>1. /\ status' = status
      /\ start' = [start EXCEPT !.pool = "freed", !.attached = FALSE, !.dialog = over,
                                !.reason = why, !.pc = "publish", !.result = "failed"]
  BY DEF Fails, Ends, GoesOn, Discarded
<1>2. StartTypes
  BY DEF StartInv
<1>3. over \in Dialogs /\ over # "up"
  BY <1>2 DEF StartTypes, Dialogs
<1> HIDE DEF over
<1>4. /\ start'.pc = "publish" /\ start'.args = start.args /\ start'.result = "failed"
      /\ start'.chain = start.chain /\ start'.invites = start.invites
      /\ start'.separate = start.separate /\ start'.pool = "freed"
      /\ start'.dialog = over /\ start'.attached = FALSE /\ start'.reason = why
      /\ start'.doomed = start.doomed
  BY <1>1, <1>2 DEF StartTypes
<1>5. StartTypes'
  <2>1. "publish" \in Pcs /\ why \in Reasons /\ "failed" \in Results
    BY DEF Pcs, Reasons, Results
  <2> QED
    BY <1>1, <1>2, <1>3, <2>1 DEF StartTypes
<1>6. WalkStays
  BY <1>4, TableStays DEF WalkStays
<1>7. ReasonStands'
  <2>1. why # "invalid options" /\ why # "no server"
    OBVIOUS
  <2> QED
    BY <1>4, <2>1 DEF ReasonStands, TriedAll
<1>8. ResultStands'
  BY <1>3, <1>4 DEF ResultStands, NothingLeft
<1> QED
  BY <1>1, <1>4, <1>5, <1>6, <1>7, <1>8, EndsInv DEF Over

(* The metadata is not built.                                              *)
LEMMA BuildFailsStep ==
  ASSUME StartInv, BuilderInv', BuildFails
  PROVE  StartInv'
<1>1. /\ start.pc = "build" /\ stage' = "none" /\ UNCHANGED tableVars
      /\ Fails("no metadata", Discarded(start))
  BY DEF BuildFails, At, TakeNothing
<1> QED
  BY <1>1, GivesUp DEF Over

(* There is no profile to send from.                                       *)
LEMMA NoProfileStep ==
  ASSUME StartInv, BuilderInv', NoProfile
  PROVE  StartInv'
<1>1. /\ start.pc = "profile" /\ stage' = "none" /\ UNCHANGED tableVars
      /\ Fails("no profile", Discarded(start))
  BY DEF NoProfile, At, FreeBody
<1> QED
  BY <1>1, GivesUp DEF Over

(* The smaller of two numbers.                                             *)
LEMMA MinOfTwo ==
  ASSUME NEW a \in Int, NEW b \in Int, NEW x \in {a, b}, x <= a, x <= b
  PROVE  x = Min({a, b})
<1> DEFINE least == CHOOSE m \in {a, b} : \A y \in {a, b} : m <= y
<1>1. least \in {a, b} /\ \A y \in {a, b} : least <= y
  OBVIOUS
<1>2. least = Min({a, b})
  BY DEF Min
<1> HIDE DEF least
<1>3. x = least
  BY <1>1
<1> QED
  BY <1>2, <1>3

(* Every candidate up to the cap was invited in vain.                      *)
LEMMA ExhaustedStep ==
  ASSUME StartInv, BuilderInv', Exhausted
  PROVE  StartInv'
<1>1. /\ start.pc = "walk" /\ stage' = "none" /\ UNCHANGED tableVars /\ ~MayAttempt
      /\ Fails("exhausted", Discarded(start))
  BY DEF Exhausted, At, FreeBody
<1> DEFINE sent == Len(start.invites)
           found == Len(start.chain)
<1>2. sent \in Nat /\ found \in Nat /\ MaxAttempts \in Nat
  BY StartAssumption DEF StartInv, StartTypes
<1>3. sent <= MaxAttempts /\ sent <= found /\ ~(sent < MaxAttempts /\ sent < found)
  BY <1>1 DEF StartInv, InvitesFollowChain, MayAttempt
<1> HIDE DEF sent, found
<1>4. sent = Min({MaxAttempts, found})
  BY <1>2, <1>3, MinOfTwo
<1>5. Len(start.invites) = Min({MaxAttempts, Len(start.chain)})
  BY <1>4 DEF sent, found
<1> QED
  BY <1>1, <1>5, GivesUp DEF Over

(* The fork is not attached: the dialog is ended again.                    *)
LEMMA AttachFailsStep ==
  ASSUME StartInv, BuilderInv', AttachFails
  PROVE  StartInv'
<1>1. /\ start.pc = "attach" /\ UNCHANGED builderVars /\ UNCHANGED tableVars
      /\ Fails("not attached", Discarded(start))
  BY DEF AttachFails, At
<1>2. stage' = "none"
  BY <1>1 DEF StartInv, HeldWhileRunning, builderVars
<1> QED
  BY <1>1, <1>2, GivesUp DEF Over

(* The start lets go of its pin: of a live recording, or of a doomed one.  *)
LEMMA ReleaseStep ==
  ASSUME StartInv, BuilderInv', Release
  PROVE  StartInv'
<1>1. /\ start.pc = "release" /\ UNCHANGED builderVars /\ UNCHANGED tableVars
  BY DEF Release, At
<1>2. stage' = "none"
  BY <1>1 DEF StartInv, HeldWhileRunning, builderVars
<1>3. CASE start.doomed
  <2>1. Fails("stopped", Discarded(start))
    BY <1>3 DEF Release
  <2> QED
    BY <1>1, <1>2, <1>3, <2>1, GivesUp DEF Over
<1>4. CASE ~start.doomed
  <2>1. /\ status' = status
        /\ start' = [start EXCEPT !.pc = "publish", !.result = "success"]
    BY <1>4 DEF Release, Ends, GoesOn
  <2>2. /\ StartTypes /\ start.pool = "live" /\ start.dialog \in {"up", "gone"}
        /\ start.attached /\ ~start.taken
    BY <1>1 DEF StartInv, HeldWhileRunning, Over
  <2>3. /\ start'.pc = "publish" /\ start'.args = start.args
        /\ start'.chain = start.chain /\ start'.invites = start.invites
        /\ start'.separate = start.separate /\ HoldsStay /\ start'.result = "success"
    BY <2>1, <2>2 DEF StartTypes, HoldsStay
  <2>4. StartTypes'
    <3>1. "publish" \in Pcs /\ "success" \in Results
      BY DEF Pcs, Results
    <3> QED
      BY <2>1, <2>2, <3>1 DEF StartTypes
  <2>5. WalkStays
    BY <1>1, <2>3, TableStays DEF WalkStays
  <2>6. ResultStands' /\ ReasonStands'
    BY <1>4, <2>2, <2>3 DEF ResultStands, ReasonStands, HoldsStay
  <2> QED
    BY <1>1, <1>2, <2>1, <2>3, <2>4, <2>5, <2>6, EndsInv
<1> QED
  BY <1>3, <1>4

(* What was returned is published.                                         *)
LEMMA PublishStep ==
  ASSUME StartInv, BuilderInv', Publish
  PROVE  StartInv'
<1>1. /\ start.pc = "publish" /\ status' = start.result /\ UNCHANGED builderVars
      /\ UNCHANGED tableVars /\ start' = [start EXCEPT !.pc = "done"]
  BY DEF Publish, At
<1>2. StartTypes
  BY DEF StartInv
<1>3. /\ start'.pc = "done" /\ start'.args = start.args
      /\ start'.chain = start.chain /\ start'.invites = start.invites
      /\ start'.separate = start.separate /\ HoldsStay
      /\ start'.result = start.result /\ start'.reason = start.reason
  BY <1>1, <1>2 DEF StartTypes, HoldsStay
<1>4. StartTypes'
  <2>1. "done" \in Pcs
    BY DEF Pcs
  <2> QED
    BY <1>1, <1>2, <2>1 DEF StartTypes
<1>5. TableFollowsFile' /\ config' = config /\ module' = module
  BY <1>1, TableStays
<1>6. module' # "loading" /\ start.pc \in Over /\ start'.pc \in Over
  BY <1>1, <1>3, <1>5 DEF StartInv, FileStands, Over
<1>7. ResultStands' /\ StatusFollows'
  BY <1>1, <1>3, <1>6 DEF StartInv, ResultStands, StatusFollows, NothingLeft, HoldsStay
<1> QED
  BY <1>1, <1>3, <1>4, <1>5, <1>6, <1>7, OverInv DEF WalkStays, HoldsStay

(* The next INVITE goes to the next candidate.                             *)
LEMMA InvitedTrue ==
  ASSUME StartInv, start.pc = "walk", MayAttempt, UNCHANGED tableVars,
         start'.args = start.args, start'.chain = start.chain,
         start'.separate = start.separate, start'.invites = Invited.invites
  PROVE  /\ Invited.invites \in Seq(Invitations)
         /\ Invited = [start EXCEPT !.invites = Invited.invites]
         /\ ChainFollowsFile' /\ InvitesFollowChain'
<1> DEFINE n == Len(start.invites)
           server == start.chain[n + 1]
           next == [entry |-> server.entry, uri |-> UriFor(server), labels |-> OfferLabels]
<1>1. start \in [pc : Pcs, args : Args \cup {NoArgs}, chain : Seq(Copies \cup AdHocs),
                 separate : BOOLEAN, call : Readings \cup {NoCall}, todo : Seq(Fragments),
                 pool : {"none", "live", "freed"}, doomed : BOOLEAN, taken : BOOLEAN,
                 invites : Seq(Invitations), dialog : Dialogs, attached : BOOLEAN,
                 result : Results, reason : Reasons]
  BY DEF StartInv, StartTypes
<1>2. /\ Invited = [start EXCEPT !.invites = Append(start.invites, next)]
      /\ Invited.invites = Append(start.invites, next)
  BY <1>1 DEF Invited
<1>3. /\ n \in Nat /\ Len(start.chain) \in Nat /\ n + 1 <= MaxAttempts
      /\ n + 1 <= Len(start.chain)
  BY <1>1, StartAssumption DEF MayAttempt
<1>4. server \in Copies \cup AdHocs
  BY <1>1, <1>3
<1>5. next \in Invitations
  <2>1. server.entry \in Nat
    <3>1. \A s \in Copies : s.entry \in Nat
      BY DEF Copies
    <3>2. \A s \in AdHocs : s.entry \in Nat
      BY DEF AdHocs, AdHoc
    <3> HIDE DEF server
    <3> QED
      BY <1>4, <3>1, <3>2
  <2>2. OfferLabels \in {{"1"}, {"1", "2"}}
    BY DEF OfferLabels
  <2>3. UriFor(server) \in {UriFor(s) : s \in Copies \cup AdHocs}
    BY <1>4
  <2> HIDE DEF server
  <2> QED
    BY <2>1, <2>2, <2>3 DEF Invitations
<1>6. OfferLabels' = OfferLabels
  BY DEF OfferLabels
<1>7. PICK t : t = Append(start.invites, next)
  OBVIOUS
<1>8. /\ t \in Seq(Invitations) /\ Len(t) = n + 1 /\ t[n + 1] = next
      /\ \A i \in 1 .. n : t[i] = start.invites[i]
  <2> HIDE DEF next
  <2> QED
    BY <1>1, <1>5, <1>7, AppendProperties
<1>9. ASSUME NEW i \in 1 .. n + 1
      PROVE  t[i] = [entry |-> start.chain[i].entry, uri |-> UriFor(start.chain[i]),
                     labels |-> OfferLabels]
  <2>1. CASE i = n + 1
    BY <1>8, <2>1
  <2>2. CASE i # n + 1
    <3>1. i \in 1 .. n
      BY <1>3, <1>9, <2>2
    <3> QED
      BY <1>8, <3>1 DEF StartInv, InvitesFollowChain
  <2> QED
    BY <2>1, <2>2
<1>10. InvitesFollowChain'
  <2>1. start'.invites = t /\ start'.chain = start.chain
    BY <1>2, <1>7
  <2> HIDE DEF next, n
  <2> QED
    BY <1>3, <1>6, <1>8, <1>9, <2>1 DEF InvitesFollowChain
<1>11. ChainFollowsFile'
  <2>1. config' = config
    BY DEF tableVars
  <2>2. /\ \A x : GoodOf(x)' = GoodOf(x)
        /\ \A x : Copied(x)' = Copied(x)
    BY <2>1 DEF GoodOf, GoodEntries, Copied
  <2> QED
    BY <2>2 DEF StartInv, ChainFollowsFile
<1> QED
  BY <1>2, <1>7, <1>8, <1>10, <1>11

(* A candidate fails, or does not answer in time: the walk goes on.        *)
LEMMA InviteFailsStep ==
  ASSUME StartInv, BuilderInv', InviteFails
  PROVE  StartInv'
<1> DEFINE sent == Invited.invites
<1>1. /\ start.pc = "walk" /\ MayAttempt /\ status' = status /\ start' = Invited
      /\ UNCHANGED tableVars /\ UNCHANGED builderVars
  BY DEF InviteFails, At, GoesOn
<1>2. StartTypes
  BY DEF StartInv
<1>3. /\ Invited.args = start.args /\ Invited.chain = start.chain
      /\ Invited.separate = start.separate
  BY <1>2 DEF StartTypes, Invited
<1>4. /\ sent \in Seq(Invitations) /\ Invited = [start EXCEPT !.invites = sent]
      /\ ChainFollowsFile' /\ InvitesFollowChain'
  BY <1>1, <1>3, InvitedTrue
<1> HIDE DEF sent
<1>5. start' = [start EXCEPT !.invites = sent]
  BY <1>1, <1>4
<1>6. start'.pc = "walk" /\ HoldsStay /\ TextStays /\ start'.args = start.args
      /\ start'.separate = start.separate
  BY <1>1, <1>2, <1>5 DEF StartTypes, HoldsStay, TextStays
<1>7. StartTypes'
  BY <1>2, <1>4, <1>5 DEF StartTypes
<1>8. stage' = stage /\ asked' = asked
  BY <1>1 DEF builderVars
<1>9. HeldWhileRunning'
  BY <1>1, <1>6, <1>8 DEF StartInv, HeldWhileRunning, HoldsStay
<1>10. TextFollowsCall'
  BY <1>1, <1>6, <1>8 DEF StartInv, TextFollowsCall, TextStays
<1>11. LengthIsSum'
  BY <1>1, TextStaysTrue
<1> QED
  BY <1>1, <1>4, <1>6, <1>7, <1>9, <1>10, <1>11, GoesOnInv DEF Over

(* A candidate answers: the text is given back.                            *)
LEMMA InviteAnsweredStep ==
  ASSUME StartInv, BuilderInv', InviteAnswered
  PROVE  StartInv'
<1> DEFINE sent == Invited.invites
<1>1. /\ start.pc = "walk" /\ MayAttempt /\ status' = status /\ stage' = "none"
      /\ UNCHANGED tableVars /\ start' = [Invited EXCEPT !.pc = "attach", !.dialog = "up"]
  BY DEF InviteAnswered, At, GoesOn, FreeBody
<1>2. StartTypes
  BY DEF StartInv
<1>3. /\ start'.args = start.args /\ start'.chain = start.chain
      /\ start'.separate = start.separate /\ start'.invites = sent
  BY <1>1, <1>2 DEF StartTypes, Invited
<1>4. /\ sent \in Seq(Invitations) /\ Invited = [start EXCEPT !.invites = sent]
      /\ ChainFollowsFile' /\ InvitesFollowChain'
  BY <1>1, <1>3, InvitedTrue
<1> HIDE DEF sent
<1>5. start' = [start EXCEPT !.invites = sent, !.pc = "attach", !.dialog = "up"]
  BY <1>1, <1>4
<1>6. /\ start'.pc = "attach" /\ start'.pool = start.pool /\ start'.dialog = "up"
      /\ start'.attached = start.attached /\ start'.taken = start.taken
  BY <1>2, <1>5 DEF StartTypes
<1>7. StartTypes'
  <2>1. "attach" \in Pcs /\ "up" \in Dialogs
    BY DEF Pcs, Dialogs
  <2> QED
    BY <1>2, <1>4, <1>5, <2>1 DEF StartTypes
<1>8. HeldWhileRunning' /\ TextFollowsCall' /\ LengthIsSum'
  <2>1. start'.pool = "live" /\ start'.attached = FALSE /\ ~start'.taken
    BY <1>1, <1>2, <1>6 DEF StartInv, HeldWhileRunning, StartTypes, Over
  <2> QED
    BY <1>1, <1>6, <2>1 DEF HeldWhileRunning, TextFollowsCall, LengthIsSum
<1> QED
  BY <1>1, <1>3, <1>4, <1>6, <1>7, <1>8, GoesOnInv DEF Over

(* The app returns.                                                        *)
LEMMA ReturnStep ==
  ASSUME StartInv, BuilderInv', Return
  PROVE  StartInv'
<1>1. /\ start.pc = "done" /\ start' = Idle /\ status' = status
      /\ UNCHANGED tableVars /\ UNCHANGED builderVars
  BY DEF Return, At, GoesOn
<1>2. TableFollowsFile'
  BY <1>1, TableStays
<1>3. StartTypes'
  <2>1. /\ Idle.pc \in Pcs /\ Idle.reason \in Reasons /\ Idle.dialog \in Dialogs
        /\ Idle.result \in Results
        /\ << >> \in Seq(Copies \cup AdHocs) /\ << >> \in Seq(Fragments)
        /\ << >> \in Seq(Invitations)
    BY DEF Idle, Pcs, Reasons, Dialogs, Results
  <2> QED
    BY <1>1, <2>1 DEF StartTypes, Idle
<1>4. /\ start'.pc = "idle" /\ start'.chain = << >> /\ start'.invites = << >>
      /\ start'.taken = FALSE
  BY <1>1 DEF Idle
<1>5. stage = "none" /\ stage' = stage
  BY <1>1 DEF StartInv, HeldWhileRunning, builderVars
<1>6. FileStands' /\ HeldWhileRunning' /\ ChainFollowsFile' /\ TextFollowsCall' /\ LengthIsSum'
  BY <1>1, <1>4, <1>5
  DEF FileStands, HeldWhileRunning, ChainFollowsFile, TextFollowsCall, LengthIsSum
<1>7. InvitesFollowChain'
  <2>1. Len(<< >>) = 0
    OBVIOUS
  <2> QED
    BY <1>4, <2>1, StartAssumption DEF InvitesFollowChain
<1>8. ResultStands' /\ ReasonStands' /\ StatusFollows'
  BY <1>4 DEF ResultStands, ReasonStands, StatusFollows, Over
<1> QED
  BY <1>2, <1>3, <1>6, <1>7, <1>8 DEF StartInv

(* The start rests, whatever becomes of the table.                         *)
LEMMA RestsInv ==
  ASSUME StartInv, BuilderInv', UNCHANGED builderVars, start' = start, status' = status,
         config' = config, TableFollowsFile',
         module' = module \/ (module' # "loading" /\ start.pc # "check")
  PROVE  StartInv'
<1>1. stage' = stage /\ asked' = asked
  BY DEF builderVars
<1>2. StartTypes' /\ InvitesFollowChain'
  BY DEF StartInv, StartTypes, InvitesFollowChain, OfferLabels
<1>3. FileStands'
  BY DEF StartInv, FileStands
<1>4. HeldWhileRunning' /\ TextFollowsCall'
  BY <1>1 DEF StartInv, HeldWhileRunning, TextFollowsCall
<1>5. ResultStands' /\ StatusFollows'
  BY DEF StartInv, ResultStands, StatusFollows, NothingLeft
<1>6. /\ \A x : GoodOf(x)' = GoodOf(x)
      /\ \A x : Copied(x)' = Copied(x)
  BY DEF GoodOf, GoodEntries, Copied
<1>7. ChainFollowsFile' /\ ReasonStands'
  BY <1>6 DEF StartInv, ChainFollowsFile, ReasonStands, TriedAll
<1>8. LengthIsSum'
  BY TextStaysTrue
<1> QED
  BY <1>2, <1>3, <1>4, <1>5, <1>7, <1>8 DEF StartInv

(* The unload frees the table, whatever start is under way.                *)
LEMMA UnloadStep ==
  ASSUME StartInv, BuilderInv', Unload
  PROVE  StartInv'
<1>1. /\ FreeServers /\ status' = status /\ UNCHANGED builderVars /\ module = "loaded"
      /\ start.pc # "check" /\ start' = IF Listed THEN Removed ELSE start
  BY DEF Unload, GoesOn
<1>2. config' = config /\ module' = "unloaded" /\ TableFollowsFile'
  BY <1>1, FreeServersStep DEF FreeServers, StartInv
<1>3. CASE Listed
  BY <1>1, <1>2, <1>3, RemovedInv
<1>4. CASE ~Listed
  BY <1>1, <1>2, <1>4, RestsInv
<1> QED
  BY <1>3, <1>4

(* The file is read, while no start runs, or read again.                   *)
LEMMA ConfigureStep ==
  ASSUME StartInv, BuilderInv', Configure
  PROVE  StartInv'
<1>1. /\ UNCHANGED builderVars /\ start' = start /\ status' = status
      /\ TableFollowsFile'
  BY ConfigureTable DEF Configure, StartInv
<1>2. start.pc = "idle"
  BY DEF Configure, LoadEntry, LoadDone, LoadFails, Reload, At, StartInv, FileStands
<1>3. stage' = stage
  BY <1>1 DEF builderVars
<1>4. StartTypes' /\ InvitesFollowChain'
  BY <1>1 DEF StartInv, StartTypes, InvitesFollowChain, OfferLabels
<1>5. FileStands' /\ HeldWhileRunning' /\ ChainFollowsFile' /\ TextFollowsCall'
  BY <1>1, <1>2, <1>3
  DEF StartInv, FileStands, HeldWhileRunning, ChainFollowsFile, TextFollowsCall, Over
<1>6. LengthIsSum'
  BY <1>1, TextStaysTrue
<1>7. ResultStands' /\ ReasonStands' /\ StatusFollows'
  BY <1>1, <1>2 DEF ResultStands, ReasonStands, StatusFollows, Over
<1> QED
  BY <1>1, <1>4, <1>5, <1>6, <1>7 DEF StartInv

(* Nothing happens.                                                        *)
LEMMA StutterStep ==
  ASSUME StartInv, BuilderInv', UNCHANGED vars
  PROVE  StartInv'
<1>1. /\ UNCHANGED builderVars /\ UNCHANGED tableVars /\ start' = start /\ status' = status
  BY DEF vars
<1>2. TableFollowsFile' /\ config' = config /\ module' = module
  BY <1>1, TableStays
<1> QED
  BY <1>1, <1>2, RestsInv

-----------------------------------------------------------------------------
(* The invariant, and what follows from it.                                *)

(* Nothing has happened yet.                                               *)
LEMMA StartInitInv == Init => StartInv
<1> SUFFICES ASSUME Init
             PROVE  StartInv
  OBVIOUS
<1>1. BuilderInv /\ TableFollowsFile /\ start = Idle /\ status = ""
  BY BuilderInitInv, TableInitInv DEF Init
<1>2. stage = "none"
  BY DEF Init, BuilderInit
<1>3. StartTypes
  <2>1. /\ Idle.pc \in Pcs /\ Idle.reason \in Reasons /\ Idle.dialog \in Dialogs
        /\ Idle.result \in Results
        /\ << >> \in Seq(Copies \cup AdHocs) /\ << >> \in Seq(Fragments)
        /\ << >> \in Seq(Invitations)
    BY DEF Idle, Pcs, Reasons, Dialogs, Results
  <2> QED
    BY <1>1, <2>1 DEF StartTypes, Idle
<1>4. /\ start.pc = "idle" /\ start.chain = << >> /\ start.invites = << >>
      /\ start.taken = FALSE
  BY <1>1 DEF Idle
<1>5. FileStands /\ HeldWhileRunning /\ ChainFollowsFile /\ TextFollowsCall /\ LengthIsSum
  BY <1>1, <1>2, <1>4
  DEF FileStands, HeldWhileRunning, ChainFollowsFile, TextFollowsCall, LengthIsSum
<1>6. InvitesFollowChain
  <2>1. Len(<< >>) = 0
    OBVIOUS
  <2> QED
    BY <1>4, <2>1, StartAssumption DEF InvitesFollowChain
<1>7. ResultStands /\ ReasonStands /\ StatusFollows
  BY <1>4 DEF ResultStands, ReasonStands, StatusFollows, Over
<1> QED
  BY <1>1, <1>3, <1>5, <1>6, <1>7 DEF StartInv

(* Every step of every action keeps the invariant.                         *)
LEMMA StartStepInv ==
  ASSUME StartInv, [Next]_vars
  PROVE  StartInv'
<1>1. BuilderInv'
  BY BuilderKept
<1>2. CASE Configure \/ Unload \/ Stopped \/ LegEnds
  BY <1>1, <1>2, ConfigureStep, UnloadStep, StoppedStep, LegEndsStep
<1>3. CASE StartApp \/ RefuseStart \/ NoServer \/ Resolve \/ Exists \/ Insert
  BY <1>1, <1>3, StartAppStep, RefuseStartStep, NoServerStep, ResolveStep, ExistsStep,
     InsertStep
<1>4. CASE Compose \/ AppendElement \/ BodyBuilt \/ BuildFails \/ NoProfile \/ Profile
  BY <1>1, <1>4, ComposeStep, AppendElementStep, BodyBuiltStep, BuildFailsStep,
     NoProfileStep, ProfileStep
<1>5. CASE InviteFails \/ InviteAnswered \/ Exhausted
  BY <1>1, <1>5, InviteFailsStep, InviteAnsweredStep, ExhaustedStep
<1>6. CASE Attach \/ AttachFails \/ Release \/ Publish \/ Return
  BY <1>1, <1>6, AttachStep, AttachFailsStep, ReleaseStep, PublishStep, ReturnStep
<1>7. CASE UNCHANGED vars
  BY <1>1, <1>7, StutterStep
<1> QED
  BY <1>2, <1>3, <1>4, <1>5, <1>6, <1>7 DEF Next

(* The invariant holds of every start, for every file of entries and every *)
(* call: siprec_start_app, start_recording_session and the failover walk,  *)
(* under every unload, stop and end of the leg.                            *)
THEOREM StartInvariant == Spec => []StartInv
<1>1. Init => StartInv
  BY StartInitInv
<1>2. StartInv /\ [Next]_vars => StartInv'
  BY StartStepInv
<1> QED
  BY <1>1, <1>2, PTL DEF Spec

(* A start that fails has tried what it could, what it tells the metadata  *)
(* builder is never refused, and no text is given up that fits and whose   *)
(* memory there was.                                                       *)
THEOREM FailuresHaveReasons == Spec => []FailsForAReason
<1>1. ASSUME StartInv
      PROVE  FailsForAReason
  <2>1. At("done") /\ status = "failed" => TriedAll
    BY <1>1 DEF StartInv, ReasonStands, StatusFollows, At, Over
  <2>2. stage = "open" /\ err => starved \/ SumOfSizes(asked) + 1 > MaxCap
    BY <1>1 DEF StartInv, LengthIsSum
  <2> QED
    BY <2>1, <2>2 DEF FailsForAReason
<1> QED
  BY <1>1, StartInvariant, PTL

(* The outcome siprec_start publishes is true, although the recording may  *)
(* be stopped between the start's release and the publication, and the SRS *)
(* may end the leg at any moment: "success" was answered, attached and not *)
(* stopped when its pin was let go, and what the module made is all there  *)
(* or was all taken away since; otherwise nothing is left.                 *)
THEOREM OutcomesAreTrue == Spec => []OutcomeIsTrue
<1>1. ASSUME StartInv
      PROVE  OutcomeIsTrue
  <2>1. start.result \in Results
    BY <1>1 DEF StartInv, StartTypes
  <2>2. At("done") => status = start.result /\ start.pc \in Over
    BY <1>1 DEF StartInv, StatusFollows, At, Over
  <2>3. start.pc \notin {"idle", "done"} => status = ""
    BY <1>1 DEF StartInv, StatusFollows
  <2>4. ResultStands
    BY <1>1 DEF StartInv
  <2> QED
    BY <2>1, <2>2, <2>3, <2>4 DEF OutcomeIsTrue, ResultStands, Results
<1> QED
  BY <1>1, StartInvariant, PTL

(* The chain of every name is its good entries in the order of the file.   *)
THEOREM ChainsAreTheFile == Spec => []ChainIsConfig
<1>1. StartInv => ChainIsConfig
  BY DEF StartInv, TableFollowsFile, ChainIsConfig
<1> QED
  BY <1>1, StartInvariant, PTL

(* No start keeps a block of the heap, and no unload a pool of the table.  *)
THEOREM StartsLeakNothing == Spec => []NothingLeaks
<1>1. ASSUME StartInv
      PROVE  NothingLeaks
  <2>1. start.pc \in {"idle", "check", "insert", "publish", "done"} => stage = "none"
    BY <1>1 DEF StartInv, HeldWhileRunning
  <2>2. stage = "none" => blocks = 0
    BY <1>1 DEF StartInv, BuilderInv, EmptyBuffer, OneBlock
  <2> QED
    BY <1>1, <2>1, <2>2 DEF NothingLeaks, StartInv, TableFollowsFile
<1> QED
  BY <1>1, StartInvariant, PTL

(* To the string builder a start is a caller like any other: so its text   *)
(* never overruns, and it is whole or not there.                           *)
THEOREM StartsBuildDocuments == Spec => BuilderSpec
<1>1. Init => BuilderInit
  BY DEF Init
<1>2. StartInv /\ [Next]_vars => [BuilderNext]_builderVars
  BY BuilderMoves
<1> QED
  BY <1>1, <1>2, StartInvariant, PTL DEF Spec, BuilderSpec

(* What is written of a text and its NUL lie inside its buffer.            *)
THEOREM StartsNeverOverrun == Spec => []NoOverrun
BY StartsBuildDocuments, BuilderNeverOverruns, PTL

(* The metadata a start sends is the whole text, or none is sent.          *)
THEOREM StartsImplementDocument == Spec => ImplementsDocument
BY StartsBuildDocuments, BuilderImplementsDocument, PTL

(* Every candidate is a copy in the recording's own pool.                  *)
LEMMA CandidatesAreCopies == \A s \in Copies \cup AdHocs : s.home = "recording"
<1>1. \A s \in Copies : s.home = "recording"
  BY DEF Copies
<1>2. \A s \in AdHocs : s.home = "recording"
  BY DEF AdHocs, AdHoc
<1> QED
  BY <1>1, <1>2

(* The INVITE sent to a candidate is that candidate's.                     *)
LEMMA InviteIs ==
  ASSUME StartInv, NEW i \in 1 .. Len(start.invites)
  PROVE  /\ start.invites[i].entry = start.chain[i].entry
         /\ start.invites[i].uri = UriFor(start.chain[i])
<1>1. start.invites[i] = [entry |-> start.chain[i].entry, uri |-> UriFor(start.chain[i]),
                          labels |-> OfferLabels]
  BY DEF StartInv, InvitesFollowChain
<1> QED
  BY <1>1

(* The walk reads its candidates from the pool of its recording, which is  *)
(* live as long as it walks: an unload cannot take them away.              *)
THEOREM WalksReadLiveMemory == Spec => []WalkReadsLiveMemory
<1>1. ASSUME StartInv
      PROVE  WalkReadsLiveMemory
  <2> SUFFICES ASSUME start.pc \in {"insert", "compose", "build", "profile", "walk"},
                      NEW i \in 1 .. Len(start.chain)
               PROVE  start.chain[i].home = "recording" /\ start.pool = "live"
    BY DEF WalkReadsLiveMemory
  <2>1. start.chain \in Seq(Copies \cup AdHocs)
    BY <1>1 DEF StartInv, StartTypes
  <2>2. start.chain[i] \in Copies \cup AdHocs
    BY <2>1
  <2> QED
    BY <1>1, <2>2, CandidatesAreCopies DEF StartInv, HeldWhileRunning
<1> QED
  BY <1>1, StartInvariant, PTL

(* Who is invited is known: the ad hoc URI, or an entry of the handle.     *)
LEMMA InvitedAre ==
  ASSUME StartInv, start.invites # << >>
  PROVE  /\ Len(start.invites) \in Nat \ {0} /\ Len(start.chain) \in Nat
         /\ Len(start.invites) <= Len(start.chain)
         /\ \/ /\ start.args.uri # NoUri /\ UriCheck(start.args.uri) = ""
               /\ start.chain = AdHoc(start.args.uri)
            \/ /\ start.args.uri = NoUri
               /\ \E s \in Seq(Nat) : /\ Lists(s, GoodOf(start.args.handle))
                                      /\ start.chain = [i \in 1 .. Len(s) |-> Copied(s[i])]
<1>1. /\ start.invites \in Seq(Invitations) /\ start.chain \in Seq(Copies \cup AdHocs)
      /\ Len(start.invites) <= Len(start.chain)
  BY DEF StartInv, StartTypes, InvitesFollowChain
<1>2. Len(start.invites) \in Nat \ {0} /\ Len(start.chain) \in Nat
  BY <1>1, EmptySeq, LenProperties
<1>3. start.chain # << >>
  <2>1. Len(<< >>) = 0
    OBVIOUS
  <2> QED
    BY <1>1, <1>2, <2>1
<1>4. start.pc # "idle"
  <2>1. Idle.invites = << >>
    BY DEF Idle
  <2> QED
    BY <2>1 DEF StartInv, FileStands
<1> QED
  BY <1>1, <1>2, <1>3, <1>4 DEF StartInv, ChainFollowsFile

(* The INVITEs go to the good entries of the handle in the order of the    *)
(* file, each once and up to the cap, or to the one ad hoc URI: what       *)
(* siprec_invite_send walks is what load_recording_server chained.         *)
THEOREM WalksFollowConfig == Spec => []WalkFollowsConfig
<1>1. ASSUME StartInv
      PROVE  WalkFollowsConfig
  <2> DEFINE sent == start.invites
             k == Len(sent)
             entries == [i \in 1 .. k |-> sent[i].entry]
             wanted == {e \in GoodOf(start.args.handle) : e <= entries[k]}
  <2>1. k <= MaxAttempts
    BY <1>1 DEF StartInv, InvitesFollowChain
  <2>2. ASSUME sent # << >>, start.args.uri # NoUri
        PROVE  k = 1 /\ sent[1].uri = start.args.uri
    <3>1. start.chain = AdHoc(start.args.uri) /\ k \in Nat \ {0} /\ k <= Len(start.chain)
      BY <1>1, <2>2, InvitedAre
    <3>2. Len(start.chain) = 1 /\ UriFor(start.chain[1]) = start.args.uri
      BY <3>1 DEF AdHoc, UriFor
    <3>3. PICK n : n = k
      OBVIOUS
    <3>4. n \in Nat \ {0} /\ n <= 1
      BY <3>1, <3>2, <3>3
    <3>5. n = 1
      BY <3>4
    <3>6. 1 \in 1 .. k
      BY <3>3, <3>5
    <3>7. sent[1].uri = UriFor(start.chain[1])
      BY <1>1, <3>6, InviteIs
    <3> QED
      BY <3>2, <3>3, <3>5, <3>7
  <2>3. ASSUME sent # << >>, start.args.uri = NoUri
        PROVE  Lists(entries, wanted)
    <3>1. PICK s \in Seq(Nat) : /\ Lists(s, GoodOf(start.args.handle))
                                /\ start.chain = [i \in 1 .. Len(s) |-> Copied(s[i])]
      BY <1>1, <2>3, InvitedAre
    <3>2. k \in Nat \ {0} /\ k <= Len(start.chain)
      BY <1>1, <2>3, InvitedAre
    <3>3. Len(start.chain) = Len(s) /\ k \in 1 .. Len(s)
      <4>1. Len(s) \in Nat
        OBVIOUS
      <4>2. Len(start.chain) = Len(s)
        BY <3>1, <4>1
      <4> QED
        BY <3>2, <4>1, <4>2
    <3>4. ASSUME NEW i \in 1 .. k
          PROVE  sent[i].entry = s[i]
      <4>1. i \in 1 .. Len(s)
        BY <3>3, <3>4
      <4>2. sent[i].entry = start.chain[i].entry
        BY <1>1, <3>4, InviteIs
      <4>3. start.chain[i].entry = s[i]
        BY <3>1, <4>1 DEF Copied
      <4> QED
        BY <4>2, <4>3
    <3>5. PICK t : t = entries
      OBVIOUS
    <3>6. Len(t) = k /\ \A i \in 1 .. k : t[i] = s[i]
      BY <3>2, <3>4, <3>5
    <3>7. Lists(t, {e \in GoodOf(start.args.handle) : e <= t[k]})
      <4> HIDE DEF k
      <4> QED
        BY <3>1, <3>3, <3>6, FirstAreListed
    <3> QED
      BY <3>5, <3>7
  <2> HIDE DEF sent
  <2> QED
    BY <2>1, <2>2, <2>3 DEF WalkFollowsConfig, sent
<1> QED
  BY <1>1, StartInvariant, PTL

(* A number below 100000 has one to five digits.                           *)
LEMMA DigitsAre ==
  ASSUME NEW n \in Nat, n < 100000
  PROVE  Digits(n) \in 1 .. 5
<1> DEFINE P(d) == n < 10 ^ d /\ (d = 1 \/ n >= 10 ^ (d - 1))
<1>1. Digits(n) = CHOOSE d \in 1 .. 5 : P(d)
  BY DEF Digits
<1>2. /\ n < 10 => P(1)
      /\ n >= 10 /\ n < 100 => P(2)
      /\ n >= 100 /\ n < 1000 => P(3)
      /\ n >= 1000 /\ n < 10000 => P(4)
      /\ n >= 10000 => P(5)
  BY SMT
<1> HIDE DEF P
<1>3. P(1) \/ P(2) \/ P(3) \/ P(4) \/ P(5)
  BY <1>2, SMT
<1>4. \E d \in 1 .. 5 : P(d)
  BY <1>3
<1> QED
  BY <1>1, <1>4

(* Only a URI with nothing wrong passes the check.                         *)
LEMMA CheckedUri ==
  ASSUME NEW uri, UriCheck(uri) = ""
  PROVE  uri.clean /\ ~uri.split /\ ~(uri.len > UriMaxLen)
BY DEF UriCheck

(* A URI that has its scheme, its length and its characters right.         *)
NothingWrong(uri) ==
  /\ uri.scheme \in {"sip", "sips"} /\ uri.clean /\ ~uri.split
  /\ uri.len \in Nat /\ uri.len > 5 /\ uri.len <= UriMaxLen

(* A URI with nothing wrong passes it.                                     *)
LEMMA UriPasses ==
  ASSUME NEW uri, NothingWrong(uri)
  PROVE  UriCheck(uri) = ""
<1>1. uri.len # 0 /\ ~(uri.len > UriMaxLen)
  BY SMT DEF UriMaxLen, NothingWrong
<1>2. uri.len # SchemeLen(uri.scheme)
  <2>1. SchemeLen("sip") = 4 /\ SchemeLen("sips") = 5
    BY DEF SchemeLen
  <2> QED
    BY <2>1 DEF NothingWrong
<1> QED
  BY <1>1, <1>2 DEF UriCheck, NothingWrong

(* A port has at most five digits.                                         *)
LEMMA PortsAreShort == MaxPort \in Nat /\ MaxPort < 100000
BY SMT DEF MaxPort

(* The port of an entry, when it is one or not set.                        *)
LEMMA EntryPort ==
  ASSUME NEW e \in Entries, ~(e.port < 0)
  PROVE  e.host.len \in Nat /\ e.port \in Nat /\ e.port <= MaxPort /\ e.port \in 0 .. MaxPort
<1>1. e.host.len \in Nat /\ e.port \in -1 .. MaxPort
  BY EntriesAssumption
<1>2. MaxPort \in Nat
  BY PortsAreShort, SMT
<1> QED
  BY <1>1, <1>2

(* An entry that is loaded has a port, a transport, and a host with only   *)
(* characters of the allowlist and without the separator of originate.     *)
LEMMA LoadedEntry ==
  ASSUME NEW e, ConfigError(e) = ""
  PROVE  /\ ~(e.port < 0) /\ e.transport \in {"", "udp", "tcp", "tls"}
         /\ e.host.clean /\ ~e.host.split
<1>1. ~(e.port < 0) /\ e.transport \in {"", "udp", "tcp", "tls"}
  BY Zenon DEF ConfigError
<1>2. UriCheck(HostUri(e.host)) = ""
  BY Zenon DEF ConfigError
<1>3. HostUri(e.host).clean /\ ~HostUri(e.host).split
  BY <1>2, CheckedUri
<1> QED
  BY <1>1, <1>3 DEF HostUri

(* The URI that is printed for a server.                                   *)
Printed(s) ==
  [scheme    |-> SchemeOf(s),
   host      |-> IF LenToHost(s) < UriBuf THEN s.host.id ELSE "cut",
   port      |-> IF LenToPort(s) < UriBuf THEN PortOf(s) ELSE Cut,
   transport |-> IF FullLen(s) < UriBuf THEN SuffixOf(s) ELSE "cut",
   len       |-> IF FullLen(s) < UriBuf THEN FullLen(s) ELSE UriBuf - 1,
   clean     |-> s.host.clean,
   split     |-> \/ s.host.split
                 \/ s.host.closes /\ LenToHost(s) + 1 < UriBuf]

(* A port of its own is printed, and the SIP default for none.             *)
LEMMA PortPrinted ==
  ASSUME NEW s, s.port \in Nat, s.port <= MaxPort
  PROVE  /\ PortOf(s) \in Nat /\ PortOf(s) < 100000
         /\ PortOf(s) = IF s.port = 0 THEN 5060 ELSE s.port
<1>1. MaxPort \in Nat /\ MaxPort < 100000
  BY PortsAreShort, SMT
<1>2. PortOf(s) = IF s.port = 0 THEN 5060 ELSE s.port
  BY SMT DEF PortOf
<1> QED
  BY <1>1, <1>2, SMT

(* What is printed is as long as its parts.                                *)
LEMMA LengthPrinted ==
  ASSUME NEW s, s.host.len \in Nat, s.port \in Nat, s.port <= MaxPort
  PROVE  /\ FullLen(s) \in Nat /\ FullLen(s) > 5
         /\ s.host.len <= 230 =>
              LenToHost(s) < UriBuf /\ LenToPort(s) < UriBuf /\ FullLen(s) < UriBuf
<1>1. PortOf(s) \in Nat /\ PortOf(s) < 100000
  BY PortPrinted, SMT
<1>2. Digits(PortOf(s)) \in 1 .. 5
  BY <1>1, DigitsAre, SMT
<1>3. SchemeLen(SchemeOf(s)) \in 4 .. 5
  <2>1. SchemeOf(s) = "sip" \/ SchemeOf(s) = "sips"
    BY DEF SchemeOf
  <2>2. SchemeLen("sip") = 4 /\ SchemeLen("sips") = 5
    BY DEF SchemeLen
  <2> QED
    BY <2>1, <2>2
<1>4. /\ LenToHost(s) \in Nat /\ LenToHost(s) <= s.host.len + 5
      /\ LenToPort(s) \in Nat /\ LenToPort(s) <= s.host.len + 11
      /\ LenToPort(s) > 5
  <2>1. /\ LenToHost(s) \in Nat /\ LenToHost(s) <= s.host.len + 5
        /\ LenToHost(s) >= 4
    BY <1>3, SMT DEF LenToHost
  <2> QED
    BY <1>2, <2>1, SMT DEF LenToPort
<1>5. FullLen(s) = LenToPort(s) + 0 \/ FullLen(s) = LenToPort(s) + 14
  BY Zenon DEF FullLen
<1> QED
  BY <1>4, <1>5, SMT DEF UriBuf

(* The printed URI is the server's own, whole for every host that leaves   *)
(* room for a port and a transport, and passes the check of a URI unless   *)
(* the colon of the port ends a ":_:".                                     *)
LEMMA PrintedIsOwn ==
  ASSUME NEW s, s.host.len \in Nat, s.port \in Nat, s.port <= MaxPort
  PROVE  /\ Printed(s).clean = s.host.clean
         /\ Printed(s).scheme = SchemeOf(s) /\ Printed(s).len <= UriMaxLen
         /\ s.host.len <= 230 =>
              /\ Printed(s).host = s.host.id
              /\ Printed(s).port = PortOf(s) /\ Printed(s).transport = SuffixOf(s)
         /\ s.host.clean /\ ~s.host.split /\ ~s.host.closes =>
              UriCheck(Printed(s)) = ""
<1> DEFINE n == FullLen(s)
           m == LenToPort(s)
           h == LenToHost(s)
<1>1. /\ n \in Nat /\ n > 5
      /\ s.host.len <= 230 => h < UriBuf /\ m < UriBuf /\ n < UriBuf
  BY LengthPrinted, SMT
<1>2. /\ Printed(s).clean = s.host.clean
      /\ Printed(s).split = (s.host.split \/ (s.host.closes /\ h + 1 < UriBuf))
      /\ Printed(s).scheme = SchemeOf(s)
      /\ Printed(s).host = (IF h < UriBuf THEN s.host.id ELSE "cut")
      /\ Printed(s).port = (IF m < UriBuf THEN PortOf(s) ELSE Cut)
      /\ Printed(s).transport = (IF n < UriBuf THEN SuffixOf(s) ELSE "cut")
      /\ Printed(s).len = IF n < UriBuf THEN n ELSE UriBuf - 1
  BY Zenon DEF Printed
<1> HIDE DEF n, m, h
<1>3. /\ Printed(s).len \in Nat /\ Printed(s).len > 5
      /\ Printed(s).len <= UriMaxLen
  BY <1>1, <1>2, SMT DEF UriBuf, UriMaxLen
<1>4. s.host.len <= 230 =>
        /\ Printed(s).host = s.host.id
        /\ Printed(s).port = PortOf(s) /\ Printed(s).transport = SuffixOf(s)
  BY <1>1, <1>2, Zenon
<1>5. ASSUME s.host.clean, ~s.host.split, ~s.host.closes
      PROVE  UriCheck(Printed(s)) = ""
  <2>1. Printed(s).scheme \in {"sip", "sips"}
    BY <1>2, Zenon DEF SchemeOf
  <2>2. Printed(s).clean /\ ~Printed(s).split
    BY <1>2, <1>5, Zenon
  <2>3. NothingWrong(Printed(s))
    BY <1>3, <2>1, <2>2, Zenon DEF NothingWrong
  <2> QED
    BY <2>3, UriPasses, Zenon
<1> QED
  BY <1>2, <1>3, <1>4, <1>5, Zenon

(* Whatever is dialled has only the characters siprec_uri_check allows and *)
(* no more than its length, and would pass that whole check - an ad hoc    *)
(* URI has - except a server's whose host ends in ":_", the ":_:" of which *)
(* siprec_uri_for completes and nobody looks at.  A server is dialled in   *)
(* the scheme of its transport and, when its host leaves room for them, at *)
(* its own host, port and transport.                                       *)
THEOREM InvitesDialTheirServers == Spec => []DialsItsServer
<1>1. ASSUME StartInv
      PROVE  DialsItsServer
  <2> SUFFICES ASSUME NEW i \in 1 .. Len(start.invites)
      PROVE  LET uri == start.invites[i].uri
                 e == config[start.invites[i].entry]
             IN /\ uri.clean /\ uri.len <= UriMaxLen
                /\ UriCheck(uri) # "" => start.args.uri = NoUri /\ e.host.closes
                /\ start.args.uri = NoUri =>
                     /\ e.port \in 0 .. MaxPort
                     /\ uri.scheme = "sips" <=> e.transport = "tls"
                     /\ e.host.len <= 230 =>
                          /\ uri.host = e.host.id
                          /\ uri.port = IF e.port = 0 THEN 5060 ELSE e.port
                          /\ uri.transport =
                               IF e.transport \in {"", "udp"} THEN "" ELSE e.transport
    BY DEF DialsItsServer
  <2> DEFINE uri == start.invites[i].uri
             e == config[start.invites[i].entry]
  <2>1. uri = UriFor(start.chain[i]) /\ start.invites[i].entry = start.chain[i].entry
    BY <1>1, InviteIs
  <2>2. start.invites # << >>
    <3>1. Len(<< >>) = 0
      OBVIOUS
    <3> QED
      BY <3>1
  <2>3. /\ Len(start.invites) \in Nat \ {0} /\ Len(start.chain) \in Nat
        /\ Len(start.invites) <= Len(start.chain)
    BY <1>1, <2>2, InvitedAre
  <2>4. CASE start.args.uri # NoUri
    <3>1. UriCheck(start.args.uri) = "" /\ start.chain = AdHoc(start.args.uri)
      BY <1>1, <2>2, <2>4, InvitedAre
    <3>2. Len(start.chain) = 1 /\ UriFor(start.chain[1]) = start.args.uri
      <4>1. start.chain = AdHoc(start.args.uri)
        BY <3>1
      <4> QED
        BY <4>1 DEF AdHoc, UriFor
    <3>3. i = 1
      BY <2>3, <3>2
    <3>4. uri = start.args.uri
      BY <2>1, <3>2, <3>3
    <3>5. uri.len \in Nat
      <4>1. start.args \in Args
        <5>1. start.pc # "idle"
          <6>1. Idle.invites = << >>
            BY DEF Idle
          <6> QED
            BY <1>1, <2>2, <6>1 DEF StartInv, FileStands
        <5> QED
          BY <1>1, <5>1 DEF StartInv, FileStands
      <4> QED
        BY <2>4, <3>4, <4>1, StartAssumption
    <3>6. uri.clean /\ ~(uri.len > UriMaxLen)
      BY <3>1, <3>4, CheckedUri
    <3>7. UriCheck(uri) = ""
      BY <3>1, <3>4
    <3> HIDE DEF uri
    <3>8. uri.len <= UriMaxLen
      BY <3>5, <3>6 DEF UriMaxLen
    <3> QED
      BY <2>4, <3>6, <3>7, <3>8 DEF uri
  <2>5. CASE start.args.uri = NoUri
    <3>1. PICK s \in Seq(Nat) : /\ Lists(s, GoodOf(start.args.handle))
                                /\ start.chain = [j \in 1 .. Len(s) |-> Copied(s[j])]
      BY <1>1, <2>2, <2>5, InvitedAre
    <3>2. Len(s) \in Nat /\ i \in 1 .. Len(s)
      <4>1. Len(s) \in Nat
        OBVIOUS
      <4>2. Len(start.chain) = Len(s)
        BY <3>1, <4>1
      <4> QED
        BY <2>3, <4>1, <4>2
    <3>3. start.chain[i] = Copied(s[i])
      BY <3>1, <3>2
    <3>4. config[s[i]] \in Entries /\ ConfigError(config[s[i]]) = ""
      <4>1. config \in Seq(Entries) /\ s[i] \in GoodOf(start.args.handle)
        BY <1>1, <3>1, <3>2 DEF StartInv, TableFollowsFile, Lists
      <4> QED
        BY <4>1, GoodAreEntries
    <3>5. PICK c : c = Copied(s[i])
      OBVIOUS
    <3>6. PICK entry : entry = config[s[i]]
      OBVIOUS
    <3>7. /\ c.adhoc = FALSE /\ c.host = entry.host /\ c.port = entry.port
          /\ c.transport = entry.transport /\ c.entry = s[i]
      BY <3>5, <3>6 DEF Copied
    <3>8. uri = Printed(c) /\ e = entry
      <4>1. UriFor(c) = Printed(c)
        BY <3>7, Zenon DEF UriFor, Printed
      <4> QED
        BY <2>1, <3>3, <3>5, <3>6, <3>7, <4>1
    <3>9. entry \in Entries /\ ConfigError(entry) = ""
      BY <3>4, <3>6
    <3>10. /\ ~(entry.port < 0) /\ entry.host.clean /\ ~entry.host.split
           /\ entry.transport \in {"", "udp", "tcp", "tls"}
      BY <3>9, LoadedEntry, Zenon
    <3>11. /\ entry.host.len \in Nat /\ entry.port \in Nat /\ entry.port <= MaxPort
           /\ entry.port \in 0 .. MaxPort
      BY <3>9, <3>10, EntryPort, Zenon
    <3> HIDE DEF uri, e
    <3>12. /\ Printed(c).clean = c.host.clean
           /\ Printed(c).scheme = SchemeOf(c) /\ Printed(c).len <= UriMaxLen
           /\ c.host.len <= 230 =>
                /\ Printed(c).host = c.host.id
                /\ Printed(c).port = PortOf(c) /\ Printed(c).transport = SuffixOf(c)
           /\ c.host.clean /\ ~c.host.split /\ ~c.host.closes =>
                UriCheck(Printed(c)) = ""
      BY <3>7, <3>11, PrintedIsOwn, Zenon
    <3>13. SuffixOf(c) = IF entry.transport \in {"", "udp"} THEN "" ELSE entry.transport
      BY <3>7, <3>10, Zenon DEF SuffixOf
    <3>14. SchemeOf(c) = "sips" <=> entry.transport = "tls"
      BY <3>7, Zenon DEF SchemeOf
    <3>15. /\ uri.clean /\ uri.len <= UriMaxLen
           /\ UriCheck(uri) # "" => start.args.uri = NoUri /\ e.host.closes
           /\ e.port \in 0 .. MaxPort
           /\ uri.scheme = "sips" <=> e.transport = "tls"
      BY <2>5, <3>7, <3>8, <3>10, <3>11, <3>12, <3>14, Zenon
    <3>16. ASSUME e.host.len <= 230
           PROVE  /\ uri.host = e.host.id
                  /\ uri.port = IF e.port = 0 THEN 5060 ELSE e.port
                  /\ uri.transport = IF e.transport \in {"", "udp"} THEN "" ELSE e.transport
      <4>1. /\ uri.port = PortOf(c) /\ uri.transport = SuffixOf(c)
            /\ uri.host = e.host.id
        BY <3>7, <3>8, <3>12, <3>16, Zenon
      <4>2. c.port \in Nat /\ c.port <= MaxPort /\ c.port = e.port
        BY <3>7, <3>8, <3>11, Zenon
      <4>3. uri.port = IF e.port = 0 THEN 5060 ELSE e.port
        BY <4>1, <4>2, PortPrinted, SMT
      <4>4. uri.transport = IF e.transport \in {"", "udp"} THEN "" ELSE e.transport
        BY <3>8, <3>13, <4>1, Zenon
      <4> QED
        BY <4>1, <4>3, <4>4
    <3> QED
      BY <3>15, <3>16, Zenon DEF uri, e
  <2> QED
    BY <2>4, <2>5
<1> QED
  BY <1>1, StartInvariant, PTL

(* What a session is called: each channel's name has an identifier exactly *)
(* if it carries a UUID, and decodes to it (siprec_metadata_uuid_to_id).   *)
THEOREM IdentifiersAreUuids == Spec => []IdsAreUuids
<1>1. IdsAreUuids
  <2>1. ASSUME NEW name \in ChannelNames
        PROVE  IdentifiesUuid(name)
    <3>1. name \in Seq(STRING)
      BY StartAssumption
    <3> QED
      BY <3>1, EveryNameIdentifies
  <2> QED
    BY <2>1 DEF IdsAreUuids
<1> QED
  BY <1>1, PTL

(* The document that goes out with an INVITE follows the schema and        *)
(* describes the offer that goes out with it, for every call: what         *)
(* start_recording_session fills in, siprec_metadata_build writes and      *)
(* siprec_invite_append_sdp offers agree.                                  *)
THEOREM MetadataMatchesItsOffer == Spec => []MetadataMatchesOffer
<1>1. ASSUME StartInv, At("walk")
      PROVE  LET far == IF start.call.channel.direction = "inbound" THEN "caller" ELSE "callee"
             IN /\ stage = "whole" /\ WellFormed(body)
                /\ Labels(body) = OfferLabels
                /\ \A p \in Tagged(body, "participant") : p.aor = start.call.aors[p.id]
                /\ {p.id : p \in Tagged(body, "participant")} = {"caller", "callee"}
                /\ start.separate => /\ SpeakerOf(body, "1") = far
                                     /\ SpeakerOf(body, "2") \in {"caller", "callee"} \ {far}
                /\ \A u \in Tagged(body, "session") :
                      u.id = IF CarriesUuid(start.call.channel.name) THEN "call" ELSE "fresh"
  <2>1. start.pc = "walk" /\ start.separate \in BOOLEAN
    BY <1>1 DEF StartInv, StartTypes, At
  <2>2. PICK c \in Calls, made \in SUBSET {"caller", "callee"} :
          /\ start.call = [channel |-> c, aors |-> Aors(c, made)]
          /\ Elements(OptionsOf(c, Aors(c, made), start.separate)) = asked \o << >>
    BY <1>1, <2>1 DEF StartInv, TextFollowsCall
  <2>3. stage = "whole" /\ body = asked /\ asked \in Seq(Fragments)
    BY <1>1, <2>1 DEF StartInv, HeldWhileRunning, BuilderInv, BuilderTypeOK, TextIsAsked
  <2>4. Elements(OptionsOf(c, Aors(c, made), start.separate)) = body
    BY <2>2, <2>3, ConcatEmptySeq
  <2>5. Says(Elements(OptionsOf(c, Aors(c, made), start.separate)), c, Aors(c, made),
             start.separate)
    BY <2>1, DocumentSays
  <2>6. Says(body, c, Aors(c, made), start.separate)
    BY <2>4, <2>5
  <2>7. start.call.channel = c /\ start.call.aors = Aors(c, made)
    BY <2>2
  <2>8. Labels(body) = OfferLabels
    BY <2>6 DEF Says, OfferLabels
  <2> QED
    BY <2>3, <2>6, <2>7, <2>8 DEF Says, FarEnd
<1>2. StartInv => MetadataMatchesOffer
  BY <1>1 DEF MetadataMatchesOffer
<1> QED
  BY <1>2, StartInvariant, PTL
=============================================================================
