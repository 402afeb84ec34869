---------------------------- MODULE SrsAnswerProofs ----------------------------
(***************************************************************************)
(* Proofs about SrsAnswer, for answers of any length and any number of     *)
(* streams.  The parser keeps four locals and the streams committed so     *)
(* far; the properties speak of the answer read as a whole: its m= lines,  *)
(* the section each opens, the address in force there.  The invariant      *)
(* says that the locals are that reading of the lines consumed so far, and *)
(* its induction is on one more line: what Append does to each of the sets *)
(* the reading is made of, which is what most of the lemmas state.         *)
(***************************************************************************)
EXTENDS SrsAnswer, FiniteSetTheorems, WellFoundedInduction, TLAPS

-----------------------------------------------------------------------------
(* Sets of numbers.                                                        *)

(* A set of naturals has a least element.  The library's induction takes   *)
(* an operator; that < is well-founded does not.                           *)
LEMMA HasLeast ==
  ASSUME NEW S \in SUBSET Nat, S # {}
  PROVE  \E x \in S : \A y \in S : x <= y
<1>1. \E x \in S : \A y \in S : ~(<<y, x>> \in OpToRel(<, Nat))
  <2>1. IsWellFoundedOn(OpToRel(<, Nat), Nat)
    BY NatLessThanWellFounded
  <2> HIDE DEF OpToRel
  <2> QED
    BY <2>1, WFMin
<1>2. \A x, y \in Nat : ~(<<y, x>> \in OpToRel(<, Nat)) => x <= y
  BY DEF OpToRel
<1> QED
  BY <1>1, <1>2

(* A bounded set of naturals has a greatest one.                           *)
LEMMA HasGreatest ==
  ASSUME NEW n \in Nat, NEW S \in SUBSET (0 .. n), S # {}
  PROVE  \E x \in S : \A y \in S : y <= x
<1> DEFINE T == {k \in Nat : \E x \in S : k = n - x}
<1>1. T # {} /\ T \in SUBSET Nat
  <2> PICK x \in S : TRUE
    OBVIOUS
  <2>1. n - x \in T
    OBVIOUS
  <2> QED
    BY <2>1
<1>2. PICK k \in T : \A j \in T : k <= j
  BY <1>1, HasLeast
<1> QED
  BY <1>2

(* Max, for a set that is known to have a greatest element.                *)
LEMMA MaxIs ==
  ASSUME NEW S \in SUBSET Int, NEW m \in S, \A x \in S : x <= m
  PROVE  Max(S) = m
<1>1. \A x \in S : (\A y \in S : x >= y) <=> x = m
  OBVIOUS
<1> QED
  BY <1>1, Zenon DEF Max

(* Subsets of a finite set: what FS_Subset says, with the cardinalities.   *)
LEMMA SubsetSize ==
  ASSUME NEW S, IsFiniteSet(S), NEW T \in SUBSET S
  PROVE  /\ IsFiniteSet(T)
         /\ Cardinality(S) \in Nat /\ Cardinality(T) \in Nat
         /\ Cardinality(T) <= Cardinality(S)
         /\ T # S => Cardinality(T) < Cardinality(S)
<1>1. IsFiniteSet(T) /\ Cardinality(T) <= Cardinality(S)
      /\ (Cardinality(S) = Cardinality(T) => S = T)
  BY FS_Subset
<1>2. Cardinality(S) \in Nat /\ Cardinality(T) \in Nat
  BY <1>1, FS_CardinalityType
<1> QED
  BY <1>1, <1>2

(* Counting the members of a finite set of numbers from below tells them   *)
(* apart.                                                                  *)
LEMMA CountingIsOrder ==
  ASSUME NEW S \in SUBSET Nat, IsFiniteSet(S), NEW i \in S, NEW j \in S, i < j
  PROVE  /\ Cardinality({k \in S : k < i}) < Cardinality({k \in S : k < j})
         /\ Cardinality({k \in S : k <= i}) < Cardinality({k \in S : k <= j})
<1>1. Cardinality({k \in S : k < i}) < Cardinality({k \in S : k < j})
  <2> DEFINE A == {k \in S : k < i}
             B == {k \in S : k < j}
  <2>1. A \in SUBSET B /\ A # B
    <3>1. i \in B /\ i \notin A
      OBVIOUS
    <3>2. \A k \in S : k \in A => k \in B
      OBVIOUS
    <3> QED
      BY <3>1, <3>2
  <2>2. IsFiniteSet(B)
    BY SubsetSize
  <2> HIDE DEF A, B
  <2>3. Cardinality(A) < Cardinality(B)
    BY <2>1, <2>2, SubsetSize
  <2> QED
    BY <2>3 DEF A, B
<1>2. Cardinality({k \in S : k <= i}) < Cardinality({k \in S : k <= j})
  <2> DEFINE A == {k \in S : k <= i}
             B == {k \in S : k <= j}
  <2>1. A \in SUBSET B /\ A # B
    <3>1. j \in B /\ j \notin A
      OBVIOUS
    <3>2. \A k \in S : k \in A => k \in B
      OBVIOUS
    <3> QED
      BY <3>1, <3>2
  <2>2. IsFiniteSet(B)
    BY SubsetSize
  <2> HIDE DEF A, B
  <2>3. Cardinality(A) < Cardinality(B)
    BY <2>1, <2>2, SubsetSize
  <2> QED
    BY <2>3 DEF A, B
<1> QED
  BY <1>1, <1>2

-----------------------------------------------------------------------------
(* The reading of an answer, and of an answer with one more line.          *)

Session == AddressIn(SectionOf(0), NoAddress)
Commits(line) == line.kind = "audio" /\ line.port > 0
Rank(i) == Cardinality({j \in Streams : j <= i})
Last(i) == \A m \in MLines : m <= i

(* The sets of lines are finite sets of positions, one within the other.   *)
LEMMA ReadingIsFinite ==
  ASSUME answer \in Seq(Lines)
  PROVE  /\ DOMAIN answer = 1 .. Len(answer) /\ Len(answer) \in Nat
         /\ MLines \in SUBSET (1 .. Len(answer)) /\ IsFiniteSet(MLines)
         /\ Accepted \in SUBSET MLines /\ IsFiniteSet(Accepted)
         /\ Streams \in SUBSET Accepted /\ IsFiniteSet(Streams)
         /\ Cardinality(MLines) \in Nat /\ Cardinality(Accepted) \in Nat
         /\ Cardinality(Streams) \in Nat
         /\ Cardinality(MLines) <= Len(answer)
<1>1. DOMAIN answer = 1 .. Len(answer) /\ Len(answer) \in Nat
  OBVIOUS
<1>2. IsFiniteSet(1 .. Len(answer)) /\ Cardinality(1 .. Len(answer)) = Len(answer)
  BY <1>1, FS_Interval
<1>3. MLines \in SUBSET (1 .. Len(answer)) /\ Accepted \in SUBSET MLines
      /\ Streams \in SUBSET Accepted
  BY <1>1 DEF MLines, Accepted, Streams
<1>4. IsFiniteSet(MLines) /\ Cardinality(MLines) \in Nat
      /\ Cardinality(MLines) <= Len(answer)
  BY <1>1, <1>2, <1>3, SubsetSize
<1>5. IsFiniteSet(Accepted) /\ Cardinality(Accepted) \in Nat
  BY <1>3, <1>4, SubsetSize
<1>6. IsFiniteSet(Streams) /\ Cardinality(Streams) \in Nat
  BY <1>3, <1>5, SubsetSize
<1> QED
  BY <1>1, <1>3, <1>4, <1>5, <1>6

(* One more line is one more position; the others keep their lines.        *)
LEMMA LinesGrow ==
  ASSUME answer \in Seq(Lines), NEW line \in Lines, NEW n, n = Len(answer) + 1,
         answer' = Append(answer, line)
  PROVE  /\ answer' \in Seq(Lines)
         /\ n \in Nat \ {0} /\ Len(answer') = n
         /\ DOMAIN answer = 1 .. n - 1 /\ DOMAIN answer' = DOMAIN answer \cup {n}
         /\ n \notin DOMAIN answer
         /\ \A i \in DOMAIN answer : answer'[i] = answer[i]
         /\ answer'[n] = line
OBVIOUS

(* The m= lines, and the accepted ones, gain that position or nothing.     *)
LEMMA SetsGrow ==
  ASSUME answer \in Seq(Lines), NEW line \in Lines, NEW n, n = Len(answer) + 1,
         answer' = Append(answer, line)
  PROVE  /\ MLines' = IF line.kind = "c" THEN MLines ELSE MLines \cup {n}
         /\ Accepted' = IF Commits(line) THEN Accepted \cup {n} ELSE Accepted
         /\ MLines \in SUBSET (1 .. n - 1)
<1>1. DOMAIN answer' = DOMAIN answer \cup {n}
      /\ n \notin DOMAIN answer
      /\ \A i \in DOMAIN answer : answer'[i] = answer[i]
      /\ answer'[n] = line
  BY LinesGrow
<1>2. MLines' = IF line.kind = "c" THEN MLines ELSE MLines \cup {n}
  BY <1>1 DEF MLines
<1>3. Accepted' = IF Commits(line) THEN Accepted \cup {n} ELSE Accepted
  BY <1>1, <1>2 DEF Accepted, Commits, MLines
<1>4. MLines \in SUBSET (1 .. n - 1)
  BY ReadingIsFinite
<1> QED
  BY <1>2, <1>3, <1>4

(* The m= lines keep their numbers, and a new one takes the next.          *)
LEMMA NumbersGrow ==
  ASSUME answer \in Seq(Lines), NEW line \in Lines, NEW n, n = Len(answer) + 1,
         answer' = Append(answer, line)
  PROVE  /\ \A i \in MLines : Before(i)' = Before(i)
         /\ line.kind # "c" => Before(n)' = Cardinality(MLines)
<1>1. n \in Nat /\ MLines \in SUBSET (1 .. n - 1)
      /\ MLines' = IF line.kind = "c" THEN MLines ELSE MLines \cup {n}
  BY LinesGrow, SetsGrow
<1>2. ASSUME NEW i \in MLines
      PROVE  Before(i)' = Before(i)
  <2>1. {j \in MLines' : j < i} = {j \in MLines : j < i}
    BY <1>1, <1>2
  <2> QED
    BY <2>1 DEF Before
<1>3. ASSUME line.kind # "c"
      PROVE  Before(n)' = Cardinality(MLines)
  <2>1. {j \in MLines' : j < n} = MLines
    <3>1. \A j \in MLines' : j < n <=> j \in MLines
      BY <1>1, <1>3
    <3> QED
      BY <1>1, <1>3, <3>1
  <2> QED
    BY <2>1 DEF Before
<1> QED
  BY <1>2, <1>3

(* A c= line joins the section of the latest m= line, or the session's     *)
(* when there is none; an m= line opens a section of its own.              *)
LEMMA SectionsGrow ==
  ASSUME answer \in Seq(Lines), NEW line \in Lines, NEW n, n = Len(answer) + 1,
         answer' = Append(answer, line)
  PROVE  /\ \A i \in MLines \cup {0} : SectionOf(i)' =
              IF line.kind = "c" /\ Last(i) THEN SectionOf(i) \cup {n} ELSE SectionOf(i)
         /\ line.kind # "c" => SectionOf(n)' = {}
<1>1. n \in Nat /\ MLines \in SUBSET (1 .. n - 1)
      /\ MLines' = IF line.kind = "c" THEN MLines ELSE MLines \cup {n}
  BY LinesGrow, SetsGrow
<1>2. DOMAIN answer = 1 .. n - 1 /\ DOMAIN answer' = DOMAIN answer \cup {n}
      /\ \A i \in DOMAIN answer : answer'[i] = answer[i]
      /\ answer'[n] = line
  BY LinesGrow
<1>3. ASSUME NEW i \in MLines \cup {0}
      PROVE  SectionOf(i)' = IF line.kind = "c" /\ Last(i) THEN SectionOf(i) \cup {n}
                                                           ELSE SectionOf(i)
  <2>1. ASSUME NEW j \in 1 .. n - 1
        PROVE  j \in SectionOf(i)' <=> j \in SectionOf(i)
    BY <1>1, <1>2, <1>3, <2>1 DEF SectionOf
  <2>2. n \in SectionOf(i)' <=> line.kind = "c" /\ Last(i)
    <3>1. n \in SectionOf(i)' <=> line.kind = "c" /\ \A m \in MLines' : m > i => n < m
      BY <1>1, <1>2, <1>3 DEF SectionOf
    <3>2. line.kind = "c" => ((\A m \in MLines' : m > i => n < m) <=> Last(i))
      BY <1>1, <1>3 DEF Last
    <3> QED
      BY <3>1, <3>2
  <2>3. SectionOf(i)' \subseteq (1 .. n - 1) \cup {n} /\ SectionOf(i) \subseteq 1 .. n - 1
    BY <1>2 DEF SectionOf
  <2> QED
    BY <2>1, <2>2, <2>3
<1>4. ASSUME line.kind # "c"
      PROVE  SectionOf(n)' = {}
  BY <1>1, <1>2, <1>4 DEF SectionOf
<1> QED
  BY <1>3, <1>4

(* The latest c= line of a section is one of its lines.                    *)
LEMMA MaxIsIn ==
  ASSUME NEW n \in Nat, NEW C \in SUBSET (1 .. n), C # {}
  PROVE  Max(C) \in C
<1>1. C \in SUBSET (0 .. n) /\ C \in SUBSET Int
  OBVIOUS
<1>2. PICK m \in C : \A x \in C : x <= m
  BY <1>1, HasGreatest
<1>3. Max(C) = m
  BY <1>1, <1>2, MaxIs
<1> QED
  BY <1>3

(* The address in force in the session and in the section of each m= line: *)
(* a c= line changes it for the latest of them, and an m= line starts with *)
(* the session's.                                                          *)
LEMMA AddressesGrow ==
  ASSUME answer \in Seq(Lines), NEW line \in Lines, NEW n, n = Len(answer) + 1,
         answer' = Append(answer, line)
  PROVE  /\ Session' = IF line.kind = "c" /\ MLines = {} THEN line.ip ELSE Session
         /\ \A i \in MLines : AddressOf(i)' =
              IF line.kind = "c" /\ Last(i) THEN line.ip ELSE AddressOf(i)
         /\ line.kind # "c" => AddressOf(n)' = Session
<1>1. n \in Nat \ {0} /\ MLines \in SUBSET (1 .. n - 1)
      /\ DOMAIN answer = 1 .. n - 1
      /\ (\A i \in DOMAIN answer : answer'[i] = answer[i]) /\ answer'[n] = line
  BY LinesGrow, SetsGrow
<1>2. ASSUME NEW i \in MLines \cup {0}
      PROVE  /\ SectionOf(i)' = IF line.kind = "c" /\ Last(i)
                                THEN SectionOf(i) \cup {n} ELSE SectionOf(i)
             /\ SectionOf(i) \in SUBSET (1 .. n - 1)
  <2>1. SectionOf(i) \in SUBSET (1 .. n - 1)
    BY <1>1 DEF SectionOf
  <2> QED
    BY <1>2, <2>1, SectionsGrow
<1>3. ASSUME NEW C \in SUBSET (1 .. n - 1)
      PROVE  /\ C # {} => answer'[Max(C)].ip = answer[Max(C)].ip
             /\ Max(C \cup {n}) = n
  <2> DEFINE last == n - 1
             D == C \cup {n}
  <2>0. last \in Nat /\ last < n /\ n \in Int
    BY <1>1
  <2>1. C # {} => Max(C) \in C
    <3>1. C \in SUBSET (1 .. last)
      BY <1>3
    <3> HIDE DEF last
    <3> QED
      BY <2>0, <3>1, MaxIsIn, Zenon
  <2>2. Max(D) = n
    <3>1. \A x \in C : x \in Int /\ x <= n
      BY <1>3, <2>0
    <3>2. n \in D /\ \A x \in D : x \in Int /\ x <= n
      BY <2>0, <3>1
    <3>3. D \in SUBSET Int
      BY <3>2
    <3> HIDE <1>3 DEF D
    <3> QED
      BY <3>2, <3>3, MaxIs
  <2> QED
    BY <1>1, <1>3, <2>1, <2>2
<1>4. ASSUME NEW i \in MLines \cup {0}
      PROVE  /\ line.kind = "c" /\ Last(i) =>
                  SectionOf(i)' # {} /\ answer'[Max(SectionOf(i)')].ip = line.ip
             /\ ~(line.kind = "c" /\ Last(i)) =>
                  /\ SectionOf(i)' = SectionOf(i)
                  /\ SectionOf(i) # {} =>
                       answer'[Max(SectionOf(i)')].ip = answer[Max(SectionOf(i))].ip
  <2>1. CASE line.kind = "c" /\ Last(i)
    <3>1. Max(SectionOf(i)') = n
      BY <1>2, <1>3, <1>4, <2>1
    <3> QED
      BY <1>1, <1>2, <1>4, <2>1, <3>1
  <2>2. CASE ~(line.kind = "c" /\ Last(i))
    BY <1>2, <1>3, <1>4, <2>2
  <2> QED
    BY <2>1, <2>2
<1>5. Session' = IF line.kind = "c" /\ MLines = {} THEN line.ip ELSE Session
  <2>1. Last(0) <=> MLines = {}
    BY <1>1 DEF Last
  <2> QED
    BY <1>4, <2>1 DEF Session, AddressIn
<1>6. ASSUME NEW i \in MLines
      PROVE  AddressOf(i)' = IF line.kind = "c" /\ Last(i) THEN line.ip ELSE AddressOf(i)
  <2>1. Session' = Session
    BY <1>5, <1>6
  <2>2. AddressOf(i) = (IF SectionOf(i) = {} THEN Session ELSE answer[Max(SectionOf(i))].ip)
        /\ AddressOf(i)' = (IF SectionOf(i)' = {} THEN Session'
                                                  ELSE answer'[Max(SectionOf(i)')].ip)
    BY DEF AddressOf, AddressIn, Session
  <2> QED
    BY <1>4, <1>6, <2>1, <2>2
<1>7. ASSUME line.kind # "c"
      PROVE  AddressOf(n)' = Session
  <2>1. SectionOf(n)' = {} /\ Session' = Session
    BY <1>5, <1>7, SectionsGrow
  <2> QED
    BY <2>1 DEF AddressOf, AddressIn, Session
<1> QED
  BY <1>5, <1>6, <1>7

(* The streams taken are the accepted m= lines until there are MaxStreams; *)
(* the next one accepted is taken while there is room, and comes last.     *)
LEMMA StreamsGrow ==
  ASSUME answer \in Seq(Lines), NEW line \in Lines, NEW n, n = Len(answer) + 1,
         answer' = Append(answer, line)
  PROVE  /\ Streams' = IF Commits(line) /\ Cardinality(Accepted) < MaxStreams
                       THEN Streams \cup {n} ELSE Streams
         /\ \A i \in Streams : Rank(i)' = Rank(i)
         /\ n \in Streams' => Rank(n)' = Cardinality(Streams) + 1
<1>1. n \in Nat \ {0} /\ MLines \in SUBSET (1 .. n - 1)
      /\ Accepted \in SUBSET MLines /\ Streams \in SUBSET Accepted /\ IsFiniteSet(Streams)
      /\ Accepted' = IF Commits(line) THEN Accepted \cup {n} ELSE Accepted
  BY LinesGrow, SetsGrow, ReadingIsFinite
<1>2. ASSUME NEW i \in Accepted
      PROVE  i \in Streams' <=> i \in Streams
  <2>1. {j \in Accepted' : j < i} = {j \in Accepted : j < i}
    BY <1>1, <1>2
  <2> QED
    BY <1>1, <1>2, <2>1 DEF Streams
<1>3. n \in Streams' <=> Commits(line) /\ Cardinality(Accepted) < MaxStreams
  <2>1. ASSUME Commits(line)
        PROVE  {j \in Accepted' : j < n} = Accepted
    <3>1. \A j \in Accepted' : j < n <=> j \in Accepted
      BY <1>1, <2>1
    <3> QED
      BY <1>1, <2>1, <3>1
  <2>2. n \in Accepted' <=> Commits(line)
    BY <1>1
  <2> QED
    BY <2>1, <2>2 DEF Streams
<1>4. Streams' = IF Commits(line) /\ Cardinality(Accepted) < MaxStreams
                 THEN Streams \cup {n} ELSE Streams
  <2>1. Streams' \subseteq Accepted \cup {n} /\ n \notin Streams
    BY <1>1 DEF Streams
  <2>2. n \in Streams' => Streams' = Streams \cup {n}
    BY <1>1, <1>2, <2>1
  <2>3. n \notin Streams' => Streams' = Streams
    BY <1>1, <1>2, <2>1
  <2> QED
    BY <1>3, <2>2, <2>3
<1>5. ASSUME NEW i \in Streams
      PROVE  Rank(i)' = Rank(i)
  <2>1. {j \in Streams' : j <= i} = {j \in Streams : j <= i}
    BY <1>1, <1>4, <1>5
  <2> QED
    BY <2>1 DEF Rank
<1>6. ASSUME n \in Streams'
      PROVE  Rank(n)' = Cardinality(Streams) + 1
  <2>1. Streams' = Streams \cup {n} /\ n \notin Streams
    BY <1>1, <1>4, <1>6
  <2>2. {j \in Streams' : j <= n} = Streams \cup {n}
    <3>1. \A j \in Streams' : j <= n
      BY <1>1, <2>1
    <3> QED
      BY <2>1, <3>1
  <2>3. Cardinality(Streams \cup {n}) = Cardinality(Streams) + 1
    BY <1>1, <2>1, FS_AddElement
  <2> QED
    BY <2>2, <2>3 DEF Rank
<1> QED
  BY <1>4, <1>5, <1>6

-----------------------------------------------------------------------------
(* The inductive invariant.                                                *)

OutType == [ip : Addresses \cup {NoAddress}, pt : G711 \cup {UNSET}, mline : Nat]
StreamType == [ip : Usable, pt : G711, open : BOOLEAN]
Committed(i) == [ip |-> AddressOf(i), pt |-> answer[i].pt, mline |-> Before(i)]

(* The parser's current stream is the last one committed, or none.         *)
StateTypes ==
  /\ answer \in Seq(Lines) /\ Len(answer) <= MaxLines
  /\ session_ip \in Addresses \cup {NoAddress}
  /\ out \in Seq(OutType) /\ Len(out) <= MaxStreams
  /\ cur_idx \in {0, Len(out)}
  /\ phase \in {"read", "choose", "open", "bug", "attached", "failed"}
  /\ count \in 0 .. 2
  /\ streams \in Seq(StreamType) /\ Len(streams) <= Len(out)

(* The locals are the reading of the lines consumed.                       *)
LocalsAreReading ==
  /\ seen_m = (MLines # {})
  /\ m_index = Cardinality(MLines) - 1
  /\ session_ip = Session
  /\ IF Cardinality(Accepted) < MaxStreams THEN Streams = Accepted
                                           ELSE Cardinality(Streams) = MaxStreams

(* Until it ends, the array holds the streams of the answer in order, and  *)
(* the current stream is that of the latest m= line if it has one.         *)
StreamsAreReading ==
  phase = "read" =>
    /\ Len(out) = Cardinality(Streams)
    /\ cur_idx > 0 <=> \E i \in Streams : Last(i)
    /\ \A i \in Streams : out[Rank(i)] = Committed(i)
    /\ \A k \in DOMAIN out : \E i \in Streams : Rank(i) = k

(* Afterwards each of its entries is still an accepted m= line's, but for  *)
(* a payload type it had not; or the answer accepted none, and there is at *)
(* most the channel's.                                                     *)
EntriesAreAccepted ==
  phase # "read" =>
    IF Accepted = {} THEN Len(out) <= 1
    ELSE \A k \in DOMAIN out : \E i \in Accepted :
           /\ out[k].ip = AddressOf(i) /\ out[k].mline = Before(i)
           /\ answer[i].pt \in G711 => out[k].pt = answer[i].pt

(* The sockets opened so far are those of the first entries, and two are   *)
(* for the two m= lines of the offer.                                      *)
SocketsFollow ==
  /\ phase \in {"read", "choose"} => count = 0 /\ streams = << >>
  /\ phase \in {"open", "bug", "attached"} =>
       /\ count > 0 /\ count <= Len(out)
       /\ count = 2 => out[1].mline = 0 /\ out[2].mline = 1
       /\ \A k \in DOMAIN streams :
            /\ streams[k].open /\ streams[k].ip = out[k].ip
            /\ out[k].pt \in G711 => streams[k].pt = out[k].pt
  /\ phase = "open" => Len(streams) < count
  /\ phase \in {"bug", "attached"} => Len(streams) = count
  /\ phase = "failed" => \A k \in DOMAIN streams : ~streams[k].open

AnswerInv ==
  /\ StateTypes
  /\ LocalsAreReading
  /\ StreamsAreReading
  /\ EntriesAreAccepted
  /\ SocketsFollow

-----------------------------------------------------------------------------
(* What a step does to the reading.                                        *)

(* The kinds of line, and what each carries.                               *)
LEMMA LineTypes ==
  ASSUME NEW line \in Lines
  PROVE  /\ line.kind \in {"c", "audio", "media"}
         /\ line.kind = "c" => line.ip \in Addresses
         /\ line.kind = "audio" => line.port \in {0, 1} /\ line.pt \in G711 \cup {UNSET}
BY DEF Lines, G711, UNSET

(* While the answer is read there is room in the array exactly while fewer *)
(* than MaxStreams m= lines were accepted.                                 *)
LEMMA RoomIsCounted ==
  ASSUME StateTypes, LocalsAreReading, StreamsAreReading, phase = "read"
  PROVE  Room <=> Cardinality(Accepted) < MaxStreams
<1>1. Cardinality(Accepted) \in Nat /\ Cardinality(Streams) \in Nat /\ MaxStreams \in Nat
  BY ReadingIsFinite, AnswerAssumption DEF StateTypes
<1> QED
  BY <1>1 DEF Room, LocalsAreReading, StreamsAreReading

(* The first MaxStreams accepted lines stay those.                         *)
LEMMA TakenInOrder ==
  ASSUME StateTypes, LocalsAreReading, NEW line \in Lines, answer' = Append(answer, line)
  PROVE  (IF Cardinality(Accepted) < MaxStreams THEN Streams = Accepted
                                                ELSE Cardinality(Streams) = MaxStreams)'
<1>0. PICK m \in Nat : m = Len(answer) + 1
  BY DEF StateTypes
<1>1. answer \in Seq(Lines) /\ MaxStreams \in Nat /\ MaxStreams' = MaxStreams
  BY AnswerAssumption DEF StateTypes
<1>2. /\ Accepted' = IF Commits(line) THEN Accepted \cup {m} ELSE Accepted
      /\ Streams' = IF Commits(line) /\ Cardinality(Accepted) < MaxStreams
                    THEN Streams \cup {m} ELSE Streams
  BY <1>0, <1>1, SetsGrow, StreamsGrow
<1>3. /\ m \notin Accepted /\ IsFiniteSet(Accepted)
      /\ Cardinality(Accepted) \in Nat
  BY <1>0, <1>1, ReadingIsFinite
<1>4. Cardinality(Accepted \cup {m}) = Cardinality(Accepted) + 1
  BY <1>3, FS_AddElement
<1>5. CASE Commits(line) /\ Cardinality(Accepted) < MaxStreams
  <2>1. Streams' = Accepted \cup {m} /\ Accepted' = Accepted \cup {m}
    BY <1>2, <1>5 DEF LocalsAreReading
  <2>2. Cardinality(Accepted)' = Cardinality(Accepted) + 1
        /\ Cardinality(Streams)' = Cardinality(Accepted) + 1
    BY <1>4, <2>1
  <2> QED
    BY <1>1, <1>3, <1>5, <2>1, <2>2
<1>6. CASE ~Commits(line)
  BY <1>1, <1>2, <1>6 DEF LocalsAreReading
<1>7. CASE Commits(line) /\ ~(Cardinality(Accepted) < MaxStreams)
  <2>1. Streams' = Streams /\ Cardinality(Accepted)' = Cardinality(Accepted) + 1
    BY <1>2, <1>4, <1>7
  <2> QED
    BY <1>1, <1>3, <1>7, <2>1 DEF LocalsAreReading
<1> QED
  BY <1>5, <1>6, <1>7

(* The place of a stream: within the array, and last for the last one.     *)
LEMMA RankIsPlace ==
  ASSUME answer \in Seq(Lines), NEW i \in Streams
  PROVE  /\ Rank(i) \in 1 .. Cardinality(Streams)
         /\ Last(i) => Rank(i) = Cardinality(Streams)
         /\ \A l \in Streams : Last(l) /\ ~Last(i) => Rank(i) < Cardinality(Streams)
<1>1. Streams \in SUBSET MLines /\ MLines \in SUBSET (1 .. Len(answer)) /\ Len(answer) \in Nat
      /\ IsFiniteSet(Streams) /\ Cardinality(Streams) \in Nat
  BY ReadingIsFinite
<1> DEFINE S == {j \in Streams : j <= i}
<1>2. S \in SUBSET Streams /\ i \in S
  BY <1>1
<1>3. Rank(i) = Cardinality(S)
  BY DEF Rank
<1>4. Last(i) => S = Streams
  BY <1>1 DEF Last
<1> HIDE DEF S
<1>5. IsFiniteSet(S) /\ Cardinality(S) \in Nat /\ Cardinality(S) <= Cardinality(Streams)
  BY <1>1, <1>2, SubsetSize
<1>6. Cardinality(S) # 0
  BY <1>2, <1>5, FS_EmptySet
<1>7. ASSUME NEW l \in Streams, Last(l), ~Last(i)
      PROVE  Rank(i) < Cardinality(Streams)
  <2>1. i < l
    BY <1>1, <1>7 DEF Last
  <2>2. l \notin S /\ l \in Streams
    BY <1>1, <2>1 DEF S
  <2>3. S # Streams
    BY <2>2
  <2> QED
    BY <1>1, <1>2, <1>3, <2>3, SubsetSize
<1> QED
  BY <1>1, <1>3, <1>4, <1>5, <1>6, <1>7

(* What is committed for a stream changes with a c= line of its section    *)
(* and with nothing else.                                                  *)
LEMMA CommitmentsGrow ==
  ASSUME answer \in Seq(Lines), NEW line \in Lines, NEW n, n = Len(answer) + 1,
         answer' = Append(answer, line)
  PROVE  /\ \A i \in Streams : Committed(i)' =
              IF line.kind = "c" /\ Last(i) THEN [Committed(i) EXCEPT !.ip = line.ip]
                                            ELSE Committed(i)
         /\ line.kind = "audio" => Committed(n)' =
              [ip |-> Session, pt |-> line.pt, mline |-> Cardinality(MLines)]
         /\ \A i \in Streams : Last(i)' <=> line.kind = "c" /\ Last(i)
         /\ line.kind # "c" => Last(n)'
<1>1. n \in Nat \ {0} /\ MLines \in SUBSET (1 .. n - 1)
      /\ MLines' = (IF line.kind = "c" THEN MLines ELSE MLines \cup {n})
      /\ Streams \in SUBSET MLines /\ DOMAIN answer = 1 .. n - 1
      /\ (\A i \in DOMAIN answer : answer'[i] = answer[i]) /\ answer'[n] = line
  BY LinesGrow, SetsGrow, ReadingIsFinite
<1>2. ASSUME NEW i \in Streams
      PROVE  Committed(i)' = IF line.kind = "c" /\ Last(i)
                             THEN [Committed(i) EXCEPT !.ip = line.ip] ELSE Committed(i)
  <2>1. Before(i)' = Before(i) /\ answer'[i] = answer[i]
        /\ AddressOf(i)' = IF line.kind = "c" /\ Last(i) THEN line.ip ELSE AddressOf(i)
    BY <1>1, <1>2, NumbersGrow, AddressesGrow
  <2> QED
    BY <2>1 DEF Committed
<1>3. ASSUME line.kind = "audio"
      PROVE  Committed(n)' = [ip |-> Session, pt |-> line.pt, mline |-> Cardinality(MLines)]
  <2>1. Before(n)' = Cardinality(MLines) /\ AddressOf(n)' = Session
    BY <1>3, NumbersGrow, AddressesGrow
  <2> QED
    BY <1>1, <2>1 DEF Committed
<1>4. \A i \in Streams : Last(i)' <=> line.kind = "c" /\ Last(i)
  BY <1>1 DEF Last
<1>5. line.kind # "c" => Last(n)'
  BY <1>1 DEF Last
<1> QED
  BY <1>2, <1>3, <1>4, <1>5

(* A step that reads no line keeps the reading.                            *)
LEMMA ReadingKept ==
  ASSUME answer' = answer
  PROVE  /\ MLines' = MLines /\ Accepted' = Accepted /\ Streams' = Streams
         /\ Session' = Session
         /\ \A i : /\ Before(i)' = Before(i) /\ AddressOf(i)' = AddressOf(i)
                   /\ Rank(i)' = Rank(i) /\ Last(i)' = Last(i)
                   /\ Committed(i)' = Committed(i)
<1>1. MLines' = MLines /\ Accepted' = Accepted /\ Streams' = Streams
  BY DEF MLines, Accepted, Streams
<1>2. \A i : SectionOf(i)' = SectionOf(i)
  BY <1>1 DEF SectionOf
<1>3. Session' = Session /\ \A i : AddressOf(i)' = AddressOf(i)
  BY <1>2 DEF AddressOf, AddressIn, Session
<1>4. \A i : Before(i)' = Before(i) /\ Rank(i)' = Rank(i) /\ Last(i)' = Last(i)
  BY <1>1 DEF Before, Rank, Last
<1> QED
  BY <1>1, <1>3, <1>4 DEF Committed

-----------------------------------------------------------------------------
(* The invariant holds initially and every step keeps it.                  *)

(* Nothing is read yet.                                                    *)
LEMMA AnswerInit == Init => AnswerInv
<1> SUFFICES ASSUME Init
             PROVE  AnswerInv
  OBVIOUS
<1>1. answer \in Seq(Lines) /\ Len(answer) = 0 /\ out \in Seq(OutType) /\ Len(out) = 0
      /\ streams \in Seq(StreamType) /\ Len(streams) = 0
  BY DEF Init
<1>2. MLines = {} /\ Accepted = {} /\ Streams = {} /\ SectionOf(0) = {}
  BY DEF Init, MLines, Accepted, Streams, SectionOf
<1>3. Cardinality({}) = 0
  BY FS_EmptySet
<1>4. StateTypes
  BY <1>1, AnswerAssumption DEF Init, StateTypes
<1>5. LocalsAreReading
  <2>1. seen_m = (MLines # {})
    BY <1>2 DEF Init
  <2>2. m_index = Cardinality(MLines) - 1
    BY <1>2, <1>3 DEF Init
  <2>3. session_ip = Session
    BY <1>2 DEF Init, Session, AddressIn
  <2>4. IF Cardinality(Accepted) < MaxStreams THEN Streams = Accepted
                                              ELSE Cardinality(Streams) = MaxStreams
    BY <1>2, <1>3, AnswerAssumption
  <2> QED
    BY <2>1, <2>2, <2>3, <2>4 DEF LocalsAreReading
<1>6. StreamsAreReading
  BY <1>2, <1>3 DEF Init, StreamsAreReading
<1>7. EntriesAreAccepted /\ SocketsFollow
  BY DEF Init, EntriesAreAccepted, SocketsFollow
<1> QED
  BY <1>4, <1>5, <1>6, <1>7 DEF AnswerInv

(* A c= line: the session's address before the first m= line, then that of *)
(* the current stream, which only a c= line of its own section reaches.    *)
LEMMA ConnectionStep ==
  ASSUME AnswerInv, NEW line \in Lines, ReadConnection(line)
  PROVE  AnswerInv'
<1> USE DEF AnswerInv
<1>0. PICK n \in Nat : n = Len(answer) + 1
  BY DEF StateTypes
<1>1. /\ answer \in Seq(Lines) /\ phase = "read" /\ Len(answer) < MaxLines
      /\ answer' = Append(answer, line) /\ line.kind = "c" /\ line.ip \in Addresses
      /\ phase' = phase /\ count' = count /\ streams' = streams
      /\ cur_idx' = cur_idx /\ seen_m' = seen_m /\ m_index' = m_index
  BY LineTypes DEF ReadConnection, Reads, StateTypes
<1>2. MLines' = MLines /\ Accepted' = Accepted /\ Streams' = Streams
      /\ \A i \in Streams : Rank(i)' = Rank(i)
  BY <1>0, <1>1, SetsGrow, StreamsGrow DEF Commits
<1>3. /\ out \in Seq(OutType) /\ Len(out) <= MaxStreams /\ Len(streams) <= Len(out)
      /\ out' = IF seen_m /\ cur_idx > 0 THEN [out EXCEPT ![cur_idx].ip = line.ip] ELSE out
      /\ cur_idx \in {0, Len(out)} /\ Len(out) \in Nat
  BY DEF ReadConnection, Target, StateTypes
<1>4. out' \in Seq(OutType) /\ Len(out') = Len(out)
  <2>1. CASE seen_m /\ cur_idx > 0
    <3>1. cur_idx \in 1 .. Len(out) /\ out[cur_idx] \in OutType
      BY <1>3, <2>1
    <3>2. [out[cur_idx] EXCEPT !.ip = line.ip] \in OutType
      BY <1>1, <3>1 DEF OutType
    <3>3. out' = [out EXCEPT ![cur_idx] = [out[cur_idx] EXCEPT !.ip = line.ip]]
      BY <1>3, <2>1
    <3> HIDE DEF AnswerInv, OutType
    <3> QED
      BY <1>3, <3>1, <3>2, <3>3
  <2>2. CASE ~(seen_m /\ cur_idx > 0)
    BY <1>3, <2>2
  <2> QED
    BY <2>1, <2>2
<1>5. StateTypes'
  <2>1. answer' \in Seq(Lines) /\ Len(answer') = Len(answer) + 1 /\ Len(answer) \in Nat
    BY <1>1, LinesGrow
  <2>2. session_ip' \in Addresses \cup {NoAddress}
    BY <1>1 DEF ReadConnection, StateTypes
  <2>3. Len(answer') <= MaxLines
    BY <1>1, <2>1, AnswerAssumption
  <2> QED
    BY <1>1, <1>3, <1>4, <2>1, <2>2, <2>3 DEF StateTypes
<1>6. LocalsAreReading'
  <2>1. Session' = IF MLines = {} THEN line.ip ELSE Session
    BY <1>0, <1>1, AddressesGrow
  <2>2. session_ip' = Session'
    BY <2>1 DEF ReadConnection, LocalsAreReading
  <2> QED
    BY <1>1, <1>2, <2>2 DEF LocalsAreReading
<1>7. StreamsAreReading'
  <2>1. /\ Len(out) = Cardinality(Streams)
        /\ cur_idx > 0 <=> \E i \in Streams : Last(i)
        /\ \A i \in Streams : out[Rank(i)] = Committed(i)
        /\ \A k \in DOMAIN out : \E i \in Streams : Rank(i) = k
    BY <1>1 DEF StreamsAreReading
  <2>2. \A i \in Streams : /\ Last(i)' <=> Last(i)
                           /\ Committed(i)' = IF Last(i)
                                THEN [Committed(i) EXCEPT !.ip = line.ip] ELSE Committed(i)
    BY <1>0, <1>1, CommitmentsGrow
  <2>3. ASSUME NEW i \in Streams
        PROVE  out'[Rank(i)] = Committed(i)'
    <3>1. Rank(i) \in 1 .. Len(out) /\ (Last(i) => Rank(i) = Len(out))
          /\ \A l \in Streams : Last(l) /\ ~Last(i) => Rank(i) < Len(out)
      BY <1>1, <2>1, <2>3, RankIsPlace
    <3>2. CASE Last(i)
      <4>1. seen_m /\ cur_idx > 0 /\ cur_idx = Rank(i)
        <5>1. Streams \in SUBSET MLines
          BY <1>1, ReadingIsFinite
        <5>2. seen_m
          <6>1. MLines # {} /\ seen_m = (MLines # {})
            BY <2>3, <5>1 DEF LocalsAreReading
          <6> QED
            BY <6>1
        <5>3. cur_idx > 0
          BY <2>1, <2>3, <3>2
        <5> QED
          BY <1>3, <3>1, <3>2, <5>2, <5>3
      <4>2. out'[Rank(i)] = [out[Rank(i)] EXCEPT !.ip = line.ip]
        BY <1>3, <3>1, <4>1
      <4> QED
        BY <2>1, <2>2, <2>3, <3>2, <4>2
    <3>3. CASE ~Last(i)
      <4>1. cur_idx > 0 => Rank(i) # cur_idx
        BY <1>3, <2>1, <3>1, <3>3
      <4>2. out'[Rank(i)] = out[Rank(i)]
        BY <1>3, <3>1, <4>1
      <4> QED
        BY <2>1, <2>2, <2>3, <3>3, <4>2
    <3> QED
      BY <3>2, <3>3
  <2>4. DOMAIN out' = DOMAIN out
    BY <1>3, <1>4
  <2> QED
    BY <1>1, <1>2, <1>4, <2>1, <2>2, <2>3, <2>4 DEF StreamsAreReading
<1>8. EntriesAreAccepted' /\ SocketsFollow'
  BY <1>1 DEF EntriesAreAccepted, SocketsFollow
<1> QED
  BY <1>5, <1>6, <1>7, <1>8

(* An m= line that commits no stream: media of another kind, a declined    *)
(* block, or one for which there is no room.                               *)
LEMMA NoStreamStep ==
  ASSUME AnswerInv, NEW line \in Lines, Reads(line), line.kind # "c",
         Commits(line) => ~Room,
         seen_m' = TRUE, m_index' = m_index + 1, cur_idx' = 0,
         out' = out, session_ip' = session_ip
  PROVE  AnswerInv'
<1> USE DEF AnswerInv
<1>0. PICK n \in Nat : n = Len(answer) + 1
  BY DEF StateTypes
<1>1. /\ answer \in Seq(Lines) /\ phase = "read" /\ Len(answer) < MaxLines
      /\ answer' = Append(answer, line)
      /\ phase' = phase /\ count' = count /\ streams' = streams
  BY DEF Reads, StateTypes
<1>2. /\ MLines' = MLines \cup {n} /\ n \notin MLines /\ IsFiniteSet(MLines)
      /\ Streams' = Streams
      /\ \A i \in Streams : Rank(i)' = Rank(i)
  <2>1. Room <=> Cardinality(Accepted) < MaxStreams
    BY <1>1, RoomIsCounted
  <2> QED
    BY <1>0, <1>1, <2>1, SetsGrow, StreamsGrow, ReadingIsFinite
<1>3. \A i \in Streams : Last(i)' = FALSE /\ Committed(i)' = Committed(i)
  BY <1>0, <1>1, CommitmentsGrow
<1>4. StateTypes'
  <2>1. answer' \in Seq(Lines) /\ Len(answer') = Len(answer) + 1 /\ Len(answer) \in Nat
    BY <1>1, LinesGrow
  <2>2. Len(answer') <= MaxLines
    BY <1>1, <2>1, AnswerAssumption
  <2> QED
    BY <1>1, <2>1, <2>2 DEF StateTypes
<1>5. LocalsAreReading'
  <2>1. Cardinality(MLines)' = Cardinality(MLines) + 1 /\ Cardinality(MLines) \in Nat
    BY <1>1, <1>2, FS_AddElement, ReadingIsFinite
  <2>2. Session' = Session
    BY <1>0, <1>1, AddressesGrow
  <2>3. (IF Cardinality(Accepted) < MaxStreams THEN Streams = Accepted
                                               ELSE Cardinality(Streams) = MaxStreams)'
    BY <1>1, TakenInOrder
  <2>4. (seen_m = (MLines # {}))'
    BY <1>2
  <2>5. (m_index = Cardinality(MLines) - 1)'
    BY <2>1 DEF LocalsAreReading
  <2>6. (session_ip = Session)'
    BY <2>2 DEF LocalsAreReading
  <2> QED
    BY <2>3, <2>4, <2>5, <2>6 DEF LocalsAreReading
<1>6. StreamsAreReading'
  BY <1>1, <1>2, <1>3 DEF StreamsAreReading
<1>7. EntriesAreAccepted' /\ SocketsFollow'
  BY <1>1 DEF EntriesAreAccepted, SocketsFollow
<1> QED
  BY <1>4, <1>5, <1>6, <1>7

(* An accepted m= line with room commits one more stream, at the end of    *)
(* the array, with the session's address and the number of the line.       *)
LEMMA StreamStep ==
  ASSUME AnswerInv, NEW line \in Lines, ReadAudio(line), Commits(line), Room
  PROVE  AnswerInv'
<1> USE DEF AnswerInv
<1>0. PICK n \in Nat : n = Len(answer) + 1
  BY DEF StateTypes
<1> DEFINE s == [ip |-> session_ip, pt |-> line.pt, mline |-> m_index + 1]
<1>1. /\ answer \in Seq(Lines) /\ phase = "read" /\ Len(answer) < MaxLines
      /\ answer' = Append(answer, line) /\ line.kind = "audio"
      /\ line.pt \in G711 \cup {UNSET}
      /\ phase' = phase /\ count' = count /\ streams' = streams
      /\ session_ip' = session_ip /\ seen_m' = TRUE /\ m_index' = m_index + 1
  BY LineTypes DEF ReadAudio, Reads, StateTypes
<1>2. /\ out \in Seq(OutType) /\ Len(out) \in Nat /\ Len(out) < MaxStreams /\ MaxStreams \in Nat
      /\ Len(streams) <= Len(out)
      /\ out' = Append(out, s) /\ cur_idx' = Len(out) + 1
  BY AnswerAssumption DEF ReadAudio, Commits, Room, StateTypes
<1>3. /\ MLines' = MLines \cup {n} /\ n \notin MLines /\ IsFiniteSet(MLines)
      /\ Cardinality(MLines) \in Nat
      /\ Streams' = Streams \cup {n} /\ n \notin Streams /\ IsFiniteSet(Streams)
      /\ Cardinality(Streams) \in Nat
      /\ (\A i \in Streams : Rank(i)' = Rank(i)) /\ Rank(n)' = Cardinality(Streams) + 1
  <2>1. Room <=> Cardinality(Accepted) < MaxStreams
    BY <1>1, RoomIsCounted
  <2> QED
    BY <1>0, <1>1, <2>1, SetsGrow, StreamsGrow, ReadingIsFinite
<1>4. /\ \A i \in Streams : Committed(i)' = Committed(i)
      /\ Committed(n)' = [ip |-> Session, pt |-> line.pt, mline |-> Cardinality(MLines)]
      /\ Last(n)'
  BY <1>0, <1>1, CommitmentsGrow
<1>5. s = [ip |-> Session, pt |-> line.pt, mline |-> Cardinality(MLines)]
  <2>1. m_index + 1 = Cardinality(MLines) /\ session_ip = Session
    BY <1>3 DEF LocalsAreReading
  <2> QED
    BY <2>1
<1>6. s \in OutType
  BY <1>1, <1>3, <1>5 DEF OutType, LocalsAreReading, StateTypes
<1> HIDE DEF s
<1>7. /\ out' \in Seq(OutType) /\ Len(out') = Len(out) + 1
      /\ (\A k \in 1 .. Len(out) : out'[k] = out[k]) /\ out'[Len(out) + 1] = s
  BY <1>2, <1>6
<1>8. StateTypes'
  <2>1. answer' \in Seq(Lines) /\ Len(answer') = Len(answer) + 1 /\ Len(answer) \in Nat
    BY <1>1, LinesGrow
  <2>2. Len(answer') <= MaxLines
    BY <1>1, <2>1, AnswerAssumption
  <2>3. streams \in Seq(StreamType) /\ Len(streams') <= Len(out')
    BY <1>1, <1>2, <1>7 DEF StateTypes
  <2> QED
    BY <1>1, <1>2, <1>7, <2>1, <2>2, <2>3 DEF StateTypes
<1>9. LocalsAreReading'
  <2>1. (seen_m = (MLines # {}))'
    BY <1>1, <1>3
  <2>2. (m_index = Cardinality(MLines) - 1)'
    <3>1. Cardinality(MLines)' = Cardinality(MLines) + 1
      BY <1>3, FS_AddElement
    <3> QED
      BY <1>1, <1>3, <3>1 DEF LocalsAreReading
  <2>3. (session_ip = Session)'
    <3>1. Session' = Session
      BY <1>0, <1>1, AddressesGrow
    <3> QED
      BY <1>1, <3>1 DEF LocalsAreReading
  <2>4. (IF Cardinality(Accepted) < MaxStreams THEN Streams = Accepted
                                               ELSE Cardinality(Streams) = MaxStreams)'
    BY <1>1, TakenInOrder
  <2> QED
    BY <2>1, <2>2, <2>3, <2>4 DEF LocalsAreReading
<1>10. StreamsAreReading'
  <2>1. /\ Len(out) = Cardinality(Streams)
        /\ \A i \in Streams : out[Rank(i)] = Committed(i)
        /\ \A k \in 1 .. Len(out) : \E i \in Streams : Rank(i) = k
    <3>1. phase = "read" /\ DOMAIN out = 1 .. Len(out)
      BY <1>1, <1>2
    <3> QED
      BY <1>1, <3>1 DEF StreamsAreReading
  <2>2. \A i \in Streams : Rank(i) \in 1 .. Len(out)
    BY <1>1, <2>1, RankIsPlace
  <2>3. Cardinality(Streams)' = Cardinality(Streams) + 1
    BY <1>3, FS_AddElement
  <2>4. (Len(out) = Cardinality(Streams))'
    BY <1>7, <2>1, <2>3
  <2>5. (cur_idx > 0 <=> \E i \in Streams : Last(i))'
    BY <1>2, <1>3, <1>4
  <2>6. (\A i \in Streams : out[Rank(i)] = Committed(i))'
    <3>1. out'[Rank(n)'] = Committed(n)'
      BY <1>3, <1>4, <1>5, <1>7, <2>1
    <3>2. ASSUME NEW i \in Streams
          PROVE  out'[Rank(i)'] = Committed(i)'
      BY <1>3, <1>4, <1>7, <2>1, <2>2, <3>2
    <3> QED
      BY <1>3, <3>1, <3>2
  <2>7. (\A k \in DOMAIN out : \E i \in Streams : Rank(i) = k)'
    <3>1. DOMAIN out' = 1 .. Len(out) + 1
      BY <1>2, <1>7
    <3> QED
      BY <1>2, <1>3, <2>1, <3>1
  <2> QED
    BY <2>4, <2>5, <2>6, <2>7 DEF StreamsAreReading
<1>11. EntriesAreAccepted' /\ SocketsFollow'
  BY <1>1 DEF EntriesAreAccepted, SocketsFollow
<1> QED
  BY <1>8, <1>9, <1>10, <1>11

(* The end of the answer: what was read is kept, but for payload types     *)
(* G.711 does not have; only an answer without a stream takes the channel's. *)
LEMMA EndStep ==
  ASSUME AnswerInv, EndOfAnswer
  PROVE  AnswerInv'
<1> USE DEF AnswerInv
<1>1. /\ answer' = answer /\ phase = "read" /\ phase' = "choose"
      /\ session_ip' = session_ip /\ seen_m' = seen_m /\ m_index' = m_index
      /\ cur_idx' = cur_idx /\ count' = count /\ streams' = streams
      /\ count = 0 /\ streams = << >> /\ Len(streams) = 0
  BY DEF EndOfAnswer, parseVars, SocketsFollow
<1>2. PICK found \in IF out = << >> THEN FromChannel ELSE {out}, leg_pt \in G711 \cup {UNSET} :
        out' = [i \in DOMAIN found |-> WithLegCodec(found[i], leg_pt)]
  BY DEF EndOfAnswer
<1>3. /\ answer \in Seq(Lines) /\ out \in Seq(OutType) /\ Len(out) <= MaxStreams /\ Len(out) \in Nat
      /\ MaxStreams \in Nat /\ MaxStreams >= 2
      /\ Len(out) = Cardinality(Streams)
      /\ Cardinality(Streams) \in Nat /\ IsFiniteSet(Streams) /\ Streams \in SUBSET Accepted
  BY <1>1, AnswerAssumption, ReadingIsFinite DEF StateTypes, StreamsAreReading
<1>4. ASSUME out = << >>
      PROVE  found \in Seq(OutType) /\ Len(found) <= 1
  <2>1. found = << >> \/ \E a \in Addresses : found = <<[ip |-> a, pt |-> UNSET, mline |-> 0]>>
    BY <1>2, <1>4 DEF FromChannel
  <2>2. CASE found = << >>
    BY <2>2
  <2>3. ASSUME NEW a \in Addresses, found = <<[ip |-> a, pt |-> UNSET, mline |-> 0]>>
        PROVE  found \in Seq(OutType) /\ Len(found) <= 1
    <3>1. [ip |-> a, pt |-> UNSET, mline |-> 0] \in OutType
      BY DEF OutType
    <3> HIDE DEF OutType
    <3> QED
      BY <2>3, <3>1
  <2> QED
    BY <2>1, <2>2, <2>3
<1>5. found \in Seq(OutType) /\ Len(found) \in Nat /\ (out # << >> => found = out)
      /\ (out = << >> => Len(found) <= 1)
  BY <1>2, <1>3, <1>4
<1>6. /\ out' \in Seq(OutType) /\ Len(out') = Len(found) /\ DOMAIN out' = 1 .. Len(found)
      /\ \A k \in 1 .. Len(found) : out'[k] = WithLegCodec(found[k], leg_pt)
  <2>1. DOMAIN found = 1 .. Len(found)
    BY <1>5
  <2>2. \A k \in 1 .. Len(found) : WithLegCodec(found[k], leg_pt) \in OutType
    <3>1. ASSUME NEW e \in OutType
          PROVE  WithLegCodec(e, leg_pt) \in OutType
      BY <1>2 DEF WithLegCodec, OutType
    <3> HIDE DEF OutType
    <3> QED
      BY <1>5, <3>1
  <2>3. out' \in [1 .. Len(found) -> OutType]
    BY <1>2, <2>1, <2>2
  <2> HIDE DEF OutType
  <2> QED
    BY <1>2, <1>5, <2>1, <2>3
<1>7. StateTypes'
  <2>1. Len(out') <= MaxStreams /\ Len(out') \in Nat
    BY <1>3, <1>5, <1>6
  <2>2. cur_idx' \in {0, Len(out')}
    BY <1>1, <1>3, <1>5, <1>6 DEF StateTypes
  <2>3. streams' \in Seq(StreamType) /\ Len(streams') <= Len(out')
    BY <1>1, <2>1 DEF StateTypes
  <2>4. answer' \in Seq(Lines) /\ Len(answer') <= MaxLines
        /\ session_ip' \in Addresses \cup {NoAddress} /\ count' \in 0 .. 2
    BY <1>1 DEF StateTypes
  <2> QED
    BY <1>1, <1>6, <2>1, <2>2, <2>3, <2>4 DEF StateTypes
<1>8. LocalsAreReading'
  BY <1>1, ReadingKept DEF LocalsAreReading
<1>9. StreamsAreReading'
  BY <1>1 DEF StreamsAreReading
<1>10. EntriesAreAccepted'
  <2>1. CASE out = << >>
    <3>1. Cardinality(Streams) = 0 /\ Streams = {}
      BY <1>3, <2>1, FS_EmptySet
    <3>2. Accepted = {}
      BY <1>3, <3>1 DEF LocalsAreReading
    <3> QED
      BY <1>1, <1>5, <1>6, <2>1, <3>2, ReadingKept DEF EntriesAreAccepted
  <2>2. CASE out # << >>
    <3>1. \A k \in 1 .. Len(out) : \E i \in Streams : Rank(i) = k /\ out[k] = Committed(i)
      BY <1>1, <1>3 DEF StreamsAreReading
    <3>2. \A k \in 1 .. Len(out) : \E i \in Accepted :
            /\ out'[k].ip = AddressOf(i) /\ out'[k].mline = Before(i)
            /\ answer[i].pt \in G711 => out'[k].pt = answer[i].pt
      <4>1. ASSUME NEW k \in 1 .. Len(out)
            PROVE  \E i \in Accepted :
                     /\ out'[k].ip = AddressOf(i) /\ out'[k].mline = Before(i)
                     /\ answer[i].pt \in G711 => out'[k].pt = answer[i].pt
        <5>1. PICK i \in Streams : out[k] = Committed(i)
          BY <3>1, <4>1
        <5>2. out'[k] = WithLegCodec(Committed(i), leg_pt)
          BY <1>5, <1>6, <2>2, <4>1, <5>1
        <5>3. /\ out'[k].ip = AddressOf(i) /\ out'[k].mline = Before(i)
              /\ answer[i].pt \in G711 => out'[k].pt = answer[i].pt
          BY <5>2 DEF WithLegCodec, Committed
        <5> QED
          BY <1>3, <5>3
      <4> QED
        BY <4>1
    <3>3. Accepted # {}
      <4>1. Len(out) > 0
        BY <1>3, <2>2
      <4> QED
        BY <1>3, <3>2, <4>1
    <3> QED
      BY <1>1, <1>5, <1>6, <2>2, <3>2, <3>3, ReadingKept DEF EntriesAreAccepted
  <2> QED
    BY <2>1, <2>2
<1>11. SocketsFollow'
  BY <1>1 DEF SocketsFollow
<1> QED
  BY <1>7, <1>8, <1>9, <1>10, <1>11

(* Attaching reads nothing more: the entries keep their lines.             *)
LEMMA AttachKeepsReading ==
  ASSUME AnswerInv, UNCHANGED <<parseVars, out>>, phase # "read", phase' # "read"
  PROVE  LocalsAreReading' /\ StreamsAreReading' /\ EntriesAreAccepted'
<1>1. /\ answer' = answer /\ session_ip' = session_ip /\ seen_m' = seen_m
      /\ m_index' = m_index /\ out' = out
  BY DEF parseVars
<1>2. LocalsAreReading'
  BY <1>1, ReadingKept DEF AnswerInv, LocalsAreReading
<1>3. StreamsAreReading'
  BY DEF StreamsAreReading
<1>4. EntriesAreAccepted'
  BY <1>1, ReadingKept DEF AnswerInv, EntriesAreAccepted
<1> QED
  BY <1>2, <1>3, <1>4

(* One stream, or two when the entries are the offer's two m= lines.       *)
LEMMA ChooseStep ==
  ASSUME AnswerInv, NEW multichannel \in BOOLEAN, ChooseStreams(multichannel)
  PROVE  AnswerInv'
<1> USE DEF AnswerInv
<1>1. /\ phase = "choose" /\ phase' \in {"failed", "open"}
      /\ UNCHANGED <<parseVars, out>> /\ streams' = streams
      /\ count = 0 /\ streams = << >>
  BY DEF ChooseStreams, SocketsFollow
<1>2. LocalsAreReading' /\ StreamsAreReading' /\ EntriesAreAccepted'
  BY <1>1, AttachKeepsReading
<1>3. count' \in 0 .. 2
  BY <1>1 DEF ChooseStreams
<1>4. StateTypes'
  BY <1>1, <1>3 DEF StateTypes, parseVars
<1>5. SocketsFollow'
  <2>1. out \in Seq(OutType)
    BY DEF StateTypes
  <2>2. CASE out = << >>
    BY <1>1, <2>2 DEF ChooseStreams, SocketsFollow
  <2>3. CASE out # << >>
    <3>1. Len(out) \in Nat /\ Len(out) > 0
      BY <2>1, <2>3
    <3>2. phase' = "open" /\ (count' = 1 \/ (count' = 2 /\ Separable(multichannel)))
      BY <2>3 DEF ChooseStreams
    <3>3. count' > 0 /\ count' <= Len(out)
          /\ (count' = 2 => out[1].mline = 0 /\ out[2].mline = 1)
      BY <3>1, <3>2 DEF Separable
    <3> QED
      BY <1>1, <3>2, <3>3 DEF SocketsFollow
  <2> QED
    BY <2>2, <2>3
<1> QED
  BY <1>2, <1>4, <1>5

(* A socket for the next entry, at its address and in its codec.           *)
LEMMA OpenStep ==
  ASSUME AnswerInv, NEW call_pt \in G711, OpenStream(call_pt)
  PROVE  AnswerInv'
<1> USE DEF AnswerInv
<1> DEFINE k == Len(streams) + 1
           s == [ip |-> out[k].ip, pt |-> Codec(out[k], call_pt), open |-> TRUE]
<1>1. /\ phase = "open" /\ phase' = (IF k = count THEN "bug" ELSE "open")
      /\ UNCHANGED <<parseVars, out>> /\ count' = count
      /\ out[k].ip \in Usable /\ streams' = Append(streams, s)
  BY DEF OpenStream
<1>2. /\ out \in Seq(OutType) /\ streams \in Seq(StreamType) /\ Len(streams) \in Nat
      /\ Len(out) \in Nat /\ count \in Nat /\ Len(streams) < count /\ count <= Len(out)
  BY <1>1 DEF StateTypes, SocketsFollow
<1>3. s \in StreamType /\ s.open /\ s.ip = out[k].ip /\ (out[k].pt \in G711 => s.pt = out[k].pt)
  BY <1>1 DEF StreamType, Codec
<1> HIDE DEF s
<1>4. /\ streams' \in Seq(StreamType) /\ Len(streams') = k
      /\ (\A j \in 1 .. Len(streams) : streams'[j] = streams[j]) /\ streams'[k] = s
      /\ DOMAIN streams' = 1 .. k /\ DOMAIN streams = 1 .. Len(streams)
  BY <1>1, <1>2, <1>3
<1>5. LocalsAreReading' /\ StreamsAreReading' /\ EntriesAreAccepted'
  BY <1>1, AttachKeepsReading
<1>6. StateTypes'
  <2>1. Len(streams') <= Len(out')
    BY <1>1, <1>2, <1>4
  <2> QED
    BY <1>1, <1>4, <2>1 DEF StateTypes, parseVars
<1>7. SocketsFollow'
  <2>1. /\ \A j \in DOMAIN streams : streams[j].open /\ streams[j].ip = out[j].ip
             /\ (out[j].pt \in G711 => streams[j].pt = out[j].pt)
        /\ count > 0 /\ (count = 2 => out[1].mline = 0 /\ out[2].mline = 1)
    BY <1>1 DEF SocketsFollow
  <2>2. \A j \in DOMAIN streams' : streams'[j].open /\ streams'[j].ip = out[j].ip
             /\ (out[j].pt \in G711 => streams'[j].pt = out[j].pt)
    <3>1. ASSUME NEW j \in 1 .. Len(streams)
          PROVE  streams'[j].open /\ streams'[j].ip = out[j].ip
                 /\ (out[j].pt \in G711 => streams'[j].pt = out[j].pt)
      BY <1>4, <2>1, <3>1
    <3>2. streams'[k].open /\ streams'[k].ip = out[k].ip
          /\ (out[k].pt \in G711 => streams'[k].pt = out[k].pt)
      BY <1>3, <1>4
    <3>3. \A j \in DOMAIN streams' : j \in 1 .. Len(streams) \/ j = k
      BY <1>2, <1>4
    <3> QED
      BY <3>1, <3>2, <3>3
  <2>3. IF phase' = "open" THEN Len(streams') < count ELSE Len(streams') = count
    BY <1>1, <1>2, <1>4
  <2> QED
    BY <1>1, <1>2, <2>1, <2>2, <2>3 DEF SocketsFollow
<1> QED
  BY <1>5, <1>6, <1>7

(* A failed attach closes every socket it opened.                          *)
LEMMA FailStep ==
  ASSUME AnswerInv, AttachFails
  PROVE  AnswerInv'
<1> USE DEF AnswerInv
<1>1. /\ phase \in {"open", "bug"} /\ phase' = "failed" /\ count' = count
      /\ UNCHANGED <<parseVars, out>> /\ streams' = [i \in DOMAIN streams |-> Close(streams[i])]
  BY DEF AttachFails, Closed
<1>2. streams \in Seq(StreamType) /\ DOMAIN streams = 1 .. Len(streams) /\ Len(streams) \in Nat
  BY DEF StateTypes
<1>3. \A i \in DOMAIN streams : Close(streams[i]) \in StreamType /\ ~Close(streams[i]).open
  <2>1. ASSUME NEW e \in StreamType
        PROVE  Close(e) \in StreamType /\ ~Close(e).open
    BY DEF Close, StreamType
  <2> QED
    BY <1>2, <2>1
<1>4. /\ streams' \in Seq(StreamType) /\ Len(streams') = Len(streams)
      /\ \A i \in DOMAIN streams' : ~streams'[i].open
  <2>1. streams' \in [1 .. Len(streams) -> StreamType]
    BY <1>1, <1>2, <1>3
  <2>2. DOMAIN streams' = DOMAIN streams
    BY <1>1
  <2> QED
    BY <1>1, <1>2, <1>3, <2>1, <2>2
<1>5. LocalsAreReading' /\ StreamsAreReading' /\ EntriesAreAccepted'
  BY <1>1, AttachKeepsReading
<1>6. StateTypes'
  <2>1. Len(streams') <= Len(out')
    BY <1>1, <1>4 DEF StateTypes
  <2> QED
    BY <1>1, <1>4, <2>1 DEF StateTypes, parseVars
<1>7. SocketsFollow'
  BY <1>1, <1>4 DEF SocketsFollow
<1> QED
  BY <1>5, <1>6, <1>7

(* Every step keeps the invariant.                                         *)
LEMMA AnswerStep == AnswerInv /\ [Next]_vars => AnswerInv'
<1> SUFFICES ASSUME AnswerInv, [Next]_vars
             PROVE  AnswerInv'
  OBVIOUS
<1>1. ASSUME NEW line \in Lines, ReadConnection(line)
      PROVE  AnswerInv'
  BY <1>1, ConnectionStep
<1>2. ASSUME NEW line \in Lines, ReadAudio(line)
      PROVE  AnswerInv'
  <2>1. CASE Commits(line) /\ Room
    BY <1>2, <2>1, StreamStep
  <2>2. CASE ~(Commits(line) /\ Room)
    <3>1. /\ Reads(line) /\ line.kind = "audio" /\ seen_m' = TRUE /\ m_index' = m_index + 1
          /\ cur_idx' = 0 /\ out' = out /\ session_ip' = session_ip
      BY <1>2, <2>2 DEF ReadAudio, Commits
    <3> QED
      BY <2>2, <3>1, NoStreamStep
  <2> QED
    BY <2>1, <2>2
<1>3. ASSUME NEW line \in Lines, ReadMedia(line)
      PROVE  AnswerInv'
  <2>1. /\ Reads(line) /\ line.kind = "media" /\ seen_m' = TRUE /\ m_index' = m_index + 1
        /\ cur_idx' = 0 /\ out' = out /\ session_ip' = session_ip
    BY <1>3 DEF ReadMedia
  <2>2. line.kind # "c" /\ ~Commits(line)
    BY <2>1 DEF Commits
  <2> QED
    BY <2>1, <2>2, NoStreamStep
<1>4. CASE EndOfAnswer
  BY <1>4, EndStep
<1>5. ASSUME NEW multichannel \in BOOLEAN, ChooseStreams(multichannel)
      PROVE  AnswerInv'
  BY <1>5, ChooseStep
<1>6. ASSUME NEW call_pt \in G711, OpenStream(call_pt)
      PROVE  AnswerInv'
  BY <1>6, OpenStep
<1>7. CASE AttachFails
  BY <1>7, FailStep
<1>8. ASSUME BugAdded
      PROVE  AnswerInv'
  <2>1. LocalsAreReading' /\ StreamsAreReading' /\ EntriesAreAccepted'
    BY <1>8, AttachKeepsReading DEF BugAdded
  <2>2. StateTypes' /\ SocketsFollow'
    BY <1>8 DEF AnswerInv, BugAdded, StateTypes, SocketsFollow, parseVars
  <2> QED
    BY <2>1, <2>2 DEF AnswerInv
<1>9. ASSUME UNCHANGED vars
      PROVE  AnswerInv'
  <2>1. /\ answer' = answer /\ session_ip' = session_ip /\ seen_m' = seen_m
        /\ m_index' = m_index /\ cur_idx' = cur_idx /\ out' = out /\ phase' = phase
        /\ count' = count /\ streams' = streams
    BY <1>9 DEF vars, parseVars
  <2>2. LocalsAreReading' /\ EntriesAreAccepted'
    BY <2>1, ReadingKept DEF AnswerInv, LocalsAreReading, EntriesAreAccepted
  <2>3. StreamsAreReading'
    BY <2>1, ReadingKept DEF AnswerInv, StreamsAreReading
  <2>4. StateTypes' /\ SocketsFollow'
    BY <2>1 DEF AnswerInv, StateTypes, SocketsFollow
  <2> QED
    BY <2>2, <2>3, <2>4 DEF AnswerInv
<1> QED
  BY <1>1, <1>2, <1>3, <1>4, <1>5, <1>6, <1>7, <1>8, <1>9 DEF Next

-----------------------------------------------------------------------------
(* The theorems.                                                           *)

(* The parser's locals and array are a reading of the whole answer, and    *)
(* the sockets follow the array, in every reachable state.                 *)
THEOREM AnswerInvariant == Spec => []AnswerInv
BY AnswerInit, AnswerStep, PTL DEF Spec

(* The octets and integers keep their type, and neither array is overrun.  *)
THEOREM AnswerTypes == Spec => []TypeOK
<1>1. AnswerInv => TypeOK
  <2> SUFFICES ASSUME AnswerInv
               PROVE  TypeOK
    OBVIOUS
  <2>1. answer \in Seq(Lines) /\ Len(answer) <= MaxLines /\ MaxLines \in Nat
    BY AnswerAssumption DEF AnswerInv, StateTypes
  <2>2. m_index \in -1 .. MaxLines
    <3>1. Cardinality(MLines) \in Nat /\ Cardinality(MLines) <= Len(answer)
          /\ Len(answer) \in Nat
      BY <2>1, ReadingIsFinite
    <3>2. m_index = Cardinality(MLines) - 1
      BY DEF AnswerInv, LocalsAreReading
    <3> QED
      BY <2>1, <3>1, <3>2
  <2>3. out \in Seq(OutType) /\ cur_idx \in {0, Len(out)}
    BY DEF AnswerInv, StateTypes
  <2>4. cur_idx \in 0 .. Len(out) /\ \A i \in DOMAIN out : out[i] \in OutType
    BY <2>3
  <2> QED
    BY <2>2, <2>4 DEF AnswerInv, StateTypes, TypeOK, OutType
<1> QED
  BY <1>1, AnswerInvariant, PTL

(* Each accepted stream has the address of its own section, else the       *)
(* session's, its payload type and its number among the m= lines.          *)
THEOREM AnswerWasRead == Spec => []AnswerIsRead
<1>1. AnswerInv => AnswerIsRead
  BY DEF AnswerInv, StreamsAreReading, Committed, Rank, AnswerIsRead
<1> QED
  BY <1>1, AnswerInvariant, PTL

(* Two separate streams go where the two offered m= lines were answered.   *)
THEOREM LabelsAreTheOffers == Spec => []LabelsMatchOffer
<1>1. AnswerInv => LabelsMatchOffer
  <2> SUFFICES ASSUME AnswerInv, phase = "attached", count = 2, NEW n \in {1, 2}
               PROVE  \E i \in Accepted : Before(i) = n - 1 /\ streams[n].ip = AddressOf(i)
    BY DEF LabelsMatchOffer
  <2>1. /\ out \in Seq(OutType) /\ streams \in Seq(StreamType)
        /\ Len(streams) = 2 /\ Len(out) >= 2
        /\ out[1].mline = 0 /\ out[2].mline = 1
        /\ \A k \in DOMAIN streams : streams[k].ip = out[k].ip
    BY DEF AnswerInv, StateTypes, SocketsFollow
  <2>2. n \in DOMAIN streams /\ n \in DOMAIN out
    BY <2>1
  <2>3. Accepted # {}
    BY <2>1 DEF AnswerInv, EntriesAreAccepted
  <2>4. PICK i \in Accepted : out[n].ip = AddressOf(i) /\ out[n].mline = Before(i)
    BY <2>2, <2>3 DEF AnswerInv, EntriesAreAccepted
  <2> QED
    BY <2>1, <2>2, <2>4
<1> QED
  BY <1>1, AnswerInvariant, PTL

(* No two m= lines of an answer have the same number.                      *)
LEMMA NumbersDiffer ==
  ASSUME answer \in Seq(Lines), NEW i \in MLines, NEW j \in MLines, Before(i) = Before(j)
  PROVE  i = j
<1>1. MLines \in SUBSET Nat /\ IsFiniteSet(MLines)
  BY ReadingIsFinite
<1>2. ASSUME NEW a \in MLines, NEW b \in MLines, a < b
      PROVE  Before(a) # Before(b)
  <2>1. Before(a) < Before(b)
    BY <1>1, <1>2, CountingIsOrder DEF Before
  <2>2. Before(a) \in Nat /\ Before(b) \in Nat
    <3>1. ASSUME NEW c
          PROVE  Before(c) \in Nat
      <4>1. {m \in MLines : m < c} \in SUBSET MLines
        OBVIOUS
      <4> QED
        BY <1>1, <4>1, SubsetSize DEF Before
    <3> QED
      BY <3>1
  <2> QED
    BY <2>1, <2>2
<1> QED
  BY <1>1, <1>2

(* The bytes on the wire follow the answer: each stream is encoded as its  *)
(* m= line was answered, and always in G.711.                              *)
THEOREM CodecIsTheAnswers == Spec => []CodecFollowsAnswer
<1>1. AnswerInv => CodecFollowsAnswer
  <2> SUFFICES ASSUME AnswerInv, phase = "attached", NEW n \in 1 .. count
               PROVE  /\ streams[n].pt \in G711
                      /\ \A i \in Accepted : Before(i) = out[n].mline /\ answer[i].pt \in G711
                           => streams[n].pt = answer[i].pt
                      /\ out[n].pt \in G711 => streams[n].pt = out[n].pt
    BY DEF CodecFollowsAnswer
  <2>1. /\ out \in Seq(OutType) /\ streams \in Seq(StreamType) /\ answer \in Seq(Lines)
        /\ Len(streams) = count /\ count <= Len(out)
        /\ \A k \in DOMAIN streams : out[k].pt \in G711 => streams[k].pt = out[k].pt
    BY DEF AnswerInv, StateTypes, SocketsFollow
  <2>2. n \in DOMAIN streams /\ n \in DOMAIN out /\ streams[n] \in StreamType
    BY <2>1
  <2>3. ASSUME NEW i \in Accepted, Before(i) = out[n].mline, answer[i].pt \in G711
        PROVE  streams[n].pt = answer[i].pt
    <3>1. PICK j \in Accepted :
            /\ out[n].mline = Before(j)
            /\ answer[j].pt \in G711 => out[n].pt = answer[j].pt
      BY <2>2, <2>3 DEF AnswerInv, EntriesAreAccepted
    <3>2. i = j
      <4>1. i \in MLines /\ j \in MLines
        BY DEF Accepted
      <4> QED
        BY <2>1, <2>3, <3>1, <4>1, NumbersDiffer
    <3> QED
      BY <2>1, <2>2, <2>3, <3>1, <3>2
  <2> QED
    BY <2>1, <2>2, <2>3 DEF StreamType
<1> QED
  BY <1>1, AnswerInvariant, PTL

(* A failed attach leaves no socket open, a working one has every one of   *)
(* its streams' open.                                                      *)
THEOREM SocketsAreClosed == Spec => []NoSocketLeaks
<1>1. AnswerInv => NoSocketLeaks
  BY DEF AnswerInv, SocketsFollow, NoSocketLeaks
<1> QED
  BY <1>1, AnswerInvariant, PTL
=============================================================================
