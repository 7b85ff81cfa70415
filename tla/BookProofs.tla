------------------------------- MODULE BookProofs --------------------------------
(***************************************************************************)
(* Proofs about what a book says: its history, its tags, its forks, the    *)
(* edits of a sequence, the order of its tracks and its notebook, for any  *)
(* number of artifacts, objects, tags, analyzers, cells, tracks, calls and *)
(* commits, and for any intents.                                           *)
(***************************************************************************)
EXTENDS BookSuite, FiniteSetTheorems, WellFoundedInduction, TLAPS

---------------------------------------------------------------------------
(* History                                                                 *)

BookRows == [objects : [HistObjects -> {"absent", "live", "forgotten"}],
             file : [HistArtifacts -> {"gone", "bare"} \cup HistObjects],
             stream : [HistArtifacts -> {"none"} \cup HistObjects]]
WorkStates == {"none", "queued", "running", "completing", "done", "aborted"}

(* Every object that rows name has a row among the given ones.             *)
Resolves(b, objects) ==
  \A a \in HistArtifacts : /\ b.file[a] \in HistObjects => objects[b.file[a]] # "absent"
                           /\ b.stream[a] \in HistObjects => objects[b.stream[a]] # "absent"
StreamsDescribe(b) == \A a \in HistArtifacts : b.stream[a] # "none" => b.file[a] \in HistObjects

(* The present rows and those of each revision can be read against the     *)
(* object rows of now, and what a restore ended stays ended.               *)
BookInv ==
  /\ book \in BookRows /\ revs \in Seq(BookRows)
  /\ Resolves(book, book.objects) /\ StreamsDescribe(book)
  /\ \A r \in 1..Len(revs) : Resolves(revs[r], book.objects) /\ StreamsDescribe(revs[r])
WorkInv ==
  /\ work \in [HistJobs -> WorkStates] /\ ended \subseteq HistJobs
  /\ \A j \in ended : work[j] = "aborted"
HistoryInv == BookInv /\ WorkInv

(* A mutation of rows is a revision, and no object row is ever removed.    *)
LEMMA Mutating ==
  ASSUME BookInv, NEW b \in BookRows, Mutated(b), Resolves(b, b.objects), StreamsDescribe(b),
         \A o \in HistObjects : book.objects[o] # "absent" => b.objects[o] # "absent"
  PROVE  BookInv'
<1>1. book' = b /\ revs' = Append(revs, b)
  BY DEF Mutated
<1>2. revs' \in Seq(BookRows) /\ Len(revs') = Len(revs) + 1 /\ Len(revs) \in Nat
  BY <1>1 DEF BookInv
<1>3. ASSUME NEW r \in 1..Len(revs')
      PROVE  Resolves(revs'[r], b.objects) /\ StreamsDescribe(revs'[r])
  <2>1. CASE r = Len(revs')
    BY <1>1, <1>2, <2>1 DEF BookInv
  <2>2. CASE r # Len(revs')
    <3>1. r \in 1..Len(revs) /\ revs'[r] = revs[r]
      BY <1>1, <1>2, <2>2 DEF BookInv
    <3> QED
      BY <3>1 DEF BookInv, Resolves
  <2> QED
    BY <2>1, <2>2
<1> QED
  BY <1>1, <1>2, <1>3 DEF BookInv, Resolves, StreamsDescribe

LEMMA HistoryBegins == HistoryInit => HistoryInv
<1> SUFFICES ASSUME HistoryInit PROVE HistoryInv
  OBVIOUS
<1>1. EmptyBook \in BookRows /\ Resolves(EmptyBook, EmptyBook.objects) /\ StreamsDescribe(EmptyBook)
  BY HistoryAssumption DEF EmptyBook, BookRows, Resolves, StreamsDescribe
<1>2. BookInv
  BY <1>1 DEF HistoryInit, BookInv
<1> QED
  BY <1>2 DEF HistoryInit, HistoryInv, WorkInv, WorkStates

(* Every step keeps the invariant, and only a write revives an object.     *)
LEMMA HistoryStep ==
  ASSUME HistoryInv, [HistoryNext]_historyVars
  PROVE  HistoryInv' /\ \A o \in HistObjects :
           book.objects[o] = "forgotten" /\ book'.objects[o] # "forgotten" =>
             \E a \in HistArtifacts : PutFile(a, o)
<1> DEFINE Stay == \A o \in HistObjects : book.objects[o] = "forgotten" => book'.objects[o] = "forgotten"
<1> USE DEF HistoryInv
<1>1. CASE UNCHANGED historyVars
  BY <1>1 DEF historyVars, BookInv, WorkInv
<1>2. ASSUME NEW b \in BookRows, Mutated(b), UNCHANGED <<work, ended>>,
             Resolves(b, b.objects), StreamsDescribe(b),
             \A o \in HistObjects : book.objects[o] # "absent" => b.objects[o] # "absent"
      PROVE  HistoryInv'
  BY <1>2, Mutating DEF WorkInv
<1>3. ASSUME NEW a \in HistArtifacts, CreateArtifact(a) PROVE HistoryInv' /\ Stay
  <2> DEFINE b == [book EXCEPT !.file[a] = "bare"]
  <2>1. b \in BookRows /\ b.objects = book.objects /\ b.stream = book.stream
          /\ b.file = [book.file EXCEPT ![a] = "bare"]
    BY DEF BookInv, BookRows
  <2>2. Resolves(b, b.objects) /\ StreamsDescribe(b)
    BY <1>3, <2>1, HistoryAssumption DEF BookInv, BookRows, Resolves, StreamsDescribe, CreateArtifact
  <2> QED
    BY <1>2, <1>3, <2>1, <2>2 DEF CreateArtifact, Mutated
<1>4. ASSUME NEW a \in HistArtifacts, NEW o \in HistObjects, PutFile(a, o)
      PROVE  HistoryInv' /\ \A p \in HistObjects \ {o} : book'.objects[p] = book.objects[p]
  <2> DEFINE b == [book EXCEPT !.file[a] = o, !.objects[o] = "live"]
  <2>1. b \in BookRows /\ b.objects = [book.objects EXCEPT ![o] = "live"] /\ b.stream = book.stream
          /\ b.file = [book.file EXCEPT ![a] = o]
    BY DEF BookInv, BookRows
  <2>2. Resolves(b, b.objects) /\ StreamsDescribe(b)
    BY <2>1 DEF BookInv, BookRows, Resolves, StreamsDescribe
  <2>3. \A p \in HistObjects : book.objects[p] # "absent" => b.objects[p] # "absent"
    BY <2>1 DEF BookInv, BookRows
  <2>4. \A p \in HistObjects \ {o} : b.objects[p] = book.objects[p]
    BY <2>1 DEF BookInv, BookRows
  <2> HIDE DEF b
  <2> QED
    BY <1>2, <1>4, <2>1, <2>2, <2>3, <2>4 DEF PutFile, Mutated, b
<1>5. ASSUME NEW a \in HistArtifacts, AddStream(a) PROVE HistoryInv' /\ Stay
  <2> DEFINE b == [book EXCEPT !.stream[a] = book.file[a]]
  <2>1. b \in BookRows /\ b.objects = book.objects /\ b.file = book.file
          /\ b.stream = [book.stream EXCEPT ![a] = book.file[a]]
    BY <1>5 DEF BookInv, BookRows, AddStream
  <2>2. Resolves(b, b.objects) /\ StreamsDescribe(b)
    BY <1>5, <2>1 DEF BookInv, BookRows, Resolves, StreamsDescribe, AddStream
  <2> QED
    BY <1>2, <1>5, <2>1, <2>2 DEF AddStream, Mutated
<1>6. ASSUME NEW a \in HistArtifacts, RemoveFile(a) PROVE HistoryInv' /\ Stay
  <2> DEFINE b == [book EXCEPT !.file[a] = "bare"]
  <2>1. b \in BookRows /\ b.objects = book.objects /\ b.stream = book.stream
          /\ b.file = [book.file EXCEPT ![a] = "bare"]
    BY DEF BookInv, BookRows
  <2>2. Resolves(b, b.objects) /\ StreamsDescribe(b)
    BY <1>6, <2>1, HistoryAssumption DEF BookInv, BookRows, Resolves, StreamsDescribe, RemoveFile
  <2> QED
    BY <1>2, <1>6, <2>1, <2>2 DEF RemoveFile, Mutated
<1>7. ASSUME NEW o \in HistObjects, ForgetObject(o) PROVE HistoryInv' /\ Stay
  <2> DEFINE b == [book EXCEPT !.objects[o] = "forgotten"]
  <2>1. b \in BookRows /\ b.file = book.file /\ b.stream = book.stream
          /\ b.objects = [book.objects EXCEPT ![o] = "forgotten"]
    BY DEF BookInv, BookRows
  <2>2. Resolves(b, b.objects) /\ StreamsDescribe(b)
    BY <2>1 DEF BookInv, BookRows, Resolves, StreamsDescribe
  <2>3. \A p \in HistObjects : /\ book.objects[p] # "absent" => b.objects[p] # "absent"
                               /\ book.objects[p] = "forgotten" => b.objects[p] = "forgotten"
    BY <2>1 DEF BookInv, BookRows
  <2> HIDE DEF b
  <2> QED
    BY <1>2, <1>7, <2>1, <2>2, <2>3 DEF ForgetObject, Mutated, b
<1>8. ASSUME NEW a \in HistArtifacts, NEW owned \in BOOLEAN, DeleteArtifactRow(a, owned)
      PROVE  HistoryInv' /\ Stay
  <2> DEFINE b == [book EXCEPT !.file[a] = "gone", !.stream[a] = "none"]
  <2>1. b \in BookRows /\ b.objects = book.objects /\ b.stream = [book.stream EXCEPT ![a] = "none"]
          /\ b.file = [book.file EXCEPT ![a] = "gone"]
    BY DEF BookInv, BookRows
  <2>2. Resolves(b, b.objects) /\ StreamsDescribe(b)
    BY <2>1, HistoryAssumption DEF BookInv, BookRows, Resolves, StreamsDescribe
  <2> QED
    BY <1>2, <1>8, <2>1, <2>2 DEF DeleteArtifactRow, Mutated
<1>9. ASSUME NEW a \in HistArtifacts, NEW r \in 1..Len(revs), RestoreArtifact(a, r)
      PROVE  HistoryInv' /\ Stay
  <2> DEFINE t == revs[r]
             b == [book EXCEPT !.file[a] = t.file[a]]
  <2>0. t \in BookRows /\ Resolves(t, book.objects)
    BY DEF BookInv
  <2>1. b \in BookRows /\ b.objects = book.objects /\ b.stream = book.stream
          /\ b.file = [book.file EXCEPT ![a] = t.file[a]]
    BY <2>0 DEF BookInv, BookRows
  <2>2. Resolves(b, b.objects)
    BY <2>0, <2>1 DEF BookInv, BookRows, Resolves
  <2>3. t.file[a] \in HistObjects \/ book.stream[a] = "none"
    BY <1>9, <2>0 DEF RestoreArtifact, StreamInUse, BookRows
  <2>4. StreamsDescribe(b)
    BY <2>1, <2>3 DEF BookInv, BookRows, StreamsDescribe
  <2> QED
    BY <1>2, <1>9, <2>1, <2>2, <2>4 DEF RestoreArtifact, Mutated
<1>10. CASE RecordOperation
  <2>1. HistoryInv'
    BY <1>2, <1>10 DEF RecordOperation, BookInv
  <2> QED
    BY <1>10, <2>1 DEF RecordOperation, Mutated
<1>11. ASSUME NEW r \in 1..Len(revs), RestoreBook(r) PROVE HistoryInv' /\ Stay
  <2> DEFINE t == revs[r]
             b == [t EXCEPT !.objects = RestoredObjects(t.objects)]
  <2>0. t \in BookRows /\ Resolves(t, book.objects) /\ StreamsDescribe(t)
    BY DEF BookInv
  <2>1. b \in BookRows /\ b.objects = RestoredObjects(t.objects) /\ b.stream = t.stream /\ b.file = t.file
    BY <2>0 DEF BookInv, BookRows, RestoredObjects
  <2>2. \A o \in HistObjects : /\ book.objects[o] # "absent" => b.objects[o] # "absent"
                               /\ book.objects[o] = "forgotten" => b.objects[o] = "forgotten"
    BY <2>0, <2>1 DEF BookInv, BookRows, RestoredObjects
  <2>3. Resolves(b, b.objects) /\ StreamsDescribe(b)
    BY <2>0, <2>1, <2>2 DEF Resolves, StreamsDescribe
  <2>4. BookInv'
    BY <1>11, <2>1, <2>2, <2>3, Mutating DEF RestoreBook
  <2>5. WorkInv'
    BY <1>11 DEF RestoreBook, WorkInv, WorkStates, AbortedJobs, ActiveWork
  <2>6. Stay
    BY <1>11, <2>2 DEF RestoreBook, Mutated
  <2> QED
    BY <2>4, <2>5, <2>6
<1>12. ASSUME NEW j \in HistJobs, Enqueue(j) \/ Advance(j) PROVE HistoryInv' /\ Stay
  <2>1. BookInv' /\ Stay
    BY <1>12 DEF Enqueue, Advance, BookInv
  <2>2. WorkInv'
    BY <1>12 DEF Enqueue, Advance, WorkInv, WorkStates, ActiveWork
  <2> QED
    BY <2>1, <2>2
<1> QED
  BY <1>1, <1>3, <1>4, <1>5, <1>6, <1>7, <1>8, <1>9, <1>10, <1>11, <1>12 DEF HistoryNext, historyVars

LEMMA HistoryInvariance == HistorySpec => []HistoryInv
BY HistoryBegins, HistoryStep, PTL DEF HistorySpec

LEMMA HistoryInvIsEnough ==
  HistoryInv => HistoryTypeOK /\ HistoryResolves /\ StreamsHaveFiles /\ RestoreEndsWork
BY DEF HistoryInv, BookInv, WorkInv, BookRows, Resolves, StreamsDescribe, HistoryTypeOK, HistoryResolves,
       StreamsHaveFiles, RestoreEndsWork

(* The rows of a book are well formed, and an artifact names only objects  *)
(* that have a row (src/history.ts).                                       *)
THEOREM HistoryTypes == HistorySpec => []HistoryTypeOK
BY HistoryInvariance, HistoryInvIsEnough, PTL

(* Whatever is written, deleted, forgotten and restored in which order: each*)
(* revision can be read against the present object rows, streams have files,*)
(* jobs that a restore ended never complete, and no restore brings deleted *)
(* bytes back (restoreBook, restoreArtifact, deleteArtifact).              *)
THEOREM HistoryIsKept == HistorySpec => HistoryKeeps
<1>1. HistoryInv /\ [HistoryNext]_historyVars => 
        [\A o \in HistObjects : book.objects[o] = "forgotten" /\ book'.objects[o] # "forgotten" =>
           \E a \in HistArtifacts : PutFile(a, o)]_historyVars
  BY HistoryStep
<1>2. HistorySpec => TombstonesStay
  BY <1>1, HistoryInvariance, PTL DEF HistorySpec, TombstonesStay
<1> QED
  BY <1>2, HistoryInvariance, HistoryInvIsEnough, PTL DEF HistoryKeeps

---------------------------------------------------------------------------
(* Tags                                                                    *)

Times     == [TagIds -> 0..MaxTagClock]
Snapshot  == [source : TagBytes \cup {"none"}, gen : 0..MaxTagWrites,
              count : 0..Cardinality(TagIds), at : 0..MaxTagClock]
TagPlaces == {"main", "fork", "base"}
Catalogued == {"main", "fork"}
Readings  == [side : Catalogued, fenced : BOOLEAN, source : TagBytes, seen : Snapshot, rewound : BOOLEAN]
Copies    == [from : Catalogued, manual : SUBSET TagIds, dismissed : SUBSET TagIds, auto : SUBSET TagIds,
              snap : Snapshot]

(* The snapshot of a row is that of its automatic tags, and where nothing  *)
(* was ever analyzed there are none.                                       *)
Whole(row)  == /\ row.snap.count = Cardinality(Present(row.auto))
               /\ row.snap.gen = 0 => Present(row.auto) = {}
Within(row) == /\ Cardinality(Present(row.manual)) <= MaxManual
               /\ Cardinality(Present(row.dismissed)) <= MaxDismissed
GoodRow(row) == row \in TagRow /\ Whole(row) /\ Within(row)

(* A generation stands for one snapshot of its catalog.                    *)
Later(s, t) == s.gen <= t.gen /\ (s.gen = t.gen => s = t)

TagRowsInv ==
  /\ tagClock \in 1..MaxTagClock /\ tagWrites \in 0..MaxTagWrites
  /\ tagged \in [TagPlaces -> TagRow \cup {Unshared}]
  /\ \A s \in TagPlaces : tagged[s] # Unshared => GoodRow(tagged[s]) /\ tagged[s].snap.gen <= tagWrites
  /\ tagged["main"] # Unshared
  /\ tagged["fork"] # Unshared => /\ tagged["base"] # Unshared
                                  /\ Later(tagged["base"].snap, tagged["fork"].snap)
ReadersInv ==
  /\ analyses \in [Analyzers -> Readings \cup {Resting}]
  /\ \A n \in Analyzers : analyses[n] # Resting =>
       /\ tagged[analyses[n].side] # Unshared
       /\ ~analyses[n].rewound => Later(analyses[n].seen, tagged[analyses[n].side].snap)
CopyInv ==
  /\ exported \in Copies \cup {NoCopy}
  /\ exported # NoCopy /\ exported.snap # NoSnapshot => exported.snap.count = Cardinality(exported.auto)
TagsInv == TagRowsInv /\ ReadersInv /\ CopyInv

LEMMA RowsAreShared == \A row \in TagRow : row # Unshared
BY DEF TagRow, Unshared

LEMMA Stamping ==
  ASSUME NEW rows \in Times, NEW new \in SUBSET TagIds, tagClock \in 1..MaxTagClock
  PROVE  /\ Stamped(rows, new) \in Times /\ Present(Stamped(rows, new)) = Present(rows) \cup new
         /\ Cleared(rows, new) \in Times /\ Present(Cleared(rows, new)) = Present(rows) \ new
<1>1. /\ Stamped(rows, new) \in Times /\ \A x \in TagIds : (Stamped(rows, new)[x] # 0) = (rows[x] # 0 \/ x \in new)
      /\ Cleared(rows, new) \in Times /\ \A x \in TagIds : (Cleared(rows, new)[x] # 0) = (rows[x] # 0 /\ x \notin new)
  <2>1. tagClock \in 0..MaxTagClock /\ tagClock # 0 /\ 0 \in 0..MaxTagClock /\ \A x \in TagIds : rows[x] \in 0..MaxTagClock
    BY TagsAssumption DEF Times
  <2> QED
    BY <2>1 DEF Stamped, Cleared, Times
<1> QED
  BY <1>1 DEF Present

LEMMA Fewer ==
  ASSUME NEW A \in SUBSET TagIds, NEW B \in SUBSET A
  PROVE  /\ Cardinality(A) \in Nat /\ Cardinality(B) \in Nat /\ Cardinality(B) <= Cardinality(A)
         /\ Cardinality(A) \in 0..Cardinality(TagIds)
<1>1. IsFiniteSet(A) /\ Cardinality(A) \in Nat /\ Cardinality(A) <= Cardinality(TagIds)
        /\ Cardinality(TagIds) \in Nat
  BY TagsAssumption, FS_Subset, FS_CardinalityType
<1> QED
  BY <1>1, FS_Subset, FS_CardinalityType

LEMMA LaterIsTransitive ==
  ASSUME NEW r \in Snapshot, NEW s \in Snapshot, NEW t \in Snapshot, Later(r, s), Later(s, t)
  PROVE  Later(r, t)
BY DEF Later, Snapshot

(* A commit of a good row, which on the fork has a later snapshot.         *)
LEMMA Committing ==
  ASSUME TagRowsInv, NEW s \in Catalogued, tagged[s] # Unshared, NEW row \in TagRow, Commit(s, row),
         Whole(row), Within(row), row.snap.gen <= tagWrites + 1,
         s = "fork" => Later(tagged[s].snap, row.snap)
  PROVE  TagRowsInv' /\ tagged'[s] = row /\ \A p \in TagPlaces \ {s} : tagged'[p] = tagged[p]
<1>1. /\ tagged' = [tagged EXCEPT ![s] = row] /\ tagWrites' = tagWrites + 1 /\ tagWrites' \in 0..MaxTagWrites
      /\ tagClock' = tagClock /\ s \in TagPlaces
  BY TagsAssumption DEF Commit, TagRowsInv, Catalogued, TagPlaces
<1>2. tagged'[s] = row /\ \A p \in TagPlaces \ {s} : tagged'[p] = tagged[p]
  BY <1>1 DEF TagRowsInv
<1>3. tagged' \in [TagPlaces -> TagRow \cup {Unshared}] /\ row # Unshared
  BY <1>1, RowsAreShared DEF TagRowsInv
<1>4. ASSUME NEW p \in TagPlaces, tagged'[p] # Unshared 
      PROVE  GoodRow(tagged'[p]) /\ tagged'[p].snap.gen <= tagWrites'
  <2>1. CASE p = s
    BY <1>1, <1>2, <2>1 DEF GoodRow
  <2>2. CASE p # s
    <3>1. GoodRow(tagged[p]) /\ tagged'[p] = tagged[p] /\ tagged[p].snap.gen <= tagWrites
      BY <1>2, <1>4, <2>2 DEF TagRowsInv
    <3>2. tagged[p].snap.gen \in Nat /\ tagWrites \in Nat
      BY <3>1 DEF GoodRow, TagRow, TagRowsInv
    <3> QED
      BY <1>1, <3>1, <3>2
  <2> QED
    BY <2>1, <2>2
<1>5. tagged'["main"] # Unshared
  BY <1>2, <1>3 DEF TagRowsInv, TagPlaces
<1>6. ASSUME tagged'["fork"] # Unshared
      PROVE  tagged'["base"] # Unshared /\ Later(tagged'["base"].snap, tagged'["fork"].snap)
  <2>1. tagged'["base"] = tagged["base"] /\ tagged["fork"] # Unshared
    BY <1>2, <1>6 DEF Catalogued, TagPlaces
  <2>2. tagged["base"] # Unshared /\ Later(tagged["base"].snap, tagged["fork"].snap)
    BY <2>1 DEF TagRowsInv
  <2>3. CASE s = "fork"
    <3>1. tagged["base"].snap \in Snapshot /\ tagged["fork"].snap \in Snapshot /\ row.snap \in Snapshot
      BY <2>1, <2>2 DEF TagRowsInv, TagPlaces, GoodRow, TagRow, Snapshot
    <3> QED
      BY <1>2, <2>1, <2>2, <2>3, <3>1, LaterIsTransitive
  <2>4. CASE s # "fork"
    BY <1>2, <2>1, <2>2, <2>4 DEF TagPlaces
  <2> QED
    BY <2>3, <2>4
<1> QED
  BY <1>1, <1>2, <1>3, <1>4, <1>5, <1>6 DEF TagRowsInv

(* Readers keep what they read while snapshots only get later.             *)
LEMMA ReadersStay ==
  ASSUME ReadersInv, TagRowsInv, analyses' \in [Analyzers -> Readings \cup {Resting}],
         \A n \in Analyzers : analyses'[n] \in {analyses[n], Resting},
         \A s \in Catalogued : tagged[s] # Unshared =>
           /\ tagged'[s] # Unshared /\ tagged'[s].snap \in Snapshot /\ Later(tagged[s].snap, tagged'[s].snap)
  PROVE  ReadersInv'
<1> SUFFICES ASSUME NEW n \in Analyzers, analyses'[n] # Resting
             PROVE  /\ tagged'[analyses[n].side] # Unshared
                    /\ ~analyses[n].rewound => Later(analyses[n].seen, tagged'[analyses[n].side].snap)
  BY DEF ReadersInv
<1> DEFINE s == analyses[n].side
<1>1. analyses[n] \in Readings /\ s \in Catalogued /\ tagged[s] # Unshared /\ analyses[n].seen \in Snapshot
  BY DEF ReadersInv, Readings
<1>2. tagged[s].snap \in Snapshot
  BY <1>1 DEF TagRowsInv, GoodRow, TagRow, Catalogued, TagPlaces, Snapshot
<1>3. ~analyses[n].rewound => Later(analyses[n].seen, tagged[s].snap)
  BY <1>1 DEF ReadersInv
<1> QED
  BY <1>1, <1>2, <1>3, LaterIsTransitive

(* A commit on one side that leaves readers and the portable copy alone.   *)
LEMMA SideCommits ==
  ASSUME TagsInv, NEW s \in Sides, NEW row \in TagRow, Commit(s, row), Whole(row), Within(row),
         row.snap.gen <= tagWrites + 1, Later(tagged[s].snap, row.snap),
         analyses' \in [Analyzers -> Readings \cup {Resting}],
         \A n \in Analyzers : analyses'[n] \in {analyses[n], Resting}, exported' = exported
  PROVE  TagsInv'
<1>1. s \in Catalogued /\ tagged[s] # Unshared
  BY DEF Sides, Catalogued
<1>2. TagRowsInv' /\ tagged'[s] = row /\ \A p \in TagPlaces \ {s} : tagged'[p] = tagged[p]
  BY <1>1, Committing DEF TagsInv
<1>3. ASSUME NEW p \in Catalogued, tagged[p] # Unshared
      PROVE  tagged'[p] # Unshared /\ tagged'[p].snap \in Snapshot /\ Later(tagged[p].snap, tagged'[p].snap)
  <2>1. CASE p = s
    BY <1>2, <2>1, RowsAreShared DEF TagRow, Snapshot
  <2>2. CASE p # s
    BY <1>2, <1>3, <2>2 DEF TagsInv, TagRowsInv, GoodRow, TagRow, Snapshot, Later, Catalogued, TagPlaces
  <2> QED
    BY <2>1, <2>2
<1>4. ReadersInv'
  BY <1>3, ReadersStay DEF TagsInv
<1> QED
  BY <1>2, <1>4 DEF TagsInv, CopyInv

LEMMA SideRow ==
  ASSUME TagsInv, NEW s \in Sides
  PROVE  /\ GoodRow(tagged[s]) /\ tagged[s].snap \in Snapshot /\ tagged[s].snap.gen <= tagWrites
         /\ tagged[s].snap.gen \in Nat /\ tagWrites \in Nat /\ tagged[s].file \in TagBytes
         /\ tagged[s].manual \in Times /\ tagged[s].dismissed \in Times /\ tagged[s].auto \in Times
         /\ Later(tagged[s].snap, tagged[s].snap) /\ tagClock \in 1..MaxTagClock
         /\ Present(tagged[s].manual) \in SUBSET TagIds /\ Present(tagged[s].dismissed) \in SUBSET TagIds
         /\ Present(tagged[s].auto) \in SUBSET TagIds
BY DEF TagsInv, TagRowsInv, Sides, TagPlaces, GoodRow, TagRow, Snapshot, Times, Later, Present

(* Manual tags and dismissals change, what was analyzed does not.          *)
LEMMA Retagging ==
  ASSUME TagsInv, NEW s \in Sides, NEW m \in Times, NEW d \in Times,
         Cardinality(Present(m)) <= MaxManual, Cardinality(Present(d)) <= MaxDismissed,
         Commit(s, [tagged[s] EXCEPT !.manual = m, !.dismissed = d]), UNCHANGED <<analyses, exported>>
  PROVE  TagsInv'
<1> DEFINE old == tagged[s]
           row == [old EXCEPT !.manual = m, !.dismissed = d]
<1>1. row \in TagRow /\ row.snap = old.snap /\ row.auto = old.auto /\ row.manual = m /\ row.dismissed = d
  BY SideRow DEF GoodRow, TagRow, Times
<1>3. analyses' \in [Analyzers -> Readings \cup {Resting}] /\ \A n \in Analyzers : analyses'[n] \in {analyses[n], Resting}
  BY DEF TagsInv, ReadersInv
<1>4. Commit(s, row)
  OBVIOUS
<1> HIDE DEF row
<1>2. Whole(row) /\ Within(row) /\ row.snap.gen <= tagWrites + 1
  BY <1>1, SideRow DEF GoodRow, Whole, Within
<1> QED
  BY <1>1, <1>2, <1>3, <1>4, SideRow, SideCommits

LEMMA AddingKeeps ==
  ASSUME TagsInv, NEW s \in Sides, NEW tags \in SUBSET TagIds, AddManualTags(s, tags)
  PROVE  TagsInv'
<1> DEFINE row == tagged[s]
           news == {x \in tags : row.manual[x] = 0 \/ row.dismissed[x] # 0}
           m == Stamped(row.manual, news)   d == Cleared(row.dismissed, news)
<1>1. /\ Cardinality(Present(row.manual) \cup tags) <= MaxManual /\ UNCHANGED <<analyses, exported>>
      /\ Commit(s, [row EXCEPT !.manual = m, !.dismissed = d])
  BY DEF AddManualTags
<1>2. news \in SUBSET TagIds /\ news \subseteq tags
  OBVIOUS
<1> HIDE DEF news
<1>3. /\ m \in Times /\ Present(m) = Present(row.manual) \cup news
      /\ d \in Times /\ Present(d) = Present(row.dismissed) \ news
  BY <1>2, SideRow, Stamping
<1>4. Cardinality(Present(m)) <= MaxManual
  <2>1. Present(m) \in SUBSET (Present(row.manual) \cup tags) /\ Present(row.manual) \cup tags \in SUBSET TagIds
    BY <1>2, <1>3, SideRow
  <2>2. Cardinality(Present(m)) <= Cardinality(Present(row.manual) \cup tags)
          /\ Cardinality(Present(m)) \in Nat /\ Cardinality(Present(row.manual) \cup tags) \in Nat
    BY <2>1, Fewer
  <2> QED
    BY <1>1, <2>2, TagsAssumption
<1>5. Cardinality(Present(d)) <= MaxDismissed
  <2>1. Cardinality(Present(d)) <= Cardinality(Present(row.dismissed))
          /\ Cardinality(Present(d)) \in Nat /\ Cardinality(Present(row.dismissed)) \in Nat
    BY <1>3, SideRow, Fewer
  <2> QED
    BY <2>1, SideRow, TagsAssumption DEF GoodRow, Within
<1> HIDE DEF m, d
<1> QED
  BY <1>1, <1>3, <1>4, <1>5, Retagging

LEMMA RemovingKeeps ==
  ASSUME TagsInv, NEW s \in Sides, NEW x \in TagIds, RemoveTag(s, x) \/ RestoreTag(s, x)
  PROVE  TagsInv'
<1> DEFINE row == tagged[s]
           md == Present(row.dismissed)
<1>0. /\ md \in SUBSET TagIds /\ IsFiniteSet(md) /\ Cardinality(md) \in Nat /\ Cardinality(md) <= MaxDismissed
      /\ Cardinality(Present(row.manual)) <= MaxManual
  BY SideRow, Fewer, TagsAssumption, FS_Subset DEF GoodRow, Within
<1>1. CASE RemoveTag(s, x)
  <2> DEFINE m == [row.manual EXCEPT ![x] = 0]   d == Stamped(row.dismissed, {x})
  <2>1. [row EXCEPT !.manual[x] = 0, !.dismissed = Stamped(row.dismissed, {x})] = [row EXCEPT !.manual = m, !.dismissed = d]
    OBVIOUS
  <2>2. /\ Commit(s, [row EXCEPT !.manual = m, !.dismissed = d]) /\ UNCHANGED <<analyses, exported>>
        /\ row.dismissed[x] # 0 \/ Cardinality(md) < MaxDismissed
    BY <1>1, <2>1 DEF RemoveTag
  <2>3. m \in Times /\ Present(m) \in SUBSET Present(row.manual)
    BY SideRow, TagsAssumption DEF Times, Present
  <2>4. Cardinality(Present(m)) <= MaxManual
    <3>1. Cardinality(Present(m)) <= Cardinality(Present(row.manual))
            /\ Cardinality(Present(m)) \in Nat /\ Cardinality(Present(row.manual)) \in Nat
      BY <2>3, SideRow, Fewer
    <3> QED
      BY <1>0, <3>1, TagsAssumption
  <2>5. d \in Times /\ Present(d) = md \cup {x}
    BY SideRow, Stamping
  <2>6. Cardinality(Present(d)) <= MaxDismissed
    <3>1. CASE x \in md
      BY <1>0, <2>5, <3>1
    <3>2. CASE x \notin md
      <4>1. Cardinality(md \cup {x}) = Cardinality(md) + 1
        BY <1>0, <3>2, FS_AddElement
      <4>2. Cardinality(md) < MaxDismissed
        BY <2>2, <3>2 DEF Present
      <4>3. MaxDismissed \in Nat
        BY TagsAssumption
      <4> HIDE DEF md, d
      <4> QED
        BY <1>0, <2>5, <4>1, <4>2, <4>3
    <3> QED
      BY <3>1, <3>2
  <2> HIDE DEF m, d
  <2> QED
    BY <2>2, <2>3, <2>4, <2>5, <2>6, Retagging
<1>2. CASE RestoreTag(s, x)
  <2> DEFINE d == [row.dismissed EXCEPT ![x] = 0]
  <2>1. [row EXCEPT !.dismissed[x] = 0] = [row EXCEPT !.manual = row.manual, !.dismissed = d]
    BY SideRow DEF GoodRow, TagRow
  <2>2. Commit(s, [row EXCEPT !.manual = row.manual, !.dismissed = d]) /\ UNCHANGED <<analyses, exported>>
    BY <1>2, <2>1 DEF RestoreTag
  <2>3. d \in Times /\ Present(d) \in SUBSET md
    BY SideRow, TagsAssumption DEF Times, Present
  <2>4. Cardinality(Present(d)) <= MaxDismissed
    <3>1. Cardinality(Present(d)) <= Cardinality(md) /\ Cardinality(Present(d)) \in Nat
      BY <1>0, <2>3, Fewer
    <3> QED
      BY <1>0, <3>1, TagsAssumption
  <2> HIDE DEF d
  <2> QED
    BY <1>0, <2>2, <2>3, <2>4, SideRow, Retagging
<1> QED
  BY <1>1, <1>2

LEMMA ReplacingKeeps ==
  ASSUME TagsInv, NEW s \in Sides, NEW b \in TagBytes, ReplaceOriginal(s, b)
  PROVE  TagsInv'
<1> DEFINE row == [tagged[s] EXCEPT !.file = b]
<1>1. row \in TagRow /\ row.snap = tagged[s].snap /\ row.auto = tagged[s].auto
        /\ row.manual = tagged[s].manual /\ row.dismissed = tagged[s].dismissed
  BY SideRow DEF GoodRow, TagRow
<1>2. Whole(row) /\ Within(row) /\ row.snap.gen <= tagWrites + 1
  BY <1>1, SideRow DEF GoodRow, Whole, Within
<1>3. analyses' = analyses /\ exported' = exported /\ Commit(s, row)
  BY DEF ReplaceOriginal
<1>4. analyses' \in [Analyzers -> Readings \cup {Resting}] /\ \A n \in Analyzers : analyses'[n] \in {analyses[n], Resting}
  BY <1>3 DEF TagsInv, ReadersInv
<1> HIDE DEF row
<1> QED
  BY <1>1, <1>2, <1>3, <1>4, SideRow, SideCommits

(* The rows of one analysis, and a snapshot that counts them.              *)
LEMMA EvidenceIsWhole ==
  ASSUME TagsInv, NEW s \in Sides, NEW tags \in SUBSET TagIds, tagWrites < MaxTagWrites, NEW snap,
         snap \in [source : TagBytes \cup {"none"}, gen : Nat, count : Nat, at : 0..MaxTagClock],
         snap.gen = tagged[s].snap.gen + 1, snap.count = Cardinality(tags)
  PROVE  LET auto == Stamped(Cleared(tagged[s].auto, TagIds), tags) IN
         /\ auto \in Times /\ Present(auto) = tags /\ snap \in Snapshot
         /\ snap.gen <= tagWrites + 1 /\ snap.gen # 0 /\ Later(tagged[s].snap, snap)
<1> DEFINE none == Cleared(tagged[s].auto, TagIds)
<1>1. none \in Times /\ Present(none) = {}
  <2>1. Present(tagged[s].auto) \ TagIds = {}
    BY SideRow
  <2> QED
    BY <2>1, SideRow, Stamping
<1>2. tagClock \in 1..MaxTagClock
  BY SideRow
<1> HIDE DEF none
<1>3. Stamped(none, tags) \in Times /\ Present(Stamped(none, tags)) = Present(none) \cup tags
  BY <1>1, <1>2, Stamping
<1>4. snap \in Snapshot
  <2>1. Cardinality(tags) \in 0..Cardinality(TagIds)
    BY Fewer
  <2>2. tagged[s].snap.gen + 1 \in 0..MaxTagWrites
    BY SideRow, TagsAssumption
  <2> QED
    BY <2>1, <2>2 DEF Snapshot
<1>5. snap.gen <= tagWrites + 1 /\ snap.gen # 0 /\ Later(tagged[s].snap, snap)
  BY SideRow DEF Later
<1> QED
  BY <1>1, <1>3, <1>4, <1>5 DEF none

LEMMA AnsweringKeeps ==
  ASSUME TagsInv, NEW n \in Analyzers, NEW tags \in SUBSET TagIds, ReplaceAutomatic(n, tags)
  PROVE  TagsInv'
<1> DEFINE a == analyses[n]   s == a.side   old == tagged[s]   row == Analyzed(old, a.source, tags)
<1>1. a \in Readings /\ a # Resting /\ s \in Sides
  BY DEF ReplaceAutomatic, TagsInv, ReadersInv, Readings, Sides, Catalogued
<1>2. /\ analyses' = [analyses EXCEPT ![n] = Resting] /\ exported' = exported
      /\ analyses' \in [Analyzers -> Readings \cup {Resting}]
      /\ \A k \in Analyzers : analyses'[k] \in {analyses[k], Resting}
  BY DEF ReplaceAutomatic, TagsInv, ReadersInv
<1>3. CASE Commit(s, row)
  <2> DEFINE auto == Stamped(Cleared(old.auto, TagIds), tags)
             snap == [source |-> a.source, gen |-> old.snap.gen + 1, count |-> Cardinality(tags), at |-> tagClock]
  <2>1. Cardinality(tags) \in Nat /\ old.snap.gen + 1 \in Nat /\ tagClock \in 0..MaxTagClock /\ tagWrites < MaxTagWrites
    BY <1>1, <1>3, SideRow, Fewer DEF Commit
  <2>2. snap \in [source : TagBytes \cup {"none"}, gen : Nat, count : Nat, at : 0..MaxTagClock]
    BY <1>1, <2>1 DEF Readings
  <2>3. /\ auto \in Times /\ Present(auto) = tags /\ snap \in Snapshot
        /\ snap.gen <= tagWrites + 1 /\ snap.gen # 0 /\ Later(old.snap, snap)
    BY <1>1, <2>1, <2>2, EvidenceIsWhole
  <2>4. snap.count = Cardinality(tags) /\ row = [old EXCEPT !.auto = auto, !.snap = snap]
    BY DEF Analyzed
  <2>5. GoodRow(old) /\ old \in TagRow
    BY <1>1, SideRow DEF GoodRow
  <2> HIDE DEF auto, snap, s, old, row
  <2>6. row \in TagRow /\ row.snap = snap /\ row.auto = auto /\ row.manual = old.manual /\ row.dismissed = old.dismissed
    BY <2>3, <2>4, <2>5 DEF TagRow, Times, Snapshot
  <2>7. Whole(row) /\ Within(row)
    BY <2>3, <2>4, <2>5, <2>6 DEF GoodRow, Whole, Within
  <2>8. row.snap.gen <= tagWrites + 1 /\ Later(tagged[s].snap, row.snap)
    BY <2>3, <2>6 DEF old
  <2> QED
    BY <1>1, <1>2, <1>3, <2>6, <2>7, <2>8, SideCommits
<1>4. CASE UNCHANGED <<tagged, tagClock, tagWrites>>
  <2>1. TagRowsInv' /\ CopyInv'
    BY <1>2, <1>4 DEF TagsInv, TagRowsInv, CopyInv
  <2>2. ReadersInv'
    BY <1>2, <1>4 DEF TagsInv, ReadersInv
  <2> QED
    BY <2>1, <2>2 DEF TagsInv
<1> QED
  BY <1>3, <1>4 DEF ReplaceAutomatic

LEMMA ImportingKeeps ==
  ASSUME TagsInv, NEW s \in Sides, ImportTags(s)
  PROVE  TagsInv'
<1> DEFINE old == tagged[s]   copy == exported
           m == Stamped(old.manual, copy.manual)   d == Stamped(old.dismissed, copy.dismissed)
           added == [old EXCEPT !.manual = m, !.dismissed = d]
           row == Imported(old, copy)
<1>1. copy \in Copies /\ Commit(s, row) /\ UNCHANGED <<analyses, exported>>
  BY DEF ImportTags, TagsInv, CopyInv
<1>2. /\ copy.manual \in SUBSET TagIds /\ copy.dismissed \in SUBSET TagIds /\ copy.auto \in SUBSET TagIds
      /\ copy.snap \in Snapshot
      /\ copy.snap # NoSnapshot => copy.snap.count = Cardinality(copy.auto)
  BY <1>1 DEF Copies, ImportTags, TagsInv, CopyInv
<1>3. m \in Times /\ Present(m) = Present(old.manual) \cup copy.manual
        /\ d \in Times /\ Present(d) = Present(old.dismissed) \cup copy.dismissed
  BY <1>2, SideRow, Stamping
<1>4. Cardinality(Present(m)) <= MaxManual /\ Cardinality(Present(d)) <= MaxDismissed
  BY <1>3 DEF ImportTags
<1>5. analyses' \in [Analyzers -> Readings \cup {Resting}] /\ \A n \in Analyzers : analyses'[n] \in {analyses[n], Resting}
  BY <1>1 DEF TagsInv, ReadersInv
<1>6. GoodRow(old) /\ old \in TagRow
  BY SideRow DEF GoodRow
<1>7. /\ row = IF Importable(old, copy)
               THEN [added EXCEPT !.auto = Stamped(Cleared(old.auto, TagIds), copy.auto),
                                  !.snap = [copy.snap EXCEPT !.gen = old.snap.gen + 1]]
               ELSE added
  BY DEF Imported
<1>8. CASE ~Importable(old, copy)
  BY <1>1, <1>3, <1>4, <1>7, <1>8, Retagging
<1>9. CASE Importable(old, copy)
  <2> DEFINE auto == Stamped(Cleared(old.auto, TagIds), copy.auto)
             snap == [copy.snap EXCEPT !.gen = old.snap.gen + 1]
  <2>0. copy.snap.count = Cardinality(copy.auto) /\ tagWrites < MaxTagWrites
    BY <1>1, <1>2, <1>9 DEF Importable, Commit
  <2>1. /\ snap \in [source : TagBytes \cup {"none"}, gen : Nat, count : Nat, at : 0..MaxTagClock]
        /\ snap.gen = old.snap.gen + 1 /\ snap.count = Cardinality(copy.auto)
    BY <1>2, <2>0, SideRow, Fewer DEF Snapshot
  <2> HIDE DEF snap
  <2>2. /\ auto \in Times /\ Present(auto) = copy.auto /\ snap \in Snapshot
        /\ snap.gen <= tagWrites + 1 /\ snap.gen # 0 /\ Later(old.snap, snap)
    BY <1>2, <2>0, <2>1, EvidenceIsWhole
  <2>3. row = [added EXCEPT !.auto = auto, !.snap = snap]
    BY <1>7, <1>9 DEF snap
  <2> HIDE DEF auto, row, m, d
  <2>4. added \in TagRow /\ added.manual = m /\ added.dismissed = d
    BY <1>3, <1>6 DEF TagRow, Times
  <2> HIDE DEF added
  <2>5. row \in TagRow /\ row.snap = snap /\ row.auto = auto /\ row.manual = m /\ row.dismissed = d
    BY <2>2, <2>3, <2>4 DEF TagRow, Times, Snapshot
  <2>6. Whole(row) /\ Within(row)
    BY <1>4, <2>1, <2>2, <2>5 DEF Whole, Within
  <2> QED
    BY <1>1, <1>5, <2>2, <2>5, <2>6, SideCommits
<1> QED
  BY <1>8, <1>9

LEMMA ReadingKeeps ==
  ASSUME TagsInv, NEW s \in Sides,
         ExportTags(s) \/ \E n \in Analyzers, fenced \in BOOLEAN : StartAnalysis(n, s, fenced)
  PROVE  TagsInv'
<1>0. s \in Catalogued /\ tagged[s] # Unshared
  BY DEF Sides, Catalogued
<1>1. CASE ExportTags(s)
  <2>1. TagRowsInv' /\ ReadersInv'
    BY <1>1 DEF ExportTags, TagsInv, TagRowsInv, ReadersInv
  <2>2. NoSnapshot \in Snapshot
    <3>1. Cardinality(TagIds) \in Nat
      BY Fewer
    <3> QED
      BY <3>1, TagsAssumption DEF NoSnapshot, Snapshot
  <2>3. exported' \in Copies
    BY <1>0, <1>1, <2>2, SideRow DEF ExportTags, Copies
  <2>4. exported'.snap # NoSnapshot => exported'.snap.count = Cardinality(exported'.auto)
    BY <1>1, SideRow DEF ExportTags, GoodRow, Whole
  <2> QED
    BY <2>1, <2>3, <2>4 DEF TagsInv, CopyInv
<1>2. ASSUME NEW n \in Analyzers, NEW fenced \in BOOLEAN, StartAnalysis(n, s, fenced) PROVE TagsInv'
  <2> DEFINE a == [side |-> s, fenced |-> fenced, source |-> tagged[s].file, seen |-> tagged[s].snap, rewound |-> FALSE]
  <2>1. a \in Readings /\ a.side = s /\ a.seen = tagged[s].snap
    BY <1>0, SideRow DEF Readings
  <2>2. analyses' = [analyses EXCEPT ![n] = a] /\ UNCHANGED <<tagged, exported, tagClock, tagWrites>>
    BY <1>2 DEF StartAnalysis
  <2> HIDE DEF a
  <2>3. TagRowsInv' /\ CopyInv'
    BY <2>2 DEF TagsInv, TagRowsInv, CopyInv
  <2>4. ReadersInv'
    BY <1>0, <2>1, <2>2, SideRow DEF TagsInv, ReadersInv
  <2> QED
    BY <2>3, <2>4 DEF TagsInv
<1> QED
  BY <1>1, <1>2

(* A table without clashes merges to the rows that the sets of keys say.   *)
LEMMA TablesMerge ==
  ASSUME NEW b \in Times, NEW o \in Times, NEW t \in Times
  PROVE  /\ TableMerged(b, o, t) \in Times
         /\ TableClashes(b, o, t) = {} =>
              Present(TableMerged(b, o, t)) = SetMerged(Present(b), Present(o), Present(t))
         /\ t = b => TableMerged(b, o, t) = o
         /\ o = b \/ o = t => TableMerged(b, o, t) = t
<1>1. DOMAIN o = TagIds /\ TableMerged(b, o, t) = [k \in TagIds |-> RowMerged(b[k], o[k], t[k])]
  BY DEF TableMerged, Times
<1>2. TableMerged(b, o, t) \in Times
  BY <1>1 DEF RowMerged, Times
<1>3. ASSUME TableClashes(b, o, t) = {}
      PROVE  Present(TableMerged(b, o, t)) = SetMerged(Present(b), Present(o), Present(t))
  <2>1. ASSUME NEW k \in TagIds PROVE ~RowClash(b[k], o[k], t[k])
    BY <1>1, <1>3 DEF TableClashes
  <2> QED
    BY <1>1, <2>1 DEF Present, SetMerged, RowMerged, RowClash
<1>4. (t = b => TableMerged(b, o, t) = o) /\ (o = b \/ o = t => TableMerged(b, o, t) = t)
  BY <1>1 DEF RowMerged, Times
<1> QED
  BY <1>2, <1>3, <1>4

LEMMA MergingKeeps ==
  ASSUME TagsInv, MergeTags
  PROVE  TagsInv'
<1> DEFINE b == tagged["base"]   o == tagged["main"]   t == tagged["fork"]   row == TagsMerged(b, o, t)
<1>1. /\ t # Unshared /\ ~BundlesClash(b, o, t) /\ ~TagsClash(b, o, t)
      /\ MergeFits(b.manual, o.manual, t.manual, MaxManual)
      /\ MergeFits(b.dismissed, o.dismissed, t.dismissed, MaxDismissed)
      /\ Commit("main", row) /\ UNCHANGED <<analyses, exported>>
  BY DEF MergeTags
<1>2. /\ "main" \in Sides /\ "main" \in TagPlaces /\ "fork" \in TagPlaces /\ "base" \in TagPlaces
      /\ o # Unshared /\ b # Unshared /\ Later(b.snap, t.snap)
  BY <1>1 DEF TagsInv, TagRowsInv, Sides, TagPlaces
<1>3. /\ GoodRow(b) /\ GoodRow(o) /\ GoodRow(t) /\ b.snap.gen <= tagWrites /\ o.snap.gen <= tagWrites
      /\ t.snap.gen <= tagWrites /\ tagWrites \in Nat
  BY <1>1, <1>2 DEF TagsInv, TagRowsInv
<1> HIDE DEF b, o, t
<1>4. \A r \in {b, o, t} : /\ r.file \in TagBytes /\ r.manual \in Times /\ r.dismissed \in Times /\ r.auto \in Times
                           /\ r.snap \in Snapshot
  BY <1>3 DEF GoodRow, TagRow, Times, Snapshot
<1>5. /\ row.file = RowMerged(b.file, o.file, t.file) /\ row.snap = RowMerged(b.snap, o.snap, t.snap)
      /\ row.manual = TableMerged(b.manual, o.manual, t.manual)
      /\ row.dismissed = TableMerged(b.dismissed, o.dismissed, t.dismissed)
      /\ row.auto = TableMerged(b.auto, o.auto, t.auto)
  BY DEF TagsMerged
<1>6. row \in TagRow
  <2>1. /\ TableMerged(b.manual, o.manual, t.manual) \in Times /\ TableMerged(b.auto, o.auto, t.auto) \in Times
        /\ TableMerged(b.dismissed, o.dismissed, t.dismissed) \in Times
    BY <1>4, TablesMerge
  <2>2. RowMerged(b.file, o.file, t.file) \in TagBytes /\ RowMerged(b.snap, o.snap, t.snap) \in Snapshot
    BY <1>4 DEF RowMerged
  <2> QED
    BY <2>1, <2>2 DEF TagsMerged, TagRow, Times, Snapshot
<1> HIDE DEF row
<1>7. Within(row)
  <2>1. TableClashes(b.manual, o.manual, t.manual) = {} /\ TableClashes(b.dismissed, o.dismissed, t.dismissed) = {}
    BY <1>1 DEF TagsClash
  <2>2. Present(row.manual) = SetMerged(Present(b.manual), Present(o.manual), Present(t.manual))
    <3>1. b.manual \in Times /\ o.manual \in Times /\ t.manual \in Times
      BY <1>4
    <3>2. Present(TableMerged(b.manual, o.manual, t.manual))
            = SetMerged(Present(b.manual), Present(o.manual), Present(t.manual))
      BY <2>1, <3>1, TablesMerge
    <3> QED
      BY <1>5, <3>2
  <2>3. Present(row.dismissed) = SetMerged(Present(b.dismissed), Present(o.dismissed), Present(t.dismissed))
    <3>1. b.dismissed \in Times /\ o.dismissed \in Times /\ t.dismissed \in Times
      BY <1>4
    <3>2. Present(TableMerged(b.dismissed, o.dismissed, t.dismissed))
            = SetMerged(Present(b.dismissed), Present(o.dismissed), Present(t.dismissed))
      BY <2>1, <3>1, TablesMerge
    <3> QED
      BY <1>5, <3>2
  <2> QED
    BY <1>1, <2>2, <2>3 DEF Within, MergeFits
<1>8. \/ row.auto = o.auto /\ row.snap = o.snap
      \/ row.auto = t.auto /\ row.snap = t.snap /\ (o.snap = b.snap \/ o.snap = t.snap)
  <2>1. \/ t.auto = b.auto /\ t.snap = b.snap
        \/ o.auto = b.auto /\ o.snap = b.snap
        \/ o.auto = t.auto /\ o.snap = t.snap
    BY <1>1 DEF BundlesClash, RowClash, Bundle
  <2>2. CASE t.auto = b.auto /\ t.snap = b.snap
    BY <1>4, <1>5, <2>2, TablesMerge DEF RowMerged
  <2>3. CASE (o.auto = b.auto /\ o.snap = b.snap) \/ (o.auto = t.auto /\ o.snap = t.snap)
    <3>1. row.auto = t.auto
      BY <1>4, <1>5, <2>3, TablesMerge
    <3> QED
      BY <1>5, <2>3, <3>1 DEF RowMerged
  <2> QED
    BY <2>1, <2>2, <2>3
<1>9. Whole(row) /\ row.snap.gen <= tagWrites + 1 /\ Later(o.snap, row.snap)
  <2>1. Later(o.snap, o.snap) /\ Later(t.snap, t.snap)
    BY <1>4 DEF Later, Snapshot
  <2>2. row.snap.gen \in Nat /\ row.snap.gen <= tagWrites
    BY <1>3, <1>4, <1>8 DEF Snapshot
  <2>3. Whole(row)
    BY <1>3, <1>8 DEF GoodRow, Whole
  <2> QED
    BY <1>2, <1>3, <1>8, <2>1, <2>2, <2>3
<1>10. analyses' \in [Analyzers -> Readings \cup {Resting}] /\ \A n \in Analyzers : analyses'[n] \in {analyses[n], Resting}
  BY <1>1 DEF TagsInv, ReadersInv
<1> QED
  BY <1>1, <1>2, <1>6, <1>7, <1>9, <1>10, SideCommits DEF o

LEMMA SharingKeeps ==
  ASSUME TagsInv, ShareTags
  PROVE  TagsInv'
<1>1. /\ tagged["fork"] = Unshared /\ UNCHANGED <<analyses, exported, tagClock, tagWrites>>
      /\ tagged' = [tagged EXCEPT !["fork"] = tagged["main"], !["base"] = tagged["main"]]
  BY DEF ShareTags
<1>2. /\ tagged'["main"] = tagged["main"] /\ tagged'["fork"] = tagged["main"] /\ tagged'["base"] = tagged["main"]
      /\ tagged' \in [TagPlaces -> TagRow \cup {Unshared}] /\ tagged["main"] # Unshared
  BY <1>1 DEF TagsInv, TagRowsInv, TagPlaces
<1>3. GoodRow(tagged["main"]) /\ tagged["main"].snap.gen <= tagWrites /\ Later(tagged["main"].snap, tagged["main"].snap)
  BY <1>2 DEF TagsInv, TagRowsInv, TagPlaces, Later, GoodRow, TagRow
<1>4. TagRowsInv'
  BY <1>1, <1>2, <1>3 DEF TagsInv, TagRowsInv, TagPlaces
<1>5. ReadersInv'
  <2>1. ASSUME NEW n \in Analyzers, analyses[n] # Resting PROVE analyses[n].side = "main"
    BY <1>1, <2>1 DEF TagsInv, ReadersInv, Readings, Catalogued
  <2> QED
    BY <1>1, <1>2, <2>1 DEF TagsInv, ReadersInv
<1> QED
  BY <1>1, <1>4, <1>5 DEF TagsInv, CopyInv

LEMMA RewindingKeeps ==
  ASSUME TagsInv, RestoreTags
  PROVE  TagsInv'
<1> DEFINE b == tagged["base"]
           marked(n) == IF analyses[n].side = "main" THEN [analyses[n] EXCEPT !.rewound = TRUE] ELSE analyses[n]
<1>1. b # Unshared /\ Commit("main", b) /\ exported' = exported /\ analyses' = [n \in Analyzers |-> marked(n)]
  BY DEF RestoreTags
<1>2. GoodRow(b) /\ b \in TagRow /\ b.snap.gen <= tagWrites /\ b.snap.gen \in Nat /\ tagWrites \in Nat
  BY <1>1 DEF TagsInv, TagRowsInv, TagPlaces, GoodRow, TagRow
<1> HIDE DEF b
<1>3. TagRowsInv' /\ tagged'["main"] = b /\ tagged'["fork"] = tagged["fork"]
  <2>1. "main" \in Catalogued /\ tagged["main"] # Unshared /\ TagRowsInv
    BY DEF TagsInv, TagRowsInv, Catalogued
  <2>2. Whole(b) /\ Within(b) /\ b.snap.gen <= tagWrites + 1
    BY <1>2 DEF GoodRow
  <2>3. TagRowsInv' /\ tagged'["main"] = b /\ \A p \in TagPlaces \ {"main"} : tagged'[p] = tagged[p]
    BY <1>1, <1>2, <2>1, <2>2, Committing
  <2> QED
    BY <2>3 DEF TagPlaces
<1>4. ReadersInv'
  <2>1. ASSUME NEW n \in Analyzers
        PROVE  /\ marked(n) \in Readings \cup {Resting}
               /\ marked(n) # Resting => /\ tagged'[marked(n).side] # Unshared
                                         /\ ~marked(n).rewound => Later(marked(n).seen, tagged'[marked(n).side].snap)
    <3>1. CASE analyses[n] = Resting
      BY <3>1 DEF Resting
    <3>2. CASE analyses[n] # Resting /\ analyses[n].side = "main"
      <4>1. analyses[n] \in Readings
        BY <3>2 DEF TagsInv, ReadersInv
      <4>2. marked(n) \in Readings /\ marked(n).side = "main" /\ marked(n).rewound = TRUE
        BY <3>2, <4>1 DEF Readings
      <4> QED
        BY <1>1, <1>3, <4>2
    <3>3. CASE analyses[n] # Resting /\ analyses[n].side # "main"
      <4>1. analyses[n] \in Readings /\ analyses[n].side = "fork" /\ marked(n) = analyses[n]
        BY <3>3 DEF TagsInv, ReadersInv, Readings, Catalogued
      <4>2. /\ tagged["fork"] # Unshared
            /\ ~analyses[n].rewound => Later(analyses[n].seen, tagged["fork"].snap)
        BY <3>3, <4>1 DEF TagsInv, ReadersInv
      <4> HIDE DEF marked
      <4> QED
        BY <1>3, <4>1, <4>2
    <3> QED
      BY <3>1, <3>2, <3>3
  <2> HIDE DEF marked
  <2> QED
    BY <1>1, <2>1 DEF ReadersInv
<1> QED
  BY <1>1, <1>3, <1>4 DEF TagsInv, CopyInv

LEMMA TagsBegin == TagsInit => TagsInv
<1> SUFFICES ASSUME TagsInit PROVE TagsInv
  OBVIOUS
<1>1. PICK c \in TagBytes : tagged = [main |-> Untagged(c), fork |-> Unshared, base |-> Unshared]
  BY DEF TagsInit
<1>2. Cardinality(TagIds) \in Nat /\ Present([x \in TagIds |-> 0]) = {} /\ Cardinality({}) = 0
  BY Fewer, FS_EmptySet DEF Present
<1>3. Untagged(c) \in TagRow
  BY <1>2, TagsAssumption DEF Untagged, TagRow, NoSnapshot
<1>4. GoodRow(Untagged(c)) /\ Untagged(c).snap.gen = 0
  BY <1>2, <1>3, TagsAssumption DEF Untagged, GoodRow, Whole, Within, NoSnapshot
<1>5. /\ tagged["main"] = Untagged(c) /\ tagged["fork"] = Unshared /\ tagged["base"] = Unshared
      /\ tagged \in [TagPlaces -> TagRow \cup {Unshared}]
  BY <1>1, <1>3 DEF TagPlaces
<1>6. TagRowsInv
  BY <1>3, <1>4, <1>5, TagsAssumption, RowsAreShared DEF TagsInit, TagRowsInv, TagPlaces
<1> QED
  BY <1>6 DEF TagsInit, TagsInv, ReadersInv, CopyInv

LEMMA TagsStep == TagsInv /\ [TagsNext]_tagVars => TagsInv'
<1> SUFFICES ASSUME TagsInv, [TagsNext]_tagVars PROVE TagsInv'
  OBVIOUS
<1>1. CASE TagTick
  <2>1. /\ tagClock' = tagClock + 1 /\ tagClock < MaxTagClock
        /\ UNCHANGED <<tagged, analyses, exported, tagWrites>>
    BY <1>1 DEF TagTick
  <2>2. tagClock' \in 1..MaxTagClock
    BY <2>1, TagsAssumption DEF TagsInv, TagRowsInv
  <2> QED
    BY <2>1, <2>2 DEF TagsInv, TagRowsInv, ReadersInv, CopyInv
<1>2. CASE UNCHANGED tagVars
  BY <1>2 DEF tagVars, TagsInv, TagRowsInv, ReadersInv, CopyInv
<1>3. CASE ShareTags \/ MergeTags \/ RestoreTags
  BY <1>3, SharingKeeps, MergingKeeps, RewindingKeeps
<1>4. ASSUME NEW s \in Sides, NEW tags \in SUBSET TagIds, AddManualTags(s, tags) PROVE TagsInv'
  BY <1>4, AddingKeeps
<1>5. ASSUME NEW s \in Sides, NEW x \in TagIds, RemoveTag(s, x) \/ RestoreTag(s, x) PROVE TagsInv'
  BY <1>5, RemovingKeeps
<1>6. ASSUME NEW s \in Sides, NEW b \in TagBytes, ReplaceOriginal(s, b) PROVE TagsInv'
  BY <1>6, ReplacingKeeps
<1>7. ASSUME NEW s \in Sides,
             ExportTags(s) \/ \E n \in Analyzers, fenced \in BOOLEAN : StartAnalysis(n, s, fenced)
      PROVE  TagsInv'
  BY <1>7, ReadingKeeps
<1>8. ASSUME NEW s \in Sides, ImportTags(s) PROVE TagsInv'
  BY <1>8, ImportingKeeps
<1>9. ASSUME NEW n \in Analyzers, NEW tags \in SUBSET TagIds, ReplaceAutomatic(n, tags) PROVE TagsInv'
  BY <1>9, AnsweringKeeps
<1> QED
  BY <1>1, <1>2, <1>3, <1>4, <1>5, <1>6, <1>7, <1>8, <1>9 DEF TagsNext

LEMMA TagsInvariance == TagsSpec => []TagsInv
BY TagsBegin, TagsStep, PTL DEF TagsSpec

LEMMA TagsInvIsEnough == TagsInv => TagsTypeOK /\ AnalysisIsWhole /\ QueriesAgree
<1> SUFFICES ASSUME TagsInv, NEW s \in Sides
             PROVE  /\ tagged[s] \in TagRow /\ Within(tagged[s]) /\ Whole(tagged[s])
                    /\ ProjectedTags(tagged[s]) = EffectiveTags(tagged[s])
  BY DEF TagsTypeOK, AnalysisIsWhole, QueriesAgree, Within, Whole
<1>1. GoodRow(tagged[s])
  BY SideRow
<1>2. ProjectedTags(tagged[s]) = EffectiveTags(tagged[s])
  BY <1>1 DEF GoodRow, Whole, ProjectedTags, EffectiveTags, Stale
<1> QED
  BY <1>1, <1>2 DEF GoodRow

(* A fenced answer replaces what its analyzer has seen.                    *)
LEMMA FencesReplaceSeen ==
  ASSUME TagsInv, [TagsNext]_tagVars, NEW n \in Analyzers, analyses[n] # Resting, analyses'[n] = Resting,
         analyses[n].fenced, ~analyses[n].rewound, tagged' # tagged
  PROVE  tagged[analyses[n].side].snap = analyses[n].seen
<1> DEFINE a == analyses[n]
<1>1. a \in Readings /\ a.side \in {"main", "fork"} /\ Later(a.seen, tagged[a.side].snap)
  BY DEF TagsInv, ReadersInv, Readings, Catalogued
<1>2. analyses' # analyses
  OBVIOUS
<1>3. ~RestoreTags
  <2>1. Resting.side = "none"
    BY DEF Resting
  <2>2. RestoreTags => analyses'[n] = IF a.side = "main" THEN [a EXCEPT !.rewound = TRUE] ELSE a
    BY DEF RestoreTags
  <2>3. [a EXCEPT !.rewound = TRUE].side = a.side
    BY <1>1 DEF Readings
  <2> QED
    BY <1>1, <2>1, <2>2, <2>3
<1>4. ~\E s \in Sides, k \in Analyzers, fenced \in BOOLEAN : StartAnalysis(k, s, fenced)
  BY DEF StartAnalysis
<1>5. PICK k \in Analyzers, tags \in SUBSET TagIds : ReplaceAutomatic(k, tags)
  BY <1>2, <1>3, <1>4 DEF TagsNext, tagVars, TagTick, ShareTags, MergeTags, AddManualTags, RemoveTag, RestoreTag,
     ReplaceOriginal, ExportTags, ImportTags
<1>6. k = n
  BY <1>5 DEF ReplaceAutomatic, TagsInv, ReadersInv
<1>7. tagged[a.side].snap.gen = a.seen.gen
  BY <1>5, <1>6 DEF ReplaceAutomatic, FenceMatches
<1> QED
  BY <1>1, <1>7 DEF Later

(* A dismissal of main goes with consent.                                  *)
LEMMA ConsentIsGiven ==
  ASSUME TagsInv, [TagsNext]_tagVars, NEW x \in TagIds,
         tagged["main"].dismissed[x] # 0, tagged'["main"].dismissed[x] = 0
  PROVE  \/ RestoreTag("main", x)
         \/ \E tags \in SUBSET TagIds : x \in tags /\ AddManualTags("main", tags)
         \/ RestoreTags
         \/ MergeTags /\ tagged["base"].dismissed[x] # 0 /\ tagged["fork"].dismissed[x] = 0
<1> DEFINE o == tagged["main"]
<1>0. /\ tagged \in [TagPlaces -> TagRow \cup {Unshared}] /\ o # Unshared /\ o \in TagRow /\ "main" \in TagPlaces
      /\ "main" \in Sides /\ tagClock # 0 /\ o.dismissed \in Times
  BY DEF TagsInv, TagRowsInv, TagPlaces, Sides, GoodRow, TagRow, Times
<1>1. tagged' # tagged
  OBVIOUS
<1>2. ASSUME NEW s \in Sides, NEW row, Commit(s, row), s # "main" PROVE FALSE
  BY <1>0, <1>2 DEF Commit
<1>3. ASSUME NEW row, Commit("main", row) PROVE row.dismissed[x] = 0
  BY <1>0, <1>3 DEF Commit
<1>4. ASSUME NEW s \in Sides, NEW tags \in SUBSET TagIds, AddManualTags(s, tags)
      PROVE  x \in tags /\ AddManualTags("main", tags)
  <2>1. s = "main"
    BY <1>2, <1>4 DEF AddManualTags
  <2> DEFINE news == {y \in tags : o.manual[y] = 0 \/ o.dismissed[y] # 0}
             row == [o EXCEPT !.manual = Stamped(o.manual, news), !.dismissed = Cleared(o.dismissed, news)]
  <2>2. Commit("main", row)
    BY <1>4, <2>1 DEF AddManualTags
  <2>3. row.dismissed = Cleared(o.dismissed, news)
    BY <1>0 DEF TagRow
  <2>4. x \in news
    BY <1>3, <2>2, <2>3 DEF Cleared
  <2> QED
    BY <1>4, <2>1, <2>4
<1>5. ASSUME NEW s \in Sides, NEW y \in TagIds, RemoveTag(s, y) PROVE FALSE
  <2>1. s = "main"
    BY <1>2, <1>5 DEF RemoveTag
  <2> DEFINE row == [o EXCEPT !.manual[y] = 0, !.dismissed = Stamped(o.dismissed, {y})]
  <2>2. Commit("main", row)
    BY <1>5, <2>1 DEF RemoveTag
  <2>3. row.dismissed = Stamped(o.dismissed, {y})
    BY <1>0 DEF TagRow
  <2> QED
    BY <1>0, <1>3, <2>2, <2>3 DEF Stamped
<1>6. ASSUME NEW s \in Sides, NEW y \in TagIds, RestoreTag(s, y) PROVE RestoreTag("main", x)
  <2>1. s = "main"
    BY <1>2, <1>6 DEF RestoreTag
  <2>2. Commit("main", [o EXCEPT !.dismissed[y] = 0])
    BY <1>6, <2>1 DEF RestoreTag
  <2>3. [o EXCEPT !.dismissed[y] = 0].dismissed = [o.dismissed EXCEPT ![y] = 0]
    BY <1>0 DEF TagRow
  <2>4. x = y
    BY <1>0, <1>3, <2>2, <2>3 DEF Times
  <2> QED
    BY <1>6, <2>1, <2>4
<1>7. ASSUME NEW s \in Sides, NEW b \in TagBytes, ReplaceOriginal(s, b) PROVE FALSE
  <2>1. s = "main"
    BY <1>2, <1>7 DEF ReplaceOriginal
  <2>2. Commit("main", [o EXCEPT !.file = b])
    BY <1>7, <2>1 DEF ReplaceOriginal
  <2>3. [o EXCEPT !.file = b].dismissed = o.dismissed
    BY <1>0 DEF TagRow
  <2> QED
    BY <1>3, <2>2, <2>3
<1>8. ASSUME NEW n \in Analyzers, NEW tags \in SUBSET TagIds, ReplaceAutomatic(n, tags) PROVE FALSE
  <2> DEFINE a == analyses[n]
  <2>0. a \in Readings /\ a # Resting /\ a.side \in Sides
    BY <1>8 DEF ReplaceAutomatic, TagsInv, ReadersInv, Readings, Sides, Catalogued
  <2>1. Commit(a.side, Analyzed(tagged[a.side], a.source, tags))
    BY <1>1, <1>8 DEF ReplaceAutomatic
  <2>2. a.side = "main"
    BY <1>2, <2>0, <2>1
  <2>3. Analyzed(o, a.source, tags).dismissed = o.dismissed
    BY <1>0 DEF Analyzed, TagRow
  <2> QED
    BY <1>3, <2>1, <2>2, <2>3
<1>9. ASSUME NEW s \in Sides, ImportTags(s) PROVE FALSE
  <2>1. s = "main"
    BY <1>2, <1>9 DEF ImportTags
  <2>2. Commit("main", Imported(o, exported))
    BY <1>9, <2>1 DEF ImportTags
  <2>3. Imported(o, exported).dismissed = Stamped(o.dismissed, exported.dismissed)
    BY <1>0 DEF Imported, TagRow
  <2> QED
    BY <1>0, <1>3, <2>2, <2>3 DEF Stamped
<1>10. ASSUME MergeTags PROVE tagged["base"].dismissed[x] # 0 /\ tagged["fork"].dismissed[x] = 0
  <2> DEFINE b == tagged["base"]   t == tagged["fork"]
  <2>1. Commit("main", TagsMerged(b, o, t))
    BY <1>10 DEF MergeTags
  <2>2. TagsMerged(b, o, t).dismissed[x] = RowMerged(b.dismissed[x], o.dismissed[x], t.dismissed[x])
    BY <1>0 DEF TagsMerged, TableMerged, Times
  <2> QED
    BY <1>3, <2>1, <2>2 DEF RowMerged
<1>11. ~(ShareTags \/ TagTick \/ \E s \in Sides : \/ ExportTags(s)
                                                  \/ \E n \in Analyzers, f \in BOOLEAN : StartAnalysis(n, s, f))
  BY <1>0, <1>1 DEF ShareTags, TagTick, ExportTags, StartAnalysis
<1> QED
  BY <1>1, <1>4, <1>5, <1>6, <1>7, <1>8, <1>9, <1>10, <1>11 DEF TagsNext, tagVars

(* The tags of both catalogs are well formed and within their limits       *)
(* (src/tags.ts, MANUAL_TAGS_PER_ARTIFACT_MAX), merges and imports included.*)
THEOREM TagsTypes == TagsSpec => []TagsTypeOK
BY TagsInvariance, TagsInvIsEnough, PTL

(* Automatic tags are the whole of one analysis, in either catalog and     *)
(* after any merge; reads and queries agree on what is effective; a fenced *)
(* answer replaces the snapshot that its analyzer saw; no dismissal of main*)
(* goes unasked (replaceAutomaticTags, importTags, tag-merge.ts).          *)
THEOREM ConsentIsKept == TagsSpec => TagsKeepConsent
<1>1. TagsInv /\ [TagsNext]_tagVars =>
        [\A n \in Analyzers :
           LET a == analyses[n] IN
           a # Resting /\ analyses'[n] = Resting /\ a.fenced /\ ~a.rewound /\ tagged' # tagged =>
             tagged[a.side].snap = a.seen]_tagVars
  BY FencesReplaceSeen
<1>2. TagsInv /\ [TagsNext]_tagVars =>
        [\A x \in TagIds :
           tagged.main.dismissed[x] # 0 /\ tagged'.main.dismissed[x] = 0 =>
             \/ RestoreTag("main", x) \/ \E tags \in SUBSET TagIds : x \in tags /\ AddManualTags("main", tags)
             \/ RestoreTags
             \/ MergeTags /\ tagged.base.dismissed[x] # 0 /\ tagged.fork.dismissed[x] = 0]_tagVars
  BY ConsentIsGiven
<1>3. TagsSpec => FencedReplacesSeen
  BY <1>1, TagsInvariance, PTL DEF TagsSpec, FencedReplacesSeen
<1>4. TagsSpec => DismissalsNeedConsent
  BY <1>2, TagsInvariance, PTL DEF TagsSpec, DismissalsNeedConsent
<1> QED
  BY <1>3, <1>4, TagsInvariance, TagsInvIsEnough, PTL DEF TagsKeepConsent

---------------------------------------------------------------------------
(* Forks                                                                   *)

TranscriptRows == [state : {"gone", "current", "derived"}, at : 0..MaxStamps]
HasRow(c)   == {x \in FkObjects : c.objects[x] # GoneObject}
Dated(c, n) == \A t \in FkTranscripts : c.transcripts[t].at <= n

(* At most one transcript is current, and none is later than it; where     *)
(* there are transcripts at all one is current.                            *)
OneCurrent(c) == \A t, u \in Current(c) : t = u
Crowned(c) ==
  \A t \in FkTranscripts :
    IF c.transcripts[t].state = "gone" THEN c.transcripts[t].at = 0
    ELSE \E u \in Current(c) : c.transcripts[t].at <= c.transcripts[u].at
References(c) ==
  /\ \A a \in FkArtifacts : c.artifacts[a] # GoneRow => c.objects[c.artifacts[a]] # GoneObject
  /\ \A k \in FkClips : c.clips[k] # GoneRow => c.artifacts[c.clips[k]] # GoneRow
Sound(c, n) == c \in Catalogs /\ References(c) /\ OneCurrent(c) /\ Crowned(c) /\ Dated(c, n)

(* What the fork made of the catalog it was cloned from: it removed no row *)
(* of an object, and a transcript that differs is not later than a current *)
(* one that differs.                                                       *)
Onward(b, t) ==
  /\ HasRow(b) \subseteq HasRow(t)
  /\ \A u \in FkTranscripts :
       /\ b.transcripts[u].state # "gone" =>
            t.transcripts[u].state # "gone" /\ t.transcripts[u].at = b.transcripts[u].at
       /\ t.transcripts[u] # b.transcripts[u] =>
            \E v \in Current(t) : /\ t.transcripts[v] # b.transcripts[v]
                                  /\ t.transcripts[u].at <= t.transcripts[v].at

(* Commits keep what integrations rely on.                                 *)
LEMMA CommitsAreSound ==
  ASSUME NEW n \in 0..MaxStamps, n + 1 <= MaxStamps, NEW c, Sound(c, n), NEW d \in Changes(c, n + 1)
  PROVE  /\ Sound(d, n + 1) /\ HasRow(c) \subseteq HasRow(d)
         /\ \A b : Dated(b, n) /\ Onward(b, c) => Onward(b, d)
<1>0. /\ MaxStamps \in Nat /\ n \in Nat /\ n + 1 \in 0..MaxStamps /\ n + 1 # GoneObject /\ n + 1 # 0
      /\ 0 # GoneObject /\ 0 \in 0..GoneObject /\ n + 1 \in 0..GoneObject
  BY FkAssumption DEF GoneObject
<1>1. /\ c \in Catalogs /\ c.objects \in [FkObjects -> 0..GoneObject]
      /\ c.born \in [FkObjects -> {0} \cup Moments] /\ c.artifacts \in [FkArtifacts -> FkObjects \cup {GoneRow}] /\ c.clips \in [FkClips -> FkArtifacts \cup {GoneRow}]
      /\ c.transcripts \in [FkTranscripts -> TranscriptRows] /\ References(c) /\ OneCurrent(c) /\ Crowned(c)
      /\ \A t \in FkTranscripts : c.transcripts[t].at <= n /\ c.transcripts[t].at \in Nat
  BY DEF Sound, Catalogs, TranscriptRows, Dated
<1>2. ASSUME d \in Catalogs, References(d), HasRow(c) \subseteq HasRow(d), d.transcripts = c.transcripts
      PROVE  /\ Sound(d, n + 1) /\ HasRow(c) \subseteq HasRow(d)
             /\ \A b : Dated(b, n) /\ Onward(b, c) => Onward(b, d)
  <2>1. Current(d) = Current(c)
    BY <1>2 DEF Current
  <2>2. OneCurrent(d) /\ Crowned(d) /\ Dated(d, n + 1)
    BY <1>0, <1>1, <1>2, <2>1 DEF OneCurrent, Crowned, Dated
  <2>3. ASSUME NEW b, Onward(b, c) PROVE Onward(b, d)
    BY <1>2, <2>1, <2>3 DEF Onward
  <2> QED
    BY <1>2, <2>2, <2>3 DEF Sound
<1>3. ASSUME NEW a \in FkArtifacts, NEW x \in FkObjects, NEW m \in Moments, d = Linked(c, a, x, m) PROVE
        d \in Catalogs /\ References(d) /\ HasRow(c) \subseteq HasRow(d) /\ d.transcripts = c.transcripts
  <2>1. /\ d \in Catalogs /\ d.artifacts = [c.artifacts EXCEPT ![a] = x] /\ d.objects = [c.objects EXCEPT ![x] = 0]
        /\ d.clips = c.clips /\ d.transcripts = c.transcripts
    BY <1>0, <1>1, <1>3 DEF Linked, Catalogs, TranscriptRows
  <2> QED
    BY <1>0, <1>1, <2>1, FkAssumption DEF References, HasRow, GoneRow
<1>4. ASSUME NEW k \in FkClips, NEW a \in FkArtifacts, c.artifacts[a] # GoneRow, d = Shown(c, k, a) PROVE
        d \in Catalogs /\ References(d) /\ HasRow(c) \subseteq HasRow(d) /\ d.transcripts = c.transcripts
  <2>1. /\ d \in Catalogs /\ d.artifacts = c.artifacts /\ d.objects = c.objects
        /\ d.clips = [c.clips EXCEPT ![k] = a] /\ d.transcripts = c.transcripts
    BY <1>1, <1>4 DEF Shown, Catalogs, TranscriptRows
  <2> QED
    BY <1>1, <1>4, <2>1 DEF References, HasRow
<1>5. ASSUME NEW a \in FkArtifacts, \A k \in FkClips : c.clips[k] # a, d = Dropped(c, a) PROVE
        d \in Catalogs /\ References(d) /\ HasRow(c) \subseteq HasRow(d) /\ d.transcripts = c.transcripts
  <2>1. /\ d \in Catalogs /\ d.artifacts = [c.artifacts EXCEPT ![a] = GoneRow] /\ d.objects = c.objects
        /\ d.clips = c.clips /\ d.transcripts = c.transcripts
    BY <1>1, <1>5 DEF Dropped, Catalogs, TranscriptRows
  <2> QED
    BY <1>1, <1>5, <2>1 DEF References, HasRow
<1>6. ASSUME NEW x \in Live(c), d = Forgotten(c, x, n + 1) PROVE
        d \in Catalogs /\ References(d) /\ HasRow(c) \subseteq HasRow(d) /\ d.transcripts = c.transcripts
  <2>1. /\ d \in Catalogs /\ d.artifacts = c.artifacts /\ d.objects = [c.objects EXCEPT ![x] = n + 1]
        /\ d.clips = c.clips /\ d.transcripts = c.transcripts
    BY <1>0, <1>1, <1>6 DEF Forgotten, Catalogs, TranscriptRows, Live
  <2> QED
    BY <1>0, <1>1, <2>1 DEF References, HasRow
<1>7. ASSUME NEW t \in FkTranscripts, c.transcripts[t] = GoneTranscript, d = Transcribed(c, t, n + 1)
      PROVE  /\ Sound(d, n + 1) /\ HasRow(c) \subseteq HasRow(d)
             /\ \A b : Dated(b, n) /\ Onward(b, c) => Onward(b, d)
  <2>1. /\ d.artifacts = c.artifacts /\ d.objects = c.objects /\ d.clips = c.clips
        /\ d.transcripts = [u \in FkTranscripts |-> IF u = t THEN [state |-> "current", at |-> n + 1]
                              ELSE IF c.transcripts[u].state = "current"
                                   THEN [c.transcripts[u] EXCEPT !.state = "derived"]
                                   ELSE c.transcripts[u]]
    BY <1>1, <1>7 DEF Transcribed, Catalogs
  <2>2. ASSUME NEW u \in FkTranscripts
        PROVE  /\ d.transcripts[u] \in TranscriptRows
               /\ u = t => d.transcripts[u].state = "current" /\ d.transcripts[u].at = n + 1
               /\ u # t => /\ d.transcripts[u].at = c.transcripts[u].at /\ d.transcripts[u].state # "current"
                           /\ (d.transcripts[u].state = "gone") = (c.transcripts[u].state = "gone")
    BY <1>0, <1>1, <2>1 DEF TranscriptRows
  <2>3. d \in Catalogs
    <3>1. d.transcripts \in [FkTranscripts -> TranscriptRows]
      BY <2>1, <2>2
    <3> QED
      BY <1>1, <1>7, <3>1 DEF Transcribed, Catalogs, TranscriptRows
  <2>4. References(d) /\ HasRow(c) \subseteq HasRow(d)
    BY <1>1, <2>1 DEF References, HasRow
  <2>5. Current(d) = {t}
    BY <2>2 DEF Current
  <2>6. OneCurrent(d) /\ Crowned(d) /\ Dated(d, n + 1)
    BY <1>0, <1>1, <2>2, <2>5 DEF OneCurrent, Crowned, Dated
  <2>7. ASSUME NEW b, Dated(b, n), Onward(b, c) PROVE Onward(b, d)
    <3>1. c.transcripts[t].state = "gone"
      BY <1>7 DEF GoneTranscript
    <3>2. d.transcripts[t] # b.transcripts[t]
      BY <1>0, <2>2, <2>7 DEF Dated
    <3>3. \A u \in FkTranscripts : d.transcripts[u].at <= d.transcripts[t].at
      BY <1>0, <1>1, <2>2
    <3>4. b.transcripts[t].state = "gone"
      BY <3>1, <2>7 DEF Onward
    <3> QED
      BY <2>2, <2>4, <2>5, <2>7, <3>2, <3>3, <3>4 DEF Onward
  <2> QED
    BY <2>3, <2>4, <2>6, <2>7 DEF Sound
<1>8. \/ \E a \in FkArtifacts, x \in FkObjects, m \in Moments : d = Linked(c, a, x, m)
      \/ \E k \in FkClips, a \in FkArtifacts : c.artifacts[a] # GoneRow /\ d = Shown(c, k, a)
      \/ \E a \in FkArtifacts : (\A k \in FkClips : c.clips[k] # a) /\ d = Dropped(c, a)
      \/ \E x \in Live(c) : d = Forgotten(c, x, n + 1)
      \/ \E t \in FkTranscripts : c.transcripts[t] = GoneTranscript /\ d = Transcribed(c, t, n + 1)
  BY DEF Changes
<1> QED
  BY <1>2, <1>3, <1>4, <1>5, <1>6, <1>7, <1>8

LEMMA LowestIs ==
  ASSUME NEW S \in SUBSET Nat, S # {}
  PROVE  \E m \in S : \A n \in S : m <= n
<1>1. PICK m \in S : \A n \in S : ~(<<n, m>> \in OpToRel(<, Nat))
  BY NatLessThanWellFounded, WFMin
<1>2. \A n \in S : ~(n < m)
  BY <1>1 DEF OpToRel
<1> QED
  BY <1>2

(* Transcripts that are current on both sides have a winner: of the latest *)
(* the one with the least ID.                                              *)
LEMMA SomeoneWins ==
  ASSUME NEW c, c.transcripts \in [FkTranscripts -> TranscriptRows], Current(c) # {}
  PROVE  \E t \in Current(c) : Winner(c, t)
<1> DEFINE ages == {MaxStamps - c.transcripts[t].at : t \in Current(c)}
<1>1. Current(c) \subseteq FkTranscripts /\ FkTranscripts \subseteq Nat /\ MaxStamps \in Nat
        /\ \A t \in Current(c) : c.transcripts[t].at \in 0..MaxStamps
  BY FkAssumption DEF Current, TranscriptRows
<1>2. ages \in SUBSET Nat /\ ages # {}
  BY <1>1
<1>3. PICK m \in ages : \A n \in ages : m <= n
  BY <1>2, LowestIs
<1>4. PICK s \in Current(c) : m = MaxStamps - c.transcripts[s].at
  OBVIOUS
<1>5. \A t \in Current(c) : c.transcripts[t].at <= c.transcripts[s].at
  <2>1. ASSUME NEW t \in Current(c) PROVE c.transcripts[t].at <= c.transcripts[s].at
    <3>1. MaxStamps - c.transcripts[t].at \in ages
      OBVIOUS
    <3>2. m <= MaxStamps - c.transcripts[t].at
      BY <1>3, <3>1
    <3> HIDE DEF ages
    <3> QED
      BY <1>1, <1>4, <3>2
  <2> QED
    BY <2>1
<1> DEFINE last == {t \in Current(c) : c.transcripts[t].at = c.transcripts[s].at}
<1>6. last \in SUBSET Nat /\ last # {}
  BY <1>1
<1>7. PICK w \in last : \A t \in last : w <= t
  BY <1>6, LowestIs
<1>8. w \in Current(c) /\ c.transcripts[w].at = c.transcripts[s].at
  BY <1>7
<1>9. ASSUME NEW u \in Current(c) \ {w}
      PROVE  c.transcripts[w].at > c.transcripts[u].at \/ (c.transcripts[w].at = c.transcripts[u].at /\ w < u)
  <2>1. CASE u \in last
    <3>1. w <= u /\ w # u /\ w \in Nat /\ u \in Nat
      BY <1>1, <1>7, <1>8, <2>1
    <3> QED
      BY <1>8, <2>1, <3>1
  <2>2. CASE u \notin last
    BY <1>1, <1>5, <1>8, <2>2
  <2> QED
    BY <2>1, <2>2
<1> QED
  BY <1>8, <1>9 DEF Winner

(* The reconciled catalog has the winner as its only current transcript.   *)
LEMMA Reconciling ==
  ASSUME NEW c, c \in Catalogs, NEW r, r = Reconciled(c)
  PROVE  /\ r \in Catalogs /\ r.objects = c.objects /\ r.artifacts = c.artifacts /\ r.clips = c.clips
         /\ \A t \in FkTranscripts : /\ r.transcripts[t].at = c.transcripts[t].at
                                     /\ (r.transcripts[t].state = "gone") = (c.transcripts[t].state = "gone")
         /\ Current(r) = {t \in Current(c) : Winner(c, t)}
         /\ OneCurrent(r)
         /\ \A t \in Current(r), u \in Current(c) : c.transcripts[u].at <= r.transcripts[t].at
<1>1. /\ c.transcripts \in [FkTranscripts -> TranscriptRows]
      /\ \A t \in FkTranscripts : c.transcripts[t] \in TranscriptRows /\ c.transcripts[t].at \in Nat
      /\ FkTranscripts \subseteq Nat /\ Current(c) \subseteq FkTranscripts
  BY FkAssumption DEF Catalogs, TranscriptRows, Current
<1>2. /\ r.objects = c.objects /\ r.artifacts = c.artifacts /\ r.clips = c.clips
      /\ r.transcripts = [t \in FkTranscripts |-> IF t \in Current(c) /\ ~Winner(c, t)
                              THEN [c.transcripts[t] EXCEPT !.state = "derived"]
                              ELSE c.transcripts[t]]
  BY DEF Reconciled, Catalogs
<1>3. ASSUME NEW t \in FkTranscripts
      PROVE  /\ r.transcripts[t] \in TranscriptRows /\ r.transcripts[t].at = c.transcripts[t].at
             /\ (r.transcripts[t].state = "gone") = (c.transcripts[t].state = "gone")
             /\ (r.transcripts[t].state = "current") = (t \in Current(c) /\ Winner(c, t))
  BY <1>1, <1>2 DEF TranscriptRows, Current
<1>4. r.transcripts \in [FkTranscripts -> TranscriptRows]
  BY <1>2, <1>3
<1>5. r \in Catalogs
  BY <1>4 DEF Reconciled, Catalogs, TranscriptRows
<1>6. Current(r) = {t \in Current(c) : Winner(c, t)}
  BY <1>1, <1>3 DEF Current
<1>w. ASSUME NEW t \in Current(r), NEW u \in Current(c) \ {t}
      PROVE  /\ t \in FkTranscripts /\ u \in FkTranscripts /\ t \in Nat /\ u \in Nat
             /\ c.transcripts[t].at \in Nat /\ c.transcripts[u].at \in Nat
             /\ c.transcripts[t].at > c.transcripts[u].at
                  \/ (c.transcripts[t].at = c.transcripts[u].at /\ t < u)
  <2>1. t \in Current(c) /\ Winner(c, t)
    BY <1>6
  <2> QED
    BY <1>1, <2>1 DEF Winner
<1>7. OneCurrent(r)
  <2> SUFFICES ASSUME NEW t \in Current(r), NEW u \in Current(r), t # u PROVE FALSE
    BY DEF OneCurrent
  <2>1. t \in Current(c) \ {u} /\ u \in Current(c) \ {t}
    BY <1>6
  <2>2. c.transcripts[t].at > c.transcripts[u].at \/ (c.transcripts[t].at = c.transcripts[u].at /\ t < u)
    BY <1>w, <2>1
  <2>3. c.transcripts[u].at > c.transcripts[t].at \/ (c.transcripts[u].at = c.transcripts[t].at /\ u < t)
    BY <1>w, <2>1
  <2>4. t \in Nat /\ u \in Nat /\ c.transcripts[t].at \in Nat /\ c.transcripts[u].at \in Nat
    BY <1>w, <2>1
  <2> QED
    BY <2>2, <2>3, <2>4
<1>8. ASSUME NEW t \in Current(r), NEW u \in Current(c) PROVE c.transcripts[u].at <= r.transcripts[t].at
  <2>1. r.transcripts[t].at = c.transcripts[t].at /\ c.transcripts[t].at \in Nat
    BY <1>1, <1>3, <1>6
  <2>2. CASE u = t
    BY <2>1, <2>2
  <2>3. CASE u # t
    BY <1>w, <2>1, <2>3
  <2> QED
    BY <2>2, <2>3
<1> QED
  BY <1>2, <1>3, <1>5, <1>6, <1>7, <1>8

(* Where every transcript is at most as late as a current one, reconciling *)
(* leaves the latest current and the catalog crowned.                      *)
LEMMA ReconciledIsCrowned ==
  ASSUME NEW c, c \in Catalogs,
         \A t \in FkTranscripts :
           IF c.transcripts[t].state = "gone" THEN c.transcripts[t].at = 0
           ELSE \E u \in Current(c) : c.transcripts[t].at <= c.transcripts[u].at
  PROVE  Crowned(Reconciled(c))
<1> DEFINE r == Reconciled(c)
<1>0. c.transcripts \in [FkTranscripts -> TranscriptRows] /\ Current(c) \subseteq FkTranscripts
        /\ \A t \in FkTranscripts : c.transcripts[t].at \in Nat
  BY DEF Catalogs, TranscriptRows, Current
<1>1. /\ \A t \in FkTranscripts : /\ r.transcripts[t].at = c.transcripts[t].at
                                  /\ (r.transcripts[t].state = "gone") = (c.transcripts[t].state = "gone")
      /\ Current(r) = {t \in Current(c) : Winner(c, t)}
      /\ \A t \in Current(r), u \in Current(c) : c.transcripts[u].at <= r.transcripts[t].at
  BY Reconciling
<1> HIDE DEF r
<1>2. ASSUME NEW t \in FkTranscripts, r.transcripts[t].state # "gone"
      PROVE  \E v \in Current(r) : r.transcripts[t].at <= r.transcripts[v].at
  <2>1. PICK u \in Current(c) : c.transcripts[t].at <= c.transcripts[u].at
    BY <1>1, <1>2
  <2>2. PICK v \in Current(c) : Winner(c, v)
    BY <1>0, <2>1, SomeoneWins
  <2>3. v \in Current(r) /\ c.transcripts[u].at <= r.transcripts[v].at
    BY <1>1, <2>2
  <2> QED
    BY <1>0, <1>1, <2>1, <2>3
<1>3. \A t \in FkTranscripts : r.transcripts[t].state = "gone" => r.transcripts[t].at = 0
  BY <1>1
<1> QED
  BY <1>2, <1>3 DEF Crowned, r

(* What the merged rows of the two sides are.                              *)
LEMMA Combining ==
  ASSUME NEW n \in 0..MaxStamps, NEW b, NEW o, NEW t, Sound(b, n), Sound(o, n), Sound(t, n), Onward(b, t),
         ~Clash(b, o, t), NEW c, c = Combined(b, o, t)
  PROVE  /\ c \in Catalogs /\ Dated(c, n) /\ HasRow(o) \subseteq HasRow(c)
         /\ \A x \in (ForgottenIn(o) \cup ForgottenIn(t)) \ ForgottenIn(b) : c.objects[x] # 0
         /\ \A x \in FkObjects : o.objects[x] = GoneObject /\ c.objects[x] = 0 => t.objects[x] = 0
         /\ Crowned(c)
         /\ Current(c) # {} =>
              \A u \in FkTranscripts : \E w \in Current(c) : c.transcripts[u].at <= c.transcripts[w].at
<1>0. GoneObject \in Nat /\ GoneObject # 0 /\ MaxStamps \in Nat
  BY FkAssumption DEF GoneObject
<1>1. \A d \in {b, o, t} :
        /\ d \in Catalogs /\ d.objects \in [FkObjects -> 0..GoneObject]
        /\ d.born \in [FkObjects -> {0} \cup Moments]
        /\ d.artifacts \in [FkArtifacts -> FkObjects \cup {GoneRow}] /\ d.clips \in [FkClips -> FkArtifacts \cup {GoneRow}]
        /\ d.transcripts \in [FkTranscripts -> TranscriptRows]
        /\ OneCurrent(d) /\ Crowned(d) /\ Dated(d, n) /\ Current(d) \subseteq FkTranscripts
  BY DEF Sound, Catalogs, TranscriptRows, Current
<1> DEFINE Row(x) == ObjectMerged(ObjectRow(b, x), ObjectRow(o, x), ObjectRow(t, x))
<1>2. /\ c.objects = [x \in FkObjects |-> Row(x).at] /\ c.born = [x \in FkObjects |-> Row(x).born]
      /\ c.artifacts = [a \in FkArtifacts |-> RowMerged(b.artifacts[a], o.artifacts[a], t.artifacts[a])]
      /\ c.clips = [k \in FkClips |-> RowMerged(b.clips[k], o.clips[k], t.clips[k])]
      /\ c.transcripts = [u \in FkTranscripts |-> RowMerged(b.transcripts[u], o.transcripts[u], t.transcripts[u])]
  BY <1>1 DEF Combined, TableMerged
<1>3. ASSUME NEW x \in FkObjects
      PROVE  /\ c.objects[x] \in 0..GoneObject /\ c.born[x] \in {0} \cup Moments
             /\ x \in (ForgottenIn(o) \cup ForgottenIn(t)) \ ForgottenIn(b) => c.objects[x] # 0
             /\ o.objects[x] = GoneObject /\ c.objects[x] = 0 => t.objects[x] = 0
             /\ o.objects[x] # GoneObject => c.objects[x] # GoneObject
  <2>1. b.objects[x] \in 0..GoneObject /\ o.objects[x] \in 0..GoneObject /\ t.objects[x] \in 0..GoneObject
    BY <1>1
  <2>2. b.objects[x] # GoneObject => t.objects[x] # GoneObject
    BY DEF Onward, HasRow
  <2>3. PICK p, q, r : p = ObjectRow(b, x) /\ q = ObjectRow(o, x) /\ r = ObjectRow(t, x)
    OBVIOUS
  <2>4. /\ p = [born |-> b.born[x], at |-> b.objects[x]] /\ q = [born |-> o.born[x], at |-> o.objects[x]]
        /\ r = [born |-> t.born[x], at |-> t.objects[x]]
    BY <2>3 DEF ObjectRow
  <2>5. PICK w : w = ObjectMerged(p, q, r)
    OBVIOUS
  <2>6. c.objects[x] = w.at /\ c.born[x] = w.born
    BY <1>2, <2>3, <2>5
  <2>7. ~ObjectClash(p, q, r)
    BY <2>3 DEF Clash
  <2>8. CASE RowClash(p, q, r)
    <3>1. w = [q EXCEPT !.at = ForgetMerged(q.at, r.at)]
      BY <2>5, <2>8 DEF ObjectMerged
    <3>2. w.born = q.born /\ w.at = ForgetMerged(q.at, r.at)
      BY <2>4, <3>1
    <3>3. q.at # GoneObject /\ r.at # GoneObject /\ q.born = r.born /\ q.at # r.at
      BY <2>4, <2>7, <2>8 DEF ObjectClash, RowClash
    <3> QED
      BY <1>0, <1>1, <2>1, <2>4, <2>6, <3>2, <3>3 DEF ForgetMerged, LesserStamp, ForgottenIn
  <2>9. CASE ~RowClash(p, q, r)
    <3>1. w = RowMerged(p, q, r)
      BY <2>5, <2>9 DEF ObjectMerged
    <3>2. (r = p /\ w = q) \/ (w = r /\ (q = p \/ q = r))
      BY <2>9, <3>1 DEF RowClash, RowMerged
    <3>3. \A y, z \in {p, q, r} : y = z => y.at = z.at
      OBVIOUS
    <3>4. w.born \in {0} \cup Moments
      BY <1>1, <2>4, <3>2
    <3> QED
      BY <1>0, <2>1, <2>2, <2>4, <2>6, <3>2, <3>3, <3>4 DEF ForgottenIn
  <2> QED
    BY <2>8, <2>9
<1>4. ASSUME NEW u \in FkTranscripts
      PROVE  /\ c.transcripts[u] \in TranscriptRows /\ c.transcripts[u].at <= n /\ c.transcripts[u].at \in Nat
             /\ o.transcripts[u] \in TranscriptRows /\ t.transcripts[u] \in TranscriptRows
             /\ \/ c.transcripts[u] = o.transcripts[u]
                \/ /\ c.transcripts[u] = t.transcripts[u] /\ t.transcripts[u] # b.transcripts[u]
                   /\ o.transcripts[u] = b.transcripts[u]
             /\ t.transcripts[u] # b.transcripts[u] => c.transcripts[u] = t.transcripts[u]
  <2>1. /\ c.transcripts[u] = RowMerged(b.transcripts[u], o.transcripts[u], t.transcripts[u])
        /\ o.transcripts[u] \in TranscriptRows /\ t.transcripts[u] \in TranscriptRows
        /\ o.transcripts[u].at <= n /\ t.transcripts[u].at <= n
    BY <1>1, <1>2 DEF Dated
  <2>2. ~RowClash(b.transcripts[u], o.transcripts[u], t.transcripts[u])
    BY <1>1 DEF Clash, TableClashes
  <2> QED
    BY <2>1, <2>2 DEF RowMerged, RowClash, TranscriptRows
<1>5. c \in Catalogs
  <2>1. c.objects \in [FkObjects -> 0..GoneObject] /\ c.transcripts \in [FkTranscripts -> TranscriptRows]
        /\ c.born \in [FkObjects -> {0} \cup Moments]
    BY <1>2, <1>3, <1>4
  <2>2. c.artifacts \in [FkArtifacts -> FkObjects \cup {GoneRow}] /\ c.clips \in [FkClips -> FkArtifacts \cup {GoneRow}]
    BY <1>1, <1>2 DEF RowMerged
  <2> QED
    BY <2>1, <2>2 DEF Combined, Catalogs, TranscriptRows
(* A transcript that the fork changed is at most as late as a current one  *)
(* of the fork, which is current in the merged rows too.                   *)
<1>6. ASSUME NEW u \in FkTranscripts, t.transcripts[u] # b.transcripts[u]
      PROVE  \E w \in Current(c) : t.transcripts[u].at <= c.transcripts[w].at
  <2>1. PICK v \in Current(t) : /\ t.transcripts[v] # b.transcripts[v]
                                /\ t.transcripts[u].at <= t.transcripts[v].at
    BY <1>6 DEF Onward
  <2>2. v \in FkTranscripts /\ c.transcripts[v] = t.transcripts[v]
    BY <1>1, <1>4, <2>1
  <2>3. v \in Current(c)
    BY <2>1, <2>2 DEF Current
  <2> QED
    BY <2>1, <2>2, <2>3
<1>7. ASSUME NEW u \in FkTranscripts, c.transcripts[u] = o.transcripts[u], o.transcripts[u].state # "gone"
      PROVE  \E w \in Current(c) : c.transcripts[u].at <= c.transcripts[w].at
  <2>1. PICK v \in Current(o) : o.transcripts[u].at <= o.transcripts[v].at
    BY <1>1, <1>7 DEF Crowned
  <2>2. v \in FkTranscripts
    BY <1>1, <2>1
  <2>3. CASE c.transcripts[v] = o.transcripts[v]
    <3>1. v \in Current(c)
      BY <2>1, <2>2, <2>3 DEF Current
    <3> QED
      BY <1>7, <2>1, <2>3, <3>1
  <2>4. CASE /\ c.transcripts[v] = t.transcripts[v] /\ t.transcripts[v] # b.transcripts[v]
             /\ o.transcripts[v] = b.transcripts[v]
    <3>1. PICK w \in Current(c) : t.transcripts[v].at <= c.transcripts[w].at
      BY <1>6, <2>2, <2>4
    <3>2. b.transcripts[v].state # "gone"
      BY <2>1, <2>4 DEF Current
    <3>3. t.transcripts[v].at = o.transcripts[v].at
      BY <2>2, <2>4, <3>2 DEF Onward
    <3>4. /\ c.transcripts[u].at \in Nat /\ t.transcripts[v].at \in Nat /\ w \in FkTranscripts
          /\ c.transcripts[w].at \in Nat
      BY <1>4, <2>2, <2>4, <3>1 DEF Current
    <3> QED
      BY <1>7, <2>1, <3>1, <3>3, <3>4
  <2> QED
    BY <1>4, <2>2, <2>3, <2>4
<1>8. Crowned(c)
  <2> SUFFICES ASSUME NEW u \in FkTranscripts
               PROVE  IF c.transcripts[u].state = "gone" THEN c.transcripts[u].at = 0
                      ELSE \E w \in Current(c) : c.transcripts[u].at <= c.transcripts[w].at
    BY DEF Crowned
  <2>1. CASE c.transcripts[u].state = "gone"
    <3>1. c.transcripts[u] = o.transcripts[u] \/ c.transcripts[u] = t.transcripts[u]
      BY <1>4
    <3>2. /\ o.transcripts[u].state = "gone" => o.transcripts[u].at = 0
          /\ t.transcripts[u].state = "gone" => t.transcripts[u].at = 0
      BY <1>1 DEF Crowned
    <3> QED
      BY <2>1, <3>1, <3>2
  <2>2. CASE c.transcripts[u].state # "gone" /\ c.transcripts[u] = o.transcripts[u]
    BY <1>7, <2>2
  <2>3. CASE c.transcripts[u].state # "gone" /\ c.transcripts[u] = t.transcripts[u]
               /\ t.transcripts[u] # b.transcripts[u]
    BY <1>6, <2>3
  <2> QED
    BY <1>4, <2>1, <2>2, <2>3
<1>9. ASSUME Current(c) # {}, NEW u \in FkTranscripts
      PROVE  \E w \in Current(c) : c.transcripts[u].at <= c.transcripts[w].at
  <2>1. CASE c.transcripts[u].state # "gone"
    BY <1>8, <2>1 DEF Crowned
  <2>2. CASE c.transcripts[u].state = "gone"
    <3>1. PICK w : w \in Current(c)
      BY <1>9
    <3>2. w \in FkTranscripts /\ c.transcripts[w].at \in Nat /\ c.transcripts[u].at = 0
      BY <1>4, <1>8, <2>2, <3>1 DEF Current, Crowned
    <3> QED
      BY <3>1, <3>2
  <2> QED
    BY <2>1, <2>2
<1> QED
  BY <1>3, <1>4, <1>5, <1>8, <1>9 DEF Dated, HasRow, ForgottenIn

(* What an invariant says of the catalogs of a flow: they are sound, a     *)
(* revision that descends from another has its rows, and the integration   *)
(* under way holds what it will promise.                                   *)
GoodRevision(r, n) == r.rev \in r.past /\ r.past \subseteq 0..n /\ Sound(r.cat, n)
Descends(r, s)     == r.rev \in s.past => HasRow(r.cat) \subseteq HasRow(s.cat)
Promising(m, b) ==
  /\ m.phase = "upload" /\ m.todo \subseteq FkObjects
  /\ \A x \in (ForgottenIn(m.ours.cat) \cup ForgottenIn(m.theirs)) \ ForgottenIn(b) :
       m.result.cat.objects[x] # 0
  /\ \A x \in FkObjects :
       m.ours.cat.objects[x] = GoneObject /\ m.result.cat.objects[x] = 0 => m.theirs.objects[x] = 0
  /\ \A s \in Current(m.result.cat), u \in Current(m.ours.cat) \cup Current(m.theirs) :
       m.result.cat.transcripts[u].at <= m.result.cat.transcripts[s].at

RevisionsInv ==
  /\ stamp \in 0..MaxStamps /\ store \subseteq FkObjects
  /\ GoodRevision(up, stamp) /\ GoodRevision(main, stamp)
  /\ kept # NoMerge => /\ GoodRevision(kept.result, stamp)
                       /\ Descends(up, kept.result) /\ Descends(kept.result, up)
ForkInv == fork # Unforked => Sound(base, stamp) /\ Sound(fork, stamp) /\ Onward(base, fork)
MergeInv ==
  merge # NoMerge =>
    /\ fork # Unforked /\ Promising(merge, base) /\ GoodRevision(merge.result, stamp)
    /\ Descends(up, merge.result) /\ Descends(merge.result, up)
    /\ kept # NoMerge => Descends(kept.result, merge.result) /\ Descends(merge.result, kept.result)
    /\ HasRow(merge.ours.cat) \subseteq HasRow(up.cat)
    /\ \A x \in Added(merge.ours.cat, merge.theirs) : x \in merge.todo \/ x \in store \/ x \in HasRow(up.cat)
FkInv == RevisionsInv /\ ForkInv /\ MergeInv

LEMMA FkRecords ==
  /\ \A c \in Catalogs : c # Unforked
  /\ \A r, s, t : [rev |-> r, result |-> s, theirs |-> t] # NoMerge
  /\ \A m : m.phase = "upload" => m # NoMerge
<1>1. ASSUME NEW c \in Catalogs, c = Unforked PROVE FALSE
  <2>1. "artifacts" \in DOMAIN c /\ DOMAIN c = {"objects"}
    BY <1>1 DEF Catalogs, Unforked
  <2> QED
    BY <2>1
<1>2. ASSUME NEW r, NEW s, NEW t, [rev |-> r, result |-> s, theirs |-> t] = NoMerge PROVE FALSE
  <2>1. DOMAIN [rev |-> r, result |-> s, theirs |-> t] = {"rev", "result", "theirs"} /\ DOMAIN NoMerge = {"phase"}
    BY DEF NoMerge
  <2>2. DOMAIN [rev |-> r, result |-> s, theirs |-> t] = DOMAIN NoMerge
    BY <1>2
  <2> QED
    BY <2>1, <2>2
<1>3. ASSUME NEW m, m.phase = "upload" PROVE m # NoMerge
  BY <1>3 DEF NoMerge
<1> QED
  BY <1>1, <1>2, <1>3

LEMMA SoundLater ==
  ASSUME NEW n \in Nat, NEW m \in Nat, n <= m, NEW c, Sound(c, n), m <= MaxStamps PROVE Sound(c, m)
<1>1. \A t \in FkTranscripts : c.transcripts[t].at \in Nat
  BY FkAssumption DEF Sound, Catalogs
<1> QED
  BY <1>1 DEF Sound, Dated

LEMMA GoodLater ==
  ASSUME NEW n \in Nat, NEW m \in Nat, n <= m, NEW r, GoodRevision(r, n), m <= MaxStamps PROVE GoodRevision(r, m)
<1>1. Sound(r.cat, m)
  BY SoundLater DEF GoodRevision
<1>2. 0..n \subseteq 0..m
  OBVIOUS
<1> QED
  BY <1>1, <1>2 DEF GoodRevision

(* A sound catalog satisfies the constraints of the schema.                *)
LEMMA SoundIsHealthy ==
  ASSUME NEW n, NEW c, Sound(c, n) PROVE c \in Catalogs /\ Healthy(c)
<1>1. Cardinality(Current(c)) <= 1
  <2>1. CASE Current(c) = {}
    BY <2>1, FS_EmptySet
  <2>2. CASE Current(c) # {}
    <3>1. PICK t : t \in Current(c)
      BY <2>2
    <3>2. Current(c) = {t}
      BY <3>1 DEF Sound, OneCurrent
    <3>3. Cardinality({t}) = 1
      BY FS_Singleton
    <3> QED
      BY <3>2, <3>3
  <2> QED
    BY <2>1, <2>2
<1> QED
  BY <1>1 DEF Sound, References, Healthy

(* The rows a merge-back integrates are sound and keep its promises.       *)
LEMMA Integrating ==
  ASSUME NEW n \in 0..MaxStamps, NEW b, NEW o, NEW t, Sound(b, n), Sound(o, n), Sound(t, n), Onward(b, t),
         Integrable(b, o, t), NEW r,
         IF Changed(b, o, t) THEN r = Reconciled(Combined(b, o, t)) ELSE r = o
  PROVE  /\ Sound(r, n) /\ HasRow(o) \subseteq HasRow(r)
         /\ \A x \in (ForgottenIn(o) \cup ForgottenIn(t)) \ ForgottenIn(b) : r.objects[x] # 0
         /\ \A x \in FkObjects : o.objects[x] = GoneObject /\ r.objects[x] = 0 => t.objects[x] = 0
         /\ \A s \in Current(r), u \in Current(o) \cup Current(t) : r.transcripts[u].at <= r.transcripts[s].at
<1> DEFINE c == Combined(b, o, t)
<1>1. ~Clash(b, o, t) /\ Healthy(Reconciled(c))
  BY DEF Integrable
<1>2. /\ c \in Catalogs /\ Dated(c, n) /\ HasRow(o) \subseteq HasRow(c)
      /\ \A x \in (ForgottenIn(o) \cup ForgottenIn(t)) \ ForgottenIn(b) : c.objects[x] # 0
      /\ \A x \in FkObjects : o.objects[x] = GoneObject /\ c.objects[x] = 0 => t.objects[x] = 0
      /\ Crowned(c)
      /\ Current(c) # {} =>
           \A u \in FkTranscripts : \E w \in Current(c) : c.transcripts[u].at <= c.transcripts[w].at
  BY <1>1, Combining
<1>3. IF c # o THEN r = Reconciled(c) ELSE r = o
  BY DEF Changed
<1> HIDE DEF c
<1>4. /\ Current(o) \subseteq FkTranscripts /\ Current(t) \subseteq FkTranscripts /\ Current(c) \subseteq FkTranscripts
      /\ \A u \in FkTranscripts : c.transcripts[u].at \in Nat
  BY <1>2, FkAssumption DEF Current, Catalogs
<1>5. CASE c = o
  <2>1. r = o
    BY <1>3, <1>5
  <2>2. \A s \in Current(r), u \in Current(o) \cup Current(t) : r.transcripts[u].at <= r.transcripts[s].at
    <3> SUFFICES ASSUME NEW s \in Current(c), NEW u \in FkTranscripts
                 PROVE  c.transcripts[u].at <= c.transcripts[s].at
      BY <1>4, <1>5, <2>1
    <3>1. PICK w \in Current(c) : c.transcripts[u].at <= c.transcripts[w].at
      BY <1>2
    <3>2. w = s
      BY <1>5 DEF Sound, OneCurrent
    <3> QED
      BY <3>1, <3>2
  <2> QED
    BY <1>2, <1>5, <2>1, <2>2
<1>6. CASE c # o
  <2>1. r = Reconciled(c)
    BY <1>3, <1>6
  <2>2. /\ r \in Catalogs /\ r.objects = c.objects /\ OneCurrent(r)
        /\ \A u \in FkTranscripts : r.transcripts[u].at = c.transcripts[u].at
        /\ Current(r) = {u \in Current(c) : Winner(c, u)}
        /\ \A s \in Current(r), u \in Current(c) : c.transcripts[u].at <= r.transcripts[s].at
    BY <1>2, <2>1, Reconciling
  <2>3. Crowned(r)
    BY <1>2, <2>1, ReconciledIsCrowned DEF Crowned
  <2>4. References(r)
    BY <1>1, <2>1 DEF Healthy, References
  <2>5. Dated(r, n)
    BY <1>2, <2>2 DEF Dated
  <2>6. ASSUME NEW s \in Current(r), NEW u \in FkTranscripts PROVE r.transcripts[u].at <= r.transcripts[s].at
    <3>1. s \in Current(c) /\ r.transcripts[s].at = c.transcripts[s].at /\ c.transcripts[s].at \in Nat
      BY <1>4, <2>2
    <3>2. PICK w \in Current(c) : c.transcripts[u].at <= c.transcripts[w].at
      BY <1>2, <3>1
    <3>3. c.transcripts[w].at <= r.transcripts[s].at /\ r.transcripts[u].at = c.transcripts[u].at
      BY <2>2
    <3> QED
      BY <1>4, <3>1, <3>2, <3>3
  <2>7. Sound(r, n)
    BY <2>2, <2>3, <2>4, <2>5 DEF Sound
  <2>8. HasRow(r) = HasRow(c)
    BY <2>2 DEF HasRow
  <2> QED
    BY <1>2, <1>4, <2>2, <2>6, <2>7, <2>8
<1> QED
  BY <1>5, <1>6

LEMMA FkBegins == FkInit => FkInv
<1> SUFFICES ASSUME FkInit PROVE FkInv
  OBVIOUS
<1>0. 0 \in 0..MaxStamps /\ 0 \in 0..GoneObject /\ GoneObject \in 0..GoneObject /\ 0 \in {0} /\ {0} \subseteq 0..0
  BY FkAssumption DEF GoneObject
<1>1. /\ Empty \in Catalogs
      /\ Empty.objects = [x \in FkObjects |-> GoneObject] /\ Empty.artifacts = [a \in FkArtifacts |-> GoneRow]
      /\ Empty.clips = [k \in FkClips |-> GoneRow]
      /\ Empty.transcripts = [t \in FkTranscripts |-> GoneTranscript]
  BY <1>0 DEF Empty, Catalogs, GoneTranscript
<1>2. Current(Empty) = {}
  BY <1>1 DEF Current, GoneTranscript
<1>3. References(Empty) /\ OneCurrent(Empty) /\ Crowned(Empty) /\ Dated(Empty, 0)
  BY <1>1, <1>2 DEF References, OneCurrent, Crowned, Dated, GoneTranscript
<1>4. Sound(Empty, 0)
  BY <1>1, <1>3 DEF Sound
<1>5. /\ up.rev = 0 /\ up.past = {0} /\ up.cat = Empty /\ main = up /\ store = {} /\ stamp = 0
      /\ fork = Unforked /\ merge = NoMerge /\ kept = NoMerge
  BY DEF FkInit, Revision
<1> QED
  BY <1>0, <1>4, <1>5 DEF FkInv, RevisionsInv, GoodRevision, ForkInv, MergeInv

LEMMA UpstreamKeeps == ASSUME FkInv, UpstreamCommits PROVE FkInv'
<1> DEFINE n == stamp
<1>0. /\ MaxStamps \in Nat /\ n \in 0..MaxStamps /\ n \in Nat /\ n + 1 \in Nat /\ n + 1 <= MaxStamps /\ n <= n + 1
      /\ stamp' = n + 1
      /\ UNCHANGED <<main, base, fork, forkStore, merge, kept>>
  BY FkAssumption DEF FkInv, RevisionsInv, UpstreamCommits, Ticks
<1>1. PICK c \in Changes(up.cat, n + 1) :
        /\ up' = Revision(n + 1, up.past \cup {n + 1}, c)
        /\ store' = store \ (Live(up.cat) \ Live(c))
  BY <1>0 DEF UpstreamCommits
<1>2. up'.rev = n + 1 /\ up'.past = up.past \cup {n + 1} /\ up'.cat = c
  BY <1>1 DEF Revision
<1>3. up.past \subseteq 0..n /\ Sound(up.cat, n) /\ up.rev \in up.past
  BY DEF FkInv, RevisionsInv, GoodRevision
<1>4. Sound(c, n + 1) /\ HasRow(up.cat) \subseteq HasRow(c)
  BY <1>0, <1>3, CommitsAreSound
<1>5. GoodRevision(up', n + 1)
  <2>1. up.past \cup {n + 1} \subseteq 0..(n + 1)
    BY <1>0, <1>3
  <2> QED
    BY <1>2, <1>4, <2>1 DEF GoodRevision
<1>6. ASSUME NEW r, GoodRevision(r, n), Descends(up, r), Descends(r, up)
      PROVE  GoodRevision(r, n + 1) /\ Descends(up', r) /\ Descends(r, up')
  <2>1. GoodRevision(r, n + 1)
    BY <1>0, <1>6, GoodLater
  <2>2. up'.rev \notin r.past
    BY <1>0, <1>2, <1>6 DEF GoodRevision
  <2>3. r.rev # n + 1
    BY <1>0, <1>6 DEF GoodRevision
  <2> QED
    BY <1>2, <1>4, <1>6, <2>1, <2>2, <2>3 DEF Descends
<1>7. RevisionsInv'
  <2>1. GoodRevision(main, n + 1) /\ n + 1 \in 0..MaxStamps
    BY <1>0, GoodLater DEF FkInv, RevisionsInv
  <2>2. kept # NoMerge => /\ GoodRevision(kept.result, n + 1)
                          /\ Descends(up', kept.result) /\ Descends(kept.result, up')
    BY <1>6 DEF FkInv, RevisionsInv
  <2>3. store' \subseteq FkObjects
    BY <1>1 DEF FkInv, RevisionsInv
  <2> QED
    BY <1>0, <1>5, <2>1, <2>2, <2>3 DEF RevisionsInv
<1>8. ForkInv'
  <2>1. fork # Unforked => Sound(base, n + 1) /\ Sound(fork, n + 1) /\ Onward(base, fork)
    BY <1>0, SoundLater DEF FkInv, ForkInv
  <2> QED
    BY <1>0, <2>1 DEF ForkInv
<1>9. MergeInv'
  <2> SUFFICES ASSUME merge # NoMerge
               PROVE  /\ fork # Unforked /\ Promising(merge, base) /\ GoodRevision(merge.result, n + 1)
                      /\ Descends(up', merge.result) /\ Descends(merge.result, up')
                      /\ kept # NoMerge =>
                           Descends(kept.result, merge.result) /\ Descends(merge.result, kept.result)
                      /\ HasRow(merge.ours.cat) \subseteq HasRow(up'.cat)
                      /\ \A x \in Added(merge.ours.cat, merge.theirs) :
                           x \in merge.todo \/ x \in store' \/ x \in HasRow(up'.cat)
    BY <1>0 DEF MergeInv
  <2>1. /\ fork # Unforked /\ Promising(merge, base) /\ GoodRevision(merge.result, n)
        /\ Descends(up, merge.result) /\ Descends(merge.result, up)
        /\ kept # NoMerge => Descends(kept.result, merge.result) /\ Descends(merge.result, kept.result)
        /\ HasRow(merge.ours.cat) \subseteq HasRow(up.cat)
        /\ \A x \in Added(merge.ours.cat, merge.theirs) : x \in merge.todo \/ x \in store \/ x \in HasRow(up.cat)
    BY DEF FkInv, MergeInv
  <2>2. Live(up.cat) \subseteq HasRow(up.cat)
    BY <1>0 DEF Live, HasRow, GoneObject
  <2> QED
    BY <1>1, <1>2, <1>4, <1>6, <2>1, <2>2
<1> QED
  BY <1>7, <1>8, <1>9 DEF FkInv

LEMMA BackupKeeps == ASSUME FkInv, UpstreamBackup PROVE FkInv'
<1>1. /\ main' = up /\ store' = store \cup Live(up.cat) /\ UNCHANGED <<up, base, fork, forkStore, merge, kept, stamp>>
      /\ Live(up.cat) \subseteq FkObjects
  BY DEF UpstreamBackup, Live
<1>2. RevisionsInv'
  BY <1>1 DEF FkInv, RevisionsInv
<1>3. ForkInv'
  BY <1>1 DEF FkInv, ForkInv
<1>4. MergeInv'
  BY <1>1 DEF FkInv, MergeInv
<1> QED
  BY <1>2, <1>3, <1>4 DEF FkInv

LEMMA BootstrapKeeps == ASSUME FkInv, BootstrapFork PROVE FkInv'
<1>1. fork = Unforked /\ base' = up.cat /\ fork' = up.cat /\ UNCHANGED <<up, main, store, merge, kept, stamp>>
  BY DEF BootstrapFork
<1>2. merge = NoMerge
  BY <1>1 DEF FkInv, MergeInv
<1>3. RevisionsInv'
  BY <1>1 DEF FkInv, RevisionsInv
<1>4. Sound(up.cat, stamp) /\ Onward(up.cat, up.cat)
  BY DEF FkInv, RevisionsInv, GoodRevision, Onward
<1>5. ForkInv' /\ MergeInv'
  BY <1>1, <1>2, <1>4 DEF ForkInv, MergeInv
<1> QED
  BY <1>3, <1>5 DEF FkInv

LEMMA ForkingKeeps == ASSUME FkInv, ForkCommits PROVE FkInv'
<1> DEFINE n == stamp
<1>0. /\ MaxStamps \in Nat /\ n \in 0..MaxStamps /\ n \in Nat /\ n + 1 \in Nat /\ n + 1 <= MaxStamps /\ n <= n + 1
      /\ stamp' = n + 1 /\ fork # Unforked
      /\ UNCHANGED <<up, main, store, base, merge, kept>>
  BY FkAssumption DEF FkInv, RevisionsInv, ForkCommits, Ticks
<1>1. fork' \in Changes(fork, n + 1)
  BY <1>0 DEF ForkCommits
<1>2. Sound(base, n) /\ Sound(fork, n) /\ Onward(base, fork)
  BY <1>0 DEF FkInv, ForkInv
<1>3. Sound(fork', n + 1) /\ Onward(base, fork')
  BY <1>0, <1>1, <1>2, CommitsAreSound DEF Sound
<1>4. \A r : GoodRevision(r, n) => GoodRevision(r, n + 1)
  BY <1>0, GoodLater
<1>5. Sound(base, n + 1) /\ n + 1 \in 0..MaxStamps
  BY <1>0, <1>2, SoundLater
<1>6. fork' # Unforked
  BY <1>3, FkRecords DEF Sound
<1>7. RevisionsInv'
  BY <1>0, <1>4, <1>5 DEF FkInv, RevisionsInv
<1>8. ForkInv'
  BY <1>0, <1>3, <1>5 DEF ForkInv
<1>9. MergeInv'
  BY <1>0, <1>4, <1>6 DEF FkInv, MergeInv
<1> QED
  BY <1>7, <1>8, <1>9 DEF FkInv

LEMMA StartingKeeps == ASSUME FkInv, StartMerge PROVE FkInv'
<1> DEFINE n == stamp
           r == merge'.result
<1>0. /\ fork # Unforked /\ merge = NoMerge /\ Integrable(base, up.cat, fork)
      /\ UNCHANGED <<up, main, store, base, fork, forkStore, kept>>
  BY DEF StartMerge
<1>1. /\ MaxStamps \in Nat /\ n \in 0..MaxStamps /\ n \in Nat
      /\ Sound(up.cat, n) /\ up.past \subseteq 0..n /\ up.rev \in up.past
      /\ Sound(base, n) /\ Sound(fork, n) /\ Onward(base, fork)
  BY <1>0, FkAssumption DEF FkInv, RevisionsInv, GoodRevision, ForkInv
<1>2. /\ merge'.phase = "upload" /\ merge'.todo = Added(up.cat, fork) /\ merge'.ours = up /\ merge'.theirs = fork
      /\ IF Changed(base, up.cat, fork)
         THEN /\ n + 1 <= MaxStamps /\ stamp' = n + 1
              /\ r.rev = n + 1 /\ r.past = up.past \cup {n + 1}
              /\ r.cat = Reconciled(Combined(base, up.cat, fork))
         ELSE stamp' = n /\ r = up
  <2>1. CASE Changed(base, up.cat, fork)
    <3>1. /\ Ticks
          /\ merge' = [phase |-> "upload", todo |-> Added(up.cat, fork), ours |-> up, theirs |-> fork,
                       result |-> Revision(stamp', up.past \cup {stamp'},
                                           Reconciled(Combined(base, up.cat, fork)))]
      BY <2>1 DEF StartMerge
    <3> QED
      BY <1>1, <2>1, <3>1 DEF Ticks, Revision
  <2>2. CASE ~Changed(base, up.cat, fork)
    BY <2>2 DEF StartMerge
  <2> QED
    BY <2>1, <2>2
<1> HIDE DEF r
<1>3. r.cat = (IF Changed(base, up.cat, fork) THEN Reconciled(Combined(base, up.cat, fork)) ELSE up.cat)
  BY <1>2
<1>4. /\ Sound(r.cat, n) /\ HasRow(up.cat) \subseteq HasRow(r.cat)
      /\ \A x \in (ForgottenIn(up.cat) \cup ForgottenIn(fork)) \ ForgottenIn(base) : r.cat.objects[x] # 0
      /\ \A x \in FkObjects : up.cat.objects[x] = GoneObject /\ r.cat.objects[x] = 0 => fork.objects[x] = 0
      /\ \A s \in Current(r.cat), u \in Current(up.cat) \cup Current(fork) :
           r.cat.transcripts[u].at <= r.cat.transcripts[s].at
  BY <1>0, <1>1, <1>3, Integrating
<1>5. stamp' \in 0..MaxStamps /\ stamp' \in Nat /\ n <= stamp' /\ stamp' <= MaxStamps
  BY <1>1, <1>2
<1>6. /\ \A c : Sound(c, n) => Sound(c, stamp')
      /\ \A s : GoodRevision(s, n) => GoodRevision(s, stamp')
  BY <1>1, <1>5, SoundLater, GoodLater
<1>7. GoodRevision(r, stamp')
  <2>1. Sound(r.cat, stamp')
    BY <1>4, <1>6
  <2>2. r.rev \in r.past /\ r.past \subseteq 0..stamp'
    BY <1>1, <1>2
  <2> QED
    BY <2>1, <2>2 DEF GoodRevision
<1>8. Promising(merge', base)
  BY <1>2, <1>4 DEF Promising, Added, Live, r
<1>9. ASSUME NEW s, s.past \subseteq 0..n, s.rev \in s.past, Descends(up, s), Descends(s, up)
      PROVE  Descends(s, r) /\ Descends(r, s)
  <2>1. CASE Changed(base, up.cat, fork)
    <3>1. r.rev \notin s.past /\ s.rev # n + 1 /\ r.past = up.past \cup {n + 1}
      BY <1>1, <1>2, <1>9, <2>1
    <3> QED
      BY <1>4, <1>9, <3>1 DEF Descends
  <2>2. CASE ~Changed(base, up.cat, fork)
    BY <1>2, <1>9, <2>2 DEF Descends
  <2> QED
    BY <2>1, <2>2
<1>10. Descends(up, r) /\ Descends(r, up)
  BY <1>1, <1>9 DEF Descends
<1>11. kept # NoMerge => Descends(kept.result, r) /\ Descends(r, kept.result)
  BY <1>9 DEF FkInv, RevisionsInv, GoodRevision
<1>12. RevisionsInv'
  BY <1>0, <1>5, <1>6 DEF FkInv, RevisionsInv
<1>13. ForkInv'
  BY <1>0, <1>1, <1>6 DEF ForkInv
<1>14. MergeInv'
  <2>1. merge'.ours.cat = up.cat /\ merge'.theirs = fork /\ merge'.todo = Added(up.cat, fork)
    BY <1>2
  <2> QED
    BY <1>0, <1>7, <1>8, <1>10, <1>11, <2>1 DEF MergeInv, r
<1> QED
  BY <1>12, <1>13, <1>14 DEF FkInv

LEMMA UploadingKeeps == ASSUME FkInv, UploadOne PROVE FkInv'
<1>1. PICK x \in merge.todo \cap forkStore :
        store' = store \cup {x} /\ merge' = [merge EXCEPT !.todo = merge.todo \ {x}]
  BY DEF UploadOne
<1>2. merge.phase = "upload" /\ UNCHANGED <<up, main, base, fork, forkStore, kept, stamp>> /\ merge # NoMerge
  BY FkRecords DEF UploadOne
<1>3. /\ merge'.phase = "upload" /\ merge'.ours = merge.ours /\ merge'.theirs = merge.theirs
      /\ merge'.result = merge.result
      /\ \A y \in FkObjects : y \in merge.todo => y \in merge'.todo \/ y \in store'
      /\ merge'.todo \subseteq merge.todo
  <2>1. DOMAIN merge' = DOMAIN merge
    BY <1>1
  <2>2. merge'.phase = merge.phase /\ merge'.ours = merge.ours /\ merge'.theirs = merge.theirs
          /\ merge'.result = merge.result
    BY <1>1
  <2> QED
    BY <1>1, <1>2, <2>1, <2>2
<1>4. x \in FkObjects /\ merge.todo \subseteq FkObjects
  BY <1>1, <1>2 DEF FkInv, MergeInv, Promising
<1>5. RevisionsInv'
  BY <1>1, <1>2, <1>4 DEF FkInv, RevisionsInv
<1>6. ForkInv'
  BY <1>2 DEF FkInv, ForkInv
<1>7. MergeInv'
  <2>1. Promising(merge', base)
    BY <1>2, <1>3, <1>4 DEF FkInv, MergeInv, Promising
  <2>2. \A y \in Added(merge.ours.cat, merge.theirs) : y \in merge'.todo \/ y \in store' \/ y \in HasRow(up.cat)
    BY <1>1, <1>2, <1>3 DEF FkInv, MergeInv, Added, Live
  <2> QED
    BY <1>2, <1>3, <2>1, <2>2 DEF FkInv, MergeInv
<1> QED
  BY <1>5, <1>6, <1>7 DEF FkInv

LEMMA PushingKeeps == ASSUME FkInv, PushMerge PROVE FkInv'
<1>1. /\ merge # NoMerge /\ main' = merge.result /\ kept'.result = merge.result /\ merge' = NoMerge
      /\ UNCHANGED <<up, store, base, fork, forkStore, stamp>>
  BY FkRecords DEF PushMerge, Uploaded
<1>2. RevisionsInv'
  BY <1>1 DEF FkInv, RevisionsInv, MergeInv
<1>3. ForkInv' /\ MergeInv'
  BY <1>1 DEF FkInv, ForkInv, MergeInv
<1> QED
  BY <1>2, <1>3 DEF FkInv

LEMMA AbandoningKeeps == ASSUME FkInv, AbandonMerge PROVE FkInv'
<1>1. merge' = NoMerge /\ UNCHANGED <<up, main, store, base, fork, forkStore, kept, stamp>>
  BY DEF AbandonMerge
<1>2. RevisionsInv'
  BY <1>1 DEF FkInv, RevisionsInv
<1> QED
  BY <1>1, <1>2 DEF FkInv, ForkInv, MergeInv

LEMMA AdoptingKeeps == ASSUME FkInv, AdoptMerge PROVE FkInv'
<1>1. /\ kept # NoMerge /\ up.rev \in kept.result.past /\ up' = kept.result
      /\ UNCHANGED <<main, store, base, fork, forkStore, merge, kept, stamp>>
  BY DEF AdoptMerge
<1>2. GoodRevision(kept.result, stamp) /\ HasRow(up.cat) \subseteq HasRow(kept.result.cat)
  BY <1>1 DEF FkInv, RevisionsInv, Descends
<1>3. RevisionsInv'
  BY <1>1, <1>2 DEF FkInv, RevisionsInv, Descends
<1>4. ForkInv'
  BY <1>1 DEF FkInv, ForkInv
<1>5. MergeInv'
  BY <1>1, <1>2 DEF FkInv, MergeInv
<1> QED
  BY <1>3, <1>4, <1>5 DEF FkInv

LEMMA FkInvariance == FkSpec => []FkInv
<1>1. FkInv /\ [FkNext]_fkVars => FkInv'
  <2> SUFFICES ASSUME FkInv, [FkNext]_fkVars PROVE FkInv'
    OBVIOUS
  <2>1. CASE UNCHANGED fkVars
    BY <2>1 DEF fkVars, FkInv, RevisionsInv, ForkInv, MergeInv
  <2>2. CASE FkNext
    BY <2>2, UpstreamKeeps, BackupKeeps, BootstrapKeeps, ForkingKeeps, StartingKeeps, UploadingKeeps,
       PushingKeeps, AbandoningKeeps, AdoptingKeeps DEF FkNext
  <2> QED
    BY <2>1, <2>2
<1> QED
  BY <1>1, FkBegins, PTL DEF FkSpec

(* The catalogs of upstream, of main and of the fork satisfy the           *)
(* constraints of the schema after every commit, backup and integration    *)
(* (fork.ts, merge-policy.ts).                                             *)
THEOREM ForkTypes == FkSpec => []FkTypeOK
<1>1. FkInv => FkTypeOK
  <2> SUFFICES ASSUME FkInv PROVE FkTypeOK
    OBVIOUS
  <2>1. \A c : Sound(c, stamp) => c \in Catalogs /\ Healthy(c)
    BY SoundIsHealthy
  <2> QED
    BY <2>1 DEF FkInv, RevisionsInv, GoodRevision, ForkInv, FkTypeOK
<1> QED
  BY <1>1, FkInvariance, PTL

(* What an integration of a fork promises, whatever the fork, upstream and *)
(* its backups do while it is under way: bytes forgotten on either side    *)
(* stay forgotten, an object upstream has no row of is in its store before *)
(* main names it, and the transcript that is current is the latest of both *)
(* sides.                                                                  *)
THEOREM PromisesAreKept == FkSpec => MergesKeepPromises
<1>1. ASSUME FkInv, FkNext, main' # main, merge # NoMerge, merge' = NoMerge
      PROVE  PushMerge
  <2>1. ~UpstreamCommits /\ ~BootstrapFork /\ ~ForkCommits /\ ~StartMerge /\ ~UploadOne /\ ~AbandonMerge /\ ~AdoptMerge
    BY <1>1 DEF UpstreamCommits, BootstrapFork, ForkCommits, StartMerge, UploadOne, AbandonMerge, AdoptMerge
  <2>2. ~UpstreamBackup
    BY <1>1 DEF UpstreamBackup
  <2> QED
    BY <1>1, <2>1, <2>2 DEF FkNext
<1>2. ASSUME FkInv, PushMerge
      PROVE  /\ \A x \in FkObjects :
                  x \in (ForgottenIn(merge.ours.cat) \cup ForgottenIn(merge.theirs)) \ ForgottenIn(base) =>
                     x \notin Live(main'.cat)
             /\ \A x \in Live(main'.cat) : up.cat.objects[x] = GoneObject => x \in store'
             /\ \A t \in Current(main'.cat), u \in Current(merge.ours.cat) \cup Current(merge.theirs) :
                  main'.cat.transcripts[u].at <= main'.cat.transcripts[t].at
  <2>1. merge # NoMerge /\ main' = merge.result /\ store' = store /\ merge.todo = {}
    BY <1>2, FkRecords DEF PushMerge, Uploaded
  <2>2. /\ Promising(merge, base) /\ HasRow(merge.ours.cat) \subseteq HasRow(up.cat)
        /\ \A x \in Added(merge.ours.cat, merge.theirs) : x \in merge.todo \/ x \in store \/ x \in HasRow(up.cat)
    BY <1>2, <2>1 DEF FkInv, MergeInv
  <2>3. ASSUME NEW x \in (ForgottenIn(merge.ours.cat) \cup ForgottenIn(merge.theirs)) \ ForgottenIn(base)
        PROVE  x \notin Live(main'.cat)
    BY <2>1, <2>2, <2>3 DEF Promising, Live
  <2>4. ASSUME NEW x \in Live(main'.cat), up.cat.objects[x] = GoneObject PROVE x \in store'
    <3>1. x \in FkObjects /\ x \notin HasRow(up.cat) /\ merge.result.cat.objects[x] = 0
      BY <2>1, <2>4 DEF Live, HasRow
    <3>2. merge.ours.cat.objects[x] = GoneObject
      BY <2>2, <3>1 DEF HasRow
    <3>3. x \in Added(merge.ours.cat, merge.theirs)
      BY <2>2, <3>1, <3>2 DEF Promising, Added, Live
    <3> QED
      BY <2>1, <2>2, <3>1, <3>3
  <2>5. \A t \in Current(main'.cat), u \in Current(merge.ours.cat) \cup Current(merge.theirs) :
          main'.cat.transcripts[u].at <= main'.cat.transcripts[t].at
    BY <2>1, <2>2 DEF Promising
  <2> QED
    BY <2>3, <2>4, <2>5
<1>3. FkSpec => ForgetWins
  <2>1. FkInv /\ [FkNext]_fkVars =>
          [main' # main /\ merge # NoMerge /\ merge' = NoMerge =>
             \A x \in (ForgottenIn(merge.ours.cat) \cup ForgottenIn(merge.theirs)) \ ForgottenIn(base) :
               x \notin Live(main'.cat)]_fkVars
    BY <1>1, <1>2 DEF ForgottenIn
  <2> QED
    BY <2>1, FkInvariance, PTL DEF FkSpec, ForgetWins
<1>4. FkSpec => AddedIsServable
  <2>1. FkInv /\ [FkNext]_fkVars =>
          [main' # main /\ merge # NoMerge /\ merge' = NoMerge =>
             \A x \in Live(main'.cat) : up.cat.objects[x] = GoneObject => x \in store']_fkVars
    BY <1>1, <1>2
  <2> QED
    BY <2>1, FkInvariance, PTL DEF FkSpec, AddedIsServable
<1>5. FkSpec => LatestIsCurrent
  <2>1. FkInv /\ [FkNext]_fkVars =>
          [main' # main /\ merge # NoMerge /\ merge' = NoMerge =>
             \A t \in Current(main'.cat), u \in Current(merge.ours.cat) \cup Current(merge.theirs) :
               main'.cat.transcripts[u].at <= main'.cat.transcripts[t].at]_fkVars
    BY <1>1, <1>2
  <2> QED
    BY <2>1, FkInvariance, PTL DEF FkSpec, LatestIsCurrent
<1> QED
  BY <1>3, <1>4, <1>5 DEF MergesKeepPromises

---------------------------------------------------------------------------
(* Edits                                                                   *)

(* The states of an intent exist: each is defined from the one before.     *)
LEMMA DoneIs ==
  ASSUME NEW s, NEW parts, Len(parts) \in Nat, NEW f, f = Done(s, parts)
  PROVE  f[0] = s /\ \A n \in 1..Len(parts) : f[n] = Step1(f[n - 1], parts[n])
<1> DEFINE Upto(m, g) == g = [n \in 0..m |-> IF n = 0 THEN s ELSE Step1(g[n - 1], parts[n])]
           Missing == {m \in Nat : ~\E g : Upto(m, g)}
<1>1. Missing = {}
  <2> SUFFICES ASSUME Missing # {} PROVE FALSE
    OBVIOUS
  <2>1. PICK m \in Missing : \A n \in Missing : m <= n
    <3>1. Missing \in SUBSET Nat
      OBVIOUS
    <3> HIDE DEF Missing
    <3> QED
      BY <3>1, LowestIs
  <2>2. CASE m = 0
    <3>1. PICK g : g = [n \in 0..0 |-> s]
      OBVIOUS
    <3>2. \A n \in 0..0 : n = 0
      OBVIOUS
    <3>3. Upto(0, g)
      BY <3>1, <3>2
    <3> QED
      BY <2>2, <3>3
  <2>3. CASE m # 0
    <3>1. m - 1 \in Nat /\ m \in Nat /\ m - 1 \notin Missing
      <4>1. m \in Nat
        OBVIOUS
      <4> HIDE DEF Missing
      <4>2. m - 1 \in Nat /\ ~(m <= m - 1)
        BY <2>3, <4>1
      <4> QED
        BY <2>1, <4>1, <4>2
    <3>2. PICK g : Upto(m - 1, g)
      BY <3>1
    <3>3. PICK h : h = [n \in 0..m |-> IF n = m THEN Step1(g[m - 1], parts[m]) ELSE g[n]]
      OBVIOUS
    <3>4. \A n \in 0..m : h[n] = IF n = 0 THEN s ELSE Step1(h[n - 1], parts[n])
      <4> SUFFICES ASSUME NEW n \in 0..m
                   PROVE  h[n] = IF n = 0 THEN s ELSE Step1(h[n - 1], parts[n])
        OBVIOUS
      <4>1. CASE n = m
        <5>1. h[n] = Step1(g[m - 1], parts[m]) /\ h[m - 1] = g[m - 1]
          BY <3>1, <3>3, <4>1
        <5> QED
          BY <2>3, <4>1, <5>1
      <4>2. CASE n # m
        <5>1. n \in 0..(m - 1) /\ h[n] = g[n]
          BY <3>1, <3>3, <4>2
        <5>2. g[n] = IF n = 0 THEN s ELSE Step1(g[n - 1], parts[n])
          BY <3>2, <5>1
        <5>3. n # 0 => h[n - 1] = g[n - 1]
          BY <3>1, <3>3, <5>1
        <5> QED
          BY <5>1, <5>2, <5>3
      <4> QED
        BY <4>1, <4>2
    <3>5. Upto(m, h)
      <4>1. h = [n \in 0..m |-> h[n]]
        BY <3>3
      <4> QED
        BY <3>4, <4>1
    <3> QED
      BY <2>1, <3>5
  <2> QED
    BY <2>2, <2>3
<1>2. \E g : Upto(Len(parts), g)
  BY <1>1
<1>3. Upto(Len(parts), f)
  BY <1>2 DEF Done
<1>4. \A n \in 0..Len(parts) : f[n] = IF n = 0 THEN s ELSE Step1(f[n - 1], parts[n])
  BY <1>3
<1>5. 0 \in 0..Len(parts) /\ \A n \in 1..Len(parts) : n \in 0..Len(parts) /\ n # 0
  OBVIOUS
<1> QED
  BY <1>4, <1>5

LEMMA CarriedIs ==
  ASSUME NEW s, NEW intent, Len(intent) \in Nat, NEW f, f = Carried(s, intent)
  PROVE  f[0] = s /\ \A n \in 1..Len(intent) : f[n] = Taken(f[n - 1], intent[n])
<1> DEFINE Upto(m, g) == g = [n \in 0..m |-> IF n = 0 THEN s ELSE Taken(g[n - 1], intent[n])]
           Missing == {m \in Nat : ~\E g : Upto(m, g)}
<1>1. Missing = {}
  <2> SUFFICES ASSUME Missing # {} PROVE FALSE
    OBVIOUS
  <2>1. PICK m \in Missing : \A n \in Missing : m <= n
    <3>1. Missing \in SUBSET Nat
      OBVIOUS
    <3> HIDE DEF Missing
    <3> QED
      BY <3>1, LowestIs
  <2>2. CASE m = 0
    <3>1. PICK g : g = [n \in 0..0 |-> s]
      OBVIOUS
    <3>2. \A n \in 0..0 : n = 0
      OBVIOUS
    <3>3. Upto(0, g)
      BY <3>1, <3>2
    <3> QED
      BY <2>2, <3>3
  <2>3. CASE m # 0
    <3>1. m - 1 \in Nat /\ m \in Nat /\ m - 1 \notin Missing
      <4>1. m \in Nat
        OBVIOUS
      <4> HIDE DEF Missing
      <4>2. m - 1 \in Nat /\ ~(m <= m - 1)
        BY <2>3, <4>1
      <4> QED
        BY <2>1, <4>1, <4>2
    <3>2. PICK g : Upto(m - 1, g)
      BY <3>1
    <3>3. PICK h : h = [n \in 0..m |-> IF n = m THEN Taken(g[m - 1], intent[m]) ELSE g[n]]
      OBVIOUS
    <3>4. \A n \in 0..m : h[n] = IF n = 0 THEN s ELSE Taken(h[n - 1], intent[n])
      <4> SUFFICES ASSUME NEW n \in 0..m
                   PROVE  h[n] = IF n = 0 THEN s ELSE Taken(h[n - 1], intent[n])
        OBVIOUS
      <4>1. CASE n = m
        <5>1. h[n] = Taken(g[m - 1], intent[m]) /\ h[m - 1] = g[m - 1]
          BY <3>1, <3>3, <4>1
        <5> QED
          BY <2>3, <4>1, <5>1
      <4>2. CASE n # m
        <5>1. n \in 0..(m - 1) /\ h[n] = g[n]
          BY <3>1, <3>3, <4>2
        <5>2. g[n] = IF n = 0 THEN s ELSE Taken(g[n - 1], intent[n])
          BY <3>2, <5>1
        <5>3. n # 0 => h[n - 1] = g[n - 1]
          BY <3>1, <3>3, <5>1
        <5> QED
          BY <5>1, <5>2, <5>3
      <4> QED
        BY <4>1, <4>2
    <3>5. Upto(m, h)
      <4>1. h = [n \in 0..m |-> h[n]]
        BY <3>3
      <4> QED
        BY <3>4, <4>1
    <3> QED
      BY <2>1, <3>5
  <2> QED
    BY <2>2, <2>3
<1>2. \E g : Upto(Len(intent), g)
  BY <1>1
<1>3. Upto(Len(intent), f)
  BY <1>2 DEF Carried
<1>4. \A n \in 0..Len(intent) : f[n] = IF n = 0 THEN s ELSE Taken(f[n - 1], intent[n])
  BY <1>3
<1>5. 0 \in 0..Len(intent) /\ \A n \in 1..Len(intent) : n \in 0..Len(intent) /\ n # 0
  OBVIOUS
<1> QED
  BY <1>4, <1>5

(* Arithmetic of ticks.                                                    *)
LEMMA DivideIs ==
  ASSUME NEW m \in Nat, NEW d \in Nat \ {0}
  PROVE  m \div d \in Nat /\ d * (m \div d) <= m /\ m < d * (m \div d) + d
OBVIOUS

LEMMA DivideGrows ==
  ASSUME NEW m \in Nat, NEW n \in Nat, m <= n, NEW d \in Nat \ {0}
  PROVE  m \div d <= n \div d
BY DivideIs

LEMMA TimesGrows ==
  ASSUME NEW k \in Nat, NEW x \in Nat, NEW y \in Nat, x <= y
  PROVE  k * x <= k * y /\ k * x \in Nat /\ k * y \in Nat
OBVIOUS

LEMMA TickAtGrows ==
  ASSUME NEW c, c.ticks \in Nat, c.dur \in Nat \ {0}, NEW x \in Nat, NEW y \in Nat, x <= y, y <= c.dur
  PROVE  /\ TickAt(c, x) \in Nat /\ TickAt(c, y) \in Nat /\ TickAt(c, x) <= TickAt(c, y)
         /\ TickAt(c, y) <= c.ticks /\ TickAt(c, 0) = 0 /\ TickAt(c, c.dur) = c.ticks
<1> DEFINE k == c.ticks
           d == c.dur
<1>1. k \in Nat /\ d \in Nat \ {0} /\ x <= y /\ y <= d
  OBVIOUS
<1>2. \A f : TickAt(c, f) = (k * f) \div d
  BY DEF TickAt
<1> HIDE DEF k, d
<1>3. k * x <= k * y /\ k * x \in Nat /\ k * y \in Nat
  BY <1>1, TimesGrows
<1>4. k * y <= k * d /\ k * d \in Nat
  BY <1>1, TimesGrows
<1>5. (k * x) \div d <= (k * y) \div d /\ (k * x) \div d \in Nat /\ (k * y) \div d \in Nat
  BY <1>1, <1>3, DivideGrows, DivideIs
<1>6. (k * y) \div d <= (k * d) \div d
  BY <1>1, <1>3, <1>4, DivideGrows
<1>7. (k * d) \div d = k
  BY <1>1
<1>8. (k * 0) \div d = 0
  BY <1>1
<1> QED
  BY <1>2, <1>5, <1>6, <1>7, <1>8 DEF k, d

(* A range that is cut out of a clip leaves two pieces; rounded as they    *)
(* are, each shows ticks of the clip only, and no tick is in both.         *)
THEOREM CutsShareNoTick ==
  ASSUME NEW c, IsClip(c), Timed(c), c.start \in Nat, c.dur \in Nat \ {0}, c.tick \in Nat,
         c.ticks \in Nat, NEW from \in Nat, NEW to \in Nat,
         c.start <= from, from <= to, to <= Ends(c),
         NEW left, left = SliceOf(c, c.start, from, "left"),
         NEW right, right = SliceOf(c, to, Ends(c), "right")
  PROVE  /\ left.tick = c.tick /\ left.ticks \in Nat /\ right.ticks \in Nat
         /\ left.tick + left.ticks <= right.tick
         /\ right.tick + right.ticks = c.tick + c.ticks
<1>1. ASSUME NEW a, NEW b, NEW side, NEW d, d = SliceOf(c, a, b, side)
      PROVE  /\ d.tick = c.tick + TickAt(c, a - c.start)
             /\ d.ticks = TickAt(c, b - c.start) - TickAt(c, a - c.start)
  <2>1. PICK first, last : first = TickAt(c, a - c.start) /\ last = TickAt(c, b - c.start)
    OBVIOUS
  <2>2. PICK one : one = [c EXCEPT !.id = Append(@, side), !.start = a, !.dur = b - a]
    OBVIOUS
  <2>3. IsClip(one) /\ one.tick = c.tick /\ one.ticks = c.ticks
    BY <2>2 DEF IsClip
  <2>4. d = [one EXCEPT !.tick = @ + first, !.ticks = last - first]
    BY <1>1, <2>1, <2>2 DEF SliceOf
  <2>5. d.tick = one.tick + first /\ d.ticks = last - first
    BY <2>3, <2>4 DEF IsClip
  <2> QED
    BY <2>1, <2>3, <2>5
<1> DEFINE x == from - c.start
           y == to - c.start
           z == Ends(c) - c.start
<1>2. x \in Nat /\ y \in Nat /\ x <= y /\ y <= c.dur /\ z = c.dur /\ c.start - c.start = 0
  BY DEF Ends
<1>3. left.tick = c.tick + TickAt(c, c.start - c.start)
      /\ left.ticks = TickAt(c, x) - TickAt(c, c.start - c.start)
  BY <1>1
<1>4. right.tick = c.tick + TickAt(c, y) /\ right.ticks = TickAt(c, z) - TickAt(c, y)
  BY <1>1
<1> HIDE DEF x, y, z
<1>5. left.tick = c.tick + TickAt(c, 0) /\ left.ticks = TickAt(c, x) - TickAt(c, 0)
      /\ right.ticks = TickAt(c, c.dur) - TickAt(c, y)
  BY <1>2, <1>3, <1>4
<1>6. /\ TickAt(c, x) \in Nat /\ TickAt(c, y) \in Nat /\ TickAt(c, x) <= TickAt(c, y)
      /\ TickAt(c, y) <= c.ticks /\ TickAt(c, 0) = 0 /\ TickAt(c, c.dur) = c.ticks
  BY <1>2, TickAtGrows
<1> QED
  BY <1>4, <1>5, <1>6

(* A sequence that operations are applied to, and one that an operation    *)
(* leaves: the tracks are the same, and a locked one holds what it held.   *)
IsCut(s) == s = [tracks |-> s.tracks, clips |-> s.clips, transitions |-> s.transitions,
                 captions |-> s.captions]
Keyed(s) == /\ IsCut(s) /\ Unique(s)
            /\ \A c \in s.clips : IsClip(c) /\ Measured(c)
            /\ \A c \in s.captions : IsCue(c)
Spared(s, r) ==
  /\ r.tracks = s.tracks
  /\ \A t \in DOMAIN s.tracks : s.tracks[t].locked => Placement(r, t) = Placement(s, t)

(* A clip shows nothing that another does not, and two clips of r share a  *)
(* tick only if two clips of s do.                                         *)
ShowsIn(d, c)    == \A source : \A t \in Int : Shows(d, source, t) => Shows(c, source, t)
SameTicks(c, d) == /\ d.source = c.source /\ d.stream = c.stream
                   /\ d.tick = c.tick /\ d.ticks = c.ticks
ShowsLess(s, r) == \A source : \A t \in Int : ShownTwice(r, source, t) => ShownTwice(s, source, t)
Bundles == {"batch-replace-range", "restore-clip"}
IsPart(op) == IsOperation(op) /\ op.kind \notin Bundles

LEMMA NotRefused == ASSUME NEW s, IsCut(s) PROVE s # Refused
<1>1. DOMAIN s = {"tracks", "clips", "transitions", "captions"}
  BY DEF IsCut
<1>2. DOMAIN Refused = {"refused"}
  BY DEF Refused
<1> QED
  BY <1>1, <1>2

LEMMA Refit ==
  ASSUME NEW s, IsCut(s), NEW C
  PROVE  LET r == [s EXCEPT !.clips = C] IN
         IsCut(r) /\ r.tracks = s.tracks /\ r.clips = C /\ r.transitions = s.transitions
         /\ r.captions = s.captions
BY DEF IsCut

LEMMA WithoutIs ==
  ASSUME NEW s, IsCut(s), NEW gone, NEW r, r = Without(s, gone)
  PROVE  /\ IsCut(r) /\ r.tracks = s.tracks /\ r.clips = s.clips \ gone
         /\ r.transitions = {x \in s.transitions : \A c \in gone : c.id \notin {x.out, x.in}}
         /\ r.captions = s.captions
BY DEF IsCut, Without

LEMMA SwapIs ==
  ASSUME NEW s, IsCut(s), NEW old, NEW new, NEW r, r = Swap(s, old, new)
  PROVE  /\ IsCut(r) /\ r.tracks = s.tracks /\ r.clips = (s.clips \ {old}) \cup new
         /\ r.transitions = s.transitions /\ r.captions = s.captions
BY DEF IsCut, Swap

(* A later start leaves a clip a clip, on its track.                       *)
LEMMA LaterIs ==
  ASSUME NEW c, IsCue(c), NEW v, NEW d, d = [c EXCEPT !.start = v]
  PROVE  IsCue(d) /\ d.id = c.id /\ d.track = c.track /\ (IsClip(c) => IsClip(d))
BY DEF IsCue, IsClip

LEMMA LaterShows ==
  ASSUME NEW c, IsClip(c), NEW v, NEW d, d = [c EXCEPT !.start = v]
  PROVE  SameTicks(c, d) /\ (Measured(c) /\ v \in Nat => Measured(d))
BY DEF IsClip, SameTicks, Measured

LEMMA SameIsWithin == ASSUME NEW c, NEW d, SameTicks(c, d) PROVE ShowsIn(d, c)
BY DEF ShowsIn, SameTicks, Shows, Timed

LEMMA FewerShow == ASSUME NEW s, NEW r, r.clips \subseteq s.clips PROVE ShowsLess(s, r)
BY DEF ShowsLess, ShownTwice

(* Clips that each have a clip of their own to show within.                *)
LEMMA SwapShows ==
  ASSUME NEW s, NEW c \in s.clips, NEW d, ShowsIn(d, c), NEW r, r.clips = (s.clips \ {c}) \cup {d}
  PROVE  ShowsLess(s, r)
<1> SUFFICES ASSUME NEW source, NEW t \in Int, NEW e \in r.clips, NEW f \in r.clips, e # f,
                    Shows(e, source, t), Shows(f, source, t)
             PROVE  ShownTwice(s, source, t)
  BY DEF ShowsLess, ShownTwice
<1>1. \A g \in r.clips : g \in s.clips \ {c} \/ g = d
  OBVIOUS
<1>2. Shows(d, source, t) => Shows(c, source, t)
  BY DEF ShowsIn
<1> QED
  BY <1>1, <1>2 DEF ShownTwice

(* Two clips show no tick both; and a sequence each two of whose clips show *)
(* no tick both, or show within two clips of another.                      *)
ShareNone(c, d) == \A source : \A t \in Int : ~(Shows(c, source, t) /\ Shows(d, source, t))
LEMMA ParentsShow ==
  ASSUME NEW s, NEW r,
         \A c, d \in r.clips : c # d /\ ~ShareNone(c, d) =>
           \E a, b \in s.clips : a # b /\ ShowsIn(c, a) /\ ShowsIn(d, b)
  PROVE  ShowsLess(s, r)
<1> SUFFICES ASSUME NEW source, NEW t \in Int, NEW c \in r.clips, NEW d \in r.clips, c # d,
                    Shows(c, source, t), Shows(d, source, t)
             PROVE  ShownTwice(s, source, t)
  BY DEF ShowsLess, ShownTwice
<1>1. ~ShareNone(c, d)
  BY DEF ShareNone
<1>2. PICK a \in s.clips, b \in s.clips : a # b /\ ShowsIn(c, a) /\ ShowsIn(d, b)
  BY <1>1
<1>3. Shows(a, source, t) /\ Shows(b, source, t)
  BY <1>2 DEF ShowsIn
<1> QED
  BY <1>2, <1>3 DEF ShownTwice

LEMMA NamedIs ==
  ASSUME NEW s, NEW i, HasClip(s, i)
  PROVE  Named(s, i) \in s.clips /\ Named(s, i).id = i
BY DEF HasClip, Named

LEMMA ClipIsCue == ASSUME NEW c, IsClip(c) PROVE IsCue(c)
BY DEF IsClip, IsCue

(* What is on a locked track stays, when no clip of one comes or goes.     *)
LEMMA SparedWhen ==
  ASSUME NEW s, NEW r, r.tracks = s.tracks,
         \A t \in DOMAIN s.tracks : s.tracks[t].locked => OnTrack(r, t) = OnTrack(s, t)
  PROVE  Spared(s, r)
BY DEF Spared, Placement

LEMMA KeyedWhen ==
  ASSUME NEW s, Keyed(s), NEW r, IsCut(r), r.transitions \subseteq s.transitions,
         r.captions = s.captions, \A c \in r.clips : IsClip(c) /\ Measured(c)
  PROVE  Keyed(r)
BY DEF Keyed, Unique

LEMMA InsertedIs ==
  ASSUME NEW s, Keyed(s), NEW op, IsClip(op.clip), Measured(op.clip), MayInsert(s, op),
         NEW r, r = Inserted(s, op)
  PROVE  Keyed(r) /\ Spared(s, r)
<1> DEFINE tr == op.clip.track
<1>0. IsCut(s) /\ \A c \in s.clips : IsClip(c) /\ Measured(c)
  BY DEF Keyed
<1>1. \A t \in DOMAIN s.tracks : s.tracks[t].locked => t # tr
  BY DEF MayInsert, Mutable
<1>2. CASE op.mode = "overwrite"
  <2> DEFINE gone == {c \in OnTrack(s, tr) : Overlap(c, op.clip)}
             rest == Without(s, gone)
  <2>1. IsCut(rest) /\ rest.tracks = s.tracks /\ rest.clips = s.clips \ gone
        /\ rest.transitions \subseteq s.transitions /\ rest.captions = s.captions
    <3> HIDE DEF gone
    <3> QED
      BY <1>0, WithoutIs
  <2> HIDE DEF rest
  <2>2. r = [rest EXCEPT !.clips = rest.clips \cup {op.clip}]
    BY <1>2 DEF Inserted, rest
  <2>3. IsCut(r) /\ r.tracks = s.tracks /\ r.clips = (s.clips \ gone) \cup {op.clip}
        /\ r.transitions \subseteq s.transitions /\ r.captions = s.captions
    <3> HIDE DEF gone
    <3> QED
      BY <2>1, <2>2, Refit
  <2>4. \A t \in DOMAIN s.tracks : s.tracks[t].locked => OnTrack(r, t) = OnTrack(s, t)
    BY <1>1, <2>3 DEF OnTrack
  <2> QED
    BY <1>0, <2>3, <2>4, SparedWhen, KeyedWhen
<1>3. CASE op.mode # "overwrite"
  <2> DEFINE Put(c) == IF c.track = tr /\ c.start >= op.clip.start
                       THEN [c EXCEPT !.start = @ + op.clip.dur] ELSE c
  <2>1. r = [s EXCEPT !.clips = {Put(c) : c \in s.clips} \cup {op.clip}]
    BY <1>3 DEF Inserted
  <2>2. \A c \in s.clips : IsClip(Put(c)) /\ Measured(Put(c)) /\ Put(c).track = c.track
                           /\ (c.track # tr => Put(c) = c)
    <3> SUFFICES ASSUME NEW c \in s.clips
                 PROVE  IsClip(Put(c)) /\ Measured(Put(c)) /\ Put(c).track = c.track
                        /\ (c.track # tr => Put(c) = c)
      OBVIOUS
    <3>1. IsClip(c) /\ IsCue(c) /\ Measured(c)
      BY <1>0, ClipIsCue
    <3>2. PICK d : d = [c EXCEPT !.start = @ + op.clip.dur]
      OBVIOUS
    <3>3. IsClip(d) /\ d.track = c.track /\ Measured(d)
      <4>1. c.start + op.clip.dur \in Nat /\ d = [c EXCEPT !.start = c.start + op.clip.dur]
        BY <3>1, <3>2 DEF Measured
      <4> QED
        BY <3>1, <4>1, LaterIs, LaterShows
    <3> QED
      BY <3>1, <3>2, <3>3
  <2> HIDE DEF Put
  <2>3. IsCut(r) /\ r.tracks = s.tracks /\ r.clips = {Put(c) : c \in s.clips} \cup {op.clip}
        /\ r.transitions = s.transitions /\ r.captions = s.captions
    BY <1>0, <2>1, Refit
  <2>4. \A t \in DOMAIN s.tracks : s.tracks[t].locked => OnTrack(r, t) = OnTrack(s, t)
    BY <1>1, <2>2, <2>3 DEF OnTrack
  <2>5. \A c \in r.clips : IsClip(c) /\ Measured(c)
    BY <2>2, <2>3
  <2> QED
    BY <2>3, <2>4, <2>5, SparedWhen, KeyedWhen
<1> QED
  BY <1>2, <1>3

LEMMA RemovedIs ==
  ASSUME NEW s, Keyed(s), NEW op, HoldsClip(s, op.id), NEW r, r = ClipRemoved(s, op)
  PROVE  Keyed(r) /\ Spared(s, r) /\ ShowsLess(s, r)
<1> DEFINE gone == Named(s, op.id)
           rest == Without(s, {gone})
<1>0. IsCut(s) /\ (\A c \in s.clips : IsClip(c) /\ Measured(c)) /\ gone \in s.clips
      /\ Mutable(s, gone.track)
  BY NamedIs DEF Keyed, HoldsClip
<1> HIDE DEF gone
<1>1. \A t \in DOMAIN s.tracks : s.tracks[t].locked => t # gone.track
  BY <1>0 DEF Mutable
<1>2. IsCut(rest) /\ rest.tracks = s.tracks /\ rest.clips = s.clips \ {gone}
      /\ rest.transitions \subseteq s.transitions /\ rest.captions = s.captions
  BY <1>0, WithoutIs
<1> HIDE DEF rest
<1>3. CASE ~op.ripple
  <2>1. r = rest
    BY <1>3 DEF ClipRemoved, rest, gone
  <2>2. \A t \in DOMAIN s.tracks : s.tracks[t].locked => OnTrack(r, t) = OnTrack(s, t)
    BY <1>1, <1>2, <2>1 DEF OnTrack
  <2>3. ShowsLess(s, r)
    BY <1>2, <2>1, FewerShow
  <2> QED
    BY <1>0, <1>2, <2>1, <2>2, <2>3, SparedWhen, KeyedWhen
<1>4. CASE op.ripple
  <2> DEFINE Put(c) == IF c.track = gone.track /\ c.start >= Ends(gone)
                       THEN [c EXCEPT !.start = @ - gone.dur] ELSE c
  <2>1. r = [rest EXCEPT !.clips = {Put(c) : c \in rest.clips}]
    BY <1>4 DEF ClipRemoved, rest, gone
  <2>2. \A c \in s.clips : /\ IsClip(Put(c)) /\ Measured(Put(c)) /\ SameTicks(c, Put(c))
                           /\ Put(c).track = c.track /\ (c.track # gone.track => Put(c) = c)
    <3> SUFFICES ASSUME NEW c \in s.clips
                 PROVE  /\ IsClip(Put(c)) /\ Measured(Put(c)) /\ SameTicks(c, Put(c))
                        /\ Put(c).track = c.track /\ (c.track # gone.track => Put(c) = c)
      OBVIOUS
    <3>1. IsClip(c) /\ IsCue(c) /\ Measured(c) /\ Measured(gone) /\ SameTicks(c, c)
      BY <1>0, ClipIsCue DEF SameTicks
    <3>2. PICK v : v = c.start - gone.dur
      OBVIOUS
    <3>3. PICK d : d = [c EXCEPT !.start = v]
      OBVIOUS
    <3>4. IsClip(d) /\ d.track = c.track /\ SameTicks(c, d) /\ (v \in Nat => Measured(d))
      BY <3>1, <3>3, LaterIs, LaterShows
    <3>5. c.start >= Ends(gone) => v \in Nat
      BY <3>1, <3>2 DEF Measured, Ends
    <3> QED
      BY <3>1, <3>2, <3>3, <3>4, <3>5
  <2> HIDE DEF Put
  <2>3. IsCut(r) /\ r.tracks = s.tracks /\ r.clips = {Put(c) : c \in s.clips \ {gone}}
        /\ r.transitions \subseteq s.transitions /\ r.captions = s.captions
    <3> DEFINE C == {Put(c) : c \in rest.clips}
    <3>1. C = {Put(c) : c \in s.clips \ {gone}}
      BY <1>2
    <3>2. r = [rest EXCEPT !.clips = C]
      BY <2>1
    <3> HIDE DEF C
    <3>3. IsCut(r) /\ r.tracks = rest.tracks /\ r.clips = C /\ r.transitions = rest.transitions
          /\ r.captions = rest.captions
      BY <1>2, <3>2, Refit
    <3> QED
      BY <1>2, <3>1, <3>3
  <2>4. \A t \in DOMAIN s.tracks : s.tracks[t].locked => OnTrack(r, t) = OnTrack(s, t)
    BY <1>1, <2>2, <2>3 DEF OnTrack
  <2>5. \A c \in r.clips : IsClip(c) /\ Measured(c)
    BY <2>2, <2>3
  <2>6. ShowsLess(s, r)
    <3> SUFFICES ASSUME NEW source, NEW t \in Int, NEW c \in r.clips, NEW d \in r.clips, c # d,
                        Shows(c, source, t), Shows(d, source, t)
                 PROVE  ShownTwice(s, source, t)
      BY DEF ShowsLess, ShownTwice
    <3>1. PICK e \in s.clips, f \in s.clips : c = Put(e) /\ d = Put(f)
      BY <2>3
    <3>2. ShowsIn(c, e) /\ ShowsIn(d, f)
      BY <2>2, <3>1, SameIsWithin
    <3> QED
      BY <3>1, <3>2 DEF ShownTwice, ShowsIn
  <2> QED
    BY <2>3, <2>4, <2>5, <2>6, SparedWhen, KeyedWhen
<1> QED
  BY <1>3, <1>4

LEMMA SliceIs ==
  ASSUME NEW c, IsClip(c), NEW from, NEW to, NEW side, NEW d, d = SliceOf(c, from, to, side)
  PROVE  IsClip(d) /\ d.track = c.track
<1> DEFINE one == [c EXCEPT !.id = Append(@, side)]
           two == [one EXCEPT !.start = from]
           three == [two EXCEPT !.dur = to - from]
<1>1. IsClip(one) /\ one.track = c.track
  BY DEF IsClip
<1> HIDE DEF one
<1>2. IsClip(two) /\ two.track = c.track
  BY <1>1 DEF IsClip
<1> HIDE DEF two
<1>3. IsClip(three) /\ three.track = c.track
  BY <1>2 DEF IsClip
<1>4. three = [c EXCEPT !.id = Append(@, side), !.start = from, !.dur = to - from]
  BY DEF one, two
<1> HIDE DEF three
<1>5. d = three \/ \E v, w : d = [three EXCEPT !.tick = v, !.ticks = w]
  BY <1>4 DEF SliceOf
<1>6. ASSUME NEW v, NEW w, d = [three EXCEPT !.tick = v, !.ticks = w]
      PROVE  IsClip(d) /\ d.track = c.track
  <2> DEFINE four == [three EXCEPT !.tick = v]
  <2>1. IsClip(four) /\ four.track = c.track
    BY <1>3 DEF IsClip
  <2>2. d = [four EXCEPT !.ticks = w]
    BY <1>6
  <2> HIDE DEF four
  <2> QED
    BY <2>1, <2>2 DEF IsClip
<1> QED
  BY <1>3, <1>5, <1>6

(* A slice shows ticks of its clip, those between its two ends.            *)
LEMMA SliceShows ==
  ASSUME NEW c, IsClip(c), Measured(c), NEW from \in Nat, NEW to \in Nat, NEW side,
         c.start <= from, from < to, to <= Ends(c), NEW d, d = SliceOf(c, from, to, side)
  PROVE  Measured(d) /\ ShowsIn(d, c) /\ d.start = from /\ (Timed(d) <=> Timed(c))
<1>0. c.start \in Nat /\ c.dur \in Nat \ {0} /\ c.tick \in Nat /\ c.ticks \in Nat
  BY DEF Measured
<1>1. PICK x, y : x = from - c.start /\ y = to - c.start
  OBVIOUS
<1>2. x \in Nat /\ y \in Nat /\ x <= y /\ y <= c.dur /\ to - from \in Nat \ {0}
  BY <1>0, <1>1 DEF Ends
<1>3. PICK first, last : first = TickAt(c, x) /\ last = TickAt(c, y)
  OBVIOUS
<1>4. first \in Nat /\ last \in Nat /\ first <= last /\ last <= c.ticks
  BY <1>0, <1>2, <1>3, TickAtGrows
<1>5. PICK one : one = [c EXCEPT !.id = Append(@, side), !.start = from, !.dur = to - from]
  OBVIOUS
<1>6. /\ IsClip(one) /\ one.start = from /\ one.dur = to - from /\ one.tick = c.tick
      /\ one.ticks = c.ticks /\ one.source = c.source /\ one.stream = c.stream
  BY <1>5 DEF IsClip
<1>7. CASE ~Timed(c)
  <2>1. d = one
    BY <1>5, <1>7 DEF SliceOf
  <2> QED
    BY <1>0, <1>2, <1>6, <1>7, <2>1 DEF Measured, ShowsIn, Shows, Timed
<1>8. CASE Timed(c)
  <2>1. d = [one EXCEPT !.tick = @ + first, !.ticks = last - first]
    BY <1>1, <1>3, <1>5, <1>8 DEF SliceOf
  <2>2. /\ d.start = from /\ d.dur = to - from /\ d.tick = c.tick + first
        /\ d.ticks = last - first /\ d.source = c.source /\ d.stream = c.stream
    BY <1>6, <2>1 DEF IsClip
  <2>3. Measured(d)
    BY <1>0, <1>2, <1>4, <2>2 DEF Measured
  <2>4. ASSUME NEW source, NEW t \in Int, Shows(d, source, t) PROVE Shows(c, source, t)
    <3>1. c.source = source /\ d.tick <= t /\ t < d.tick + d.ticks
      BY <2>2, <2>4 DEF Shows
    <3>2. c.tick <= t /\ t < c.tick + c.ticks
      BY <1>0, <1>4, <2>2, <3>1
    <3> QED
      BY <1>8, <3>1, <3>2 DEF Shows
  <2> QED
    BY <1>8, <2>2, <2>3, <2>4 DEF ShowsIn, Timed
<1> QED
  BY <1>7, <1>8

LEMMA RangeRemovedIs ==
  ASSUME NEW s, Keyed(s), NEW op, \A t \in op.tracks : Mutable(s, t),
         op.start \in Nat, op.dur \in Nat \ {0}, NEW r, r = RangeRemoved(s, op)
  PROVE  Keyed(r) /\ Spared(s, r) /\ ShowsLess(s, r)
<1> DEFINE end == op.start + op.dur
           hit(c) == c.track \in op.tracks /\ Overlap(c, op)
           back(c) == IF op.ripple THEN [c EXCEPT !.start = @ - op.dur] ELSE c
           put(c) == IF c.track \in op.tracks /\ c.start >= end THEN back(c) ELSE c
           pieces(c) ==
             (IF c.start < op.start THEN {SliceOf(c, c.start, op.start, "left")} ELSE {})
             \cup (IF Ends(c) > end THEN {back(SliceOf(c, end, Ends(c), "right"))} ELSE {})
           cutClips == {c \in s.clips : hit(c)}
           rest == Without(s, cutClips)
<1>0. IsCut(s) /\ (\A c \in s.clips : IsClip(c) /\ Measured(c)) /\ (\A c \in s.captions : IsCue(c)) /\ Unique(s)
  BY DEF Keyed
<1>1. \A t \in DOMAIN s.tracks : s.tracks[t].locked => t \notin op.tracks
  BY DEF Mutable
<1>2. r = [rest EXCEPT !.clips = {put(c) : c \in @} \cup UNION {pieces(c) : c \in cutClips},
                       !.captions = {put(c) : c \in @}]
  BY DEF RangeRemoved
<1>3. IsCut(rest) /\ rest.tracks = s.tracks /\ rest.clips = s.clips \ cutClips
      /\ rest.transitions \subseteq s.transitions /\ rest.captions = s.captions
  <2> HIDE DEF cutClips
  <2> QED
    BY <1>0, WithoutIs
<1>4. \A c : IsCue(c) => /\ IsCue(back(c)) /\ back(c).id = c.id /\ back(c).track = c.track
                         /\ (IsClip(c) => IsClip(back(c)))
  <2> SUFFICES ASSUME NEW c, IsCue(c)
               PROVE  /\ IsCue(back(c)) /\ back(c).id = c.id /\ back(c).track = c.track
                      /\ (IsClip(c) => IsClip(back(c)))
    OBVIOUS
  <2>1. PICK v : v = c.start - op.dur
    OBVIOUS
  <2>2. PICK d : d = [c EXCEPT !.start = v]
    OBVIOUS
  <2>3. IsCue(d) /\ d.id = c.id /\ d.track = c.track /\ (IsClip(c) => IsClip(d))
    BY <2>2, LaterIs
  <2> QED
    BY <2>1, <2>2, <2>3
<1>5. \A c \in s.clips : \A p \in pieces(c) : IsClip(p) /\ p.track = c.track
  <2> SUFFICES ASSUME NEW c \in s.clips, NEW p \in pieces(c) PROVE IsClip(p) /\ p.track = c.track
    OBVIOUS
  <2>1. PICK a, b : a = SliceOf(c, c.start, op.start, "left") /\ b = SliceOf(c, end, Ends(c), "right")
    OBVIOUS
  <2>2. IsClip(a) /\ a.track = c.track /\ IsClip(b) /\ b.track = c.track
    BY <1>0, <2>1, SliceIs
  <2>3. IsClip(back(b)) /\ back(b).track = c.track
    <3> HIDE DEF back
    <3> QED
      BY <1>4, <2>2, ClipIsCue
  <2>4. p = a \/ p = back(b)
    <3> HIDE DEF back, end
    <3> QED
      BY <2>1
  <2> QED
    <3> HIDE DEF back, pieces
    <3> QED
      BY <2>2, <2>3, <2>4
<1>6. \A c : IsCue(c) => /\ IsCue(put(c)) /\ put(c).id = c.id /\ put(c).track = c.track
                         /\ (IsClip(c) => IsClip(put(c)))
                         /\ (c.track \notin op.tracks => put(c) = c)
  <2> HIDE DEF back
  <2> QED
    BY <1>4
<1> DEFINE Of(d, c) == /\ ShowsIn(d, c) /\ Measured(d)
                       /\ (c \in cutClips => d \in pieces(c)) /\ (c \notin cutClips => d = put(c))
<1>14. \A c \in s.clips \ cutClips : Of(put(c), c)
  <2> SUFFICES ASSUME NEW c \in s.clips \ cutClips PROVE ShowsIn(put(c), c) /\ Measured(put(c))
    OBVIOUS
  <2>1. IsClip(c) /\ Measured(c) /\ SameTicks(c, c)
    BY <1>0 DEF SameTicks
  <2>2. PICK v : v = c.start - op.dur
    OBVIOUS
  <2>3. PICK d : d = [c EXCEPT !.start = v]
    OBVIOUS
  <2>4. SameTicks(c, d) /\ (v \in Nat => Measured(d))
    BY <2>1, <2>3, LaterShows
  <2>5. c.start >= end => v \in Nat
    BY <2>1, <2>2 DEF Measured
  <2>6. put(c) = c \/ (put(c) = d /\ c.start >= end)
    BY <2>2, <2>3
  <2> QED
    BY <2>1, <2>4, <2>5, <2>6, SameIsWithin
<1>15. ASSUME NEW c \in cutClips
       PROVE  /\ \A p \in pieces(c) : Of(p, c)
              /\ \A p, q \in pieces(c) : p # q => ShareNone(p, q)
  <2>0. /\ c \in s.clips /\ IsClip(c) /\ Measured(c) /\ c.start < end /\ op.start < Ends(c)
        /\ c.start \in Nat /\ c.dur \in Nat \ {0} /\ c.tick \in Nat /\ c.ticks \in Nat
    BY <1>0 DEF Overlap, Ends, Measured
  <2>1. end \in Nat /\ op.start < end /\ Ends(c) \in Nat
    BY <2>0 DEF Ends
  <2>2. PICK a : a = SliceOf(c, c.start, op.start, "left")
    OBVIOUS
  <2>3. PICK b : b = SliceOf(c, end, Ends(c), "right")
    OBVIOUS
  <2>4. c.start < op.start => Measured(a) /\ ShowsIn(a, c) /\ (Timed(a) <=> Timed(c))
    <3> HIDE DEF end
    <3> QED
      BY <2>0, <2>1, <2>2, SliceShows
  <2>5. end < Ends(c) => Measured(b) /\ ShowsIn(b, c) /\ b.start = end /\ (Timed(b) <=> Timed(c))
    <3> HIDE DEF end
    <3> QED
      BY <2>0, <2>1, <2>3, SliceShows
  <2>6. IsClip(b)
    BY <2>0, <2>3, SliceIs
  <2>7. PICK w : w = b.start - op.dur
    OBVIOUS
  <2>8. PICK d : d = [b EXCEPT !.start = w]
    OBVIOUS
  <2>9. SameTicks(b, d) /\ (Measured(b) /\ w \in Nat => Measured(d))
    BY <2>6, <2>8, LaterShows
  <2>10. PICK e : e = back(b)
    OBVIOUS
  <2>11. e = b \/ e = d
    BY <2>7, <2>8, <2>10
  <2>12. SameTicks(b, e) /\ (end < Ends(c) => Measured(e) /\ ShowsIn(e, c))
    <3>1. end < Ends(c) => w \in Nat
      BY <2>5, <2>7
    <3>2. SameTicks(b, b)
      BY DEF SameTicks
    <3>3. SameTicks(b, e) /\ (end < Ends(c) => Measured(e))
      BY <2>5, <2>9, <2>11, <3>1, <3>2
    <3> QED
      BY <2>5, <3>3, SameIsWithin DEF ShowsIn
  <2>13. \A p : p \in pieces(c) <=> (c.start < op.start /\ p = a) \/ (end < Ends(c) /\ p = e)
    <3>1. Ends(c) > end <=> end < Ends(c)
      BY <2>1
    <3> HIDE DEF back, end
    <3> QED
      BY <2>2, <2>3, <2>10, <3>1
  <2> HIDE DEF pieces, back
  <2>14. c.start < op.start /\ end < Ends(c) => ShareNone(a, e)
    <3> SUFFICES ASSUME c.start < op.start, end < Ends(c) PROVE ShareNone(a, e)
      OBVIOUS
    <3>1. CASE Timed(c)
      <4>1. /\ a.tick = c.tick /\ a.ticks \in Nat /\ b.ticks \in Nat
            /\ a.tick + a.ticks <= b.tick
            /\ b.tick + b.ticks = c.tick + c.ticks
        <5>1. op.start <= end /\ end <= Ends(c) /\ c.start <= op.start
          BY <2>0, <2>1
        <5> HIDE DEF end
        <5> QED
          BY <2>0, <2>1, <2>2, <2>3, <3>1, <5>1, CutsShareNoTick
      <4>2. e.tick = b.tick
        BY <2>12 DEF SameTicks
      <4>3. a.tick \in Nat /\ b.tick \in Nat
        BY <2>4, <2>5 DEF Measured
      <4>4. ASSUME NEW source, NEW t \in Int, Shows(a, source, t), Shows(e, source, t) PROVE FALSE
        <5>1. t < a.tick + a.ticks /\ b.tick <= t
          BY <4>2, <4>4 DEF Shows
        <5> QED
          BY <4>1, <4>3, <5>1
      <4> QED
        BY <4>4 DEF ShareNone
    <3>2. CASE ~Timed(c)
      BY <2>4, <3>2 DEF ShareNone, Shows
    <3> QED
      BY <3>1, <3>2
  <2>15. ShareNone(a, e) => ShareNone(e, a)
    BY DEF ShareNone
  <2> QED
    BY <2>4, <2>12, <2>13, <2>14, <2>15
<1> DEFINE C == {put(c) : c \in rest.clips} \cup UNION {pieces(c) : c \in cutClips}
           D == {put(c) : c \in rest.captions}
<1>7. r = [rest EXCEPT !.clips = C, !.captions = D]
  BY <1>2
<1> HIDE DEF back, put, pieces, rest, end
<1>16. \A d \in C : IsClip(d) /\ \E c \in s.clips : Of(d, c)
  <2> SUFFICES ASSUME NEW d \in C PROVE IsClip(d) /\ \E c \in s.clips : Of(d, c)
    OBVIOUS
  <2>1. CASE d \in {put(c) : c \in rest.clips}
    <3>1. PICK c \in s.clips \ cutClips : d = put(c)
      BY <1>3, <2>1
    <3>2. IsClip(d)
      BY <1>0, <1>6, <3>1, ClipIsCue
    <3>3. Of(d, c)
      <4> HIDE DEF Of
      <4> QED
        BY <1>14, <3>1
    <3> QED
      BY <3>2, <3>3
  <2>2. CASE d \in UNION {pieces(c) : c \in cutClips}
    <3>1. PICK c \in cutClips : d \in pieces(c)
      BY <2>2
    <3>2. IsClip(d)
      BY <1>5, <3>1
    <3>3. Of(d, c)
      <4> HIDE DEF Of
      <4> QED
        BY <1>15, <3>1
    <3> QED
      BY <3>2, <3>3
  <2> QED
    BY <2>1, <2>2
<1>8. \A c \in C : IsClip(c) /\ Measured(c)
  BY <1>16
<1>17. ASSUME NEW d \in C, NEW e \in C, d # e, ~ShareNone(d, e)
       PROVE  \E a, b \in s.clips : a # b /\ ShowsIn(d, a) /\ ShowsIn(e, b)
  <2>1. PICK a \in s.clips : Of(d, a)
    BY <1>16
  <2>2. PICK b \in s.clips : Of(e, b)
    BY <1>16
  <2>3. a # b
    <3>1. CASE a \in cutClips
      BY <1>15, <1>17, <2>1, <2>2, <3>1
    <3>2. CASE a \notin cutClips
      BY <1>17, <2>1, <2>2, <3>2
    <3> QED
      BY <3>1, <3>2
  <2> QED
    BY <2>1, <2>2, <2>3
<1>9. \A t \in DOMAIN s.tracks : s.tracks[t].locked => \A c : c \in C /\ c.track = t <=> c \in s.clips /\ c.track = t
  <2> SUFFICES ASSUME NEW t \in DOMAIN s.tracks, s.tracks[t].locked, NEW c
               PROVE  c \in C /\ c.track = t <=> c \in s.clips /\ c.track = t
    OBVIOUS
  <2>0. t \notin op.tracks
    BY <1>1
  <2>1. ASSUME c \in C, c.track = t PROVE c \in s.clips
    <3>1. CASE c \in {put(d) : d \in rest.clips}
      <4>1. PICK d \in rest.clips : c = put(d)
        BY <3>1
      <4>2. d \in s.clips /\ IsCue(d)
        BY <1>0, <1>3, <4>1, ClipIsCue
      <4> QED
        BY <1>6, <2>0, <2>1, <4>1, <4>2
    <3>2. CASE c \in UNION {pieces(d) : d \in cutClips}
      <4>1. PICK d \in cutClips : c \in pieces(d)
        BY <3>2
      <4> QED
        BY <1>5, <2>0, <2>1, <4>1
    <3> QED
      BY <2>1, <3>1, <3>2
  <2>2. ASSUME c \in s.clips, c.track = t PROVE c \in C
    <3>1. c \in rest.clips /\ IsCue(c)
      BY <1>0, <1>3, <2>0, <2>2, ClipIsCue
    <3>2. put(c) = c
      BY <1>6, <2>0, <2>2, <3>1
    <3> QED
      BY <3>1, <3>2
  <2> QED
    BY <2>1, <2>2
<1>10. /\ \A c \in D : IsCue(c)
       /\ \A c, d \in D : c.id = d.id => c = d
  <2>1. \A c \in D : IsCue(c)
    BY <1>0, <1>3, <1>6
  <2>2. ASSUME NEW c \in D, NEW d \in D, c.id = d.id PROVE c = d
    <3>1. PICK a \in s.captions, b \in s.captions : c = put(a) /\ d = put(b)
      BY <1>3
    <3>2. a.id = b.id
      BY <1>0, <1>6, <2>2, <3>1
    <3> QED
      BY <1>0, <3>1, <3>2 DEF Unique
  <2> QED
    BY <2>1, <2>2
<1> HIDE DEF C, D, cutClips, Of
<1>11. IsCut(r) /\ r.tracks = s.tracks /\ r.clips = C /\ r.captions = D
       /\ r.transitions \subseteq s.transitions
  BY <1>3, <1>7 DEF IsCut
<1>12. Unique(r)
  BY <1>0, <1>10, <1>11 DEF Unique
<1>13. \A t \in DOMAIN s.tracks : s.tracks[t].locked => OnTrack(r, t) = OnTrack(s, t)
  BY <1>9, <1>11 DEF OnTrack
<1>18. ShowsLess(s, r)
  BY <1>11, <1>17, ParentsShow
<1> QED
  BY <1>8, <1>10, <1>11, <1>12, <1>13, <1>18, SparedWhen DEF Keyed

LEMMA MovedIs ==
  ASSUME NEW s, Keyed(s), NEW op, MayMove(s, op), op.start \in Nat, NEW r, r = Moved(s, op)
  PROVE  Keyed(r) /\ Spared(s, r) /\ ShowsLess(s, r)
<1>1. PICK c : c = Named(s, op.id)
  OBVIOUS
<1>2. PICK d : d = [c EXCEPT !.track = op.track, !.start = op.start]
  OBVIOUS
<1>3. IsCut(s) /\ (\A x \in s.clips : IsClip(x) /\ Measured(x)) /\ c \in s.clips
      /\ Mutable(s, c.track) /\ Mutable(s, op.track)
  BY <1>1, NamedIs DEF Keyed, MayMove, HoldsClip
<1>4. r = Swap(s, c, {d})
  BY <1>1, <1>2 DEF Moved
<1>5. IsClip(d) /\ d.track = op.track /\ d.start = op.start /\ d.dur = c.dur /\ SameTicks(c, d)
  BY <1>2, <1>3 DEF IsClip, SameTicks
<1>6. IsCut(r) /\ r.tracks = s.tracks /\ r.clips = (s.clips \ {c}) \cup {d}
      /\ r.transitions = s.transitions /\ r.captions = s.captions
  BY <1>3, <1>4, SwapIs
<1>7. \A t \in DOMAIN s.tracks : s.tracks[t].locked => OnTrack(r, t) = OnTrack(s, t)
  BY <1>3, <1>5, <1>6 DEF OnTrack, Mutable
<1>8. Measured(d)
  BY <1>3, <1>5 DEF Measured, SameTicks
<1>9. ShowsLess(s, r)
  BY <1>3, <1>5, <1>6, SameIsWithin, SwapShows
<1> QED
  BY <1>3, <1>5, <1>6, <1>7, <1>8, <1>9, SparedWhen, KeyedWhen

LEMMA LesserIs ==
  ASSUME NEW x \in Nat, NEW y \in Nat, NEW m, m = Min({x, y})
  PROVE  m \in Nat /\ m <= x /\ m <= y
<1>1. \E v \in {x, y} : \A w \in {x, y} : v <= w
  OBVIOUS
<1> QED
  BY <1>1 DEF Min

LEMMA TrimmedIs ==
  ASSUME NEW s, Keyed(s), NEW op, MayTrim(s, op), op.start \in Nat, op.dur \in Nat \ {0},
         NamesRange(op) => op.range.tick \in Nat /\ op.range.ticks \in Nat,
         NEW r, r = Trimmed(s, op)
  PROVE  Keyed(r) /\ Spared(s, r) /\ (~NamesRange(op) => ShowsLess(s, r))
<1>1. PICK c : c = Named(s, op.id)
  OBVIOUS
<1>2. PICK u, v : /\ u = (IF NamesRange(op) THEN op.range.tick ELSE c.tick)
                  /\ v = (IF NamesRange(op) THEN op.range.ticks
                          ELSE IF Timed(c) THEN Min({c.ticks, op.dur}) ELSE c.ticks)
  OBVIOUS
<1>3. PICK d : d = [c EXCEPT !.start = op.start, !.dur = op.dur, !.tick = u, !.ticks = v]
  OBVIOUS
<1>4. IsCut(s) /\ (\A x \in s.clips : IsClip(x) /\ Measured(x)) /\ c \in s.clips
      /\ Mutable(s, c.track)
  BY <1>1, NamedIs DEF Keyed, MayTrim, HoldsClip
<1>5. r = Swap(s, c, {d})
  <2>1. PICK one : one = [c EXCEPT !.start = op.start, !.dur = op.dur]
    OBVIOUS
  <2>2. IsClip(one) /\ one.tick = c.tick /\ one.ticks = c.ticks /\ (Timed(one) <=> Timed(c))
    BY <1>4, <2>1 DEF IsClip, Timed
  <2>3. CASE NamesRange(op)
    <3>1. d = [one EXCEPT !.tick = op.range.tick, !.ticks = op.range.ticks]
      BY <1>2, <1>3, <2>1, <2>3
    <3> QED
      BY <1>1, <2>1, <2>3, <3>1 DEF Trimmed
  <2>4. CASE ~NamesRange(op)
    <3>1. d = [one EXCEPT !.tick = c.tick, !.ticks = v]
      BY <1>2, <1>3, <2>1, <2>4
    <3>2. one = [k \in DOMAIN one |-> one[k]]
      BY <2>1
    <3>3. d = [one EXCEPT !.ticks = v]
      BY <2>2, <3>1, <3>2
    <3>4. CASE Timed(c)
      <4>1. d = [one EXCEPT !.ticks = Min({@, op.dur})]
        BY <1>2, <2>2, <2>4, <3>3, <3>4
      <4> QED
        BY <1>1, <2>1, <2>4, <3>4, <4>1 DEF Trimmed
    <3>5. CASE ~Timed(c)
      <4>1. d = one
        BY <1>2, <2>2, <2>4, <3>2, <3>3, <3>5
      <4> QED
        BY <1>1, <2>1, <2>4, <3>5, <4>1 DEF Trimmed
    <3> QED
      BY <3>4, <3>5
  <2> QED
    BY <2>3, <2>4
<1>6. /\ IsClip(d) /\ d.track = c.track /\ d.start = op.start /\ d.dur = op.dur
      /\ d.tick = u /\ d.ticks = v /\ d.source = c.source /\ d.stream = c.stream
  BY <1>3, <1>4 DEF IsClip
<1>7. IsCut(r) /\ r.tracks = s.tracks /\ r.clips = (s.clips \ {c}) \cup {d}
      /\ r.transitions = s.transitions /\ r.captions = s.captions
  BY <1>4, <1>5, SwapIs
<1>8. \A t \in DOMAIN s.tracks : s.tracks[t].locked => OnTrack(r, t) = OnTrack(s, t)
  BY <1>4, <1>6, <1>7 DEF OnTrack, Mutable
<1>9. u \in Nat /\ v \in Nat /\ (~NamesRange(op) => u = c.tick /\ v <= c.ticks)
  <2>1. c.tick \in Nat /\ c.ticks \in Nat
    BY <1>4 DEF Measured
  <2>2. PICK m : m = Min({c.ticks, op.dur})
    OBVIOUS
  <2>3. m \in Nat /\ m <= c.ticks
    BY <2>1, <2>2, LesserIs
  <2> QED
    BY <1>2, <2>1, <2>2, <2>3
<1>10. Measured(d)
  BY <1>6, <1>9 DEF Measured
<1>11. ~NamesRange(op) => ShowsLess(s, r)
  <2> SUFFICES ASSUME ~NamesRange(op) PROVE ShowsLess(s, r)
    OBVIOUS
  <2>1. ASSUME NEW source, NEW t \in Int, Shows(d, source, t) PROVE Shows(c, source, t)
    <3>1. c.tick <= t /\ t < c.tick + v /\ c.source = source /\ Timed(c)
      BY <1>6, <1>9, <2>1 DEF Shows, Timed
    <3>2. c.tick \in Nat /\ c.ticks \in Nat
      BY <1>4 DEF Measured
    <3>3. t < c.tick + c.ticks
      BY <1>9, <3>1, <3>2
    <3> QED
      BY <3>1, <3>3 DEF Shows
  <2>2. ShowsIn(d, c)
    BY <2>1 DEF ShowsIn
  <2> QED
    BY <1>4, <1>7, <2>2, SwapShows
<1> QED
  BY <1>4, <1>6, <1>7, <1>8, <1>10, <1>11, SparedWhen, KeyedWhen

(* A split shows each tick of the clip once: its parts are adjacent, none  *)
(* is empty, and together they are the clip.                               *)
THEOREM SplitsShareNoTick ==
  ASSUME NEW s, Keyed(s), NEW op, MaySplit(s, op), NEW c, c = Named(s, op.id), Timed(c),
         c.start \in Nat, c.dur \in Nat \ {0}, c.tick \in Nat, c.ticks \in Nat, op.at \in Nat
  PROVE  \E left, right :
           /\ SplitParts(c, op) = {left, right}
           /\ left.tick = c.tick /\ left.ticks \in Nat \ {0} /\ right.ticks \in Nat \ {0}
           /\ left.tick + left.ticks = right.tick
           /\ right.tick + right.ticks = c.tick + c.ticks
<1>1. PICK m : m = TickAt(c, op.at - c.start)
  OBVIOUS
<1>2. m > 0 /\ c.ticks - m > 0 /\ c.start < op.at /\ op.at < Ends(c)
  BY <1>1 DEF MaySplit
<1>3. m \in Nat
  <2>1. PICK x : x = op.at - c.start
    OBVIOUS
  <2>2. x \in Nat /\ x <= c.dur
    BY <1>2, <2>1 DEF Ends
  <2> QED
    BY <1>1, <2>1, <2>2, TickAtGrows
<1>4. IsClip(c)
  BY NamedIs DEF MaySplit, HoldsClip, Keyed
<1>5. PICK left : left = [c EXCEPT !.id = op.left, !.dur = op.at - c.start, !.ticks = m]
  OBVIOUS
<1>6. PICK right : right = [c EXCEPT !.id = op.right, !.start = op.at, !.dur = Ends(c) - op.at,
                                     !.tick = c.tick + m, !.ticks = c.ticks - m]
  OBVIOUS
<1>7. SplitParts(c, op) = {left, right}
  BY <1>1, <1>5, <1>6 DEF SplitParts
<1>8. left.tick = c.tick /\ left.ticks = m
  BY <1>4, <1>5 DEF IsClip
<1>9. right.tick = c.tick + m /\ right.ticks = c.ticks - m
  BY <1>4, <1>6 DEF IsClip
<1>10. /\ left.tick = c.tick /\ left.ticks \in Nat \ {0} /\ right.ticks \in Nat \ {0}
       /\ left.tick + left.ticks = right.tick
       /\ right.tick + right.ticks = c.tick + c.ticks
  BY <1>2, <1>3, <1>8, <1>9
<1> QED
  BY <1>7, <1>10

LEMMA SplitIs ==
  ASSUME NEW s, Keyed(s), NEW op, MaySplit(s, op), op.at \in Nat, NEW r, r = SplitDone(s, op)
  PROVE  Keyed(r) /\ Spared(s, r) /\ ShowsLess(s, r)
<1>1. PICK c : c = Named(s, op.id)
  OBVIOUS
<1>2. IsCut(s) /\ (\A x \in s.clips : IsClip(x) /\ Measured(x)) /\ c \in s.clips
      /\ Mutable(s, c.track)
  BY <1>1, NamedIs DEF Keyed, MaySplit, HoldsClip
<1>3. PICK left : left = TickAt(c, op.at - c.start)
  OBVIOUS
<1>4. PICK u, v, w : /\ u = (IF Timed(c) THEN left ELSE c.ticks)
                     /\ v = (IF Timed(c) THEN c.tick + left ELSE c.tick)
                     /\ w = (IF Timed(c) THEN c.ticks - left ELSE c.ticks)
  OBVIOUS
<1>5. PICK a, b : /\ a = [c EXCEPT !.id = op.left, !.dur = op.at - c.start, !.ticks = u]
                  /\ b = [c EXCEPT !.id = op.right, !.start = op.at, !.dur = Ends(c) - op.at,
                                   !.tick = v, !.ticks = w]
  OBVIOUS
<1>6. SplitParts(c, op) = {a, b}
  BY <1>3, <1>4, <1>5 DEF SplitParts
<1>7. /\ IsClip(a) /\ a.track = c.track /\ a.start = c.start /\ a.dur = op.at - c.start
      /\ a.tick = c.tick /\ a.ticks = u /\ a.source = c.source /\ a.stream = c.stream
  BY <1>2, <1>5 DEF IsClip
<1>8. /\ IsClip(b) /\ b.track = c.track /\ b.start = op.at /\ b.dur = Ends(c) - op.at
      /\ b.tick = v /\ b.ticks = w /\ b.source = c.source /\ b.stream = c.stream
  BY <1>2, <1>5 DEF IsClip
<1>9. c.start \in Nat /\ c.dur \in Nat \ {0} /\ c.tick \in Nat /\ c.ticks \in Nat
  BY <1>2 DEF Measured
<1>10. c.start < op.at /\ op.at < Ends(c) /\ (Timed(c) => left > 0 /\ c.ticks - left > 0)
  BY <1>1, <1>3 DEF MaySplit
<1>11. left \in Nat /\ left <= c.ticks
  <2>1. PICK x : x = op.at - c.start
    OBVIOUS
  <2>2. x \in Nat /\ x <= c.dur
    BY <1>9, <1>10, <2>1 DEF Ends
  <2> QED
    BY <1>3, <1>9, <2>1, <2>2, TickAtGrows
<1>12. u \in Nat /\ v \in Nat /\ w \in Nat
  BY <1>4, <1>9, <1>11
<1>13. Measured(a) /\ Measured(b)
  BY <1>7, <1>8, <1>9, <1>10, <1>12 DEF Measured, Ends
<1> DEFINE rest == Without(s, {c})
<1>14. IsCut(rest) /\ rest.tracks = s.tracks /\ rest.clips = s.clips \ {c}
      /\ rest.transitions \subseteq s.transitions /\ rest.captions = s.captions
  BY <1>2, WithoutIs
<1>15. r = [rest EXCEPT !.clips = rest.clips \cup {a, b}]
  BY <1>1, <1>6 DEF SplitDone
<1> HIDE DEF rest
<1>16. IsCut(r) /\ r.tracks = s.tracks /\ r.clips = (s.clips \ {c}) \cup {a, b}
      /\ r.transitions \subseteq s.transitions /\ r.captions = s.captions
  BY <1>14, <1>15, Refit
<1>17. \A t \in DOMAIN s.tracks : s.tracks[t].locked => OnTrack(r, t) = OnTrack(s, t)
  BY <1>2, <1>7, <1>8, <1>16 DEF OnTrack, Mutable
<1>18. /\ Timed(a) <=> Timed(c)
       /\ Timed(b) <=> Timed(c)
  BY <1>7, <1>8 DEF Timed
<1>19. ShowsIn(a, c) /\ ShowsIn(b, c) /\ ShareNone(a, b) /\ ShareNone(b, a)
  <2>1. ASSUME NEW source, NEW t \in Int, Shows(a, source, t)
        PROVE  Shows(c, source, t) /\ t < c.tick + left
    <3>1. Timed(c) /\ c.source = source /\ c.tick <= t /\ t < c.tick + left
      BY <1>4, <1>7, <1>18, <2>1 DEF Shows
    <3>2. t < c.tick + c.ticks
      BY <1>9, <1>11, <3>1
    <3> QED
      BY <3>1, <3>2 DEF Shows
  <2>2. ASSUME NEW source, NEW t \in Int, Shows(b, source, t)
        PROVE  Shows(c, source, t) /\ c.tick + left <= t
    <3>1. Timed(c) /\ c.source = source /\ c.tick + left <= t
          /\ t < c.tick + left + (c.ticks - left)
      BY <1>4, <1>8, <1>18, <2>2 DEF Shows
    <3>2. c.tick <= t /\ t < c.tick + c.ticks
      BY <1>9, <1>11, <3>1
    <3> QED
      BY <3>1, <3>2 DEF Shows
  <2>3. ASSUME NEW source, NEW t \in Int, Shows(a, source, t), Shows(b, source, t) PROVE FALSE
    <3>1. t < c.tick + left /\ c.tick + left <= t
      BY <2>1, <2>2, <2>3
    <3> QED
      BY <1>9, <1>11, <3>1
  <2> QED
    BY <2>1, <2>2, <2>3 DEF ShowsIn, ShareNone
<1>20. ShowsLess(s, r)
  <2>1. ASSUME NEW x \in r.clips, NEW y \in r.clips, x # y, ~ShareNone(x, y)
        PROVE  \E p, q \in s.clips : p # q /\ ShowsIn(x, p) /\ ShowsIn(y, q)
    <3>1. \A z \in r.clips : z = a \/ z = b \/ (z \in s.clips /\ z # c)
      BY <1>16
    <3>2. \A z : ShowsIn(z, z)
      BY DEF ShowsIn
    <3> QED
      BY <1>2, <1>19, <2>1, <3>1, <3>2
  <2> QED
    BY <2>1, ParentsShow
<1> QED
  BY <1>2, <1>7, <1>8, <1>13, <1>16, <1>17, <1>20, SparedWhen, KeyedWhen

LEMMA RestyledIs ==
  ASSUME NEW s, Keyed(s), NEW op, HasClip(s, op.id), NEW r, r = Restyled(s, op)
  PROVE  Keyed(r) /\ Spared(s, r) /\ ShowsLess(s, r)
<1>1. PICK c : c = Named(s, op.id)
  OBVIOUS
<1>2. PICK d : d = [c EXCEPT !.look = op.look]
  OBVIOUS
<1>3. IsCut(s) /\ (\A x \in s.clips : IsClip(x) /\ Measured(x)) /\ c \in s.clips
  BY <1>1, NamedIs DEF Keyed
<1>4. r = Swap(s, c, {d})
  BY <1>1, <1>2 DEF Restyled
<1>5. IsClip(d) /\ d.track = c.track /\ d.id = c.id /\ d.start = c.start /\ d.dur = c.dur
      /\ d.tick = c.tick /\ d.ticks = c.ticks /\ SameTicks(c, d)
  BY <1>2, <1>3 DEF IsClip, SameTicks
<1>6. IsCut(r) /\ r.tracks = s.tracks /\ r.clips = (s.clips \ {c}) \cup {d}
      /\ r.transitions = s.transitions /\ r.captions = s.captions
  BY <1>3, <1>4, SwapIs
<1>7. ASSUME NEW t PROVE Placement(r, t) = Placement(s, t)
  <2> DEFINE Where(x) == <<x.id, x.start, x.dur, x.tick, x.ticks>>
  <2>1. Where(c) = Where(d)
    BY <1>5
  <2>2. \A x \in OnTrack(r, t) : \E y \in OnTrack(s, t) : Where(x) = Where(y)
    BY <1>3, <1>5, <1>6, <2>1 DEF OnTrack
  <2>3. \A y \in OnTrack(s, t) : \E x \in OnTrack(r, t) : Where(x) = Where(y)
    BY <1>3, <1>5, <1>6, <2>1 DEF OnTrack
  <2>4. Placement(r, t) = {Where(x) : x \in OnTrack(r, t)} /\ Placement(s, t) = {Where(x) : x \in OnTrack(s, t)}
    BY DEF Placement
  <2> HIDE DEF Where
  <2> QED
    BY <2>2, <2>3, <2>4
<1>8. Measured(d)
  BY <1>3, <1>5 DEF Measured
<1>9. ShowsLess(s, r)
  BY <1>3, <1>5, <1>6, SameIsWithin, SwapShows
<1> QED
  BY <1>3, <1>5, <1>6, <1>7, <1>8, <1>9, KeyedWhen DEF Spared

LEMMA JoinedIs ==
  ASSUME NEW s, Keyed(s), NEW op, NEW r, r = Joined(s, op)
  PROVE  Keyed(r) /\ Spared(s, r) /\ ShowsLess(s, r)
<1> DEFINE old == {x \in s.transitions : x.out # op.out \/ x.in # op.in}
           new == [out |-> op.out, in |-> op.in, len |-> op.len, track |-> Named(s, op.out).track]
           X == old \cup (IF op.len = 0 THEN {} ELSE {new})
<1>1. r = [s EXCEPT !.transitions = X]
  BY DEF Joined
<1>2. \A x, y \in X : x.track = y.track /\ x.out = y.out /\ x.in = y.in => x = y
  BY DEF Keyed, Unique
<1> HIDE DEF X
<1>3. IsCut(r) /\ r.tracks = s.tracks /\ r.clips = s.clips /\ r.transitions = X
      /\ r.captions = s.captions
  BY <1>1 DEF Keyed, IsCut
<1> QED
  BY <1>2, <1>3, SparedWhen, FewerShow DEF Keyed, Unique, OnTrack

LEMMA CaptionedIs ==
  ASSUME NEW s, Keyed(s), NEW op, IsCue(op.cue), NEW r, r = Captioned(s, op)
  PROVE  Keyed(r) /\ Spared(s, r) /\ ShowsLess(s, r)
<1> DEFINE D == {c \in s.captions : c.id # op.cue.id} \cup {op.cue}
<1>1. r = [s EXCEPT !.captions = D]
  BY DEF Captioned
<1>2. (\A c \in D : IsCue(c)) /\ \A c, d \in D : c.id = d.id => c = d
  BY DEF Keyed, Unique
<1> HIDE DEF D
<1>3. IsCut(r) /\ r.tracks = s.tracks /\ r.clips = s.clips /\ r.transitions = s.transitions
      /\ r.captions = D
  BY <1>1 DEF Keyed, IsCut
<1> QED
  BY <1>2, <1>3, SparedWhen, FewerShow DEF Keyed, Unique, OnTrack

(* An operation that is allowed leaves a sequence whose locked tracks hold *)
(* what they held, and that shows no tick twice which was shown once, but  *)
(* where it names the range itself; one that is not refuses the intent.    *)
LEMMA StepIs ==
  ASSUME NEW s, Keyed(s), NEW op, IsPart(op), NEW r, r = Step1(s, op), r # Refused
  PROVE  Keyed(r) /\ Spared(s, r) /\ (~ChoosesRange(op) => ShowsLess(s, r))
<1>1. May(s, op) /\ r = Applied(s, op)
  BY DEF Step1
<1>2. CASE op.kind = "insert-clip"
  <2>1. IsClip(op.clip) /\ Measured(op.clip)
    BY <1>2 DEF IsPart, IsOperation
  <2>2. MayInsert(s, op) /\ r = Inserted(s, op) /\ ChoosesRange(op)
    BY <1>1, <1>2 DEF May, Applied, Restyles, ChoosesRange
  <2> QED
    BY <2>1, <2>2, InsertedIs
<1>3. CASE op.kind = "remove-clip"
  <2>1. HoldsClip(s, op.id) /\ r = ClipRemoved(s, op)
    BY <1>1, <1>3 DEF May, Applied, Restyles
  <2> QED
    BY <2>1, RemovedIs
<1>4. CASE op.kind = "remove-range"
  <2>1. (\A t \in op.tracks : Mutable(s, t)) /\ r = RangeRemoved(s, op)
    BY <1>1, <1>4 DEF May, Applied, Restyles
  <2>2. op.start \in Nat /\ op.dur \in Nat \ {0}
    BY <1>4 DEF IsPart, IsOperation
  <2> QED
    BY <2>1, <2>2, RangeRemovedIs
<1>5. CASE op.kind = "move-clip"
  <2>1. MayMove(s, op) /\ r = Moved(s, op)
    BY <1>1, <1>5 DEF May, Applied, Restyles
  <2>2. op.start \in Nat
    BY <1>5 DEF IsPart, IsOperation
  <2> QED
    BY <2>1, <2>2, MovedIs
<1>6. CASE op.kind = "trim-clip"
  <2>1. MayTrim(s, op) /\ r = Trimmed(s, op)
    BY <1>1, <1>6 DEF May, Applied, Restyles
  <2>2. /\ op.start \in Nat /\ op.dur \in Nat \ {0}
        /\ NamesRange(op) => op.range.tick \in Nat /\ op.range.ticks \in Nat
    BY <1>6 DEF IsPart, IsOperation, NamesRange
  <2>3. NamesRange(op) => ChoosesRange(op)
    BY <1>6 DEF ChoosesRange
  <2> QED
    BY <2>1, <2>2, <2>3, TrimmedIs
<1>7. CASE op.kind = "split-clip"
  <2>1. MaySplit(s, op) /\ r = SplitDone(s, op)
    BY <1>1, <1>7 DEF May, Applied, Restyles
  <2>2. op.at \in Nat
    BY <1>7 DEF IsPart, IsOperation
  <2> QED
    BY <2>1, <2>2, SplitIs
<1>8. CASE op.kind \in Restyles
  <2>1. HasClip(s, op.id) /\ r = Restyled(s, op)
    BY <1>1, <1>8 DEF May, Applied, MayRestyle, Restyles
  <2> QED
    BY <2>1, RestyledIs
<1>9. CASE op.kind = "set-transition"
  <2>1. r = Joined(s, op)
    BY <1>1, <1>9 DEF Applied, Restyles
  <2> QED
    BY <2>1, JoinedIs
<1>10. CASE op.kind = "upsert-caption-cue"
  <2>1. IsCue(op.cue) /\ r = Captioned(s, op)
    BY <1>1, <1>10 DEF IsPart, IsOperation, Applied, Restyles
  <2> QED
    BY <2>1, CaptionedIs
<1> QED
  BY <1>2, <1>3, <1>4, <1>5, <1>6, <1>7, <1>8, <1>9, <1>10
     DEF IsPart, IsOperation, Restyles, Bundles

LEMMA PartsAre ==
  ASSUME NEW op, IsOperation(op), NEW parts, parts = Parts(op)
  PROVE  /\ Len(parts) \in Nat /\ \A i \in 1..Len(parts) : IsPart(parts[i])
         /\ ~ChoosesRange(op) => parts = <<op>>
<1>1. CASE op.kind = "batch-replace-range"
  <2>1. PICK first : first = [op EXCEPT !.kind = "remove-range"]
    OBVIOUS
  <2>2. IsPart(first)
    BY <1>1, <2>1 DEF IsPart, IsOperation, Bundles
  <2>3. PICK rest : rest = [i \in DOMAIN op.places |-> [kind |-> "insert-clip", mode |-> "overwrite",
                                                         clip |-> op.places[i]]]
    OBVIOUS
  <2>4. /\ op.places \in Seq(Range(op.places))
        /\ \A c \in Range(op.places) : IsClip(c) /\ Measured(c)
    BY <1>1 DEF IsOperation
  <2>5. \A i \in DOMAIN op.places : op.places[i] \in Range(op.places)
    BY DEF Range
  <2>6. \A i \in DOMAIN rest : IsPart(rest[i])
    BY <2>3, <2>4, <2>5 DEF IsPart, IsOperation, Bundles
  <2> DEFINE T == {first} \cup {rest[i] : i \in DOMAIN rest}
  <2>7. <<first>> \in Seq(T) /\ rest \in Seq(T)
    <3>1. Len(op.places) \in Nat /\ DOMAIN op.places = 1..Len(op.places)
      BY <2>4
    <3>2. rest \in [1..Len(op.places) -> T]
      BY <2>3, <3>1
    <3>3. rest \in Seq(T)
      <4> HIDE DEF T
      <4> QED
        BY <3>1, <3>2
    <3> QED
      BY <3>3
  <2>8. \A p \in T : IsPart(p)
    BY <2>2, <2>6
  <2>9. parts = <<first>> \o rest
    BY <1>1, <2>1, <2>3 DEF Parts
  <2> HIDE DEF T
  <2>10. parts \in Seq(T)
    BY <2>7, <2>9
  <2>11. ChoosesRange(op)
    BY <1>1 DEF ChoosesRange
  <2> QED
    BY <2>8, <2>10, <2>11
<1>2. CASE op.kind = "restore-clip"
  <2>1. PICK first : first = [kind |-> "insert-clip", mode |-> "overwrite", clip |-> op.clip]
    OBVIOUS
  <2>2. IsPart(first)
    BY <1>2, <2>1 DEF IsPart, IsOperation, Bundles
  <2>3. parts = <<first>> /\ ChoosesRange(op)
    BY <1>2, <2>1 DEF Parts, ChoosesRange
  <2> QED
    BY <2>2, <2>3
<1>3. CASE op.kind \notin Bundles
  <2>1. parts = <<op>> /\ IsPart(op)
    BY <1>3 DEF Parts, IsPart, Bundles
  <2> QED
    BY <2>1
<1> QED
  BY <1>1, <1>2, <1>3 DEF Bundles

LEMMA SparedTwice ==
  ASSUME NEW s, NEW r, NEW q, Spared(s, r), Spared(r, q)
  PROVE  Spared(s, q)
BY DEF Spared

LEMMA TakenIs ==
  ASSUME NEW s, Keyed(s), NEW op, IsOperation(op), NEW r, r = Taken(s, op), r # Refused
  PROVE  Keyed(r) /\ Spared(s, r) /\ (~ChoosesRange(op) => ShowsLess(s, r))
<1>1. PICK parts : parts = Parts(op)
  OBVIOUS
<1>2. Len(parts) \in Nat /\ \A i \in 1..Len(parts) : IsPart(parts[i])
  BY <1>1, PartsAre
<1>3. PICK f : f = Done(s, parts)
  OBVIOUS
<1>4. f[0] = s /\ \A n \in 1..Len(parts) : f[n] = Step1(f[n - 1], parts[n])
  BY <1>2, <1>3, DoneIs
<1>5. r = f[Len(parts)]
  BY <1>1, <1>3 DEF Taken
<1> DEFINE Good(n) == f[n] # Refused => Keyed(f[n]) /\ Spared(s, f[n])
           Bad == {n \in 0..Len(parts) : ~Good(n)}
<1>6. Good(0)
  BY <1>4 DEF Spared
<1>7. ASSUME NEW n \in 1..Len(parts), Good(n - 1) PROVE Good(n)
  <2> SUFFICES ASSUME f[n] # Refused PROVE Keyed(f[n]) /\ Spared(s, f[n])
    OBVIOUS
  <2>1. f[n] = Step1(f[n - 1], parts[n]) /\ IsPart(parts[n])
    BY <1>2, <1>4
  <2>2. f[n - 1] # Refused
    BY <2>1 DEF Step1
  <2>3. Keyed(f[n - 1]) /\ Spared(s, f[n - 1])
    BY <1>7, <2>2
  <2>4. Keyed(f[n]) /\ Spared(f[n - 1], f[n])
    BY <2>1, <2>3, StepIs
  <2> QED
    BY <2>3, <2>4, SparedTwice
<1> HIDE DEF Good
<1>8. Bad = {}
  <2> SUFFICES ASSUME Bad # {} PROVE FALSE
    OBVIOUS
  <2>1. Bad \in SUBSET Nat
    BY <1>2
  <2>2. PICK m \in Bad : \A n \in Bad : m <= n
    <3> HIDE DEF Bad
    <3> QED
      BY <2>1, LowestIs
  <2>3. m \in 0..Len(parts) /\ ~Good(m)
    OBVIOUS
  <2>4. m # 0 /\ m \in 1..Len(parts) /\ m - 1 \in 0..Len(parts)
    BY <1>2, <1>6, <2>3
  <2>5. ~(m <= m - 1)
    BY <1>2, <2>3
  <2>6. m - 1 \notin Bad
    BY <2>2, <2>5
  <2>7. Good(m - 1)
    BY <2>4, <2>6
  <2> QED
    BY <1>7, <2>3, <2>4, <2>7
<1>9. Good(Len(parts))
  BY <1>2, <1>8
<1>10. ~ChoosesRange(op) => ShowsLess(s, r)
  <2> SUFFICES ASSUME ~ChoosesRange(op) PROVE ShowsLess(s, r)
    OBVIOUS
  <2>1. parts = <<op>> /\ Len(parts) = 1 /\ parts[1] = op /\ IsPart(op)
    BY <1>1, <1>2, PartsAre
  <2>2. r = Step1(s, op)
    BY <1>4, <1>5, <2>1
  <2> QED
    BY <2>1, <2>2, StepIs
<1> QED
  BY <1>5, <1>9, <1>10 DEF Good

(* Refused stays refused.                                                  *)
LEMMA RefusedIs ==
  ASSUME NEW op, IsOperation(op), NEW r, r = Taken(Refused, op)
  PROVE  r = Refused
<1>1. PICK parts : parts = Parts(op)
  OBVIOUS
<1>2. Len(parts) \in Nat
  BY <1>1, PartsAre
<1>3. PICK f : f = Done(Refused, parts)
  OBVIOUS
<1>4. f[0] = Refused /\ \A n \in 1..Len(parts) : f[n] = Step1(f[n - 1], parts[n])
  BY <1>2, <1>3, DoneIs
<1>5. r = f[Len(parts)]
  BY <1>1, <1>3 DEF Taken
<1> DEFINE Bad == {n \in 0..Len(parts) : f[n] # Refused}
<1>6. Bad = {}
  <2> SUFFICES ASSUME Bad # {} PROVE FALSE
    OBVIOUS
  <2>1. Bad \in SUBSET Nat
    BY <1>2
  <2>2. PICK m \in Bad : \A n \in Bad : m <= n
    <3> HIDE DEF Bad
    <3> QED
      BY <2>1, LowestIs
  <2>3. m \in 0..Len(parts) /\ f[m] # Refused
    OBVIOUS
  <2>4. m # 0 /\ m \in 1..Len(parts) /\ m - 1 \in 0..Len(parts)
    BY <1>2, <1>4, <2>3
  <2>5. ~(m <= m - 1)
    BY <1>2, <2>3
  <2>6. m - 1 \notin Bad
    BY <2>2, <2>5
  <2>7. f[m - 1] = Refused
    BY <2>4, <2>6
  <2> QED
    BY <1>4, <2>3, <2>4, <2>7 DEF Step1
<1> QED
  BY <1>2, <1>5, <1>6

(* What an intent projects keeps the tables' keys, the locked tracks hold  *)
(* what they held, whatever the intent is made of, and what was shown once *)
(* is shown once, unless an operation names a range.                       *)
LEMMA ProjectedIs ==
  ASSUME NEW s, Keyed(s), NEW intent \in Intents, NEW r, r = Projected(s, intent), r # Refused
  PROVE  /\ Keyed(r) /\ Spared(s, r) /\ Kept(r)
         /\ (\A i \in DOMAIN intent : ~ChoosesRange(intent[i])) => ShowsLess(s, r)
<1>1. intent \in Seq(Range(intent)) /\ \A op \in Range(intent) : IsOperation(op)
  BY TimelineAssumption
<1>2. Len(intent) \in Nat /\ \A n \in 1..Len(intent) : IsOperation(intent[n])
  BY <1>1
<1>3. PICK f : f = Carried(s, intent)
  OBVIOUS
<1>4. f[0] = s /\ \A n \in 1..Len(intent) : f[n] = Taken(f[n - 1], intent[n])
  BY <1>2, <1>3, CarriedIs
<1>5. PICK out : out = f[Len(intent)]
  OBVIOUS
<1>6. out # Refused /\ r = Laid(s, out) /\ Consistent(r)
  BY <1>3, <1>5 DEF Projected
<1> DEFINE Cuts == \A i \in DOMAIN intent : ~ChoosesRange(intent[i])
           Good(n) == f[n] # Refused => /\ Keyed(f[n]) /\ Spared(s, f[n])
                                        /\ Cuts => ShowsLess(s, f[n])
           Bad == {n \in 0..Len(intent) : ~Good(n)}
<1>7. Good(0)
  BY <1>4 DEF Spared, ShowsLess
<1>8. ASSUME NEW n \in 1..Len(intent), Good(n - 1) PROVE Good(n)
  <2> SUFFICES ASSUME f[n] # Refused
               PROVE  Keyed(f[n]) /\ Spared(s, f[n]) /\ (Cuts => ShowsLess(s, f[n]))
    OBVIOUS
  <2>1. f[n] = Taken(f[n - 1], intent[n]) /\ IsOperation(intent[n])
    BY <1>2, <1>4
  <2>2. f[n - 1] # Refused
    BY <2>1, RefusedIs
  <2>3. Keyed(f[n - 1]) /\ Spared(s, f[n - 1]) /\ (Cuts => ShowsLess(s, f[n - 1]))
    BY <1>8, <2>2
  <2>4. /\ Keyed(f[n]) /\ Spared(f[n - 1], f[n])
        /\ ~ChoosesRange(intent[n]) => ShowsLess(f[n - 1], f[n])
    BY <2>1, <2>3, TakenIs
  <2>5. Cuts => ShowsLess(s, f[n])
    <3>1. n \in DOMAIN intent
      BY <1>1
    <3> QED
      BY <2>3, <2>4, <3>1 DEF ShowsLess
  <2> QED
    BY <2>3, <2>4, <2>5, SparedTwice
<1> HIDE DEF Good, Cuts
<1>9. Bad = {}
  <2> SUFFICES ASSUME Bad # {} PROVE FALSE
    OBVIOUS
  <2>1. Bad \in SUBSET Nat
    BY <1>2
  <2>2. PICK m \in Bad : \A n \in Bad : m <= n
    <3> HIDE DEF Bad
    <3> QED
      BY <2>1, LowestIs
  <2>3. m \in 0..Len(intent) /\ ~Good(m)
    OBVIOUS
  <2>4. m # 0 /\ m \in 1..Len(intent) /\ m - 1 \in 0..Len(intent)
    BY <1>2, <1>7, <2>3
  <2>5. ~(m <= m - 1)
    BY <1>2, <2>3
  <2>6. m - 1 \notin Bad
    BY <2>2, <2>5
  <2>7. Good(m - 1)
    BY <2>4, <2>6
  <2> QED
    BY <1>8, <2>3, <2>4, <2>7
<1>10. Keyed(out) /\ Spared(s, out) /\ (Cuts => ShowsLess(s, out))
  BY <1>2, <1>5, <1>6, <1>9 DEF Good
<1>11. IsCut(r) /\ r.tracks = s.tracks /\ r.clips = out.clips /\ r.transitions = out.transitions
       /\ r.captions = out.captions
  BY <1>6 DEF Laid, Keyed, IsCut
<1>12. Keyed(r)
  BY <1>10, <1>11 DEF Keyed, Unique
<1>13. Spared(s, r)
  BY <1>10, <1>11 DEF Spared, Placement, OnTrack
<1>14. Cuts => ShowsLess(s, r)
  BY <1>10, <1>11 DEF ShowsLess, ShownTwice
<1> QED
  BY <1>6, <1>12, <1>13, <1>14 DEF Consistent, Cuts

(* The revisions: each keeps the keys of the tables, the last is the       *)
(* sequence, and a track has one kind in all of them.                      *)
Fit(s) == Keyed(s) /\ \A t \in DOMAIN s.tracks : s.tracks[t] \in TrackRows
SameKinds(s, r) ==
  \A t \in DOMAIN s.tracks \cap DOMAIN r.tracks : s.tracks[t].kind = r.tracks[t].kind
Known(past) ==
  /\ past \in Seq(Range(past)) /\ Len(past) \in 1..MaxRevisions
  /\ \A i \in DOMAIN past : Fit(past[i].cut)
  /\ \A i, j \in DOMAIN past : SameKinds(past[i].cut, past[j].cut)
CallOK(call, past) ==
  /\ "phase" \in DOMAIN call
  /\ call.phase \in {"idle", "previewed", "commit", "restore", "update", "remove"}
  /\ call.phase \in {"previewed", "commit"} => call.intent \in Intents /\ call.after # Refused
  /\ call.phase = "restore" =>
       Consistent(call.source) /\ \E i \in DOMAIN past : call.source = past[i].cut
  /\ call.phase = "update" =>
       /\ call.row \in TrackRows
       /\ \E i \in DOMAIN past : call.track \in DOMAIN past[i].cut.tracks
       /\ \A i \in DOMAIN past : call.track \in DOMAIN past[i].cut.tracks =>
                                   past[i].cut.tracks[call.track].kind = call.row.kind
TlInv == /\ Kept(cut) /\ Known(log) /\ log[Len(log)].cut = cut
         /\ edits = [e \in Editors |-> edits[e]]
         /\ \A e \in Editors : CallOK(edits[e], log)

LEMMA TlInitOK == TimelineInit => TlInv
<1> SUFFICES ASSUME TimelineInit PROVE TlInv
  OBVIOUS
<1>1. Base = [tracks |-> StartTracks, clips |-> StartClips, transitions |-> {}, captions |-> {}]
  BY DEF Base
<1>2. IsCut(Base) /\ Base.tracks = StartTracks /\ Base.clips = StartClips
      /\ Base.transitions = {} /\ Base.captions = {}
  BY <1>1 DEF IsCut
<1>3. Kept(Base)
  BY StartIsConsistent DEF Consistent
<1>4. Fit(Base)
  BY <1>2, TimelineAssumption DEF Fit, Keyed, Unique
<1>5. PICK row : row = [writes |-> {}, kind |-> "create", cut |-> Base]
  OBVIOUS
<1>6. row.cut = Base /\ log = <<row>> /\ cut = Base
  BY <1>5 DEF TimelineInit
<1>7. Len(log) = 1 /\ DOMAIN log = {1} /\ log[1] = row /\ log \in Seq(Range(log))
  <2>1. DOMAIN log = {1} /\ log[1] = row /\ Len(log) = 1
    BY <1>6
  <2>2. Range(log) = {row}
    BY <2>1 DEF Range
  <2> QED
    BY <1>6, <2>1, <2>2
<1>8. Known(log)
  BY <1>4, <1>6, <1>7, TimelineAssumption DEF Known, SameKinds
<1>9. CallOK(NoEdit, log)
  BY DEF CallOK, NoEdit
<1> QED
  BY <1>3, <1>6, <1>7, <1>8, <1>9 DEF TlInv, TimelineInit

(* A commit of a state that keeps the keys, on tracks of known kinds.      *)
LEMMA CommitsIs ==
  ASSUME TlInv, NEW kind, NEW s, NEW writes, Commits(kind, s, writes), Kept(s), Fit(s),
         \A i \in DOMAIN log : SameKinds(s, log[i].cut)
  PROVE  /\ Kept(cut') /\ Known(log') /\ log'[Len(log')].cut = cut' /\ cut' = s
         /\ \A call : CallOK(call, log) => CallOK(call, log')
         /\ log' # log => log'[Len(log')].kind = kind
<1>1. CASE s = cut
  BY <1>1 DEF Commits, TlInv
<1>2. CASE s # cut
  <2>1. PICK row : row = [kind |-> kind, writes |-> writes, cut |-> s]
    OBVIOUS
  <2>2. row.kind = kind /\ row.cut = s /\ log' = Append(log, row) /\ cut' = s
        /\ Len(log) < MaxRevisions
    BY <1>2, <2>1 DEF Commits, Tip
  <2>3. log \in Seq(Range(log)) /\ Len(log) \in 1..MaxRevisions
    BY DEF TlInv, Known
  <2> DEFINE R == Range(log) \cup {row}
             n == Len(log) + 1
  <2>4. log \in Seq(R) /\ row \in R
    BY <2>3
  <2>5. log' \in Seq(R) /\ Len(log') = n /\ log'[n] = row /\ DOMAIN log' = 1..n
        /\ DOMAIN log = 1..(n - 1) /\ \A i \in DOMAIN log : log'[i] = log[i]
    <3> HIDE DEF R
    <3> QED
      BY <2>2, <2>4
  <2>6. DOMAIN log' = DOMAIN log \cup {n} /\ n \in Nat
    BY <2>3, <2>5
  <2> HIDE DEF n
  <2>7. log' \in Seq(Range(log'))
    <3>1. \A i \in 1..Len(log') : log'[i] \in Range(log')
      BY <2>5 DEF Range
    <3>2. Len(log') \in Nat /\ log' = [i \in 1..Len(log') |-> log'[i]]
      <4> HIDE DEF R
      <4> QED
        BY <2>5
    <3>3. log' \in [1..Len(log') -> Range(log')]
      BY <3>1, <3>2
    <3> QED
      BY <3>2, <3>3
  <2>8. Len(log') \in 1..MaxRevisions
    BY <2>2, <2>3, <2>5, TimelineAssumption DEF n
  <2>9. \A i \in DOMAIN log' : Fit(log'[i].cut)
    BY <2>2, <2>5, <2>6 DEF TlInv, Known
  <2>10. \A i, j \in DOMAIN log' : SameKinds(log'[i].cut, log'[j].cut)
    <3>1. \A i \in DOMAIN log : SameKinds(s, log[i].cut) /\ SameKinds(log[i].cut, s)
      BY DEF SameKinds
    <3>2. SameKinds(s, s)
      BY DEF SameKinds
    <3> QED
      BY <2>2, <2>5, <2>6, <3>1, <3>2 DEF TlInv, Known
  <2>11. ASSUME NEW call, CallOK(call, log) PROVE CallOK(call, log')
    <3>1. CASE call.phase = "update"
      <4>1. PICK i \in DOMAIN log : call.track \in DOMAIN log[i].cut.tracks
        BY <2>11, <3>1 DEF CallOK
      <4>2. i \in DOMAIN log' /\ call.track \in DOMAIN log'[i].cut.tracks
        BY <2>5, <2>6, <4>1
      <4>3. \A j \in DOMAIN log : call.track \in DOMAIN log[j].cut.tracks =>
              log[j].cut.tracks[call.track].kind = call.row.kind
        BY <2>11, <3>1 DEF CallOK
      <4>4. call.track \in DOMAIN s.tracks => s.tracks[call.track].kind = call.row.kind
        BY <4>1, <4>3 DEF SameKinds
      <4>5. \A j \in DOMAIN log' : call.track \in DOMAIN log'[j].cut.tracks =>
              log'[j].cut.tracks[call.track].kind = call.row.kind
        BY <2>2, <2>5, <2>6, <4>3, <4>4
      <4> QED
        BY <2>11, <3>1, <4>2, <4>5 DEF CallOK
    <3>2. CASE call.phase # "update"
      BY <2>5, <2>6, <2>11, <3>2 DEF CallOK
    <3> QED
      BY <3>1, <3>2
  <2> QED
    BY <2>2, <2>5, <2>7, <2>8, <2>9, <2>10, <2>11 DEF Known
<1> QED
  BY <1>1, <1>2

(* A call that goes on, while the revisions stay or grow.                  *)
LEMMA GoesOn ==
  ASSUME TlInv, NEW e \in Editors, NEW call, Goes(e, call), CallOK(call, log'),
         \A c : CallOK(c, log) => CallOK(c, log')
  PROVE  edits' = [x \in Editors |-> edits'[x]] /\ \A x \in Editors : CallOK(edits'[x], log')
<1>1. edits' = [edits EXCEPT ![e] = call]
  BY DEF Goes
<1>2. edits = [x \in Editors |-> edits[x]] /\ \A x \in Editors : CallOK(edits[x], log)
  BY DEF TlInv
<1>3. \A x \in Editors : edits'[x] = IF x = e THEN call ELSE edits[x]
  BY <1>1, <1>2
<1> QED
  BY <1>1, <1>2, <1>3

(* A call that goes on and commits nothing.                                *)
LEMMA OnlyGoes ==
  ASSUME TlInv, NEW e \in Editors, NEW call, Goes(e, call), CallOK(call, log),
         UNCHANGED <<cut, log>>
  PROVE  TlInv'
<1>1. log' = log /\ cut' = cut
  OBVIOUS
<1>2. CallOK(call, log') /\ \A c : CallOK(c, log) => CallOK(c, log')
  BY <1>1
<1>3. edits' = [x \in Editors |-> edits'[x]] /\ \A x \in Editors : CallOK(edits'[x], log')
  BY <1>2, GoesOn
<1> QED
  BY <1>1, <1>3 DEF TlInv

LEMMA IdleIsOK == \A past : CallOK(NoEdit, past)
BY DEF CallOK, NoEdit

LEMMA CutIsFit ==
  ASSUME TlInv
  PROVE  Fit(cut) /\ Keyed(cut) /\ \A i \in DOMAIN log : SameKinds(cut, log[i].cut)
<1>1. Len(log) \in DOMAIN log
  BY DEF TlInv, Known
<1> QED
  BY <1>1 DEF TlInv, Known, Fit

(* The same tracks have the same kinds.                                    *)
LEMMA SameTracks ==
  ASSUME TlInv, NEW s, s.tracks = cut.tracks
  PROVE  \A i \in DOMAIN log : SameKinds(s, log[i].cut)
BY CutIsFit DEF SameKinds

LEMMA PreviewKeeps ==
  ASSUME TlInv, NEW e \in Editors, NEW intent \in Intents, NEW since, Preview(e, intent, since)
  PROVE  TlInv'
<1>1. PICK call : call = [phase |-> "previewed", intent |-> intent, base |-> since, before |-> cut,
                          after |-> Projected(cut, intent)]
  OBVIOUS
<1>2. Goes(e, call) /\ UNCHANGED <<cut, log>> /\ Projected(cut, intent) # Refused
  BY <1>1 DEF Preview
<1>3. CallOK(call, log)
  BY <1>1, <1>2 DEF CallOK
<1> QED
  BY <1>2, <1>3, OnlyGoes

LEMMA BeginCommitKeeps ==
  ASSUME TlInv, NEW e \in Editors, BeginCommit(e)
  PROVE  TlInv'
<1>1. PICK call : call = [edits[e] EXCEPT !.phase = "commit"]
  OBVIOUS
<1>2. CallOK(edits[e], log) /\ edits[e].phase = "previewed"
  BY DEF TlInv, BeginCommit
<1>3. CallOK(call, log)
  <2>1. DOMAIN call = DOMAIN edits[e] /\ call.phase = "commit"
        /\ call.intent = edits[e].intent /\ call.after = edits[e].after
    <3>1. "phase" \in DOMAIN edits[e]
      BY <1>2 DEF CallOK
    <3> QED
      BY <1>1, <3>1
  <2> QED
    BY <1>2, <2>1 DEF CallOK
<1>4. (Goes(e, call) \/ Goes(e, NoEdit)) /\ UNCHANGED <<cut, log>>
  BY <1>1 DEF BeginCommit
<1> QED
  BY <1>3, <1>4, OnlyGoes, IdleIsOK

LEMMA CommitEditKeeps ==
  ASSUME TlInv, NEW e \in Editors, CommitEdit(e)
  PROVE  TlInv'
<1>1. CASE Refuse(e)
  BY <1>1, OnlyGoes, IdleIsOK DEF Refuse
<1>2. CASE ~Refuse(e)
  <2>1. PICK s, w : s = edits[e].after /\ w = WriteSet(cut, edits[e].intent)
    OBVIOUS
  <2>2. Commits("commit_edit", s, w) /\ Goes(e, NoEdit) /\ s = Projected(cut, edits[e].intent)
    BY <1>2, <2>1 DEF CommitEdit, Committable
  <2>3. edits[e].intent \in Intents /\ s # Refused
    BY <2>1 DEF CommitEdit, TlInv, CallOK
  <2>4. Keyed(s) /\ Spared(cut, s) /\ Kept(s)
    BY <2>2, <2>3, CutIsFit, ProjectedIs
  <2>5. s.tracks = cut.tracks
    BY <2>4 DEF Spared
  <2>6. Fit(s) /\ \A i \in DOMAIN log : SameKinds(s, log[i].cut)
    BY <2>4, <2>5, CutIsFit, SameTracks DEF Fit
  <2>7. Kept(cut') /\ Known(log') /\ log'[Len(log')].cut = cut'
        /\ \A call : CallOK(call, log) => CallOK(call, log')
    BY <2>2, <2>4, <2>6, CommitsIs
  <2>8. edits' = [x \in Editors |-> edits'[x]] /\ \A x \in Editors : CallOK(edits'[x], log')
    BY <2>2, <2>7, GoesOn, IdleIsOK
  <2> QED
    BY <2>7, <2>8 DEF TlInv
<1> QED
  BY <1>1, <1>2

LEMMA BeginRestoreKeeps ==
  ASSUME TlInv, NEW e \in Editors, NEW r \in DOMAIN log, BeginRestore(e, r)
  PROVE  TlInv'
<1>1. PICK call : call = [phase |-> "restore", base |-> Tip, source |-> log[r].cut]
  OBVIOUS
<1>2. Goes(e, call) /\ UNCHANGED <<cut, log>> /\ Consistent(log[r].cut)
  BY <1>1 DEF BeginRestore
<1>3. CallOK(call, log)
  BY <1>1, <1>2 DEF CallOK
<1> QED
  BY <1>2, <1>3, OnlyGoes

(* What a restore writes keeps the keys of the tables: of clips, of        *)
(* transitions and of captions that lie on the tracks it leaves alone.     *)
LEMMA PutBackKeeps ==
  ASSUME Kept(cut), Fit(cut), NEW source, Consistent(source), Fit(source), SameKinds(source, cut),
         \A c \in source.clips \cup source.captions : c.track \in DOMAIN cut.tracks,
         NEW r, r = PutBack(source)
  PROVE  Kept(r) /\ Fit(r) /\ r.tracks = cut.tracks
<1> DEFINE on == DOMAIN source.tracks
           ids == {c.id : c \in source.clips}
           stay == {c \in cut.clips : c.track \notin on /\ c.id \notin ids}
           X == {x \in cut.transitions : x.track \notin on
                                         /\ {x.out, x.in} \subseteq ids \cup {c.id : c \in stay}}
           D == {c \in cut.captions : c.track \notin on /\ \A d \in source.captions : d.id # c.id}
<1>1. r = [cut EXCEPT !.clips = stay \cup source.clips, !.transitions = X \cup source.transitions,
                      !.captions = D \cup source.captions]
  BY DEF PutBack
<1>2. IsCut(cut) /\ IsCut(source) /\ Unique(cut) /\ Unique(source)
  BY DEF Fit, Keyed
<1>3. /\ IsCut(r) /\ r.tracks = cut.tracks /\ r.clips = stay \cup source.clips
      /\ r.transitions = X \cup source.transitions /\ r.captions = D \cup source.captions
  <2> HIDE DEF stay, X, D
  <2> QED
    BY <1>1, <1>2 DEF IsCut
<1>4. Kept(source) /\ \A x \in source.transitions : Fits(source, x)
  BY DEF Consistent
<1>5. \A c \in source.clips : c.track \in on
  BY <1>4 DEF Kept, Placeable
<1>6. \A c, d \in r.clips : c.id = d.id => c = d
  <2>1. \A c, d \in source.clips : c.id = d.id => c = d
    BY <1>4 DEF Kept
  <2>2. \A c, d \in stay : c.id = d.id => c = d
    BY DEF Kept
  <2> QED
    BY <1>3, <2>1, <2>2
<1>7. ASSUME NEW c \in r.clips PROVE Placeable(r, c) /\ ~Clashes(r, c)
  <2>1. CASE c \in source.clips
    <3>1. Placeable(source, c) /\ ~Clashes(source, c)
      BY <1>4, <2>1 DEF Kept
    <3>2. c.track \in DOMAIN r.tracks /\ r.tracks[c.track].kind = source.tracks[c.track].kind
      BY <1>3, <1>5, <2>1 DEF SameKinds
    <3>3. Placeable(r, c)
      BY <3>1, <3>2 DEF Placeable
    <3>4. \A d \in OnTrack(r, c.track) : d \in OnTrack(source, c.track)
      BY <1>3, <1>5, <2>1 DEF OnTrack
    <3>5. ~Clashes(r, c)
      BY <3>1, <3>2, <3>4 DEF Clashes
    <3> QED
      BY <3>3, <3>5
  <2>2. CASE c \in stay
    <3>1. Placeable(cut, c) /\ ~Clashes(cut, c)
      BY <2>2 DEF Kept
    <3>2. Placeable(r, c)
      BY <1>3, <3>1 DEF Placeable
    <3>3. \A d \in OnTrack(r, c.track) : d \in OnTrack(cut, c.track)
      BY <1>3, <1>5, <2>2 DEF OnTrack
    <3>4. ~Clashes(r, c)
      BY <1>3, <3>1, <3>3 DEF Clashes
    <3> QED
      BY <3>2, <3>4
  <2> QED
    BY <1>3, <2>1, <2>2
<1>8. \A x \in r.transitions : HasClip(r, x.out) /\ HasClip(r, x.in)
  <2>1. \A i \in ids \cup {c.id : c \in stay} : HasClip(r, i)
    BY <1>3 DEF HasClip
  <2>2. \A x \in source.transitions : x.out \in ids /\ x.in \in ids
    BY <1>4 DEF Kept, HasClip
  <2> QED
    BY <1>3, <2>1, <2>2
<1>9. \A c \in r.captions : c.track \in DOMAIN r.tracks /\ r.tracks[c.track].kind = "caption"
  <2>1. ASSUME NEW c \in source.captions
        PROVE  c.track \in DOMAIN r.tracks /\ r.tracks[c.track].kind = "caption"
    <3>1. c.track \in DOMAIN cut.tracks /\ c.track \in on /\ source.tracks[c.track].kind = "caption"
      BY <1>4 DEF Kept
    <3> QED
      BY <1>3, <3>1 DEF SameKinds
  <2>2. \A c \in D : c.track \in DOMAIN r.tracks /\ r.tracks[c.track].kind = "caption"
    BY <1>3 DEF Kept
  <2> QED
    BY <1>3, <2>1, <2>2
<1>10. Kept(r)
  BY <1>6, <1>7, <1>8, <1>9 DEF Kept
<1>11. Unique(r)
  <2>1. \A x \in source.transitions : x.track \in on
    <3> SUFFICES ASSUME NEW x \in source.transitions PROVE x.track \in on
      OBVIOUS
    <3>1. HasClip(source, x.out) /\ Named(source, x.out).track = x.track
      BY <1>4 DEF Kept, Fits
    <3> QED
      BY <1>5, <3>1, NamedIs
  <2>2. \A x, y \in r.transitions : x.track = y.track /\ x.out = y.out /\ x.in = y.in => x = y
    BY <1>2, <1>3, <2>1 DEF Unique
  <2>3. \A c, d \in r.captions : c.id = d.id => c = d
    BY <1>2, <1>3 DEF Unique
  <2> QED
    BY <2>2, <2>3 DEF Unique
<1>12. (\A c \in r.clips : IsClip(c)) /\ (\A c \in r.captions : IsCue(c))
  BY <1>3 DEF Fit, Keyed
<1> QED
  BY <1>3, <1>10, <1>11, <1>12 DEF Fit, Keyed

LEMMA CommitRestoreKeeps ==
  ASSUME TlInv, NEW e \in Editors, CommitRestore(e)
  PROVE  TlInv'
<1>1. CASE Refuse(e)
  BY <1>1, OnlyGoes, IdleIsOK DEF Refuse
<1>2. CASE ~Refuse(e)
  <2>1. PICK source : source = edits[e].source
    OBVIOUS
  <2>2. PICK s, w : s = PutBack(source) /\ w = RestoreWrites(source)
    OBVIOUS
  <2>3. Commits("restore_edit", s, w) /\ Goes(e, NoEdit)
        /\ \A c \in source.clips \cup source.captions : c.track \in DOMAIN cut.tracks
    BY <1>2, <2>1, <2>2 DEF CommitRestore
  <2>4. PICK i \in DOMAIN log : source = log[i].cut /\ Consistent(source)
    BY <2>1 DEF CommitRestore, TlInv, CallOK
  <2>5. Kept(cut) /\ Fit(cut) /\ Fit(source) /\ SameKinds(source, cut)
    BY <2>4, CutIsFit DEF TlInv, Known, SameKinds
  <2>6. Kept(s) /\ Fit(s) /\ s.tracks = cut.tracks
    BY <2>2, <2>3, <2>4, <2>5, PutBackKeeps
  <2>7. \A j \in DOMAIN log : SameKinds(s, log[j].cut)
    BY <2>6, SameTracks
  <2>8. Kept(cut') /\ Known(log') /\ log'[Len(log')].cut = cut'
        /\ \A call : CallOK(call, log) => CallOK(call, log')
    BY <2>3, <2>6, <2>7, CommitsIs
  <2>9. edits' = [x \in Editors |-> edits'[x]] /\ \A x \in Editors : CallOK(edits'[x], log')
    BY <2>3, <2>8, GoesOn, IdleIsOK
  <2> QED
    BY <2>8, <2>9 DEF TlInv
<1> QED
  BY <1>1, <1>2

(* The same rows on tracks that keep their kinds.                          *)
LEMMA KeptOn ==
  ASSUME NEW s, Kept(s), NEW r, r.clips = s.clips, r.transitions = s.transitions,
         r.captions = s.captions, DOMAIN s.tracks \subseteq DOMAIN r.tracks,
         \A t \in DOMAIN s.tracks : r.tracks[t].kind = s.tracks[t].kind
  PROVE  Kept(r)
<1>1. ASSUME NEW c \in s.clips PROVE Placeable(r, c) /\ ~Clashes(r, c)
  <2>1. Placeable(s, c) /\ ~Clashes(s, c)
    BY DEF Kept
  <2>2. c.track \in DOMAIN s.tracks
    BY <2>1 DEF Placeable
  <2>3. c.track \in DOMAIN r.tracks /\ r.tracks[c.track].kind = s.tracks[c.track].kind
    BY <2>2
  <2> QED
    BY <2>1, <2>3 DEF Placeable, Clashes, OnTrack
<1>2. \A c \in r.captions : c.track \in DOMAIN r.tracks /\ r.tracks[c.track].kind = "caption"
  BY DEF Kept
<1>3. \A x \in r.transitions : HasClip(r, x.out) /\ HasClip(r, x.in)
  BY DEF Kept, HasClip
<1> QED
  BY <1>1, <1>2, <1>3 DEF Kept

LEMMA BeginUpdateKeeps ==
  ASSUME TlInv, NEW e \in Editors, NEW t, NEW row, row \in TrackRows, row.kind = cut.tracks[t].kind,
         BeginUpdate(e, t, row)
  PROVE  TlInv'
<1>1. PICK call : call = [phase |-> "update", track |-> t, row |-> row]
  OBVIOUS
<1>2. Goes(e, call) /\ UNCHANGED <<cut, log>> /\ t \in DOMAIN cut.tracks
  BY <1>1 DEF BeginUpdate
<1>3. Len(log) \in DOMAIN log /\ t \in DOMAIN log[Len(log)].cut.tracks
  BY <1>2 DEF TlInv, Known
<1>4. \A i \in DOMAIN log : t \in DOMAIN log[i].cut.tracks => log[i].cut.tracks[t].kind = row.kind
  BY <1>2, CutIsFit DEF SameKinds
<1>5. CallOK(call, log)
  BY <1>1, <1>3, <1>4 DEF CallOK
<1> QED
  BY <1>2, <1>5, OnlyGoes

LEMMA CommitUpdateKeeps ==
  ASSUME TlInv, NEW e \in Editors, CommitUpdate(e)
  PROVE  TlInv'
<1>1. PICK t, row : t = edits[e].track /\ row = edits[e].row
  OBVIOUS
<1>2. Goes(e, NoEdit)
  BY DEF CommitUpdate
<1>3. CASE t \notin DOMAIN cut.tracks
  <2>1. UNCHANGED <<cut, log>>
    BY <1>1, <1>3 DEF CommitUpdate
  <2> QED
    BY <1>2, <2>1, OnlyGoes, IdleIsOK
<1>4. CASE t \in DOMAIN cut.tracks
  <2>1. PICK s : s = [cut EXCEPT !.tracks[t] = row]
    OBVIOUS
  <2>2. Commits("update_sequence_track", s, {<<"track", t>>})
    BY <1>1, <1>4, <2>1 DEF CommitUpdate
  <2>3. Fit(cut) /\ IsCut(cut)
    BY CutIsFit DEF Fit, Keyed
  <2> DEFINE rows == [cut.tracks EXCEPT ![t] = row]
  <2>4. s = [cut EXCEPT !.tracks = rows]
    BY <2>1, <2>3 DEF IsCut
  <2>5. DOMAIN rows = DOMAIN cut.tracks /\ rows[t] = row
        /\ \A u \in DOMAIN cut.tracks \ {t} : rows[u] = cut.tracks[u]
    BY <1>4
  <2> HIDE DEF rows
  <2>6. IsCut(s) /\ s.tracks = rows /\ s.clips = cut.clips /\ s.transitions = cut.transitions
        /\ s.captions = cut.captions
    BY <2>3, <2>4 DEF IsCut
  <2>7. row \in TrackRows /\ \A i \in DOMAIN log : t \in DOMAIN log[i].cut.tracks =>
                                                    log[i].cut.tracks[t].kind = row.kind
    BY <1>1 DEF CommitUpdate, TlInv, CallOK
  <2>8. row.kind = cut.tracks[t].kind
    <3>1. Len(log) \in DOMAIN log /\ log[Len(log)].cut = cut
      BY DEF TlInv, Known
    <3> QED
      BY <1>4, <2>7, <3>1
  <2>9. \A u \in DOMAIN cut.tracks : rows[u].kind = cut.tracks[u].kind
    BY <2>5, <2>8
  <2>10. Kept(s)
    BY <2>5, <2>6, <2>9, KeptOn DEF TlInv
  <2>11. Fit(s)
    BY <2>3, <2>5, <2>6, <2>7 DEF Fit, Keyed, Unique
  <2>12. \A i \in DOMAIN log : SameKinds(s, log[i].cut)
    BY <2>5, <2>6, <2>9, CutIsFit DEF SameKinds
  <2>13. Kept(cut') /\ Known(log') /\ log'[Len(log')].cut = cut'
         /\ \A call : CallOK(call, log) => CallOK(call, log')
    BY <2>2, <2>10, <2>11, <2>12, CommitsIs
  <2>14. edits' = [x \in Editors |-> edits'[x]] /\ \A x \in Editors : CallOK(edits'[x], log')
    BY <1>2, <2>13, GoesOn, IdleIsOK
  <2> QED
    BY <2>13, <2>14 DEF TlInv
<1> QED
  BY <1>3, <1>4

LEMMA AddTrackKeeps ==
  ASSUME TlInv, NEW e \in Editors, NEW t \in DOMAIN SpareTracks, AddTrack(e, t)
  PROVE  TlInv'
<1>1. PICK new : new = [kind |-> SpareTracks[t], locked |-> FALSE, enabled |-> TRUE]
  OBVIOUS
<1> DEFINE rows == [u \in DOMAIN cut.tracks \cup {t} |-> IF u = t THEN new ELSE cut.tracks[u]]
<1>2. PICK s : s = [cut EXCEPT !.tracks = rows]
  OBVIOUS
<1>3. Commits("add_sequence_track", s, {<<"track", t>>}) /\ UNCHANGED edits
      /\ t \notin DOMAIN cut.tracks /\ \A i \in DOMAIN log : t \notin DOMAIN log[i].cut.tracks
  BY <1>1, <1>2 DEF AddTrack
<1>4. Fit(cut) /\ IsCut(cut)
  BY CutIsFit DEF Fit, Keyed
<1>5. DOMAIN rows = DOMAIN cut.tracks \cup {t} /\ rows[t] = new
      /\ \A u \in DOMAIN cut.tracks : rows[u] = cut.tracks[u]
  BY <1>3
<1> HIDE DEF rows
<1>6. IsCut(s) /\ s.tracks = rows /\ s.clips = cut.clips /\ s.transitions = cut.transitions
      /\ s.captions = cut.captions
  BY <1>2, <1>4 DEF IsCut
<1>7. new \in TrackRows
  BY <1>1, TimelineAssumption DEF TrackRows
<1>8. Kept(s)
  BY <1>5, <1>6, KeptOn DEF TlInv
<1>9. Fit(s)
  BY <1>4, <1>5, <1>6, <1>7 DEF Fit, Keyed, Unique
<1>10. \A i \in DOMAIN log : SameKinds(s, log[i].cut)
  BY <1>3, <1>5, <1>6, CutIsFit DEF SameKinds
<1>11. Kept(cut') /\ Known(log') /\ log'[Len(log')].cut = cut'
       /\ \A call : CallOK(call, log) => CallOK(call, log')
  BY <1>3, <1>8, <1>9, <1>10, CommitsIs
<1> QED
  BY <1>3, <1>11 DEF TlInv

LEMMA BeginRemoveKeeps ==
  ASSUME TlInv, NEW e \in Editors, NEW t, BeginRemove(e, t)
  PROVE  TlInv'
<1>1. PICK call : call = [phase |-> "remove", track |-> t]
  OBVIOUS
<1>2. Goes(e, call) /\ UNCHANGED <<cut, log>>
  BY <1>1 DEF BeginRemove
<1>3. CallOK(call, log)
  BY <1>1 DEF CallOK
<1> QED
  BY <1>2, <1>3, OnlyGoes

LEMMA CommitRemoveKeeps ==
  ASSUME TlInv, NEW e \in Editors, CommitRemove(e)
  PROVE  TlInv'
<1>1. PICK t : t = edits[e].track
  OBVIOUS
<1>2. PICK gone : gone = OnTrack(cut, t)
  OBVIOUS
<1>3. PICK rest : rest = Without(cut, gone)
  OBVIOUS
<1>4. Fit(cut) /\ IsCut(cut) /\ Kept(cut)
  BY CutIsFit DEF Fit, Keyed, TlInv
<1>5. /\ IsCut(rest) /\ rest.tracks = cut.tracks /\ rest.clips = cut.clips \ gone
      /\ rest.transitions = {x \in cut.transitions : \A c \in gone : c.id \notin {x.out, x.in}}
      /\ rest.captions = cut.captions
  BY <1>3, <1>4, WithoutIs
<1> DEFINE rows == [u \in DOMAIN cut.tracks \ {t} |-> cut.tracks[u]]
           X == {x \in rest.transitions : x.track # t}
           D == {c \in cut.captions : c.track # t}
<1>6. PICK s : s = [rest EXCEPT !.tracks = rows, !.transitions = X, !.captions = D]
  OBVIOUS
<1>7. Commits("remove_sequence_track", s, {<<"track", t>>}) /\ Goes(e, NoEdit)
  BY <1>1, <1>2, <1>3, <1>5, <1>6 DEF CommitRemove
<1>8. DOMAIN rows = DOMAIN cut.tracks \ {t} /\ \A u \in DOMAIN rows : rows[u] = cut.tracks[u]
  OBVIOUS
<1> HIDE DEF rows
<1>9. /\ IsCut(s) /\ s.tracks = rows /\ s.clips = cut.clips \ gone
      /\ s.transitions = X /\ s.captions = D
  <2> HIDE DEF X, D
  <2> QED
    BY <1>5, <1>6 DEF IsCut
<1>10. \A c \in s.clips : c \in cut.clips /\ c.track # t
  BY <1>2, <1>9 DEF OnTrack
<1>11. ASSUME NEW c \in s.clips PROVE Placeable(s, c) /\ ~Clashes(s, c)
  <2>1. Placeable(cut, c) /\ ~Clashes(cut, c)
    BY <1>4, <1>10 DEF Kept
  <2>2. c.track \in DOMAIN s.tracks /\ s.tracks[c.track] = cut.tracks[c.track]
    BY <1>8, <1>9, <1>10, <2>1 DEF Placeable
  <2> QED
    BY <1>10, <2>1, <2>2 DEF Placeable, Clashes, OnTrack
<1>12. \A x \in s.transitions : HasClip(s, x.out) /\ HasClip(s, x.in)
  <2> SUFFICES ASSUME NEW x \in s.transitions PROVE HasClip(s, x.out) /\ HasClip(s, x.in)
    OBVIOUS
  <2>1. x \in cut.transitions /\ \A c \in gone : c.id # x.out /\ c.id # x.in
    BY <1>5, <1>9
  <2>2. PICK a \in cut.clips, b \in cut.clips : a.id = x.out /\ b.id = x.in
    BY <1>4, <2>1 DEF Kept, HasClip
  <2>3. a \in s.clips /\ b \in s.clips
    BY <1>9, <2>1, <2>2
  <2> QED
    BY <2>2, <2>3 DEF HasClip
<1>13. \A c \in s.captions : c.track \in DOMAIN s.tracks /\ s.tracks[c.track].kind = "caption"
  BY <1>4, <1>8, <1>9 DEF Kept
<1>14. Kept(s)
  BY <1>4, <1>10, <1>11, <1>12, <1>13 DEF Kept
<1>15. Fit(s)
  <2>1. Unique(s)
    BY <1>4, <1>5, <1>9 DEF Fit, Keyed, Unique
  <2> QED
    BY <1>4, <1>8, <1>9, <2>1 DEF Fit, Keyed
<1>16. \A i \in DOMAIN log : SameKinds(s, log[i].cut)
  BY <1>8, <1>9, CutIsFit DEF SameKinds
<1>17. Kept(cut') /\ Known(log') /\ log'[Len(log')].cut = cut'
       /\ \A call : CallOK(call, log) => CallOK(call, log')
  BY <1>7, <1>14, <1>15, <1>16, CommitsIs
<1>18. edits' = [x \in Editors |-> edits'[x]] /\ \A x \in Editors : CallOK(edits'[x], log')
  BY <1>7, <1>17, GoesOn, IdleIsOK
<1> QED
  BY <1>17, <1>18 DEF TlInv

LEMMA TlNextKeeps == TlInv /\ [TimelineNext]_tlVars => TlInv'
<1> SUFFICES ASSUME TlInv, [TimelineNext]_tlVars PROVE TlInv'
  OBVIOUS
<1>1. CASE UNCHANGED tlVars
  BY <1>1 DEF tlVars, TlInv
<1>2. CASE TimelineNext
  <2>1. PICK e \in Editors :
          \/ \E intent \in Intents, since \in DOMAIN log : Preview(e, intent, since)
          \/ BeginCommit(e) \/ CommitEdit(e)
          \/ \E r \in DOMAIN log : BeginRestore(e, r)
          \/ CommitRestore(e)
          \/ \E t \in DOMAIN cut.tracks, l, n \in BOOLEAN :
               BeginUpdate(e, t, [kind |-> cut.tracks[t].kind, locked |-> l, enabled |-> n])
          \/ CommitUpdate(e)
          \/ \E t \in DOMAIN SpareTracks : AddTrack(e, t)
          \/ \E t \in DOMAIN cut.tracks : BeginRemove(e, t)
          \/ CommitRemove(e)
    BY <1>2 DEF TimelineNext
  <2>2. ASSUME NEW t \in DOMAIN cut.tracks, NEW l \in BOOLEAN, NEW n \in BOOLEAN,
               BeginUpdate(e, t, [kind |-> cut.tracks[t].kind, locked |-> l, enabled |-> n])
        PROVE  TlInv'
    <3>1. PICK row : row = [kind |-> cut.tracks[t].kind, locked |-> l, enabled |-> n]
      OBVIOUS
    <3>2. row \in TrackRows /\ row.kind = cut.tracks[t].kind /\ BeginUpdate(e, t, row)
      BY <2>2, <3>1, CutIsFit DEF Fit, TrackRows
    <3> QED
      BY <3>2, BeginUpdateKeeps
  <2> QED
    BY <2>1, <2>2, PreviewKeeps, BeginCommitKeeps, CommitEditKeeps, BeginRestoreKeeps,
       CommitRestoreKeeps, CommitUpdateKeeps, AddTrackKeeps, BeginRemoveKeeps, CommitRemoveKeeps
<1> QED
  BY <1>1, <1>2

LEMMA TlInvariance == TimelineSpec => []TlInv
BY TlInitOK, TlNextKeeps, PTL DEF TimelineSpec

(* The sequence keeps the keys of its tables and the rules of placement:   *)
(* one clip per ID, no two pictures at once on a track, and nothing on a   *)
(* track that is gone, through edits, restores and changes of tracks.      *)
THEOREM TimelineTypes == TimelineSpec => []TimelineTypeOK
<1>1. TlInv => TimelineTypeOK
  <2> SUFFICES ASSUME TlInv PROVE TimelineTypeOK
    OBVIOUS
  <2>1. Fit(cut) /\ Keyed(cut)
    BY CutIsFit
  <2>2. \A e \in Editors : edits[e].phase \in {"idle", "previewed", "commit", "restore", "update", "remove"}
    BY DEF TlInv, CallOK
  <2> QED
    BY <2>1, <2>2 DEF TlInv, Known, Fit, Keyed, TimelineTypeOK, Tip
<1> QED
  BY <1>1, TlInvariance, PTL

(* A commit is of its kind.                                                *)
LEMMA EditIsCommitted ==
  ASSUME TlInv, TimelineNext, log' # log, LastCommit.kind \in {"commit_edit", "restore_edit"}
  PROVE  \E e \in Editors :
           /\ edits' = [edits EXCEPT ![e] = NoEdit]
           /\ \/ /\ CommitEdit(e) /\ Committable(edits[e]) /\ LastCommit.kind = "commit_edit"
                 /\ cut' = edits[e].after
              \/ /\ CommitRestore(e) /\ AtBase(edits[e]) /\ LastCommit.kind = "restore_edit"
<1>1. ASSUME NEW kind, NEW s, NEW w, Commits(kind, s, w) PROVE LastCommit.kind = kind
  <2>1. PICK row : row = [kind |-> kind, writes |-> w, cut |-> s]
    OBVIOUS
  <2>2. log' = Append(log, row) /\ row.kind = kind
    BY <1>1, <2>1 DEF Commits
  <2>3. log \in Seq(Range(log))
    BY DEF TlInv, Known
  <2>4. log'[Len(log')] = row
    <3> DEFINE R == Range(log) \cup {row}
    <3>1. log \in Seq(R) /\ row \in R
      BY <2>3
    <3> HIDE DEF R
    <3> QED
      BY <2>2, <3>1
  <2> QED
    BY <2>2, <2>4 DEF LastCommit
<1>2. \E e \in Editors :
        CommitEdit(e) \/ CommitRestore(e) \/ CommitUpdate(e) \/ CommitRemove(e)
        \/ \E t \in DOMAIN SpareTracks : AddTrack(e, t)
  BY DEF TimelineNext, Preview, BeginCommit, BeginRestore, BeginUpdate, BeginRemove
<1>3. \A e \in Editors : ~CommitUpdate(e)
  BY <1>1 DEF CommitUpdate
<1>4. \A e \in Editors : ~CommitRemove(e)
  BY <1>1 DEF CommitRemove
<1>5. \A e \in Editors : \A t \in DOMAIN SpareTracks : ~AddTrack(e, t)
  BY <1>1 DEF AddTrack
<1>6. ASSUME NEW e \in Editors, CommitEdit(e)
      PROVE  /\ edits' = [edits EXCEPT ![e] = NoEdit] /\ Committable(edits[e])
             /\ LastCommit.kind = "commit_edit" /\ cut' = edits[e].after
  <2>1. Committable(edits[e]) /\ Goes(e, NoEdit)
        /\ Commits("commit_edit", edits[e].after, WriteSet(cut, edits[e].intent))
    BY <1>6 DEF CommitEdit, Refuse
  <2>2. LastCommit.kind = "commit_edit"
    BY <1>1, <2>1
  <2> QED
    BY <2>1, <2>2 DEF Goes, Commits
<1>7. ASSUME NEW e \in Editors, CommitRestore(e)
      PROVE  /\ edits' = [edits EXCEPT ![e] = NoEdit] /\ AtBase(edits[e])
             /\ LastCommit.kind = "restore_edit"
  <2>1. AtBase(edits[e]) /\ Goes(e, NoEdit)
        /\ Commits("restore_edit", PutBack(edits[e].source), RestoreWrites(edits[e].source))
    BY <1>7 DEF CommitRestore, Refuse
  <2>2. LastCommit.kind = "restore_edit"
    BY <1>1, <2>1
  <2> QED
    BY <2>1, <2>2 DEF Goes
<1> QED
  BY <1>2, <1>3, <1>4, <1>5, <1>6, <1>7

(* Whatever an edit is made of, and whoever locks a track between its      *)
(* preview and its commit, it moves, cuts, adds and removes nothing on a   *)
(* track that is locked.                                                   *)
THEOREM LocksHold == TimelineSpec => LockedKeepsPlacement
<1> DEFINE Holds == log' # log /\ LastCommit.kind = "commit_edit" =>
                      \A t \in DOMAIN cut.tracks :
                        cut.tracks[t].locked => Placement(cut', t) = Placement(cut, t)
<1>1. TlInv /\ [TimelineNext]_tlVars => [Holds]_tlVars
  <2> SUFFICES ASSUME TlInv, TimelineNext, log' # log, LastCommit.kind = "commit_edit"
               PROVE  \A t \in DOMAIN cut.tracks :
                        cut.tracks[t].locked => Placement(cut', t) = Placement(cut, t)
    OBVIOUS
  <2>1. PICK e \in Editors : CommitEdit(e) /\ Committable(edits[e]) /\ cut' = edits[e].after
    BY EditIsCommitted
  <2>2. edits[e].intent \in Intents /\ edits[e].after # Refused
    BY <2>1 DEF CommitEdit, TlInv, CallOK
  <2>3. PICK s : s = edits[e].after
    OBVIOUS
  <2>4. s = Projected(cut, edits[e].intent)
    BY <2>1, <2>3 DEF Committable
  <2>5. Spared(cut, s)
    BY <2>2, <2>3, <2>4, CutIsFit, ProjectedIs
  <2>6. cut' = s
    BY <2>1, <2>3
  <2>7. \A t \in DOMAIN cut.tracks : cut.tracks[t].locked => Placement(s, t) = Placement(cut, t)
    BY <2>5 DEF Spared
  <2> QED
    BY <2>6, <2>7 DEF Placement, OnTrack
<1> QED
  BY <1>1, TlInvariance, PTL DEF TimelineSpec, LockedKeepsPlacement

(* What commits is what was previewed, whatever others committed in        *)
(* between, and a restore replaces the state that its caller named.        *)
THEOREM ShownIsCommitted == TimelineSpec => CommitsWhatWasShown
<1> DEFINE AsShown ==
      \A e \in Editors :
        log' # log /\ edits'[e] # edits[e] =>
          /\ LastCommit.kind = "commit_edit" => cut = edits[e].before /\ cut' = edits[e].after
          /\ LastCommit.kind = "restore_edit" => cut = log[edits[e].base].cut
<1>1. TlInv /\ [TimelineNext]_tlVars => [AsShown]_tlVars
  <2> SUFFICES ASSUME TlInv, TimelineNext, NEW e \in Editors, log' # log, edits'[e] # edits[e],
                      LastCommit.kind \in {"commit_edit", "restore_edit"}
               PROVE  /\ LastCommit.kind = "commit_edit" => cut = edits[e].before /\ cut' = edits[e].after
                      /\ LastCommit.kind = "restore_edit" => cut = log[edits[e].base].cut
    OBVIOUS
  <2>1. PICK d \in Editors :
          /\ edits' = [edits EXCEPT ![d] = NoEdit]
          /\ \/ /\ CommitEdit(d) /\ Committable(edits[d]) /\ LastCommit.kind = "commit_edit"
                /\ cut' = edits[d].after
             \/ /\ CommitRestore(d) /\ AtBase(edits[d]) /\ LastCommit.kind = "restore_edit"
    BY EditIsCommitted
  <2>2. edits = [x \in Editors |-> edits[x]]
    BY DEF TlInv
  <2>3. d = e
    BY <2>1, <2>2
  <2>4. log[Len(log)].cut = cut
    BY DEF TlInv
  <2> QED
    BY <2>1, <2>3, <2>4 DEF Committable, AtBase, Tip
<1> QED
  BY <1>1, TlInvariance, PTL DEF TimelineSpec, CommitsWhatWasShown

(* docs/mvp-prd.md:820: however its operations split, cut, trim, move and  *)
(* round, and whatever was committed before it, an edit shows no tick of a *)
(* source twice that was shown once, unless an operation names a range of  *)
(* the source itself.                                                      *)
THEOREM CutsAreShownOnce == TimelineSpec => CutsShowOnce
<1> DEFINE ShownOnce ==
      \A e \in Editors :
        /\ log' # log /\ LastCommit.kind = "commit_edit" /\ edits'[e] # edits[e]
        /\ \A i \in DOMAIN edits[e].intent : ~ChoosesRange(edits[e].intent[i])
        => \A c \in cut'.clips, t \in 0..StreamTicks :
             ShownTwice(cut', c.source, t) => ShownTwice(cut, c.source, t)
<1>1. TlInv /\ [TimelineNext]_tlVars => [ShownOnce]_tlVars
  <2> SUFFICES ASSUME TlInv, TimelineNext, NEW e \in Editors, log' # log,
                      LastCommit.kind = "commit_edit", edits'[e] # edits[e],
                      \A i \in DOMAIN edits[e].intent : ~ChoosesRange(edits[e].intent[i])
               PROVE  \A c \in cut'.clips, t \in 0..StreamTicks :
                        ShownTwice(cut', c.source, t) => ShownTwice(cut, c.source, t)
    OBVIOUS
  <2>1. PICK d \in Editors :
          /\ edits' = [edits EXCEPT ![d] = NoEdit]
          /\ CommitEdit(d) /\ Committable(edits[d]) /\ cut' = edits[d].after
    BY EditIsCommitted
  <2>2. edits = [x \in Editors |-> edits[x]]
    BY DEF TlInv
  <2>3. d = e
    BY <2>1, <2>2
  <2>4. edits[e].intent \in Intents /\ edits[e].after # Refused
    BY <2>1, <2>3 DEF CommitEdit, TlInv, CallOK
  <2>5. PICK s : s = edits[e].after
    OBVIOUS
  <2>6. s = Projected(cut, edits[e].intent)
    BY <2>1, <2>3, <2>5 DEF Committable
  <2>7. ShowsLess(cut, s)
    BY <2>4, <2>5, <2>6, CutIsFit, ProjectedIs
  <2>8. cut' = s
    BY <2>1, <2>3, <2>5
  <2>9. 0..StreamTicks \subseteq Int
    BY TimelineAssumption
  <2>10. \A source : \A t \in 0..StreamTicks : ShownTwice(s, source, t) => ShownTwice(cut, source, t)
    BY <2>7, <2>9 DEF ShowsLess
  <2> QED
    BY <2>8, <2>10 DEF ShownTwice, Shows, Timed
<1> QED
  BY <1>1, TlInvariance, PTL DEF TimelineSpec, CutsShowOnce

(* An edit does what was shown, and leaves locked tracks in place.         *)
THEOREM EditsAreKept == TimelineSpec => EditsAreFaithful
BY LocksHold, ShownIsCommitted DEF EditsAreFaithful

---------------------------------------------------------------------------
(* The board                                                               *)

(* The cells of a board, and boards whose cells keep apart.                *)
IsBoard(cs) ==
  /\ cs = [i \in DOMAIN cs |-> cs[i]] /\ DOMAIN cs \subseteq CellIds /\ IsFiniteSet(DOMAIN cs)
  /\ \A i \in DOMAIN cs : cs[i] \in CellRows /\ cs[i].id = i
Apart(cs) == \A i, j \in DOMAIN cs : i # j => Slots(cs[i]) \cap Slots(cs[j]) = {}

(* A cell elsewhere is the same cell.                                      *)
SameCell(c, d) == c.id = d.id /\ c.type = d.type /\ c.entity = d.entity

LEMMA NbSizes ==
  Rows \in Nat /\ Columns \in Nat /\ Rows > 0 /\ Columns > 0 /\ CellIds \subseteq Nat /\ 0 \notin CellIds
<1>1. Rows \in Nat \ {0} /\ Columns \in Nat \ {0} /\ CellIds \subseteq Nat \ {0}
  BY NbAssumption, Zenon
<1> QED
  BY <1>1

LEMMA CellIs ==
  ASSUME NEW c \in CellRows
  PROVE  /\ c.id \in CellIds /\ c.row \in 0..(Rows - 1) /\ c.column \in 0..(Columns - 1)
         /\ c.id \in Nat /\ c.row \in Nat /\ c.column \in Nat
<1> DEFINE types == {d.type : d \in Drafts}
           names == {d.entity : d \in Drafts}
<1>1. c \in [id : CellIds, type : types, row : 0..(Rows - 1), column : 0..(Columns - 1),
             entity : names, cites : Nat]
  BY DEF CellRows
<1> HIDE DEF types, names
<1>2. c.id \in CellIds /\ c.row \in 0..(Rows - 1) /\ c.column \in 0..(Columns - 1)
  BY <1>1
<1>3. c.id \in Nat
  BY <1>2, NbSizes
<1>4. c.row \in Nat /\ c.column \in Nat
  BY <1>2
<1> QED
  BY <1>2, <1>3, <1>4

(* Of two cells one ranks before the other.                                *)
LEMMA OneRanks ==
  ASSUME NEW cs, IsBoard(cs), NEW own, NEW i \in DOMAIN cs, NEW j \in DOMAIN cs, i # j
  PROVE  Ranks(cs, own, i, j) <=> ~Ranks(cs, own, j, i)
<1>1. i \in Nat /\ j \in Nat /\ cs[i].row \in Nat /\ cs[j].row \in Nat
        /\ cs[i].column \in Nat /\ cs[j].column \in Nat
  BY CellIs, NbAssumption DEF IsBoard
<1> DEFINE p == <<cs[i].row, cs[i].column>>
           q == <<cs[j].row, cs[j].column>>
<1>2. p = q \/ Earlier(p, q) \/ Earlier(q, p)
  BY <1>1 DEF Earlier
<1>3. ~(Earlier(p, q) /\ Earlier(q, p)) /\ (p = q => ~Earlier(p, q) /\ ~Earlier(q, p))
  BY <1>1 DEF Earlier
<1>4. (i < j) <=> ~(j < i)
  BY <1>1
<1> QED
  BY <1>2, <1>3, <1>4 DEF Ranks

(* A cell of a set ranks before the others of it.                          *)
LEMMA NextIs ==
  ASSUME NEW cs, IsBoard(cs), NEW own, NEW left \in SUBSET DOMAIN cs, left # {}
  PROVE  LET i == NextUp(cs, own, left) IN
         i \in left /\ \A j \in left \ {i} : Ranks(cs, own, i, j)
<1>1. \A i \in left : i \in Nat /\ cs[i].row \in Nat /\ cs[i].column \in Nat
  BY CellIs, NbAssumption DEF IsBoard
<1>2. \E i \in left : \A j \in left \ {i} : Ranks(cs, own, i, j)
  <2>1. CASE own \in left
    BY <2>1 DEF Ranks
  <2>2. CASE own \notin left
    <3> DEFINE lines == {i \in left : cs[i].type = "timeline"}
               top == IF lines = {} THEN left ELSE lines
    <3>1. top # {} /\ top \subseteq left
      OBVIOUS
    <3>2. \A i \in top, j \in left \ top : cs[i].type = "timeline" /\ cs[j].type # "timeline"
      OBVIOUS
    <3>3. \A i, j \in top : (cs[i].type = "timeline") = (cs[j].type = "timeline")
      OBVIOUS
    <3> HIDE DEF top
    <3>4. PICK r \in {cs[i].row : i \in top} : \A s \in {cs[i].row : i \in top} : r <= s
      <4>1. {cs[i].row : i \in top} \in SUBSET Nat /\ {cs[i].row : i \in top} # {}
        BY <1>1, <3>1
      <4> QED
        BY <4>1, LowestIs
    <3> DEFINE row == {i \in top : cs[i].row = r}
    <3>5. row # {} /\ row \subseteq top /\ \A i \in row, j \in top : cs[i].row <= cs[j].row
      BY <3>4
    <3>6. \A i \in row, j \in top \ row : cs[i].row < cs[j].row
      BY <1>1, <3>1, <3>5
    <3>7. PICK c \in {cs[i].column : i \in row} : \A s \in {cs[i].column : i \in row} : c <= s
      <4>1. {cs[i].column : i \in row} \in SUBSET Nat /\ {cs[i].column : i \in row} # {}
        BY <1>1, <3>1, <3>5
      <4> HIDE DEF row
      <4> QED
        BY <4>1, LowestIs
    <3> DEFINE spot == {i \in row : cs[i].column = c}
    <3>8. spot # {} /\ spot \subseteq row /\ spot \subseteq Nat
      <4>1. spot # {} /\ spot \subseteq row
        BY <3>7
      <4> HIDE DEF spot
      <4> QED
        BY <1>1, <3>1, <3>5, <4>1
    <3>9. \A i \in spot, j \in row \ spot : cs[i].column < cs[j].column
      BY <1>1, <3>1, <3>5, <3>7
    <3>10. PICK m \in spot : \A j \in spot : m <= j
      <4> HIDE DEF spot
      <4> QED
        BY <3>8, LowestIs
    <3>11. m \in left /\ m \in top /\ m \in row
      BY <3>1, <3>5, <3>8
    <3>12. ASSUME NEW j \in left, j # m PROVE Ranks(cs, own, m, j)
      <4>1. own # j /\ own # m
        BY <2>2, <3>11
      <4>2. CASE j \notin top
        BY <3>2, <3>11, <4>1, <4>2 DEF Ranks
      <4>3. CASE j \in top /\ j \notin row
        <5>1. Earlier(<<cs[m].row, cs[m].column>>, <<cs[j].row, cs[j].column>>)
          BY <3>6, <3>11, <4>3 DEF Earlier
        <5> QED
          BY <3>3, <3>11, <4>1, <4>3, <5>1 DEF Ranks
      <4>4. CASE j \in row /\ j \notin spot
        <5>1. cs[m].row = cs[j].row /\ cs[m].column < cs[j].column
          BY <3>9, <3>11, <4>4
        <5>2. Earlier(<<cs[m].row, cs[m].column>>, <<cs[j].row, cs[j].column>>)
          BY <5>1 DEF Earlier
        <5> QED
          BY <3>3, <3>5, <3>11, <4>1, <4>4, <5>2 DEF Ranks
      <4>5. CASE j \in spot
        <5>1. <<cs[m].row, cs[m].column>> = <<cs[j].row, cs[j].column>>
          BY <3>11, <4>5
        <5>2. m < j
          BY <3>8, <3>10, <3>12, <4>5
        <5> QED
          BY <3>3, <3>5, <3>8, <3>11, <4>1, <4>5, <5>1, <5>2 DEF Ranks
      <4> QED
        BY <4>2, <4>3, <4>4, <4>5
    <3> QED
      BY <3>11, <3>12
  <2> QED
    BY <2>1, <2>2
<1> DEFINE Leads(i) == \A j \in left \ {i} : Ranks(cs, own, i, j)
<1>3. NextUp(cs, own, left) = CHOOSE i \in left : Leads(i)
  BY DEF NextUp
<1>4. \E i \in left : Leads(i)
  BY <1>2
<1>5. NextUp(cs, own, left) \in left /\ Leads(NextUp(cs, own, left))
  <2> HIDE DEF Leads
  <2> QED
    BY <1>3, <1>4
<1> QED
  BY <1>5

(* The cells that keep their slots exist: they are found cell by cell.     *)
LEMMA SettledIs ==
  ASSUME NEW cs, IsBoard(cs), NEW own
  PROVE  LET stay == Settled(cs, own) IN
         stay \subseteq DOMAIN cs /\ \A i \in DOMAIN cs : i \in stay <=> ~InTheWay(cs, own, stay, i)
<1> DEFINE First(top) == top \subseteq DOMAIN cs
                           /\ \A i \in top, j \in DOMAIN cs \ top : Ranks(cs, own, i, j)
           Fair(top, stay) == stay \subseteq top
                                /\ \A i \in top : i \in stay <=> ~InTheWay(cs, own, stay, i)
           Left == {n \in Nat : \E top, stay : First(top) /\ Fair(top, stay)
                                  /\ Cardinality(DOMAIN cs \ top) = n}
<1>1. IsFiniteSet(DOMAIN cs)
  BY DEF IsBoard
<1>2. Left # {}
  <2>1. First({}) /\ Fair({}, {})
    OBVIOUS
  <2>2. DOMAIN cs \ {} = DOMAIN cs
    OBVIOUS
  <2>3. Cardinality(DOMAIN cs) \in Nat
    BY <1>1, FS_CardinalityType
  <2>4. Cardinality(DOMAIN cs) \in Left
    BY <2>1, <2>2, <2>3
  <2> QED
    BY <2>4
<1>3. PICK least \in Left : \A n \in Left : least <= n
  <2>1. Left \in SUBSET Nat
    OBVIOUS
  <2> HIDE DEF Left
  <2> QED
    BY <1>2, <2>1, LowestIs
<1>4. PICK top, stay : First(top) /\ Fair(top, stay) /\ Cardinality(DOMAIN cs \ top) = least
  OBVIOUS
<1> DEFINE rest == DOMAIN cs \ top
<1>5. rest = {}
  <2> SUFFICES ASSUME rest # {} PROVE FALSE
    OBVIOUS
  <2>1. PICK i \in rest : \A j \in rest \ {i} : Ranks(cs, own, i, j)
    <3>1. rest \subseteq DOMAIN cs
      OBVIOUS
    <3> HIDE DEF rest
    <3> QED
      BY <3>1, NextIs
  <2> DEFINE more == top \cup {i}
             hold == IF InTheWay(cs, own, stay, i) THEN stay ELSE stay \cup {i}
  <2>2. First(more)
    BY <1>4, <2>1
  <2>3. \A j \in top : ~Ranks(cs, own, i, j) /\ j # i
    BY <1>4, <2>1, OneRanks
  <2>4. hold \subseteq more
    BY <1>4
  <2>5. ASSUME NEW j \in more PROVE j \in hold <=> ~InTheWay(cs, own, hold, j)
    <3>1. CASE j = i
      <4>1. InTheWay(cs, own, hold, i) <=> InTheWay(cs, own, stay, i)
        BY DEF InTheWay
      <4>2. i \notin stay
        BY <1>4
      <4> QED
        BY <3>1, <4>1, <4>2
    <3>2. CASE j \in top
      <4>1. InTheWay(cs, own, hold, j) <=> InTheWay(cs, own, stay, j)
        BY <2>3, <3>2 DEF InTheWay
      <4> QED
        BY <1>4, <2>3, <3>2, <4>1
    <3> QED
      BY <3>1, <3>2
  <2>6. Cardinality(DOMAIN cs \ more) = least - 1 /\ least \in Nat /\ least - 1 \in Nat
    <3>1. IsFiniteSet(rest) /\ DOMAIN cs \ more = rest \ {i}
      BY <1>1, FS_Subset
    <3>2. Cardinality(rest) \in Nat /\ Cardinality(rest \ {i}) \in Nat
            /\ Cardinality(rest \ {i}) = Cardinality(rest) - 1
      BY <2>1, <3>1, FS_RemoveElement, FS_CardinalityType
    <3> QED
      BY <1>4, <3>1, <3>2
  <2>7. least - 1 \in Left
    BY <2>2, <2>4, <2>5, <2>6
  <2> HIDE DEF Left
  <2> QED
    BY <1>3, <2>6, <2>7
<1>6. Fair(DOMAIN cs, stay)
  BY <1>4, <1>5
<1> DEFINE Good(s) == \A i \in DOMAIN cs : i \in s <=> ~InTheWay(cs, own, s, i)
<1>7. Settled(cs, own) = CHOOSE s \in SUBSET DOMAIN cs : Good(s)
  BY DEF Settled
<1>8. \E s \in SUBSET DOMAIN cs : Good(s)
  BY <1>6
<1>9. Settled(cs, own) \in SUBSET DOMAIN cs /\ Good(Settled(cs, own))
  <2> HIDE DEF Good
  <2> QED
    BY <1>7, <1>8
<1> QED
  BY <1>9

(* A cell stands on the board.                                             *)
LEMMA SlotsAre ==
  ASSUME NEW c \in CellRows
  PROVE  Slots(c) \subseteq Board
<1>1. c.row \in 0..(Rows - 1) /\ c.column \in 0..(Columns - 1)
  BY CellIs
<1>2. \A k \in 0..(Columns - 1) : <<c.row, k>> \in Board
  BY <1>1 DEF Board
<1> QED
  BY <1>1, <1>2 DEF Slots

(* Of some slots one is first.                                             *)
LEMMA FirstIs ==
  ASSUME NEW slots \in SUBSET Board, slots # {}
  PROVE  FirstOf(slots) \in slots
<1>1. \A s \in slots : s[1] \in Nat /\ s[2] \in Nat /\ s = <<s[1], s[2]>>
  BY NbSizes DEF Board
<1>2. PICK r \in {s[1] : s \in slots} : \A n \in {s[1] : s \in slots} : r <= n
  <2>1. {s[1] : s \in slots} \in SUBSET Nat /\ {s[1] : s \in slots} # {}
    BY <1>1
  <2> QED
    BY <2>1, LowestIs
<1> DEFINE row == {s \in slots : s[1] = r}
<1>3. row # {} /\ row \subseteq slots
  BY <1>2
<1>4. PICK c \in {s[2] : s \in row} : \A n \in {s[2] : s \in row} : c <= n
  <2>1. {s[2] : s \in row} \in SUBSET Nat /\ {s[2] : s \in row} # {}
    BY <1>1, <1>3
  <2> HIDE DEF row
  <2> QED
    BY <2>1, LowestIs
<1>5. PICK m \in row : m[2] = c
  BY <1>4
<1>6. ASSUME NEW o \in slots \ {m} PROVE Earlier(m, o)
  <2>1. m[1] = r /\ r <= o[1] /\ (o[1] = r => m[2] <= o[2])
    BY <1>2, <1>4, <1>5
  <2>2. o[1] = m[1] => o[2] # m[2]
    BY <1>1, <1>3
  <2>3. o[1] \in Nat /\ m[1] \in Nat /\ o[2] \in Nat /\ m[2] \in Nat
    BY <1>1, <1>3
  <2> QED
    BY <2>1, <2>2, <2>3 DEF Earlier
<1>7. m \in slots
  BY <1>3
<1> DEFINE Leads(s) == \A o \in slots \ {s} : Earlier(s, o)
<1>8. FirstOf(slots) = CHOOSE s \in slots : Leads(s)
  BY DEF FirstOf
<1>9. \E s \in slots : Leads(s)
  BY <1>6, <1>7
<1> HIDE DEF Leads
<1> QED
  BY <1>8, <1>9

(* A cell that is displaced goes where no cell stands, or the board is full. *)
Displaced(new, cs, i, c) ==
  \/ IsFull(new)
  \/ /\ IsBoard(new) /\ Apart(new) /\ DOMAIN new = DOMAIN cs \cup {i}
     /\ SameCell(new[i], c) /\ \A j \in DOMAIN cs : new[j] = cs[j]
LEMMA DisplaceIs ==
  ASSUME NEW cs, IsBoard(cs), Apart(cs), NEW i \in CellIds, i \notin DOMAIN cs,
         NEW c \in CellRows, c.id = i
  PROVE  Displaced(Displace(cs, i, c), cs, i, c)
<1> DEFINE free == IF c.type = "timeline" THEN EmptyRows(cs) ELSE EmptySlots(cs)
           there == [c EXCEPT !.row = FirstOf(free)[1], !.column = FirstOf(free)[2]]
           new == [k \in DOMAIN cs \cup {i} |-> IF k = i THEN there ELSE cs[k]]
<1>1. CASE free = {}
  <2>1. Displace(cs, i, c) = Full
    BY <1>1 DEF Displace
  <2>2. 0 \in DOMAIN Full
    BY DEF Full
  <2> QED
    BY <2>1, <2>2 DEF IsFull, Displaced
<1>2. CASE free # {}
  <2>1. Displace(cs, i, c) = new
    BY <1>2 DEF Displace
  <2>2. FirstOf(free) \in free /\ FirstOf(free) \in Board
    <3>1. free \in SUBSET Board
      BY DEF EmptyRows, EmptySlots
    <3> HIDE DEF free
    <3> QED
      BY <1>2, <3>1, FirstIs
  <2> DEFINE spot == FirstOf(free)
  <2>3. spot[1] \in 0..(Rows - 1) /\ spot[2] \in 0..(Columns - 1) /\ spot = <<spot[1], spot[2]>>
    <3> HIDE DEF free
    <3> QED
      BY <2>2 DEF Board
  <2>4. there \in CellRows /\ there.type = c.type /\ there.id = c.id /\ there.entity = c.entity
          /\ there.row = spot[1] /\ there.column = spot[2]
    <3> DEFINE types == {d.type : d \in Drafts}
               names == {d.entity : d \in Drafts}
    <3>1. CellRows = [id : CellIds, type : types, row : 0..(Rows - 1), column : 0..(Columns - 1),
                      entity : names, cites : Nat]
      BY DEF CellRows
    <3> HIDE DEF types, names, spot, free
    <3> QED
      BY <2>3, <3>1 DEF spot
  <2>5. Slots(there) \cap Occupied(cs) = {}
    <3>1. CASE c.type = "timeline"
      <4>1. spot \in EmptyRows(cs)
        BY <2>2, <3>1
      <4>2. \A k \in 0..(Columns - 1) : <<spot[1], k>> \in EmptySlots(cs)
        BY <4>1 DEF EmptyRows
      <4>3. Slots(there) = {<<spot[1], k>> : k \in 0..(Columns - 1)}
        BY <2>4, <3>1 DEF Slots
      <4> HIDE DEF there, spot
      <4> QED
        BY <4>2, <4>3 DEF EmptySlots
    <3>2. CASE c.type # "timeline"
      <4>1. spot \in EmptySlots(cs)
        BY <2>2, <3>2
      <4>2. Slots(there) = {<<spot[1], spot[2]>>}
        BY <2>4, <3>2 DEF Slots
      <4> HIDE DEF there, spot
      <4> QED
        BY <2>3, <4>1, <4>2 DEF EmptySlots
    <3> QED
      BY <3>1, <3>2
  <2>6. DOMAIN new = DOMAIN cs \cup {i} /\ new[i] = there /\ \A j \in DOMAIN cs : new[j] = cs[j]
    <3> HIDE DEF there
    <3> QED
      OBVIOUS
  <2>7. new = [k \in DOMAIN new |-> new[k]]
    <3> HIDE DEF there
    <3> QED
      OBVIOUS
  <2> HIDE DEF there, new
  <2>8. IsBoard(new)
    <3>1. DOMAIN new \subseteq CellIds /\ IsFiniteSet(DOMAIN new)
      BY <2>6, FS_AddElement DEF IsBoard
    <3>2. \A k \in DOMAIN new : new[k] \in CellRows /\ new[k].id = k
      BY <2>4, <2>6 DEF IsBoard
    <3> QED
      BY <2>7, <3>1, <3>2 DEF IsBoard
  <2>9. Apart(new)
    <3>1. \A j \in DOMAIN cs : Slots(new[j]) \cap Slots(new[i]) = {}
      BY <2>5, <2>6 DEF Occupied
    <3> QED
      BY <2>6, <3>1 DEF Apart
  <2>10. SameCell(new[i], c)
    BY <2>4, <2>6 DEF SameCell
  <2> QED
    BY <2>1, <2>6, <2>8, <2>9, <2>10 DEF Displaced
<1> QED
  BY <1>1, <1>2

(* The boards on the way exist: each is defined from the one before.       *)
LEMMA PlacedIs ==
  ASSUME NEW cs, NEW own, NEW stay, stay = Settled(cs, own),
         NEW gone, gone = DOMAIN cs \ stay, Cardinality(gone) \in Nat,
         NEW f, f = Placed(cs, own)
  PROVE  /\ f[0] = Restrict(cs, stay)
         /\ \A n \in 1..Cardinality(gone) :
              LET i == NextUp(cs, own, gone \ DOMAIN f[n - 1]) IN
              f[n] = IF IsFull(f[n - 1]) THEN Full ELSE Displace(f[n - 1], i, cs[i])
<1> DEFINE Place(p) == IF IsFull(p) THEN Full
                       ELSE Displace(p, NextUp(cs, own, gone \ DOMAIN p),
                                     cs[NextUp(cs, own, gone \ DOMAIN p)])
           Upto(m, g) == g = [n \in 0..m |-> IF n = 0 THEN Restrict(cs, stay) ELSE Place(g[n - 1])]
           Missing == {m \in Nat : ~\E g : Upto(m, g)}
<1>0. f = CHOOSE g : Upto(Cardinality(gone), g)
  BY DEF Placed
<1> HIDE DEF Place
<1>1. Missing = {}
  <2> SUFFICES ASSUME Missing # {} PROVE FALSE
    OBVIOUS
  <2>1. PICK m \in Missing : \A n \in Missing : m <= n
    <3>1. Missing \in SUBSET Nat
      OBVIOUS
    <3> HIDE DEF Missing
    <3> QED
      BY <3>1, LowestIs
  <2>2. CASE m = 0
    <3>1. PICK g : g = [n \in 0..0 |-> Restrict(cs, stay)]
      OBVIOUS
    <3>2. \A n \in 0..0 : n = 0
      OBVIOUS
    <3>3. Upto(0, g)
      BY <3>1, <3>2
    <3> QED
      BY <2>2, <3>3
  <2>3. CASE m # 0
    <3>1. m - 1 \in Nat /\ m \in Nat /\ m - 1 \notin Missing
      <4>1. m \in Nat
        OBVIOUS
      <4> HIDE DEF Missing
      <4>2. m - 1 \in Nat /\ ~(m <= m - 1)
        BY <2>3, <4>1
      <4> QED
        BY <2>1, <4>1, <4>2
    <3>2. PICK g : Upto(m - 1, g)
      BY <3>1
    <3>3. PICK h : h = [n \in 0..m |-> IF n = m THEN Place(g[m - 1]) ELSE g[n]]
      OBVIOUS
    <3>4. \A n \in 0..m : h[n] = IF n = 0 THEN Restrict(cs, stay) ELSE Place(h[n - 1])
      <4> SUFFICES ASSUME NEW n \in 0..m
                   PROVE  h[n] = IF n = 0 THEN Restrict(cs, stay) ELSE Place(h[n - 1])
        OBVIOUS
      <4>1. CASE n = m
        <5>1. h[n] = Place(g[m - 1]) /\ h[m - 1] = g[m - 1]
          BY <3>1, <3>3, <4>1
        <5> QED
          BY <2>3, <4>1, <5>1
      <4>2. CASE n # m
        <5>1. n \in 0..(m - 1) /\ h[n] = g[n]
          BY <3>1, <3>3, <4>2
        <5>2. g[n] = IF n = 0 THEN Restrict(cs, stay) ELSE Place(g[n - 1])
          BY <3>2, <5>1
        <5>3. n # 0 => h[n - 1] = g[n - 1]
          BY <3>1, <3>3, <5>1
        <5> QED
          BY <5>1, <5>2, <5>3
      <4> QED
        BY <4>1, <4>2
    <3>5. Upto(m, h)
      <4>1. h = [n \in 0..m |-> h[n]]
        BY <3>3
      <4> QED
        BY <3>4, <4>1
    <3> QED
      BY <2>1, <3>5
  <2> QED
    BY <2>2, <2>3
<1>2. \E g : Upto(Cardinality(gone), g)
  BY <1>1
<1>3. Upto(Cardinality(gone), f)
  BY <1>0, <1>2
<1>4. \A n \in 0..Cardinality(gone) : f[n] = IF n = 0 THEN Restrict(cs, stay) ELSE Place(f[n - 1])
  BY <1>3
<1>5. 0 \in 0..Cardinality(gone) /\ \A n \in 1..Cardinality(gone) : n \in 0..Cardinality(gone) /\ n # 0
  OBVIOUS
<1>6. f[0] = Restrict(cs, stay) /\ \A n \in 1..Cardinality(gone) : f[n] = Place(f[n - 1])
  BY <1>4, <1>5
<1> QED
  BY <1>6 DEF Place

(* The cells that keep their slots keep apart.                             *)
LEMMA SettledApart ==
  ASSUME NEW cs, IsBoard(cs), NEW own
  PROVE  LET on == Restrict(cs, Settled(cs, own)) IN
         /\ IsBoard(on) /\ Apart(on) /\ DOMAIN on = Settled(cs, own)
         /\ \A i \in DOMAIN on : on[i] = cs[i]
<1> DEFINE stay == Settled(cs, own)
           on == Restrict(cs, stay)
<1>1. stay \subseteq DOMAIN cs /\ \A i \in DOMAIN cs : i \in stay <=> ~InTheWay(cs, own, stay, i)
  BY SettledIs
<1> HIDE DEF stay
<1>2. on = [i \in stay |-> cs[i]]
  BY DEF Restrict
<1>3. DOMAIN on = stay /\ (\A i \in stay : on[i] = cs[i]) /\ on = [i \in DOMAIN on |-> on[i]]
  BY <1>2
<1> HIDE DEF on
<1>4. IsBoard(on)
  <2>1. IsFiniteSet(stay)
    BY <1>1, FS_Subset DEF IsBoard
  <2> QED
    BY <1>1, <1>3, <2>1 DEF IsBoard
<1>5. ASSUME NEW i \in stay, NEW j \in stay, i # j PROVE Slots(cs[i]) \cap Slots(cs[j]) = {}
  <2>1. ~InTheWay(cs, own, stay, i) /\ ~InTheWay(cs, own, stay, j)
    BY <1>1
  <2>2. Ranks(cs, own, i, j) \/ Ranks(cs, own, j, i)
    BY <1>1, <1>5, OneRanks
  <2> QED
    BY <1>5, <2>1, <2>2 DEF InTheWay
<1>6. Apart(on)
  BY <1>3, <1>5 DEF Apart
<1> QED
  BY <1>3, <1>4, <1>6 DEF stay, on

(* A repair keeps every cell, sets them apart and moves only cells that    *)
(* are not settled; or the board is full.                                  *)
LEMMA RepairedIs ==
  ASSUME NEW cs, IsBoard(cs), NEW own
  PROVE  LET new == Repaired(cs, own) IN
         \/ IsFull(new)
         \/ /\ IsBoard(new) /\ Apart(new) /\ DOMAIN new = DOMAIN cs
            /\ \A i \in DOMAIN cs : SameCell(new[i], cs[i])
            /\ \A i \in Settled(cs, own) : new[i] = cs[i]
<1> DEFINE stay == Settled(cs, own)
           gone == DOMAIN cs \ stay
           f == Placed(cs, own)
           OnTheWay(n) ==
             \/ IsFull(f[n])
             \/ /\ IsBoard(f[n]) /\ Apart(f[n]) /\ stay \subseteq DOMAIN f[n]
                /\ DOMAIN f[n] \subseteq DOMAIN cs /\ Cardinality(gone \ DOMAIN f[n]) = Cardinality(gone) - n
                /\ \A i \in DOMAIN f[n] : SameCell(f[n][i], cs[i])
                /\ \A i \in stay : f[n][i] = cs[i]
           Off == {n \in 0..Cardinality(gone) : ~OnTheWay(n)}
<1>1. stay \subseteq DOMAIN cs
  BY SettledIs
<1>2. IsFiniteSet(DOMAIN cs) /\ IsFiniteSet(gone) /\ Cardinality(gone) \in Nat
  BY FS_Subset, FS_CardinalityType DEF IsBoard
<1>3. /\ f[0] = Restrict(cs, stay)
      /\ \A n \in 1..Cardinality(gone) :
           LET i == NextUp(cs, own, gone \ DOMAIN f[n - 1]) IN
           f[n] = IF IsFull(f[n - 1]) THEN Full ELSE Displace(f[n - 1], i, cs[i])
  <2>1. stay = Settled(cs, own) /\ gone = DOMAIN cs \ stay /\ f = Placed(cs, own)
    OBVIOUS
  <2> HIDE DEF stay, gone, f
  <2> QED
    BY <1>2, <2>1, PlacedIs
<1>4. /\ IsBoard(f[0]) /\ Apart(f[0]) /\ DOMAIN f[0] = stay
      /\ \A i \in DOMAIN f[0] : f[0][i] = cs[i]
  BY <1>3, SettledApart
<1>5. Repaired(cs, own) = f[Cardinality(gone)]
  BY DEF Repaired
<1> HIDE DEF f, stay
<1>6. OnTheWay(0)
  <2>1. gone \ DOMAIN f[0] = gone
    BY <1>4
  <2>2. Cardinality(gone \ DOMAIN f[0]) = Cardinality(gone) - 0
    <3> HIDE DEF gone
    <3> QED
      BY <1>2, <2>1
  <2> QED
    BY <1>1, <1>4, <2>2 DEF SameCell
<1>7. ASSUME NEW n \in 1..Cardinality(gone), OnTheWay(n - 1) PROVE OnTheWay(n)
  <2> DEFINE p == f[n - 1]
             left == gone \ DOMAIN p
             i == NextUp(cs, own, left)
  <2>1. f[n] = IF IsFull(p) THEN Full ELSE Displace(p, i, cs[i])
    BY <1>3
  <2>2. CASE IsFull(p)
    <3>1. f[n] = Full /\ 0 \in DOMAIN Full
      BY <2>1, <2>2 DEF Full
    <3> QED
      BY <3>1 DEF IsFull
  <2>3. CASE ~IsFull(p)
    <3>1. /\ IsBoard(p) /\ Apart(p) /\ stay \subseteq DOMAIN p
          /\ DOMAIN p \subseteq DOMAIN cs /\ Cardinality(left) = Cardinality(gone) - (n - 1)
          /\ \A k \in DOMAIN p : SameCell(p[k], cs[k])
          /\ \A k \in stay : p[k] = cs[k]
      BY <1>7, <2>3
    <3>2. left \subseteq DOMAIN cs /\ IsFiniteSet(left)
      BY <1>2, FS_Subset
    <3>3. left # {}
      <4>1. Cardinality(left) # 0
        <5> HIDE DEF left, gone
        <5> QED
          BY <1>2, <3>1
      <4> QED
        BY <4>1, FS_EmptySet
    <3>4. i \in left
      <4> HIDE DEF left
      <4> QED
        BY <3>2, <3>3, NextIs
    <3>5. i \in DOMAIN cs /\ i \in CellIds /\ i \notin DOMAIN p /\ cs[i] \in CellRows /\ cs[i].id = i
      BY <3>2, <3>4 DEF IsBoard
    <3> HIDE DEF i
    <3>6. f[n] = Displace(p, i, cs[i])
      BY <2>1, <2>3
    <3>7. \/ IsFull(f[n])
          \/ /\ IsBoard(f[n]) /\ Apart(f[n]) /\ DOMAIN f[n] = DOMAIN p \cup {i}
             /\ SameCell(f[n][i], cs[i]) /\ \A j \in DOMAIN p : f[n][j] = p[j]
      <4> HIDE DEF p
      <4>1. Displaced(f[n], p, i, cs[i])
        BY <3>1, <3>5, <3>6, DisplaceIs
      <4> QED
        BY <4>1 DEF Displaced
    <3>8. CASE ~IsFull(f[n])
      <4>1. gone \ DOMAIN f[n] = left \ {i}
        BY <3>7, <3>8
      <4>2. Cardinality(left \ {i}) = Cardinality(left) - 1
        BY <3>2, <3>4, FS_RemoveElement
      <4>3. Cardinality(gone \ DOMAIN f[n]) = Cardinality(gone) - n
        <5> DEFINE a == Cardinality(gone)
                   b == Cardinality(left)
        <5>1. a \in Nat /\ b = a - (n - 1) /\ n \in Int
          BY <1>2, <3>1
        <5>2. Cardinality(gone \ DOMAIN f[n]) = b - 1
          BY <4>1, <4>2
        <5> HIDE DEF a, b
        <5>3. b - 1 = a - n
          BY <5>1
        <5> QED
          BY <5>2, <5>3 DEF a
      <4>4. \A k \in DOMAIN f[n] : SameCell(f[n][k], cs[k])
        BY <3>1, <3>7, <3>8
      <4>5. stay \subseteq DOMAIN f[n] /\ DOMAIN f[n] \subseteq DOMAIN cs /\ \A k \in stay : f[n][k] = cs[k]
        BY <3>1, <3>5, <3>7, <3>8
      <4> HIDE DEF p, gone, left
      <4> QED
        BY <3>7, <3>8, <4>3, <4>4, <4>5
    <3> QED
      BY <3>8
  <2> QED
    BY <2>2, <2>3
<1> HIDE DEF OnTheWay
<1>8. Off = {}
  <2> SUFFICES ASSUME Off # {} PROVE FALSE
    OBVIOUS
  <2>1. Off \in SUBSET Nat
    BY <1>2
  <2>2. PICK m \in Off : \A n \in Off : m <= n
    <3> HIDE DEF Off
    <3> QED
      BY <2>1, LowestIs
  <2>3. m \in 0..Cardinality(gone) /\ ~OnTheWay(m)
    OBVIOUS
  <2> HIDE DEF gone
  <2>4. m # 0
    BY <1>6, <2>3
  <2>5. m \in 1..Cardinality(gone) /\ m - 1 \in 0..Cardinality(gone) /\ ~(m <= m - 1)
    BY <1>2, <2>3, <2>4
  <2>6. OnTheWay(m - 1)
    BY <2>2, <2>5
  <2> QED
    BY <1>7, <2>3, <2>5, <2>6
<1> DEFINE new == f[Cardinality(gone)]
<1>9. OnTheWay(Cardinality(gone))
  <2>1. Cardinality(gone) \in 0..Cardinality(gone)
    <3> HIDE DEF gone
    <3> QED
      BY <1>2
  <2> QED
    BY <1>8, <2>1
<1>10. CASE ~IsFull(new)
  <2>1. /\ IsBoard(new) /\ Apart(new) /\ stay \subseteq DOMAIN new /\ DOMAIN new \subseteq DOMAIN cs
        /\ Cardinality(gone \ DOMAIN new) = Cardinality(gone) - Cardinality(gone)
        /\ \A i \in DOMAIN new : SameCell(new[i], cs[i])
        /\ \A i \in stay : new[i] = cs[i]
    BY <1>9, <1>10 DEF OnTheWay
  <2>2. gone \ DOMAIN new = {}
    <3>1. Cardinality(gone \ DOMAIN new) = 0
      <4> HIDE DEF gone
      <4> QED
        BY <1>2, <2>1
    <3>2. IsFiniteSet(gone \ DOMAIN new)
      BY <1>2, FS_Subset
    <3> QED
      BY <3>1, <3>2, FS_EmptySet
  <2>3. DOMAIN new = DOMAIN cs
    BY <2>1, <2>2
  <2> HIDE DEF new, gone
  <2> QED
    BY <1>5, <2>1, <2>3 DEF new, stay
<1> QED
  BY <1>5, <1>10

(* A board whose cells keep apart is as it should be.                      *)
LEMMA SteadyIs ==
  ASSUME NEW cs, IsBoard(cs), Apart(cs), NEW own
  PROVE  Repaired(cs, own) = cs
<1>1. Settled(cs, own) = DOMAIN cs
  BY SettledIs DEF InTheWay, Apart
<1>2. DOMAIN cs \ Settled(cs, own) = {} /\ Cardinality({}) = 0
  BY <1>1, FS_EmptySet
<1>3. Placed(cs, own)[0] = Restrict(cs, DOMAIN cs)
  BY <1>1, <1>2, PlacedIs
<1>4. Restrict(cs, DOMAIN cs) = cs
  BY DEF Restrict, IsBoard
<1> QED
  BY <1>2, <1>3, <1>4 DEF Repaired

(* The cell just written keeps its slots, and so does a cell that shares   *)
(* no slot with another.                                                   *)
LEMMA KeptIs ==
  ASSUME NEW cs, IsBoard(cs), NEW own \in DOMAIN cs
  PROVE  /\ own \in Settled(cs, own)
         /\ \A i \in DOMAIN cs : (\A j \in DOMAIN cs \ {i} : Slots(cs[j]) \cap Slots(cs[i]) = {})
              => i \in Settled(cs, own)
<1>1. \A j \in DOMAIN cs \ {own} : ~Ranks(cs, own, j, own)
  BY DEF Ranks
<1> QED
  BY <1>1, SettledIs DEF InTheWay

---------------------------------------------------------------------------
(* The invariant of the notebook                                           *)

AskedOK(q) ==
  /\ q.kind = "write cell" => q.cell \in CellRows
  /\ q.kind = "write notebook" =>
       /\ IsBoard(q.doc.cells) /\ q.doc.executions \subseteq DOMAIN q.doc.cells
       /\ \A e \in DOMAIN q.doc.edges :
            {q.doc.edges[e].source, q.doc.edges[e].target} \subseteq DOMAIN q.doc.cells
  /\ q.kind = "update generation" => q.status \in GenStatuses

BoardOK ==
  /\ board \in {"unborn", "live", "deleted"} /\ (board # "live" => cells = NoFunction)
  /\ IsBoard(cells) /\ Apart(cells) /\ OutputsHeld(cells)
RowsOK ==
  /\ \A e \in DOMAIN edges : {edges[e].source, edges[e].target} \subseteq DOMAIN cells
  /\ executions \subseteq DOMAIN cells
  /\ generations = [g \in DOMAIN generations |-> generations[g]]
  /\ \A g \in DOMAIN generations : generations[g] \in [cell : DOMAIN cells, status : GenStatuses]
CallsOK == asked = [c \in NbCallers |-> asked[c]] /\ \A c \in NbCallers : AskedOK(asked[c])
NbInv == BoardOK /\ RowsOK /\ CallsOK

LEMMA EmptyIs == IsBoard(NoFunction) /\ Apart(NoFunction) /\ DOMAIN NoFunction = {}
<1>1. DOMAIN NoFunction = {} /\ NoFunction = [i \in DOMAIN NoFunction |-> NoFunction[i]]
  BY DEF NoFunction
<1>2. IsFiniteSet(DOMAIN NoFunction)
  BY <1>1, FS_EmptySet
<1> QED
  BY <1>1, <1>2 DEF IsBoard, Apart

LEMMA FewerIs ==
  ASSUME NEW cs, IsBoard(cs), NEW S \in SUBSET DOMAIN cs
  PROVE  /\ IsBoard(Restrict(cs, S)) /\ (Apart(cs) => Apart(Restrict(cs, S)))
         /\ DOMAIN Restrict(cs, S) = S /\ \A i \in S : Restrict(cs, S)[i] = cs[i]
<1> DEFINE new == Restrict(cs, S)
<1>1. DOMAIN new = S /\ (\A i \in S : new[i] = cs[i]) /\ new = [i \in DOMAIN new |-> new[i]]
  BY DEF Restrict
<1> HIDE DEF new
<1>2. IsFiniteSet(S)
  BY FS_Subset DEF IsBoard
<1>3. IsBoard(new)
  BY <1>1, <1>2 DEF IsBoard
<1>4. Apart(cs) => Apart(new)
  BY <1>1 DEF Apart
<1> QED
  BY <1>1, <1>3, <1>4 DEF new

LEMMA MoreIs ==
  ASSUME NEW cs, IsBoard(cs), NEW d \in CellRows
  PROVE  LET new == With(cs, d.id, d) IN
         /\ IsBoard(new) /\ DOMAIN new = DOMAIN cs \cup {d.id} /\ new[d.id] = d
         /\ \A i \in DOMAIN cs \ {d.id} : new[i] = cs[i]
<1> DEFINE new == With(cs, d.id, d)
<1>1. /\ DOMAIN new = DOMAIN cs \cup {d.id} /\ new[d.id] = d
      /\ (\A i \in DOMAIN cs \ {d.id} : new[i] = cs[i]) /\ new = [i \in DOMAIN new |-> new[i]]
  BY DEF With
<1> HIDE DEF new
<1>2. DOMAIN new \subseteq CellIds /\ IsFiniteSet(DOMAIN new)
  <2>1. d.id \in CellIds
    BY CellIs
  <2> QED
    BY <1>1, <2>1, FS_AddElement DEF IsBoard
<1>3. \A i \in DOMAIN new : new[i] \in CellRows /\ new[i].id = i
  BY <1>1 DEF IsBoard
<1> QED
  BY <1>1, <1>2, <1>3 DEF IsBoard, new

LEMMA AskKeeps ==
  ASSUME NbInv, NEW c \in NbCallers, NEW q, AskedOK(q), Ask(c, q), UNCHANGED tables
  PROVE  NbInv'
<1>1. CallsOK'
  <2>1. asked' = [k \in NbCallers |-> IF k = c THEN q ELSE asked[k]]
    BY DEF NbInv, CallsOK, Ask
  <2> QED
    BY <2>1 DEF NbInv, CallsOK
<1>2. BoardOK' /\ RowsOK'
  BY DEF NbInv, BoardOK, RowsOK, tables, OutputsHeld
<1> QED
  BY <1>1, <1>2 DEF NbInv

LEMMA AnswerKeeps ==
  ASSUME NbInv, NEW c \in NbCallers, Answered(c)
  PROVE  CallsOK'
<1>1. AskedOK(NoCall)
  BY DEF AskedOK, NoCall
<1>2. asked' = [k \in NbCallers |-> IF k = c THEN NoCall ELSE asked[k]]
  BY DEF NbInv, CallsOK, Answered
<1> QED
  BY <1>1, <1>2 DEF NbInv, CallsOK

LEMMA SameTables ==
  ASSUME NbInv, CallsOK', UNCHANGED tables
  PROVE  NbInv'
BY DEF NbInv, BoardOK, RowsOK, tables, OutputsHeld

(* A repaired board holds what the cells it was given held.                *)
LEMMA RepairedHolds ==
  ASSUME NbInv, NEW cs, IsBoard(cs), NEW own, OutputsHeld(cs), ~IsFull(Repaired(cs, own))
  PROVE  LET new == Repaired(cs, own) IN
         IsBoard(new) /\ Apart(new) /\ OutputsHeld(new) /\ DOMAIN new = DOMAIN cs
<1>1. LET new == Repaired(cs, own) IN
      IsBoard(new) /\ Apart(new) /\ DOMAIN new = DOMAIN cs /\ \A i \in DOMAIN cs : SameCell(new[i], cs[i])
  BY RepairedIs
<1> QED
  BY <1>1 DEF OutputsHeld, SameCell

LEMMA NbBegins == NbInit => NbInv
<1> SUFFICES ASSUME NbInit PROVE NbInv
  OBVIOUS
<1>1. BoardOK
  BY EmptyIs DEF NbInit, BoardOK, OutputsHeld
<1>2. RowsOK
  <2>1. edges = NoFunction /\ executions = {} /\ generations = NoFunction
    BY DEF NbInit
  <2>2. NoFunction = [g \in DOMAIN NoFunction |-> NoFunction[g]]
    BY DEF NoFunction
  <2> QED
    BY <2>1, <2>2, EmptyIs DEF RowsOK
<1>3. CallsOK
  BY DEF NbInit, CallsOK, AskedOK, NoCall
<1> QED
  BY <1>1, <1>2, <1>3 DEF NbInv

LEMMA DeletingBoardKeeps == ASSUME NbInv, NEW c \in NbCallers, DeleteNotebook(c) PROVE NbInv'
<1>1. CallsOK'
  BY AnswerKeeps DEF DeleteNotebook
<1>2. cells' = NoFunction /\ edges' = NoFunction /\ generations' = NoFunction /\ executions' = {}
        /\ board' = "deleted"
  BY DEF DeleteNotebook
<1>3. BoardOK'
  BY <1>2, EmptyIs DEF BoardOK, OutputsHeld
<1>4. RowsOK'
  <2>1. NoFunction = [g \in DOMAIN NoFunction |-> NoFunction[g]]
    BY DEF NoFunction
  <2> QED
    BY <1>2, <2>1, EmptyIs DEF RowsOK
<1> QED
  BY <1>1, <1>3, <1>4 DEF NbInv

LEMMA AskingWriteKeeps ==
  ASSUME NbInv, NEW c \in NbCallers, NEW d \in Drafts, AskWriteCell(c, d)
  PROVE  NbInv'
<1>1. d \in CellRows
  BY NbAssumption, Zenon
<1>2. AskedOK([kind |-> "write cell", cell |-> d])
  BY <1>1 DEF AskedOK
<1> QED
  BY <1>2, AskKeeps DEF AskWriteCell

LEMMA AskingMoveKeeps ==
  ASSUME NbInv, NEW c \in NbCallers, NEW i \in DOMAIN cells, NEW s \in Board, AskMoveCell(c, i, s)
  PROVE  NbInv'
<1> DEFINE d == [cells[i] EXCEPT !.row = s[1], !.column = s[2]]
<1>1. d \in CellRows
  <2> DEFINE types == {e.type : e \in Drafts}
             names == {e.entity : e \in Drafts}
  <2>1. CellRows = [id : CellIds, type : types, row : 0..(Rows - 1), column : 0..(Columns - 1),
                    entity : names, cites : Nat]
    BY DEF CellRows
  <2>2. cells[i] \in CellRows
    BY DEF NbInv, BoardOK, IsBoard
  <2>3. s[1] \in 0..(Rows - 1) /\ s[2] \in 0..(Columns - 1)
    BY DEF Board
  <2> HIDE DEF types, names
  <2> QED
    BY <2>1, <2>2, <2>3
<1>2. AskedOK([kind |-> "write cell", cell |-> d])
  <2> HIDE DEF d
  <2> QED
    BY <1>1 DEF AskedOK
<1>3. Ask(c, [kind |-> "write cell", cell |-> d]) /\ UNCHANGED tables
  BY DEF AskMoveCell
<1> HIDE DEF d
<1> QED
  BY <1>2, <1>3, AskKeeps

LEMMA WritingKeeps == ASSUME NbInv, NEW c \in NbCallers, WriteCell(c) PROVE NbInv'
<1> DEFINE d  == asked[c].cell
           cs == With(cells, d.id, d)
<1>1. CallsOK'
  BY AnswerKeeps DEF WriteCell
<1>2. d \in CellRows /\ IsBoard(cells)
  BY DEF NbInv, BoardOK, CallsOK, AskedOK, WriteCell, Calls
<1>3. board = "live" /\ board' = board /\ OutputsHeld(cs) /\ ~IsFull(Repaired(cs, d.id))
        /\ cells' = Repaired(cs, d.id)
        /\ UNCHANGED <<edges, executions, generations, entities>>
  BY DEF WriteCell, Writable
<1> HIDE DEF d
<1>4. IsBoard(cs) /\ DOMAIN cs = DOMAIN cells \cup {d.id}
  BY <1>2, MoreIs
<1> HIDE DEF cs
<1>5. IsBoard(cells') /\ Apart(cells') /\ OutputsHeld(cells') /\ DOMAIN cells \subseteq DOMAIN cells'
  <2>1. IsBoard(cells') /\ Apart(cells') /\ OutputsHeld(cells') /\ DOMAIN cells' = DOMAIN cs
    BY <1>3, <1>4, RepairedHolds
  <2> QED
    BY <1>4, <2>1
<1>6. BoardOK'
  BY <1>3, <1>5 DEF BoardOK, OutputsHeld
<1>7. RowsOK'
  <2>1. \A g \in DOMAIN generations : generations[g] \in [cell : DOMAIN cells', status : GenStatuses]
    BY <1>5 DEF NbInv, RowsOK
  <2> QED
    BY <1>3, <1>5, <2>1 DEF NbInv, RowsOK
<1> QED
  BY <1>1, <1>6, <1>7 DEF NbInv

LEMMA RemovingCellKeeps == ASSUME NbInv, NEW c \in NbCallers, RemoveCell(c) PROVE NbInv'
<1> DEFINE i  == asked[c].id
           cs == Restrict(cells, DOMAIN cells \ {i})
<1>1. CallsOK'
  BY AnswerKeeps DEF RemoveCell
<1>2. cells' = Repaired(cs, 0) /\ edges' = EdgesWithout({i}) /\ generations' = GensWithout({i})
        /\ executions' = executions \ {i} /\ UNCHANGED <<board, entities>>
  BY DEF RemoveCell
<1> HIDE DEF i
<1>3. IsBoard(cells) /\ Apart(cells)
  BY DEF NbInv, BoardOK
<1>4. IsBoard(cs) /\ Apart(cs) /\ DOMAIN cs = DOMAIN cells \ {i}
        /\ \A k \in DOMAIN cells \ {i} : cs[k] = cells[k]
  BY <1>3, FewerIs
<1>5. board # "live" => cs = NoFunction
  BY EmptyIs DEF NbInv, BoardOK, Restrict, NoFunction
<1> HIDE DEF cs
<1>6. cells' = cs
  BY <1>2, <1>4, SteadyIs
<1>7. BoardOK'
  <2>1. OutputsHeld(cells)
    BY DEF NbInv, BoardOK
  <2>2. OutputsHeld(cells)'
    BY <1>2, <1>4, <1>6, <2>1 DEF OutputsHeld
  <2> QED
    BY <1>2, <1>4, <1>5, <1>6, <2>2 DEF NbInv, BoardOK
<1>8. RowsOK'
  <2>1. \A e \in DOMAIN edges' : e \in DOMAIN edges /\ edges'[e] = edges[e]
          /\ i \notin {edges[e].source, edges[e].target}
    BY <1>2 DEF EdgesWithout, Restrict
  <2>2. generations' = [g \in DOMAIN generations' |-> generations'[g]]
          /\ \A g \in DOMAIN generations' : g \in DOMAIN generations
               /\ generations'[g] = generations[g] /\ generations[g].cell # i
    BY <1>2 DEF GensWithout, Restrict
  <2>3. \A g \in DOMAIN generations' : generations'[g] \in [cell : DOMAIN cells', status : GenStatuses]
    BY <1>4, <1>6, <2>2 DEF NbInv, RowsOK
  <2>4. \A e \in DOMAIN edges' : {edges'[e].source, edges'[e].target} \subseteq DOMAIN cells'
    BY <1>4, <1>6, <2>1 DEF NbInv, RowsOK
  <2>5. executions' \subseteq DOMAIN cells'
    BY <1>2, <1>4, <1>6 DEF NbInv, RowsOK
  <2> QED
    BY <2>2, <2>3, <2>4, <2>5 DEF RowsOK
<1> QED
  BY <1>1, <1>7, <1>8 DEF NbInv

LEMMA AskingDocKeeps ==
  ASSUME NbInv, NEW c \in NbCallers, NEW doc \in EditedDocs, AskWriteNotebook(c, doc)
  PROVE  NbInv'
<1>1. IsBoard(cells) /\ executions \subseteq DOMAIN cells
  BY DEF NbInv, BoardOK, RowsOK
<1>2. IsBoard(doc.cells) /\ doc.executions \subseteq DOMAIN doc.cells
  <2>1. CASE doc = DocOf
    BY <1>1, <2>1 DEF DocOf
  <2>2. ASSUME NEW i \in DOMAIN cells,
               doc = [DocOf EXCEPT !.cells = Restrict(cells, DOMAIN cells \ {i}),
                                   !.edges = EdgesWithout({i}), !.executions = @ \ {i}]
        PROVE  IsBoard(doc.cells) /\ doc.executions \subseteq DOMAIN doc.cells
    <3>1. doc.cells = Restrict(cells, DOMAIN cells \ {i}) /\ doc.executions = executions \ {i}
      BY <2>2 DEF DocOf
    <3>2. IsBoard(Restrict(cells, DOMAIN cells \ {i}))
            /\ DOMAIN Restrict(cells, DOMAIN cells \ {i}) = DOMAIN cells \ {i}
      BY <1>1, FewerIs
    <3> QED
      BY <1>1, <3>1, <3>2
  <2>3. ASSUME NEW d \in Drafts, doc = [DocOf EXCEPT !.cells = With(cells, d.id, d)]
        PROVE  IsBoard(doc.cells) /\ doc.executions \subseteq DOMAIN doc.cells
    <3>1. doc.cells = With(cells, d.id, d) /\ doc.executions = executions
      BY <2>3 DEF DocOf
    <3>2. d \in CellRows
      BY NbAssumption, Zenon
    <3>3. IsBoard(With(cells, d.id, d)) /\ DOMAIN With(cells, d.id, d) = DOMAIN cells \cup {d.id}
      BY <1>1, <3>2, MoreIs
    <3> QED
      BY <1>1, <3>1, <3>3
  <2>4. ASSUME NEW es, doc = [DocOf EXCEPT !.edges = es]
        PROVE  IsBoard(doc.cells) /\ doc.executions \subseteq DOMAIN doc.cells
    BY <1>1, <2>4 DEF DocOf
  <2>5. ASSUME NEW i \in DOMAIN cells, doc = [DocOf EXCEPT !.executions = @ \cup {i}]
        PROVE  IsBoard(doc.cells) /\ doc.executions \subseteq DOMAIN doc.cells
    BY <1>1, <2>5 DEF DocOf
  <2>6. \/ doc = DocOf
        \/ \E i \in DOMAIN cells :
             doc = [DocOf EXCEPT !.cells = Restrict(cells, DOMAIN cells \ {i}),
                                 !.edges = EdgesWithout({i}), !.executions = @ \ {i}]
        \/ \E d \in Drafts : doc = [DocOf EXCEPT !.cells = With(cells, d.id, d)]
        \/ \E es : doc = [DocOf EXCEPT !.edges = es]
        \/ \E i \in DOMAIN cells : doc = [DocOf EXCEPT !.executions = @ \cup {i}]
    BY Zenon DEF EditedDocs
  <2> QED
    BY <2>1, <2>2, <2>3, <2>4, <2>5, <2>6
<1>3. \A e \in DOMAIN doc.edges :
        {doc.edges[e].source, doc.edges[e].target} \subseteq DOMAIN doc.cells
  BY DEF AskWriteNotebook, DocValid
<1>4. AskedOK([kind |-> "write notebook", doc |-> doc])
  BY <1>2, <1>3 DEF AskedOK
<1> QED
  BY <1>4, AskKeeps DEF AskWriteNotebook

LEMMA WritingDocKeeps == ASSUME NbInv, NEW c \in NbCallers, WriteNotebook(c) PROVE NbInv'
<1> DEFINE doc == asked[c].doc
<1>1. CallsOK'
  BY AnswerKeeps DEF WriteNotebook
<1>2. /\ IsBoard(doc.cells) /\ doc.executions \subseteq DOMAIN doc.cells
      /\ \A e \in DOMAIN doc.edges :
           {doc.edges[e].source, doc.edges[e].target} \subseteq DOMAIN doc.cells
  BY DEF NbInv, CallsOK, AskedOK, WriteNotebook, Calls
<1>3. /\ board = "live" /\ board' = board /\ entities' = entities
      /\ OutputsHeld(doc.cells) /\ ~IsFull(Repaired(doc.cells, 0))
      /\ cells' = Repaired(doc.cells, 0) /\ edges' = doc.edges /\ executions' = doc.executions
      /\ generations' = GensWithout(DOMAIN cells \ DOMAIN doc.cells)
  BY DEF WriteNotebook, NotebookWritable
<1> HIDE DEF doc
<1>4. IsBoard(cells') /\ Apart(cells') /\ OutputsHeld(cells') /\ DOMAIN cells' = DOMAIN doc.cells
  BY <1>2, <1>3, RepairedHolds
<1>5. BoardOK'
  BY <1>3, <1>4 DEF BoardOK, OutputsHeld
<1>6. RowsOK'
  <2>1. generations' = [g \in DOMAIN generations' |-> generations'[g]]
          /\ \A g \in DOMAIN generations' : g \in DOMAIN generations
               /\ generations'[g] = generations[g]
               /\ generations[g].cell \notin DOMAIN cells \ DOMAIN doc.cells
    BY <1>3 DEF GensWithout, Restrict
  <2>2. \A g \in DOMAIN generations' : generations'[g] \in [cell : DOMAIN cells', status : GenStatuses]
    BY <1>4, <2>1 DEF NbInv, RowsOK
  <2>3. \A e \in DOMAIN edges' : {edges'[e].source, edges'[e].target} \subseteq DOMAIN cells'
    BY <1>2, <1>3, <1>4
  <2>4. executions' \subseteq DOMAIN cells'
    BY <1>2, <1>3, <1>4
  <2> QED
    BY <2>1, <2>2, <2>3, <2>4 DEF RowsOK
<1> QED
  BY <1>1, <1>5, <1>6 DEF NbInv

LEMMA DeletingEntityKeeps == ASSUME NbInv, NEW c \in NbCallers, DeleteEntity(c) PROVE NbInv'
<1>1. CallsOK'
  BY AnswerKeeps DEF DeleteEntity
<1>2. UNCHANGED <<board, cells, edges, executions, generations>>
        /\ entities' = IF Unreferenced(asked[c].entity) THEN entities \ {asked[c].entity} ELSE entities
  BY DEF DeleteEntity
<1>3. OutputsHeld(cells)
  BY DEF NbInv, BoardOK
<1>4. OutputsHeld(cells)'
  BY <1>2, <1>3 DEF OutputsHeld, Unreferenced, UsesEntity
<1>5. BoardOK'
  BY <1>2, <1>4 DEF NbInv, BoardOK
<1>6. RowsOK'
  BY <1>2 DEF NbInv, RowsOK
<1> QED
  BY <1>1, <1>5, <1>6 DEF NbInv

LEMMA GenerationsKeep ==
  ASSUME NbInv, CallsOK', UNCHANGED <<board, cells, edges, executions, entities>>,
         generations' = [g \in DOMAIN generations' |-> generations'[g]],
         \A g \in DOMAIN generations' : generations'[g] \in [cell : DOMAIN cells, status : GenStatuses]
  PROVE  NbInv'
BY DEF NbInv, BoardOK, RowsOK, OutputsHeld

LEMMA RecordingKeeps == ASSUME NbInv, NEW c \in NbCallers, RecordGeneration(c) PROVE NbInv'
<1> DEFINE row == [cell |-> asked[c].cell, status |-> "dispatched"]
<1>1. CallsOK'
  BY AnswerKeeps DEF RecordGeneration
<1>2. RowsOK
  BY DEF NbInv
<1>3. generations' = IF ParentHeld(asked[c].cell) THEN With(generations, asked[c].gen, row)
                     ELSE generations
  BY DEF RecordGeneration
<1>4. ParentHeld(asked[c].cell) => row \in [cell : DOMAIN cells, status : GenStatuses]
  BY DEF ParentHeld, GenStatuses
<1> HIDE DEF row
<1>5. generations' = [g \in DOMAIN generations' |-> generations'[g]]
  BY <1>2, <1>3 DEF With, RowsOK
<1>6. \A g \in DOMAIN generations' : generations'[g] \in [cell : DOMAIN cells, status : GenStatuses]
  BY <1>2, <1>3, <1>4 DEF With, RowsOK
<1> QED
  BY <1>1, <1>5, <1>6, GenerationsKeep DEF RecordGeneration

LEMMA UpdatingKeeps == ASSUME NbInv, NEW c \in NbCallers, UpdateGeneration(c) PROVE NbInv'
<1>1. CallsOK'
  BY AnswerKeeps DEF UpdateGeneration
<1>2. RowsOK
  BY DEF NbInv
<1>3. asked[c].status \in GenStatuses
  BY DEF NbInv, CallsOK, AskedOK, UpdateGeneration, Calls
<1>4. generations' = IF RowFound(asked[c].gen)
                     THEN [generations EXCEPT ![asked[c].gen].status = asked[c].status]
                     ELSE generations
  BY DEF UpdateGeneration
<1>5. generations' = [g \in DOMAIN generations' |-> generations'[g]]
  BY <1>2, <1>4 DEF RowsOK
<1>6. \A g \in DOMAIN generations' : generations'[g] \in [cell : DOMAIN cells, status : GenStatuses]
  BY <1>2, <1>3, <1>4 DEF RowsOK
<1> QED
  BY <1>1, <1>5, <1>6, GenerationsKeep DEF UpdateGeneration

LEMMA NbStep == NbInv /\ [NotebookNext]_nbVars => NbInv'
<1> SUFFICES ASSUME NbInv, [NotebookNext]_nbVars PROVE NbInv'
  OBVIOUS
<1>1. CASE UNCHANGED nbVars
  <2>1. UNCHANGED tables /\ asked' = asked
    BY <1>1 DEF nbVars, tables
  <2>2. CallsOK'
    BY <2>1 DEF NbInv, CallsOK
  <2> QED
    BY <2>1, <2>2, SameTables
<1>2. ASSUME NEW c \in NbCallers, CreateNotebook(c) PROVE NbInv'
  BY <1>2 DEF CreateNotebook, NbInv, BoardOK, RowsOK, CallsOK, OutputsHeld
<1>3. ASSUME NEW c \in NbCallers,
             \/ AskDeleteNotebook(c) \/ (\E i \in DOMAIN cells : AskRemoveCell(c, i))
             \/ AskRecordRun(c) \/ \E e \in EntityIds : AskDeleteEntity(c, e)
             \/ \E g \in Gens, i \in CellIds : AskRecordGeneration(c, g, i)
      PROVE  NbInv'
  <2>1. UNCHANGED tables
    BY <1>3 DEF AskDeleteNotebook, AskRemoveCell, AskRecordRun, AskDeleteEntity, AskRecordGeneration
  <2>2. CASE AskDeleteNotebook(c)
    <3>1. AskedOK([kind |-> "delete notebook"])
      BY DEF AskedOK
    <3> QED
      BY <2>1, <2>2, <3>1, AskKeeps DEF AskDeleteNotebook
  <2>3. ASSUME NEW i \in DOMAIN cells, AskRemoveCell(c, i) PROVE NbInv'
    <3>1. AskedOK([kind |-> "remove cell", id |-> i])
      BY DEF AskedOK
    <3> QED
      BY <2>1, <2>3, <3>1, AskKeeps DEF AskRemoveCell
  <2>4. CASE AskRecordRun(c)
    <3>1. AskedOK([kind |-> "record run"])
      BY DEF AskedOK
    <3> QED
      BY <2>1, <2>4, <3>1, AskKeeps DEF AskRecordRun
  <2>5. ASSUME NEW e \in EntityIds, AskDeleteEntity(c, e) PROVE NbInv'
    <3>1. AskedOK([kind |-> "delete entity", entity |-> e])
      BY DEF AskedOK
    <3> QED
      BY <2>1, <2>5, <3>1, AskKeeps DEF AskDeleteEntity
  <2>6. ASSUME NEW g \in Gens, NEW i \in CellIds, AskRecordGeneration(c, g, i) PROVE NbInv'
    <3>1. AskedOK([kind |-> "record generation", gen |-> g, cell |-> i])
      BY DEF AskedOK
    <3> QED
      BY <2>1, <2>6, <3>1, AskKeeps DEF AskRecordGeneration
  <2> QED
    BY <1>3, <2>2, <2>3, <2>4, <2>5, <2>6
<1>4. ASSUME NEW c \in NbCallers, NEW g \in Gens, NEW s \in GenStatuses, AskUpdateGeneration(c, g, s)
      PROVE  NbInv'
  <2>1. AskedOK([kind |-> "update generation", gen |-> g, status |-> s])
    BY DEF AskedOK
  <2> QED
    BY <1>4, <2>1, AskKeeps DEF AskUpdateGeneration
<1>5. ASSUME NEW c \in NbCallers, WriteCellFails(c) \/ WriteNotebookFails(c) PROVE NbInv'
  BY <1>5, AnswerKeeps, SameTables DEF WriteCellFails, WriteNotebookFails, NbRefuse
<1>6. ASSUME NEW c \in NbCallers, RecordRun(c) PROVE NbInv'
  <2>1. CallsOK'
    BY <1>6, AnswerKeeps DEF RecordRun
  <2> QED
    BY <1>6, <2>1 DEF RecordRun, NbInv, BoardOK, RowsOK, OutputsHeld
<1> QED
  BY <1>1, <1>2, <1>3, <1>4, <1>5, <1>6, DeletingBoardKeeps, AskingWriteKeeps, AskingMoveKeeps,
     WritingKeeps, RemovingCellKeeps, AskingDocKeeps, WritingDocKeeps, DeletingEntityKeeps,
     RecordingKeeps, UpdatingKeeps
     DEF NotebookNext

LEMMA NbInvariance == NotebookSpec => []NbInv
BY NbBegins, NbStep, PTL DEF NotebookSpec

LEMMA NbInvIsEnough == NbInv => NotebookTypeOK /\ SlotsDisjoint
<1> SUFFICES ASSUME NbInv PROVE NotebookTypeOK /\ SlotsDisjoint
  OBVIOUS
<1>1. \A i \in DOMAIN cells : cells[i].id = i /\ Slots(cells[i]) \subseteq Board
  BY SlotsAre DEF NbInv, BoardOK, IsBoard
<1>2. \A g \in DOMAIN generations :
        generations[g].cell \in DOMAIN cells /\ generations[g].status \in GenStatuses
  BY DEF NbInv, RowsOK
<1> QED
  BY <1>1, <1>2 DEF NbInv, BoardOK, RowsOK, NotebookTypeOK, SlotsDisjoint, Apart

(* Every row of a notebook has its parents, whatever was deleted while its *)
(* writer waited (domain.ts, generations.ts, the tables of schema.ts).     *)
THEOREM NotebookTypes == NotebookSpec => []NotebookTypeOK
BY NbInvariance, NbInvIsEnough, PTL

(* A step that commits a cell is the commit of the caller that asked.      *)
LEMMA CellIsCommitted ==
  ASSUME NbInv, NotebookNext, NEW c \in NbCallers,
         Calls(c, "write cell"), cells' # cells, asked'[c] # asked[c]
  PROVE  WriteCell(c)
<1>1. \A k \in NbCallers : \A q : Ask(k, q) => asked[k] = NoCall /\ \A o \in NbCallers \ {k} : asked'[o] = asked[o]
  BY DEF NbInv, CallsOK, Ask
<1>2. \A k \in NbCallers : Answered(k) => \A o \in NbCallers \ {k} : asked'[o] = asked[o]
  BY DEF NbInv, CallsOK, Answered
<1>3. NoCall.kind # "write cell"
  BY DEF NoCall
<1>4. UNCHANGED tables => FALSE
  BY DEF tables
<1>5. PICK k \in NbCallers :
        \/ WriteCell(k) \/ DeleteNotebook(k) \/ RemoveCell(k) \/ WriteNotebook(k)
        \/ cells' = cells
  BY <1>4 DEF NotebookNext, CreateNotebook, AskDeleteNotebook, AskWriteCell, AskMoveCell, WriteCellFails,
     NbRefuse, AskRemoveCell, AskWriteNotebook, WriteNotebookFails, AskRecordRun, RecordRun,
     AskDeleteEntity, DeleteEntity, AskRecordGeneration, RecordGeneration, AskUpdateGeneration,
     UpdateGeneration, tables
<1>6. Answered(k) /\ asked[k].kind \in {"write cell", "delete notebook", "remove cell", "write notebook"}
        /\ (asked[k].kind = "write cell" => WriteCell(k))
  BY <1>5 DEF WriteCell, DeleteNotebook, RemoveCell, WriteNotebook, Calls
<1>7. k = c
  BY <1>2, <1>6
<1> QED
  BY <1>6, <1>7 DEF Calls

(* A commit of one cell puts it where its caller asked for and moves only  *)
(* cells that stood there.                                                 *)
LEMMA CommitMovesClashes ==
  ASSUME NbInv, NEW c \in NbCallers, WriteCell(c)
  PROVE  LET d == asked[c].cell IN
         /\ cells'[d.id] = d
         /\ \A i \in DOMAIN cells \ {d.id} : Slots(cells[i]) \cap Slots(d) = {} => cells'[i] = cells[i]
<1> DEFINE d  == asked[c].cell
           cs == With(cells, d.id, d)
<1>1. d \in CellRows /\ IsBoard(cells) /\ Apart(cells)
  BY DEF NbInv, BoardOK, CallsOK, AskedOK, WriteCell, Calls
<1>2. ~IsFull(Repaired(cs, d.id)) /\ cells' = Repaired(cs, d.id)
  BY DEF WriteCell, Writable
<1> HIDE DEF d
<1>3. IsBoard(cs) /\ DOMAIN cs = DOMAIN cells \cup {d.id} /\ cs[d.id] = d
        /\ \A i \in DOMAIN cells \ {d.id} : cs[i] = cells[i]
  BY <1>1, MoreIs
<1> HIDE DEF cs
<1>4. \A i \in Settled(cs, d.id) : cells'[i] = cs[i]
  BY <1>2, <1>3, RepairedIs
<1>5. cells'[d.id] = d
  BY <1>3, <1>4, KeptIs
<1>6. ASSUME NEW i \in DOMAIN cells \ {d.id}, Slots(cells[i]) \cap Slots(d) = {}
      PROVE  cells'[i] = cells[i]
  <2>1. \A j \in DOMAIN cs \ {i} : Slots(cs[j]) \cap Slots(cs[i]) = {}
    BY <1>1, <1>3, <1>6 DEF Apart
  <2> QED
    BY <1>3, <1>4, <2>1, KeptIs
<1> QED
  BY <1>5, <1>6 DEF d

(* domain.ts:810: whoever wrote between the checks of a caller and its     *)
(* commit, cells keep apart, a written cell stands where it was asked to,  *)
(* and only cells it was put upon move.                                    *)
THEOREM PlacesAreKept == NotebookSpec => BoardKeepsPlaces
<1>1. NbInv /\ [NotebookNext]_nbVars =>
        [\A c \in NbCallers :
           Calls(c, "write cell") /\ cells' # cells /\ asked'[c] # asked[c] =>
             LET d == asked[c].cell IN
             /\ cells'[d.id] = d
             /\ \A i \in DOMAIN cells \ {d.id} :
                  Slots(cells[i]) \cap Slots(d) = {} => cells'[i] = cells[i]]_nbVars
  <2> SUFFICES ASSUME NbInv, NotebookNext, NEW c \in NbCallers,
                      Calls(c, "write cell"), cells' # cells, asked'[c] # asked[c]
               PROVE  LET d == asked[c].cell IN
                      /\ cells'[d.id] = d
                      /\ \A i \in DOMAIN cells \ {d.id} :
                           Slots(cells[i]) \cap Slots(d) = {} => cells'[i] = cells[i]
    OBVIOUS
  <2> QED
    BY CellIsCommitted, CommitMovesClashes
<1>2. NotebookSpec => OnlyClashesMove
  BY <1>1, NbInvariance, PTL DEF NotebookSpec, OnlyClashesMove
<1>3. NotebookSpec => []SlotsDisjoint
  BY NbInvariance, NbInvIsEnough, PTL
<1> QED
  BY <1>2, <1>3 DEF BoardKeepsPlaces

---------------------------------------------------------------------------
(* Keys                                                                    *)

(* Fractions: digits that do not end in zero; keys; keys or none.          *)
IsFrac(a) == a \in Seq(0..(DigitBase - 1)) /\ (a # <<>> => a[Len(a)] # 0)
IsKey(k)  == /\ k = [int |-> k.int, frac |-> k.frac] /\ IsFrac(k.frac)
             /\ k.int \in -IntegerLimit..IntegerLimit
IsEnd(k)  == k = NoKey \/ IsKey(k)

(* A fraction is below another where they first differ, zeros appended.    *)
Below(a, b, i) ==
  /\ i \in Nat \ {0} /\ Digit(a, i) < Digit(b, i)
  /\ \A j \in Nat \ {0} : j < i => Digit(a, j) = Digit(b, j)

LEMMA BaseIs == DigitBase \in Nat /\ DigitBase > 1 /\ IntegerLimit \in Nat
<1>1. DigitBase \in Nat \ {0, 1}
  BY TrackOrderAssumption, Zenon
<1>2. IntegerLimit \in Nat
  BY TrackOrderAssumption, Zenon
<1>3. DigitBase \in Nat /\ DigitBase # 0 /\ DigitBase # 1
  BY <1>1, Zenon
<1>4. DigitBase > 1
  BY <1>3
<1> QED
  BY <1>2, <1>3, <1>4

LEMMA DigitIs ==
  ASSUME NEW a, IsFrac(a)
  PROVE  /\ \A i \in Nat : Digit(a, i) \in 0..(DigitBase - 1) /\ Digit(a, i) \in Nat
         /\ Len(a) \in Nat /\ DOMAIN a = 1..Len(a)
         /\ \A i \in Nat : i > Len(a) => Digit(a, i) = 0
         /\ \A i \in 1..Len(a) : Digit(a, i) = a[i]
         /\ a # <<>> => Digit(a, Len(a)) # 0 /\ Len(a) > 0
<1>1. a \in Seq(0..(DigitBase - 1)) /\ Len(a) \in Nat /\ DOMAIN a = 1..Len(a)
  BY DEF IsFrac
<1>2. 0 \in 0..(DigitBase - 1)
  BY BaseIs
<1>3. \A i \in 1..Len(a) : a[i] \in 0..(DigitBase - 1)
  <2> DEFINE digits == 0..(DigitBase - 1)
  <2>1. a \in Seq(digits) /\ Len(a) \in Nat /\ DOMAIN a = 1..Len(a)
    BY <1>1
  <2> HIDE DEF digits
  <2>2. \A i \in 1..Len(a) : a[i] \in digits
    BY <2>1
  <2> QED
    BY <2>2 DEF digits
<1>4. \A i \in Nat : Digit(a, i) \in 0..(DigitBase - 1)
  BY <1>1, <1>2, <1>3 DEF Digit
<1>5. a # <<>> => Len(a) > 0
  BY <1>1
<1>6. \A i \in 1..Len(a) : Digit(a, i) = a[i]
  BY <1>1 DEF Digit
<1>7. a # <<>> => Digit(a, Len(a)) # 0
  BY <1>1, <1>5, <1>6 DEF IsFrac
<1>8. \A i \in Nat : i > Len(a) => Digit(a, i) = 0
  BY <1>1 DEF Digit
<1> QED
  BY <1>1, <1>4, <1>5, <1>6, <1>7, <1>8, BaseIs

(* The order of the strings is the order of the digits.                    *)
LEMMA FracIs ==
  ASSUME NEW a, IsFrac(a), NEW b, IsFrac(b)
  PROVE  FracLess(a, b) <=> \E i : Below(a, b, i)
<1>0. /\ Len(a) \in Nat /\ DOMAIN a = 1..Len(a) /\ Len(b) \in Nat /\ DOMAIN b = 1..Len(b)
      /\ \A i \in 1..Len(a) : Digit(a, i) = a[i]
      /\ \A i \in 1..Len(b) : Digit(b, i) = b[i]
  BY DigitIs
<1>1. ASSUME FracLess(a, b) PROVE \E i : Below(a, b, i)
  <2>1. PICK i \in 1..Len(b) : /\ \A j \in 1..(i - 1) : j \in 1..Len(a) /\ a[j] = b[j]
                               /\ i \notin 1..Len(a) \/ a[i] < b[i]
    BY <1>0, <1>1 DEF FracLess
  <2>2. \A j \in Nat \ {0} : j < i => Digit(a, j) = Digit(b, j)
    BY <1>0, <2>1
  <2>3. CASE i \in 1..Len(a)
    BY <1>0, <2>1, <2>2, <2>3 DEF Below
  <2>4. CASE i \notin 1..Len(a)
    <3> DEFINE apart == {k \in Nat \ {0} : Digit(b, k) # Digit(a, k)}
    <3>1. b # <<>> /\ Len(b) > Len(a) /\ Len(b) \in Nat \ {0} /\ Len(a) \in Nat
      BY <2>1, <2>4, DigitIs
    <3>2. Len(b) \in apart
      BY <3>1, DigitIs
    <3>3. PICK k \in apart : \A n \in apart : k <= n
      <4>1. apart \in SUBSET Nat
        OBVIOUS
      <4> HIDE DEF apart
      <4> QED
        BY <3>2, <4>1, LowestIs
    <3>4. k \in Nat \ {0} /\ \A j \in Nat \ {0} : j < k => Digit(a, j) = Digit(b, j)
      BY <3>3
    <3>5. ~(k < i)
      BY <2>2, <3>3, <3>4
    <3>6. k > Len(a)
      BY <2>1, <2>4, <3>4, <3>5, DigitIs
    <3>7. Digit(a, k) = 0 /\ Digit(b, k) # 0 /\ Digit(b, k) \in Nat
      BY <3>3, <3>4, <3>6, DigitIs
    <3> QED
      BY <3>4, <3>7 DEF Below
  <2> QED
    BY <2>3, <2>4
<1>2. ASSUME NEW i, Below(a, b, i) PROVE FracLess(a, b)
  <2>1. i \in Nat \ {0} /\ Digit(a, i) < Digit(b, i) /\ Digit(a, i) \in Nat /\ Digit(b, i) \in Nat
          /\ \A j \in Nat \ {0} : j < i => Digit(a, j) = Digit(b, j)
    BY <1>2, DigitIs DEF Below
  <2>2. i \in 1..Len(b)
    <3>1. ~(i > Len(b))
      BY <2>1, DigitIs
    <3> QED
      BY <1>0, <2>1, <3>1
  <2>3. CASE i - 1 <= Len(a)
    <3>1. \A j \in 1..(i - 1) : j \in 1..Len(a) /\ a[j] = b[j]
      BY <1>0, <2>1, <2>2, <2>3
    <3>2. i \notin 1..Len(a) \/ a[i] < b[i]
      BY <1>0, <2>1, <2>2
    <3> QED
      BY <1>0, <2>2, <3>1, <3>2 DEF FracLess
  <2>4. CASE i - 1 > Len(a)
    <3> DEFINE k == Len(a) + 1
    <3>1. k \in 1..Len(b) /\ k \notin 1..Len(a) /\ k < i /\ Len(a) \in Nat
      BY <1>0, <2>2, <2>4
    <3>2. \A j \in 1..(k - 1) : j \in 1..Len(a) /\ a[j] = b[j]
      BY <1>0, <2>1, <2>2, <3>1
    <3> QED
      BY <1>0, <3>1, <3>2 DEF FracLess
  <2> QED
    BY <1>0, <2>1, <2>3, <2>4
<1> QED
  BY <1>1, <1>2

(* Fractions are in a total order.                                         *)
LEMMA FracsCompare ==
  ASSUME NEW a, IsFrac(a), NEW b, IsFrac(b), a # b
  PROVE  FracLess(a, b) \/ FracLess(b, a)
<1> DEFINE apart == {k \in Nat \ {0} : Digit(a, k) # Digit(b, k)}
<1>1. apart # {}
  <2> SUFFICES ASSUME apart = {} PROVE FALSE
    OBVIOUS
  <2>1. \A k \in Nat \ {0} : Digit(a, k) = Digit(b, k)
    OBVIOUS
  <2>2. Len(a) = Len(b)
    <3>1. ~(Len(a) < Len(b))
      <4> SUFFICES ASSUME Len(a) < Len(b) PROVE FALSE
        OBVIOUS
      <4>1. Len(b) \in Nat \ {0} /\ b # <<>> /\ Digit(a, Len(b)) = 0
        BY DigitIs
      <4> QED
        BY <2>1, <4>1, DigitIs
    <3>2. ~(Len(b) < Len(a))
      <4> SUFFICES ASSUME Len(b) < Len(a) PROVE FALSE
        OBVIOUS
      <4>1. Len(a) \in Nat \ {0} /\ a # <<>> /\ Digit(b, Len(a)) = 0
        BY DigitIs
      <4> QED
        BY <2>1, <4>1, DigitIs
    <3> QED
      BY <3>1, <3>2, DigitIs
  <2>3. \A k \in 1..Len(a) : a[k] = b[k]
    <3>1. /\ Len(a) \in Nat /\ \A i \in 1..Len(a) : Digit(a, i) = a[i]
          /\ \A i \in 1..Len(b) : Digit(b, i) = b[i]
      BY DigitIs
    <3> QED
      BY <2>1, <2>2, <3>1
  <2>4. a = b
    BY <2>2, <2>3 DEF IsFrac
  <2> QED
    BY <2>4
<1>2. PICK k \in apart : \A n \in apart : k <= n
  <2>1. apart \in SUBSET Nat
    OBVIOUS
  <2> HIDE DEF apart
  <2> QED
    BY <1>1, <2>1, LowestIs
<1>3. k \in Nat \ {0} /\ \A j \in Nat \ {0} : j < k => Digit(a, j) = Digit(b, j)
  BY <1>2
<1>4. Digit(a, k) \in Nat /\ Digit(b, k) \in Nat /\ Digit(a, k) # Digit(b, k)
  BY <1>2, DigitIs
<1>5. Below(a, b, k) \/ Below(b, a, k)
  BY <1>3, <1>4 DEF Below
<1> QED
  BY <1>5, FracIs

LEMMA FracsOrder ==
  ASSUME NEW a, IsFrac(a), NEW b, IsFrac(b), NEW c, IsFrac(c), FracLess(a, b)
  PROVE  /\ ~FracLess(b, a)
         /\ FracLess(b, c) => FracLess(a, c)
<1>1. PICK i : Below(a, b, i)
  BY FracIs
<1>2. i \in Nat \ {0} /\ Digit(a, i) < Digit(b, i)
        /\ \A j \in Nat \ {0} : j < i => Digit(a, j) = Digit(b, j)
  BY <1>1 DEF Below
<1>3. \A n \in Nat : Digit(a, n) \in Nat /\ Digit(b, n) \in Nat /\ Digit(c, n) \in Nat
  BY DigitIs
<1>4. ASSUME NEW k, Below(b, a, k) PROVE FALSE
  <2>1. k \in Nat \ {0} /\ Digit(b, k) < Digit(a, k)
          /\ \A j \in Nat \ {0} : j < k => Digit(b, j) = Digit(a, j)
    BY <1>4 DEF Below
  <2>2. k < i \/ k = i \/ i < k
    BY <1>2, <2>1
  <2> QED
    BY <1>2, <1>3, <2>1, <2>2
<1>5. ASSUME NEW k, Below(b, c, k) PROVE \E n : Below(a, c, n)
  <2>1. k \in Nat \ {0} /\ Digit(b, k) < Digit(c, k)
          /\ \A j \in Nat \ {0} : j < k => Digit(b, j) = Digit(c, j)
    BY <1>5 DEF Below
  <2>2. CASE k < i
    <3>1. Below(a, c, k)
      BY <1>2, <1>3, <2>1, <2>2 DEF Below
    <3> QED
      BY <3>1
  <2>3. CASE i <= k
    <3>1. Digit(b, i) <= Digit(c, i)
      BY <1>2, <1>3, <2>1, <2>3
    <3>2. Digit(a, i) < Digit(c, i)
      BY <1>2, <1>3, <3>1
    <3>3. Below(a, c, i)
      BY <1>2, <2>1, <2>3, <3>2 DEF Below
    <3> QED
      BY <3>3
  <2> QED
    BY <1>2, <2>1, <2>2, <2>3
<1> QED
  BY <1>4, <1>5, FracIs

(* The digits of a fraction with one more.                                 *)
LEMMA AppendIs ==
  ASSUME NEW a, IsFrac(a), NEW n \in Nat, NEW d \in 1..(DigitBase - 1)
  PROVE  LET m == Append(Digits(a, n), d) IN
         /\ IsFrac(m) /\ Digit(m, n + 1) = d
         /\ \A j \in Nat \ {0} : j <= n => Digit(m, j) = Digit(a, j)
<1> DEFINE s == Digits(a, n)
           m == Append(s, d)
<1>1. \A j \in 1..n : Digit(a, j) \in 0..(DigitBase - 1)
  BY DigitIs
<1>2. s \in Seq(0..(DigitBase - 1)) /\ Len(s) = n /\ \A j \in 1..n : s[j] = Digit(a, j)
  <2>1. s = [j \in 1..n |-> Digit(a, j)]
    BY DEF Digits
  <2> HIDE DEF s
  <2> QED
    BY <1>1, <2>1
<1>3. d \in 0..(DigitBase - 1) /\ d # 0
  BY BaseIs
<1> HIDE DEF s
<1>4. m \in Seq(0..(DigitBase - 1)) /\ Len(m) = n + 1 /\ m[n + 1] = d
        /\ (\A j \in 1..n : m[j] = s[j]) /\ DOMAIN m = 1..(n + 1)
  BY <1>2, <1>3
<1> HIDE DEF m
<1>5. IsFrac(m)
  BY <1>3, <1>4 DEF IsFrac
<1>6. Digit(m, n + 1) = d
  BY <1>4 DEF Digit
<1>7. \A j \in Nat \ {0} : j <= n => Digit(m, j) = Digit(a, j)
  BY <1>2, <1>4 DEF Digit
<1> QED
  BY <1>5, <1>6, <1>7 DEF m, s

(* What is above a from digit n on is a fraction above a that agrees with  *)
(* it before.                                                              *)
LEMMA AboveIs ==
  ASSUME NEW a, IsFrac(a), NEW n \in Nat \ {0}
  PROVE  LET m == Above(a, n) IN
         /\ IsFrac(m) /\ FracLess(a, m)
         /\ \A j \in Nat \ {0} : j < n => Digit(m, j) = Digit(a, j)
<1> DEFINE roomy == {i \in n..Len(a) : a[i] # DigitBase - 1}
           m == Above(a, n)
<1>1. CASE roomy # {}
  <2>1. Min(roomy) \in roomy /\ \A i \in roomy : Min(roomy) <= i
    <3>1. roomy \in SUBSET Nat
      OBVIOUS
    <3> HIDE DEF roomy
    <3>2. \E r \in roomy : \A i \in roomy : r <= i
      BY <1>1, <3>1, LowestIs
    <3> QED
      BY <3>2 DEF Min
  <2> DEFINE r == Min(roomy)
  <2>2. m = Append(Digits(a, r - 1), a[r] + 1)
    BY <1>1 DEF Above
  <2>3. r \in n..Len(a) /\ a[r] # DigitBase - 1 /\ Len(a) \in Nat
    BY <2>1, DigitIs
  <2> HIDE DEF m, roomy, r
  <2>4. a[r] = Digit(a, r) /\ a[r] \in 0..(DigitBase - 1) /\ r - 1 \in Nat /\ r \in Nat
    BY <2>3, DigitIs
  <2>5. a[r] + 1 \in 1..(DigitBase - 1)
    BY <2>3, <2>4, BaseIs
  <2>6. IsFrac(m) /\ Digit(m, (r - 1) + 1) = a[r] + 1
          /\ \A j \in Nat \ {0} : j <= r - 1 => Digit(m, j) = Digit(a, j)
    BY <2>2, <2>4, <2>5, AppendIs
  <2>7. Digit(m, r) = a[r] + 1
    BY <2>4, <2>6
  <2>8. Below(a, m, r)
    BY <2>3, <2>4, <2>6, <2>7 DEF Below
  <2> QED
    BY <2>3, <2>6, <2>8, FracIs DEF m
<1>2. CASE roomy = {}
  <2> DEFINE l == IF Len(a) < n - 1 THEN n - 1 ELSE Len(a)
             d == DigitBase \div 2
  <2>1. m = Append(Digits(a, l), d)
    BY <1>2 DEF Above
  <2> HIDE DEF m, roomy
  <2>2. l \in Nat /\ l >= n - 1 /\ l >= Len(a)
    BY DigitIs
  <2>3. d \in 1..(DigitBase - 1)
    BY BaseIs
  <2> HIDE DEF l, d
  <2>4. IsFrac(m) /\ Digit(m, l + 1) = d
          /\ \A j \in Nat \ {0} : j <= l => Digit(m, j) = Digit(a, j)
    BY <2>1, <2>2, <2>3, AppendIs
  <2>5. Digit(a, l + 1) = 0
    BY <2>2, DigitIs
  <2>6. Below(a, m, l + 1)
    BY <2>2, <2>3, <2>4, <2>5 DEF Below
  <2> QED
    BY <2>2, <2>4, <2>6, FracIs DEF m
<1> QED
  BY <1>1, <1>2

LEMMA MidpointIs ==
  ASSUME NEW a, IsFrac(a), NEW b, IsFrac(b), FracLess(a, b)
  PROVE  LET m == Midpoint(a, b) IN IsFrac(m) /\ FracLess(a, m) /\ FracLess(m, b)
<1> DEFINE apart == {i \in DOMAIN b : Digit(a, i) # b[i]}
           f == Min(apart)
           m == Midpoint(a, b)
<1>1. PICK i : Below(a, b, i)
  BY FracIs
<1>2. i \in Nat \ {0} /\ Digit(a, i) < Digit(b, i) /\ Digit(a, i) \in Nat /\ Digit(b, i) \in Nat
        /\ \A j \in Nat \ {0} : j < i => Digit(a, j) = Digit(b, j)
  BY <1>1, DigitIs DEF Below
<1>0. Len(b) \in Nat /\ DOMAIN b = 1..Len(b) /\ \A j \in 1..Len(b) : Digit(b, j) = b[j]
  BY DigitIs
<1>3. i \in 1..Len(b)
  <2>1. ~(i > Len(b))
    BY <1>2, DigitIs
  <2> QED
    BY <1>0, <1>2, <2>1
<1>4. i \in apart /\ \A j \in apart : i <= j
  BY <1>0, <1>2, <1>3
<1>5. f = i
  <2>1. \A x \in apart : x \in Nat
    BY <1>0
  <2> HIDE DEF apart
  <2> QED
    BY <1>4, <2>1 DEF Min
<1> HIDE DEF f
<1>6. b[i] = Digit(b, i) /\ Digit(b, i) \in 0..(DigitBase - 1) /\ i - 1 \in Nat
  <2>1. b[i] = Digit(b, i) /\ i - 1 \in Nat
    BY <1>0, <1>2, <1>3
  <2> QED
    BY <1>2, <2>1, DigitIs
<1>7. m = IF b[i] - Digit(a, i) > 1
          THEN Append(Digits(a, i - 1), (Digit(a, i) + b[i] + 1) \div 2)
          ELSE Above(a, i + 1)
  BY <1>4, <1>5 DEF Midpoint, f
<1> HIDE DEF m, apart
<1>8. CASE b[i] - Digit(a, i) > 1
  <2> DEFINE d == (Digit(a, i) + b[i] + 1) \div 2
  <2>1. d \in 1..(DigitBase - 1) /\ Digit(a, i) < d /\ d < Digit(b, i)
    BY <1>2, <1>6, <1>8, BaseIs
  <2>2. m = Append(Digits(a, i - 1), d)
    BY <1>7, <1>8
  <2> HIDE DEF d
  <2>3. IsFrac(m) /\ Digit(m, (i - 1) + 1) = d
          /\ \A j \in Nat \ {0} : j <= i - 1 => Digit(m, j) = Digit(a, j)
    <3>1. i - 1 \in Nat /\ d \in 1..(DigitBase - 1)
      BY <1>6, <2>1
    <3>2. PICK n \in Nat : n = i - 1
      BY <3>1
    <3>3. m = Append(Digits(a, n), d)
      BY <2>2, <3>2
    <3>4. IsFrac(m) /\ Digit(m, n + 1) = d
            /\ \A j \in Nat \ {0} : j <= n => Digit(m, j) = Digit(a, j)
      BY <3>1, <3>3, AppendIs
    <3> QED
      BY <3>2, <3>4
  <2>4. Digit(m, i) = d /\ \A j \in Nat \ {0} : j < i => Digit(m, j) = Digit(a, j)
    BY <1>2, <2>3
  <2>5. Below(a, m, i) /\ Below(m, b, i)
    BY <1>2, <2>1, <2>4 DEF Below
  <2> QED
    BY <2>3, <2>5, FracIs DEF m
<1>9. CASE ~(b[i] - Digit(a, i) > 1)
  <2>1. m = Above(a, i + 1) /\ i + 1 \in Nat \ {0}
    BY <1>2, <1>7, <1>9
  <2>2. IsFrac(m) /\ FracLess(a, m) /\ \A j \in Nat \ {0} : j < i + 1 => Digit(m, j) = Digit(a, j)
    BY <2>1, AboveIs
  <2>3. Below(m, b, i)
    BY <1>2, <2>2 DEF Below
  <2> QED
    BY <2>2, <2>3, FracIs DEF m
<1> QED
  BY <1>8, <1>9

LEMMA KeyIs ==
  ASSUME NEW n \in -IntegerLimit..IntegerLimit, NEW a, IsFrac(a)
  PROVE  IsKey(Key(n, a)) /\ Key(n, a).int = n /\ Key(n, a).frac = a
BY DEF IsKey, Key

LEMMA NoneIs ==
  /\ IsFrac(<<>>) /\ \A k : IsKey(k) => k # NoKey /\ k.int \in Int /\ IsFrac(k.frac)
<1>1. IsFrac(<<>>)
  BY DEF IsFrac
<1>2. ASSUME NEW k, IsKey(k) PROVE k # NoKey
  <2>1. DOMAIN k = {"int", "frac"}
    <3>1. k = [int |-> k.int, frac |-> k.frac]
      BY <1>2 DEF IsKey
    <3>2. \A x, y : DOMAIN [int |-> x, frac |-> y] = {"int", "frac"}
      OBVIOUS
    <3> QED
      BY <3>1, <3>2
  <2>2. DOMAIN NoKey = {"none"}
    BY DEF NoKey
  <2> QED
    BY <2>1, <2>2
<1>3. \A k : IsKey(k) => k.int \in Int /\ IsFrac(k.frac)
  BY BaseIs DEF IsKey
<1> QED
  BY <1>1, <1>2, <1>3

(* Keys are in a total order.                                              *)
LEMMA KeysOrder ==
  ASSUME NEW k, IsKey(k), NEW l, IsKey(l)
  PROVE  /\ k # l => KeyLess(k, l) \/ KeyLess(l, k)
         /\ KeyLess(k, l) => ~KeyLess(l, k) /\ k # l
         /\ \A m : IsKey(m) /\ KeyLess(k, l) /\ KeyLess(l, m) => KeyLess(k, m)
<1>1. k.int \in Int /\ l.int \in Int /\ IsFrac(k.frac) /\ IsFrac(l.frac)
  BY NoneIs
<1>2. k # l => k.int # l.int \/ k.frac # l.frac
  BY DEF IsKey
<1>3. k # l => KeyLess(k, l) \/ KeyLess(l, k)
  <2>1. k.frac # l.frac => FracLess(k.frac, l.frac) \/ FracLess(l.frac, k.frac)
    BY <1>1, FracsCompare
  <2>2. k.int < l.int \/ k.int = l.int \/ l.int < k.int
    BY <1>1
  <2> QED
    BY <1>2, <2>1, <2>2 DEF KeyLess
<1>4. KeyLess(k, l) => ~KeyLess(l, k)
  <2>1. FracLess(k.frac, l.frac) => ~FracLess(l.frac, k.frac)
    BY <1>1, FracsOrder
  <2> QED
    BY <1>1, <2>1 DEF KeyLess
<1>5. KeyLess(k, l) => k # l
  BY <1>4
<1>6. ASSUME NEW m, IsKey(m), KeyLess(k, l), KeyLess(l, m) PROVE KeyLess(k, m)
  <2>1. m.int \in Int /\ IsFrac(m.frac)
    BY <1>6, NoneIs
  <2>2. FracLess(k.frac, l.frac) /\ FracLess(l.frac, m.frac) => FracLess(k.frac, m.frac)
    BY <1>1, <2>1, FracsOrder
  <2> QED
    BY <1>1, <1>6, <2>1, <2>2 DEF KeyLess
<1> QED
  BY <1>3, <1>4, <1>5, <1>6

(* A key between two ends lies between them, unless the lower end is open  *)
(* and the upper one has the least integer part.                           *)
LEMMA BetweenIs ==
  ASSUME NEW p, IsEnd(p), NEW q, IsEnd(q), p # NoKey /\ q # NoKey => KeyLess(p, q),
         p = NoKey /\ q # NoKey => q.int > -IntegerLimit
  PROVE  LET m == KeyBetween(p, q) IN
         /\ IsKey(m)
         /\ p # NoKey => KeyLess(p, m) /\ m.int >= p.int
         /\ q # NoKey => KeyLess(m, q)
         /\ p = NoKey => IF q = NoKey THEN m.int = 0 ELSE m.int = q.int - 1
<1> DEFINE m == KeyBetween(p, q)
<1>0. IntegerLimit \in Nat /\ IsFrac(<<>>)
  BY BaseIs, NoneIs
<1>1. CASE p = NoKey /\ q = NoKey
  <2>1. m = Key(0, <<>>)
    BY <1>1 DEF KeyBetween
  <2>2. 0 \in -IntegerLimit..IntegerLimit
    BY <1>0
  <2> HIDE DEF m
  <2> QED
    BY <1>0, <1>1, <2>1, <2>2, KeyIs DEF m
<1>2. CASE p = NoKey /\ q # NoKey
  <2>1. IsKey(q) /\ q.int \in Int /\ q.int > -IntegerLimit /\ q.int <= IntegerLimit
    BY <1>0, <1>2 DEF IsEnd, IsKey
  <2>2. m = Key(q.int - 1, <<>>)
    BY <1>2, <2>1 DEF KeyBetween
  <2>3. q.int - 1 \in -IntegerLimit..IntegerLimit
    BY <1>0, <2>1
  <2> HIDE DEF m
  <2>4. IsKey(m) /\ m.int = q.int - 1
    BY <1>0, <2>2, <2>3, KeyIs
  <2>5. KeyLess(m, q)
    BY <2>1, <2>4 DEF KeyLess
  <2> QED
    BY <1>2, <2>4, <2>5 DEF m
<1>3. CASE p # NoKey /\ q = NoKey
  <2>1. IsKey(p) /\ p.int \in Int /\ p.int \in -IntegerLimit..IntegerLimit /\ IsFrac(p.frac)
    BY <1>0, <1>3 DEF IsEnd, IsKey
  <2>2. m = IF p.int < IntegerLimit THEN Key(p.int + 1, <<>>) ELSE Key(p.int, Above(p.frac, 1))
    BY <1>3 DEF KeyBetween
  <2> HIDE DEF m
  <2>3. CASE p.int < IntegerLimit
    <3>1. p.int + 1 \in -IntegerLimit..IntegerLimit
      BY <1>0, <2>1, <2>3
    <3>2. IsKey(m) /\ m.int = p.int + 1
      BY <1>0, <2>2, <2>3, <3>1, KeyIs
    <3>3. KeyLess(p, m) /\ m.int >= p.int
      BY <2>1, <3>2 DEF KeyLess
    <3> QED
      BY <1>3, <3>2, <3>3 DEF m
  <2>4. CASE ~(p.int < IntegerLimit)
    <3>1. IsFrac(Above(p.frac, 1)) /\ FracLess(p.frac, Above(p.frac, 1))
      BY <2>1, AboveIs
    <3>2. IsKey(m) /\ m.int = p.int /\ m.frac = Above(p.frac, 1)
      BY <2>1, <2>2, <2>4, <3>1, KeyIs
    <3>3. KeyLess(p, m) /\ m.int >= p.int
      BY <2>1, <3>1, <3>2 DEF KeyLess
    <3> QED
      BY <1>3, <3>2, <3>3 DEF m
  <2> QED
    BY <2>3, <2>4
<1>4. CASE p # NoKey /\ q # NoKey
  <2>1. IsKey(p) /\ p.int \in Int /\ p.int \in -IntegerLimit..IntegerLimit /\ IsFrac(p.frac)
    BY <1>0, <1>4 DEF IsEnd, IsKey
  <2>2. IsKey(q) /\ q.int \in Int /\ q.int \in -IntegerLimit..IntegerLimit /\ IsFrac(q.frac)
    BY <1>0, <1>4 DEF IsEnd, IsKey
  <2>3. KeyLess(p, q)
    BY <1>4
  <2>4. CASE p.int = q.int
    <3>1. m = Key(p.int, Midpoint(p.frac, q.frac))
      BY <1>4, <2>1, <2>2, <2>3, <2>4 DEF KeyBetween
    <3> HIDE DEF m
    <3>2. FracLess(p.frac, q.frac)
      BY <2>1, <2>2, <2>3, <2>4 DEF KeyLess
    <3>3. /\ IsFrac(Midpoint(p.frac, q.frac)) /\ FracLess(p.frac, Midpoint(p.frac, q.frac))
          /\ FracLess(Midpoint(p.frac, q.frac), q.frac)
      BY <2>1, <2>2, <3>2, MidpointIs
    <3>4. IsKey(m) /\ m.int = p.int /\ m.frac = Midpoint(p.frac, q.frac)
      BY <2>1, <3>1, <3>3, KeyIs
    <3>5. KeyLess(p, m) /\ KeyLess(m, q) /\ m.int >= p.int
      BY <2>1, <2>4, <3>3, <3>4 DEF KeyLess
    <3> QED
      BY <1>4, <3>4, <3>5 DEF m
  <2>5. CASE p.int # q.int
    <3>1. p.int < q.int
      BY <2>1, <2>2, <2>3, <2>5 DEF KeyLess
    <3>2. m = IF KeyLess(Key(p.int + 1, <<>>), q) THEN Key(p.int + 1, <<>>)
              ELSE Key(p.int, Above(p.frac, 1))
      BY <1>4, <2>3, <2>5, <3>1 DEF KeyBetween
    <3> HIDE DEF m
    <3>3. CASE KeyLess(Key(p.int + 1, <<>>), q)
      <4>1. p.int + 1 \in -IntegerLimit..IntegerLimit
        BY <1>0, <2>1, <2>2, <3>1
      <4>2. m = Key(p.int + 1, <<>>)
        BY <3>2, <3>3
      <4>3. IsKey(m) /\ m.int = p.int + 1
        BY <1>0, <4>1, <4>2, KeyIs
      <4>4. KeyLess(p, m) /\ m.int >= p.int
        BY <2>1, <4>3 DEF KeyLess
      <4> QED
        BY <1>4, <3>3, <4>2, <4>3, <4>4 DEF m
    <3>4. CASE ~KeyLess(Key(p.int + 1, <<>>), q)
      <4>1. IsFrac(Above(p.frac, 1)) /\ FracLess(p.frac, Above(p.frac, 1))
        BY <2>1, AboveIs
      <4>2. m = Key(p.int, Above(p.frac, 1))
        BY <3>2, <3>4
      <4>3. IsKey(m) /\ m.int = p.int /\ m.frac = Above(p.frac, 1)
        BY <2>1, <4>1, <4>2, KeyIs
      <4>4. KeyLess(p, m) /\ KeyLess(m, q) /\ m.int >= p.int
        BY <2>1, <3>1, <4>1, <4>3 DEF KeyLess
      <4> QED
        BY <1>4, <4>3, <4>4 DEF m
    <3> QED
      BY <3>3, <3>4
  <2> QED
    BY <2>4, <2>5
<1> QED
  BY <1>1, <1>2, <1>3, <1>4

---------------------------------------------------------------------------
(* Tracks as they lie                                                      *)

(* Tracks with their keys, no integer part below a limit.                  *)
IsTracks(k, low) ==
  /\ k = [t \in DOMAIN k |-> k[t]] /\ DOMAIN k \subseteq Nat /\ IsFiniteSet(DOMAIN k)
  /\ \A t \in DOMAIN k : IsKey(k[t]) /\ k[t].int >= low

LEMMA TracksLie ==
  ASSUME NEW k, NEW low, IsTracks(k, low), NEW t \in DOMAIN k, NEW u \in DOMAIN k
  PROVE  /\ t # u => LiesBelow(k, t, u) \/ LiesBelow(k, u, t)
         /\ LiesBelow(k, t, u) => ~LiesBelow(k, u, t) /\ t # u
         /\ \A v \in DOMAIN k : LiesBelow(k, t, u) /\ LiesBelow(k, u, v) => LiesBelow(k, t, v)
<1>1. IsKey(k[t]) /\ IsKey(k[u]) /\ t \in Nat /\ u \in Nat
  BY DEF IsTracks
<1>2. /\ k[t] # k[u] => KeyLess(k[t], k[u]) \/ KeyLess(k[u], k[t])
      /\ KeyLess(k[t], k[u]) => ~KeyLess(k[u], k[t]) /\ k[t] # k[u]
      /\ KeyLess(k[u], k[t]) => ~KeyLess(k[t], k[u]) /\ k[t] # k[u]
  BY <1>1, KeysOrder
<1>3. t # u => LiesBelow(k, t, u) \/ LiesBelow(k, u, t)
  BY <1>1, <1>2 DEF LiesBelow
<1>4. LiesBelow(k, t, u) => ~LiesBelow(k, u, t) /\ t # u
  BY <1>1, <1>2 DEF LiesBelow
<1>5. ASSUME NEW v \in DOMAIN k, LiesBelow(k, t, u), LiesBelow(k, u, v) PROVE LiesBelow(k, t, v)
  <2>1. IsKey(k[v]) /\ v \in Nat
    BY DEF IsTracks
  <2>2. KeyLess(k[t], k[u]) /\ KeyLess(k[u], k[v]) => KeyLess(k[t], k[v])
    BY <1>1, <2>1, KeysOrder
  <2> QED
    BY <1>1, <1>5, <2>1, <2>2 DEF LiesBelow
<1> QED
  BY <1>3, <1>4, <1>5

(* Of some tracks one lies below the others: the one with fewest below it. *)
LEMMA LowestLies ==
  ASSUME NEW k, NEW low, IsTracks(k, low), NEW S \in SUBSET DOMAIN k, S # {}
  PROVE  \E t \in S : \A u \in S \ {t} : LiesBelow(k, t, u)
<1> DEFINE under(t) == {u \in S : LiesBelow(k, u, t)}
           counts == {Cardinality(under(t)) : t \in S}
<1>1. IsFiniteSet(S)
  BY FS_Subset DEF IsTracks
<1>2. \A t \in S : IsFiniteSet(under(t)) /\ Cardinality(under(t)) \in Nat
  BY <1>1, FS_Subset, FS_CardinalityType
<1>3. PICK m \in counts : \A n \in counts : m <= n
  <2>1. counts \in SUBSET Nat /\ counts # {}
    BY <1>2
  <2> HIDE DEF counts
  <2> QED
    BY <2>1, LowestIs
<1>4. PICK t \in S : m = Cardinality(under(t))
  BY <1>3
<1>5. ASSUME NEW u \in S, LiesBelow(k, u, t) PROVE FALSE
  <2>1. under(u) \subseteq under(t)
    BY <1>5, TracksLie
  <2>2. u \in under(t) /\ u \notin under(u)
    BY <1>5, TracksLie
  <2>3. Cardinality(under(u)) <= Cardinality(under(t)) /\ Cardinality(under(u)) # Cardinality(under(t))
    BY <1>2, <2>1, <2>2, FS_Subset
  <2>4. m <= Cardinality(under(u))
    BY <1>3
  <2>5. Cardinality(under(u)) \in Nat /\ m \in Nat /\ Cardinality(under(u)) <= m
          /\ Cardinality(under(u)) # m
    BY <1>2, <1>4, <2>3
  <2> HIDE DEF under
  <2> QED
    BY <2>4, <2>5
<1>6. \A u \in S \ {t} : LiesBelow(k, t, u)
  BY <1>5, TracksLie
<1> QED
  BY <1>6

(* The list of the tracks exists, and is the only one.                     *)
LEMMA ListExists ==
  ASSUME NEW k, NEW low, IsTracks(k, low)
  PROVE  \E list \in [1..Cardinality(DOMAIN k) -> DOMAIN k] : InOrder(list, k)
<1> DEFINE N == Cardinality(DOMAIN k)
           Part(list, n) ==
             /\ list \in [1..n -> DOMAIN k]
             /\ \A i, j \in 1..n : i < j => LiesBelow(k, list[i], list[j])
             /\ \A i \in 1..n, t \in DOMAIN k \ Range(list) : LiesBelow(k, list[i], t)
           Left == {r \in Nat : \E n \in Nat : \E list : Part(list, n)
                      /\ Cardinality(DOMAIN k \ Range(list)) = r /\ n + r = N}
<1>1. IsFiniteSet(DOMAIN k) /\ N \in Nat
  BY FS_CardinalityType DEF IsTracks
<1> HIDE DEF N
<1>2. N \in Left
  <2>1. PICK list : list = [i \in 1..0 |-> i]
    OBVIOUS
  <2>2. Part(list, 0) /\ Range(list) = {}
    BY <2>1 DEF Range
  <2>3. Cardinality(DOMAIN k \ Range(list)) = N /\ 0 + N = N
    <3>1. DOMAIN k \ Range(list) = DOMAIN k
      BY <2>2
    <3> QED
      BY <1>1, <3>1 DEF N
  <2> HIDE DEF Part
  <2> QED
    BY <1>1, <2>2, <2>3
<1>3. PICK r \in Left : \A o \in Left : r <= o
  <2>1. Left \in SUBSET Nat /\ Left # {}
    BY <1>2
  <2> HIDE DEF Left
  <2> QED
    BY <2>1, LowestIs
<1>4. PICK n \in Nat : \E list : Part(list, n) /\ Cardinality(DOMAIN k \ Range(list)) = r /\ n + r = N
  BY <1>3
<1>5. PICK list : Part(list, n) /\ Cardinality(DOMAIN k \ Range(list)) = r /\ n + r = N
  BY <1>4
<1> DEFINE rest == DOMAIN k \ Range(list)
<1>6. rest = {}
  <2> SUFFICES ASSUME rest # {} PROVE FALSE
    OBVIOUS
  <2>1. PICK t \in rest : \A u \in rest \ {t} : LiesBelow(k, t, u)
    <3>1. rest \in SUBSET DOMAIN k
      OBVIOUS
    <3> HIDE DEF rest
    <3> QED
      BY <3>1, LowestLies
  <2>2. PICK more : more = [i \in 1..(n + 1) |-> IF i = n + 1 THEN t ELSE list[i]]
    OBVIOUS
  <2>3. list \in [1..n -> DOMAIN k] /\ DOMAIN list = 1..n
    BY <1>5
  <2>4. more \in [1..(n + 1) -> DOMAIN k] /\ more[n + 1] = t /\ \A i \in 1..n : more[i] = list[i]
    <3>1. \A i \in 1..(n + 1) : i # n + 1 => i \in 1..n
      BY <1>4
    <3>2. n + 1 \in 1..(n + 1) /\ \A i \in 1..n : i \in 1..(n + 1) /\ i # n + 1
      BY <1>4
    <3> QED
      BY <2>1, <2>2, <2>3, <3>1, <3>2
  <2>5. Range(more) = Range(list) \cup {t}
    <3>1. \A i \in 1..(n + 1) : i = n + 1 \/ i \in 1..n
      BY <1>4
    <3>2. n + 1 \in 1..(n + 1) /\ \A i \in 1..n : i \in 1..(n + 1)
      BY <1>4
    <3>3. DOMAIN more = 1..(n + 1)
      BY <2>4
    <3> QED
      BY <2>3, <2>4, <3>1, <3>2, <3>3 DEF Range
  <2>6. Part(more, n + 1)
    <3>1. ASSUME NEW i \in 1..(n + 1), NEW j \in 1..(n + 1), i < j
          PROVE  LiesBelow(k, more[i], more[j])
      <4>1. i \in 1..n /\ (j \in 1..n \/ j = n + 1)
        BY <1>4, <3>1
      <4>2. CASE j \in 1..n
        BY <1>5, <2>4, <3>1, <4>1, <4>2
      <4>3. CASE j = n + 1
        BY <1>5, <2>1, <2>4, <4>1, <4>3
      <4> QED
        BY <4>1, <4>2, <4>3
    <3>2. ASSUME NEW i \in 1..(n + 1), NEW u \in DOMAIN k \ Range(more)
          PROVE  LiesBelow(k, more[i], u)
      <4>1. u \in rest \ {t}
        BY <2>5
      <4>2. i \in 1..n \/ i = n + 1
        BY <1>4
      <4> QED
        BY <1>5, <2>1, <2>4, <4>1, <4>2
    <3> QED
      BY <2>4, <3>1, <3>2
  <2>7. Cardinality(DOMAIN k \ Range(more)) = r - 1 /\ r - 1 \in Nat /\ (n + 1) + (r - 1) = N
    <3>1. DOMAIN k \ Range(more) = rest \ {t} /\ IsFiniteSet(rest)
      BY <1>1, <2>5, FS_Subset
    <3>2. Cardinality(rest \ {t}) = Cardinality(rest) - 1 /\ Cardinality(rest \ {t}) \in Nat
      BY <2>1, <3>1, FS_RemoveElement, FS_CardinalityType
    <3>3. r \in Nat /\ n \in Nat /\ Cardinality(rest) = r /\ n + r = N
      BY <1>3, <1>4, <1>5
    <3>4. Cardinality(DOMAIN k \ Range(more)) = r - 1 /\ r - 1 \in Nat
      BY <3>1, <3>2, <3>3
    <3>5. (n + 1) + (r - 1) = N
      BY <3>3
    <3> QED
      BY <3>4, <3>5
  <2>8. r - 1 \in Left
    <3> HIDE DEF Part
    <3>1. n + 1 \in Nat
      BY <1>4
    <3> QED
      BY <2>6, <2>7, <3>1
  <2>9. r \in Nat /\ r <= r - 1
    <3>1. r \in Nat
      BY <1>3
    <3> HIDE DEF Left
    <3> QED
      BY <1>3, <2>8, <3>1
  <2> QED
    BY <2>9
<1>7. n = N
  <2>1. Cardinality(rest) = 0
    BY <1>6, FS_EmptySet
  <2>2. r = 0 /\ n \in Nat
    BY <1>4, <1>5, <2>1
  <2> QED
    BY <1>1, <1>5, <2>2
<1>8. InOrder(list, k)
  <2>1. Range(list) \subseteq DOMAIN k /\ DOMAIN list = 1..n
    BY <1>5 DEF Range
  <2> QED
    BY <1>5, <1>6, <2>1 DEF InOrder
<1> QED
  BY <1>5, <1>7, <1>8 DEF N

LEMMA ListedIs ==
  ASSUME NEW k, NEW low, IsTracks(k, low)
  PROVE  LET list == Listed(k) IN
         /\ list \in [1..Cardinality(DOMAIN k) -> DOMAIN k] /\ InOrder(list, k)
         /\ Len(list) = Cardinality(DOMAIN k) /\ Cardinality(DOMAIN k) \in Nat /\ list \in Seq(DOMAIN k)
<1> DEFINE list == Listed(k)
           N == Cardinality(DOMAIN k)
<1>1. N \in Nat
  BY FS_CardinalityType DEF IsTracks
<1>2. list \in [1..N -> DOMAIN k] /\ InOrder(list, k)
  <2>1. list = CHOOSE l \in [1..N -> DOMAIN k] : InOrder(l, k)
    BY DEF Listed
  <2>2. \E l \in [1..N -> DOMAIN k] : InOrder(l, k)
    BY ListExists
  <2> HIDE DEF N, list
  <2> QED
    BY <2>1, <2>2
<1> HIDE DEF N, list
<1>3. list = [i \in 1..N |-> list[i]] /\ \A i \in 1..N : list[i] \in DOMAIN k
  BY <1>2
<1>4. Len(list) = N /\ list \in Seq(DOMAIN k)
  BY <1>1, <1>2, <1>3
<1> QED
  BY <1>1, <1>2, <1>4 DEF N, list

LEMMA ListIsUnique ==
  ASSUME NEW k, NEW low, IsTracks(k, low), NEW n \in Nat,
         NEW a \in [1..n -> DOMAIN k], InOrder(a, k), NEW b \in [1..n -> DOMAIN k], InOrder(b, k)
  PROVE  a = b
<1> DEFINE apart == {i \in 1..n : a[i] # b[i]}
<1>1. apart = {}
  <2> SUFFICES ASSUME apart # {} PROVE FALSE
    OBVIOUS
  <2>1. PICK i \in apart : \A j \in apart : i <= j
    <3>1. apart \in SUBSET Nat
      OBVIOUS
    <3> HIDE DEF apart
    <3> QED
      BY <3>1, LowestIs
  <2>2. i \in 1..n /\ a[i] # b[i] /\ \A j \in 1..n : j < i => a[j] = b[j]
    BY <2>1
  <2>3. /\ Range(a) = DOMAIN k /\ \A x, y \in 1..n : x < y => LiesBelow(k, a[x], a[y])
        /\ Range(b) = DOMAIN k /\ \A x, y \in 1..n : x < y => LiesBelow(k, b[x], b[y])
    BY DEF InOrder
  <2>4. PICK x \in 1..n : a[x] = b[i]
    BY <2>2, <2>3 DEF Range
  <2>5. PICK y \in 1..n : b[y] = a[i]
    BY <2>2, <2>3 DEF Range
  <2>6. i < x
    <3>1. x # i /\ ~(x < i)
      <4>1. x < i => b[x] = b[i] /\ LiesBelow(k, b[x], b[i])
        BY <2>2, <2>3, <2>4
      <4> QED
        BY <2>2, <2>4, <4>1, TracksLie
    <3> QED
      BY <3>1
  <2>7. i < y
    <3>1. y # i /\ ~(y < i)
      <4>1. y < i => a[y] = a[i] /\ LiesBelow(k, a[y], a[i])
        BY <2>2, <2>3, <2>5
      <4> QED
        BY <2>2, <2>5, <4>1, TracksLie
    <3> QED
      BY <3>1
  <2>8. LiesBelow(k, a[i], b[i]) /\ LiesBelow(k, b[i], a[i])
    BY <2>2, <2>3, <2>4, <2>5, <2>6, <2>7
  <2> QED
    BY <2>2, <2>8, TracksLie
<1> QED
  BY <1>1

(* The keys of a repair exist: each is made from the one before.           *)
LEMMA ReconciledIs ==
  ASSUME NEW k, NEW list, Len(list) \in Nat, NEW f, f = ReconciledKeys(list, k)
  PROVE  /\ f[0] = NoKey
         /\ \A n \in 1..Len(list) : f[n] = ReconciledKey(list, k, n, f[n - 1])
<1> DEFINE Make(n, p) == ReconciledKey(list, k, n, p)
           Upto(m, g) == g = [n \in 0..m |-> IF n = 0 THEN NoKey ELSE Make(n, g[n - 1])]
           Missing == {m \in Nat : ~\E g : Upto(m, g)}
<1>0. f = CHOOSE g : Upto(Len(list), g)
  BY DEF ReconciledKeys
<1> HIDE DEF Make
<1>1. Missing = {}
  <2> SUFFICES ASSUME Missing # {} PROVE FALSE
    OBVIOUS
  <2>1. PICK m \in Missing : \A n \in Missing : m <= n
    <3>1. Missing \in SUBSET Nat
      OBVIOUS
    <3> HIDE DEF Missing
    <3> QED
      BY <3>1, LowestIs
  <2>2. CASE m = 0
    <3>1. PICK g : g = [n \in 0..0 |-> NoKey]
      OBVIOUS
    <3>2. \A n \in 0..0 : n = 0
      OBVIOUS
    <3>3. Upto(0, g)
      BY <3>1, <3>2
    <3> QED
      BY <2>2, <3>3
  <2>3. CASE m # 0
    <3>1. m - 1 \in Nat /\ m \in Nat /\ m - 1 \notin Missing
      <4>1. m \in Nat
        OBVIOUS
      <4> HIDE DEF Missing
      <4>2. m - 1 \in Nat /\ ~(m <= m - 1)
        BY <2>3, <4>1
      <4> QED
        BY <2>1, <4>1, <4>2
    <3>2. PICK g : Upto(m - 1, g)
      BY <3>1
    <3>3. PICK h : h = [n \in 0..m |-> IF n = m THEN Make(m, g[m - 1]) ELSE g[n]]
      OBVIOUS
    <3>4. \A n \in 0..m : h[n] = IF n = 0 THEN NoKey ELSE Make(n, h[n - 1])
      <4> SUFFICES ASSUME NEW n \in 0..m
                   PROVE  h[n] = IF n = 0 THEN NoKey ELSE Make(n, h[n - 1])
        OBVIOUS
      <4>1. CASE n = m
        <5>1. h[n] = Make(m, g[m - 1]) /\ h[m - 1] = g[m - 1]
          BY <3>1, <3>3, <4>1
        <5> QED
          BY <2>3, <4>1, <5>1
      <4>2. CASE n # m
        <5>1. n \in 0..(m - 1) /\ h[n] = g[n]
          BY <3>1, <3>3, <4>2
        <5>2. g[n] = IF n = 0 THEN NoKey ELSE Make(n, g[n - 1])
          BY <3>2, <5>1
        <5>3. n # 0 => h[n - 1] = g[n - 1]
          BY <3>1, <3>3, <5>1
        <5> QED
          BY <5>1, <5>2, <5>3
      <4> QED
        BY <4>1, <4>2
    <3>5. Upto(m, h)
      <4>1. h = [n \in 0..m |-> h[n]]
        BY <3>3
      <4> QED
        BY <3>4, <4>1
    <3> QED
      BY <2>1, <3>5
  <2> QED
    BY <2>2, <2>3
<1>2. \E g : Upto(Len(list), g)
  BY <1>1
<1>3. Upto(Len(list), f)
  BY <1>0, <1>2
<1>4. \A n \in 0..Len(list) : f[n] = IF n = 0 THEN NoKey ELSE Make(n, f[n - 1])
  BY <1>3
<1>5. 0 \in 0..Len(list) /\ \A n \in 1..Len(list) : n \in 0..Len(list) /\ n # 0
  OBVIOUS
<1>6. f[0] = NoKey /\ \A n \in 1..Len(list) : f[n] = Make(n, f[n - 1])
  BY <1>4, <1>5
<1> QED
  BY <1>6 DEF Make

(* Along the list of the tracks no key is below an earlier one, and a key  *)
(* that is kept is below all that come after it.                           *)
LEMMA KeysAlong ==
  ASSUME NEW k, NEW low, IsTracks(k, low), NEW list, list = Listed(k), NEW N, N = Len(list)
  PROVE  /\ N \in Nat /\ list \in [1..N -> DOMAIN k] /\ Range(list) = DOMAIN k
         /\ \A i, j \in 1..N : i < j => list[i] # list[j]
         /\ \A i, j \in 1..N : i < j =>
              k[list[i]] = k[list[j]] \/ KeyLess(k[list[i]], k[list[j]])
         /\ \A i, j \in 1..N : i < j /\ KeptAt(list, k, i) => KeyLess(k[list[i]], k[list[j]])
         /\ N # 0 => KeptAt(list, k, N)
<1>1. N \in Nat /\ list \in [1..N -> DOMAIN k] /\ InOrder(list, k)
  BY ListedIs
<1>2. /\ Range(list) = DOMAIN k /\ DOMAIN list = 1..N
      /\ \A i, j \in 1..N : i < j => LiesBelow(k, list[i], list[j])
  BY <1>1 DEF InOrder
<1>3. \A i \in 1..N : IsKey(k[list[i]])
  BY <1>1 DEF IsTracks
<1>4. \A i, j \in 1..N : i < j => list[i] # list[j]
  BY <1>1, <1>2, TracksLie
<1>5. \A i, j \in 1..N : i < j => k[list[i]] = k[list[j]] \/ KeyLess(k[list[i]], k[list[j]])
  BY <1>2 DEF LiesBelow
<1>6. ASSUME NEW i \in 1..N, NEW j \in 1..N, i < j, KeptAt(list, k, i)
      PROVE  KeyLess(k[list[i]], k[list[j]])
  <2>1. i + 1 \in 1..N /\ i < i + 1 /\ (i + 1 = j \/ i + 1 < j)
    BY <1>1, <1>6
  <2>2. k[list[i]] # k[list[i + 1]]
    BY <1>2, <1>6, <2>1 DEF KeptAt, KeyAt
  <2>3. KeyLess(k[list[i]], k[list[i + 1]])
    BY <1>5, <2>1, <2>2
  <2>4. k[list[i + 1]] = k[list[j]] \/ KeyLess(k[list[i + 1]], k[list[j]])
    BY <1>5, <2>1
  <2> QED
    BY <1>3, <2>1, <2>3, <2>4, KeysOrder
<1>7. N # 0 => KeptAt(list, k, N)
  <2>1. N # 0 => N \in 1..N /\ N + 1 \notin 1..N
    BY <1>1
  <2> QED
    BY <1>2, <1>3, <2>1, NoneIs DEF KeptAt, KeyAt
<1> QED
  BY <1>1, <1>2, <1>4, <1>5, <1>6, <1>7

(* Where a track lies in a list.                                           *)
LEMMA PlaceIs ==
  ASSUME NEW N \in Nat, NEW list, DOMAIN list = 1..N,
         \A i, j \in 1..N : i < j => list[i] # list[j]
  PROVE  \A i \in 1..N : PlaceOf(list, list[i]) = i
<1> SUFFICES ASSUME NEW i \in 1..N PROVE PlaceOf(list, list[i]) = i
  OBVIOUS
<1>1. \A j \in 1..N : list[j] = list[i] <=> j = i
  <2> SUFFICES ASSUME NEW j \in 1..N, list[j] = list[i], j # i PROVE FALSE
    OBVIOUS
  <2>1. i < j \/ j < i
    OBVIOUS
  <2> QED
    BY <2>1
<1> QED
  BY <1>1 DEF PlaceOf

(* A repair gives each track a key, strictly in the order in which they    *)
(* lie, and starts at most one integer lower.                              *)
LEMMA RepairIs ==
  ASSUME NEW k, NEW low \in Int, IsTracks(k, low), low > -IntegerLimit,
         NEW list, list = Listed(k), NEW N, N = Len(list), NEW r, r = RepairedKeys(k)
  PROVE  /\ IsTracks(r, low - 1) /\ DOMAIN r = DOMAIN k
         /\ \A i, j \in 1..N : i < j => KeyLess(r[list[i]], r[list[j]])
<1>0. /\ N \in Nat /\ list \in [1..N -> DOMAIN k] /\ DOMAIN list = 1..N /\ Range(list) = DOMAIN k
      /\ \A i, j \in 1..N : i < j => list[i] # list[j]
      /\ \A i, j \in 1..N : i < j =>
           k[list[i]] = k[list[j]] \/ KeyLess(k[list[i]], k[list[j]])
      /\ \A i, j \in 1..N : i < j /\ KeptAt(list, k, i) => KeyLess(k[list[i]], k[list[j]])
      /\ N # 0 => KeptAt(list, k, N)
  BY KeysAlong
<1>1. \A i \in 1..N : /\ IsKey(k[list[i]]) /\ k[list[i]].int >= low /\ k[list[i]].int \in Int
                      /\ IsEnd(k[list[i]])
  BY <1>0, NoneIs DEF IsTracks, IsEnd
<1>2. CASE IsInjective(k)
  <2>1. r = k
    BY <1>2 DEF RepairedKeys
  <2>2. IsTracks(k, low - 1)
    <3>1. \A t \in DOMAIN k : IsKey(k[t]) /\ k[t].int \in Int /\ k[t].int >= low
      BY NoneIs DEF IsTracks
    <3>2. \A t \in DOMAIN k : k[t].int >= low - 1
      BY <3>1
    <3> QED
      BY <3>1, <3>2 DEF IsTracks
  <2>3. \A i, j \in 1..N : i < j => k[list[i]] # k[list[j]]
    BY <1>0, <1>2 DEF IsInjective
  <2> QED
    BY <1>0, <2>1, <2>2, <2>3
<1>3. CASE ~IsInjective(k)
  <2> DEFINE made == ReconciledKeys(list, k)
  <2>1. made[0] = NoKey /\ \A n \in 1..N : made[n] = ReconciledKey(list, k, n, made[n - 1])
    BY <1>0, ReconciledIs
  <2>2. r = [t \in DOMAIN k |-> made[PlaceOf(list, t)]]
    BY <1>3 DEF RepairedKeys
  <2> HIDE DEF made
  <2> DEFINE Good(n) == /\ IsKey(made[n]) /\ made[n].int >= low - 1
                        /\ \A j \in 1..N : n < j /\ KeptAt(list, k, j) => KeyLess(made[n], k[list[j]])
                        /\ n > 1 => KeyLess(made[n - 1], made[n])
             Bad == {n \in 1..N : ~Good(n)}
  <2>3. ASSUME NEW n \in 1..N, n > 1 => Good(n - 1) PROVE Good(n)
    <3> DEFINE p == made[n - 1]
    <3>1. n - 1 \in 0..N /\ n - 1 < n /\ (n = 1 \/ n > 1) /\ (n > 1 => n - 1 \in 1..N)
      BY <1>0
    <3>2. n = 1 => p = NoKey
      BY <2>1
    <3>3. n > 1 => /\ p # NoKey /\ IsKey(p) /\ p.int \in Int /\ p.int >= low - 1
                   /\ \A j \in 1..N : n - 1 < j /\ KeptAt(list, k, j) => KeyLess(p, k[list[j]])
      BY <2>3, <3>1, NoneIs
    <3>4. made[n] = ReconciledKey(list, k, n, p)
      BY <2>1
    <3> HIDE DEF p, Good
    <3>5. CASE KeptAt(list, k, n)
      <4>1. made[n] = k[list[n]]
        BY <3>4, <3>5 DEF ReconciledKey
      <4>2. IsKey(made[n]) /\ made[n].int >= low - 1
        BY <1>1, <4>1
      <4>3. \A j \in 1..N : n < j /\ KeptAt(list, k, j) => KeyLess(made[n], k[list[j]])
        BY <1>0, <3>5, <4>1
      <4>4. n > 1 => KeyLess(p, made[n])
        BY <3>1, <3>3, <3>5, <4>1
      <4> QED
        BY <4>2, <4>3, <4>4 DEF Good, p
    <3>6. CASE ~KeptAt(list, k, n)
      <4> DEFINE later == {j \in (n + 1)..N : KeptAt(list, k, j) /\ (p = NoKey \/ KeyLess(p, k[list[j]]))}
                 m == Min(later)
      <4>1. N \in later
        <5>1. N # 0 /\ n # N
          BY <1>0, <3>6
        <5>2. N \in (n + 1)..N /\ KeptAt(list, k, N) /\ N \in 1..N /\ n - 1 < N
          BY <1>0, <5>1
        <5> QED
          BY <3>1, <3>2, <3>3, <5>2
      <4>2. m \in later /\ \A j \in later : m <= j
        <5>1. later \in SUBSET Nat
          BY <1>0
        <5> HIDE DEF later
        <5>2. \E x \in later : \A j \in later : x <= j
          BY <4>1, <5>1, LowestIs
        <5> QED
          BY <5>2 DEF Min
      <4>3. made[n] = KeyBetween(p, k[list[m]])
        BY <3>4, <3>6, <4>1 DEF ReconciledKey
      <4>4. m \in 1..N /\ n < m /\ KeptAt(list, k, m) /\ (p = NoKey \/ KeyLess(p, k[list[m]]))
        BY <1>0, <4>2
      <4>5. \A j \in 1..N : n < j /\ KeptAt(list, k, j) => m <= j
        <5> SUFFICES ASSUME NEW j \in 1..N, n < j, KeptAt(list, k, j) PROVE m <= j
          OBVIOUS
        <5>1. j \in (n + 1)..N /\ n - 1 < j
          BY <1>0
        <5>2. j \in later
          BY <3>1, <3>2, <3>3, <5>1
        <5> QED
          BY <4>2, <5>2
      <4> HIDE DEF later, m
      <4> DEFINE q == k[list[m]]
      <4>6. IsEnd(p) /\ IsEnd(q) /\ q # NoKey /\ q.int >= low /\ q.int \in Int /\ IsKey(q)
        BY <1>1, <3>1, <3>2, <3>3, <4>4, NoneIs DEF IsEnd
      <4>7. q.int > -IntegerLimit /\ (p # NoKey => KeyLess(p, q)) /\ made[n] = KeyBetween(p, q)
        <5>1. q.int > -IntegerLimit
          BY <4>6, BaseIs
        <5> QED
          BY <4>3, <4>4, <5>1
      <4> HIDE DEF q
      <4>8. /\ IsKey(made[n]) /\ KeyLess(made[n], q)
            /\ p # NoKey => KeyLess(p, made[n]) /\ made[n].int >= p.int
            /\ p = NoKey => made[n].int = q.int - 1
        BY <4>6, <4>7, BetweenIs
      <4>9. made[n].int >= low - 1
        <5>1. made[n].int \in Int
          BY <4>8, NoneIs
        <5> QED
          BY <3>1, <3>2, <3>3, <4>6, <4>8, <5>1
      <4>10. ASSUME NEW j \in 1..N, n < j, KeptAt(list, k, j) PROVE KeyLess(made[n], k[list[j]])
        <5>1. m = j \/ m < j
          BY <4>4, <4>5, <4>10
        <5>2. m < j => KeyLess(q, k[list[j]])
          BY <1>0, <4>4 DEF q
        <5> QED
          BY <1>1, <4>6, <4>8, <5>1, <5>2, KeysOrder DEF q
      <4>11. n > 1 => KeyLess(p, made[n])
        BY <3>3, <4>8
      <4> QED
        BY <4>8, <4>9, <4>10, <4>11 DEF Good, p
    <3> QED
      BY <3>5, <3>6
  <2>4. \A n \in 1..N : Good(n)
    <3> SUFFICES ASSUME Bad # {} PROVE FALSE
      OBVIOUS
    <3>1. PICK n \in Bad : \A x \in Bad : n <= x
      <4>1. Bad \in SUBSET Nat
        OBVIOUS
      <4> HIDE DEF Bad
      <4> QED
        BY <4>1, LowestIs
    <3> HIDE DEF Good
    <3>2. n \in 1..N /\ ~Good(n)
      OBVIOUS
    <3>3. n > 1 => n - 1 \in 1..N /\ ~(n <= n - 1)
      BY <1>0, <3>2
    <3>4. n > 1 => Good(n - 1)
      BY <3>1, <3>3
    <3> QED
      BY <2>3, <3>2, <3>4
  <2>5. \A i, j \in 1..N : i < j => KeyLess(made[i], made[j])
    <3> DEFINE Off == {j \in 1..N : \E i \in 1..N : i < j /\ ~KeyLess(made[i], made[j])}
    <3> SUFFICES ASSUME Off # {} PROVE FALSE
      OBVIOUS
    <3>1. PICK j \in Off : \A x \in Off : j <= x
      <4>1. Off \in SUBSET Nat
        OBVIOUS
      <4> HIDE DEF Off
      <4> QED
        BY <4>1, LowestIs
    <3>2. PICK i \in 1..N : i < j /\ ~KeyLess(made[i], made[j])
      OBVIOUS
    <3>3. j \in 1..N /\ j > 1 /\ j - 1 \in 1..N /\ (i = j - 1 \/ i < j - 1) /\ ~(j <= j - 1)
      BY <1>0, <3>2
    <3>4. KeyLess(made[j - 1], made[j])
      BY <2>4, <3>3
    <3>5. i < j - 1 => KeyLess(made[i], made[j - 1])
      BY <3>1, <3>3
    <3>6. IsKey(made[i]) /\ IsKey(made[j - 1]) /\ IsKey(made[j])
      BY <2>4, <3>3
    <3> QED
      BY <3>2, <3>3, <3>4, <3>5, <3>6, KeysOrder
  <2>6. \A i \in 1..N : r[list[i]] = made[i]
    BY <1>0, <2>2, PlaceIs
  <2>7. IsTracks(r, low - 1) /\ DOMAIN r = DOMAIN k
    <3>1. DOMAIN r = DOMAIN k /\ r = [t \in DOMAIN r |-> r[t]]
      BY <2>2
    <3>2. \A t \in DOMAIN k : IsKey(r[t]) /\ r[t].int >= low - 1
      <4> SUFFICES ASSUME NEW t \in DOMAIN k PROVE IsKey(r[t]) /\ r[t].int >= low - 1
        OBVIOUS
      <4>1. PICK i \in 1..N : list[i] = t
        BY <1>0 DEF Range
      <4> QED
        BY <2>4, <2>6, <4>1
    <3> QED
      BY <3>1, <3>2 DEF IsTracks
  <2> QED
    BY <2>5, <2>6, <2>7
<1> QED
  BY <1>2, <1>3

(* A list without what lies at a place: the others lie as before, those    *)
(* above it a place lower.                                                 *)
IsListing(list) ==
  /\ Len(list) \in Nat /\ DOMAIN list = 1..Len(list)
  /\ \A i, j \in 1..Len(list) : i < j => list[i] # list[j]
IsWithout(others, list, p) ==
  /\ DOMAIN others = 1..(Len(list) - 1) /\ Len(others) = Len(list) - 1
  /\ Len(list) - 1 \in Nat /\ others = [i \in 1..(Len(list) - 1) |-> others[i]]
  /\ \A i \in 1..(Len(list) - 1) : others[i] = IF i < p THEN list[i] ELSE list[i + 1]
  /\ Range(others) = Range(list) \ {list[p]}

LEMMA OthersAre ==
  ASSUME NEW list, IsListing(list), NEW p \in 1..Len(list), NEW others, others = Others(list, list[p])
  PROVE  IsWithout(others, list, p)
<1> DEFINE N == Len(list)
<1>0. N \in Nat /\ DOMAIN list = 1..N /\ p \in 1..N
        /\ \A i, j \in 1..N : i < j => list[i] # list[j]
  BY DEF IsListing
<1>1. PlaceOf(list, list[p]) = p
  BY <1>0, PlaceIs
<1>2. others = [i \in 1..(N - 1) |-> IF i < p THEN list[i] ELSE list[i + 1]]
  BY <1>1 DEF Others
<1> HIDE DEF N
<1>3. N - 1 \in Nat /\ DOMAIN others = 1..(N - 1)
        /\ \A i \in 1..(N - 1) : others[i] = IF i < p THEN list[i] ELSE list[i + 1]
  BY <1>0, <1>2
<1>4. others = [i \in 1..(N - 1) |-> others[i]]
  BY <1>2, <1>3
<1>5. Len(others) = N - 1
  <2>1. PICK n \in Nat : n = N - 1
    BY <1>0, <1>3
  <2>2. others = [i \in 1..n |-> others[i]]
    BY <1>4, <2>1
  <2>3. Len([i \in 1..n |-> others[i]]) = n
    OBVIOUS
  <2> QED
    BY <2>1, <2>2, <2>3
<1>6. ASSUME NEW i \in 1..(N - 1) PROVE others[i] \in Range(list) /\ others[i] # list[p]
  <2>1. i \in 1..N /\ i + 1 \in 1..N /\ (i < p \/ p < i + 1)
    BY <1>0, <1>3
  <2> QED
    BY <1>0, <1>3, <2>1 DEF Range
<1>7. ASSUME NEW i \in 1..N, i # p PROVE list[i] \in Range(others)
  <2>1. CASE i < p
    <3>1. i \in 1..(N - 1)
      BY <1>0, <2>1
    <3> QED
      BY <1>3, <2>1, <3>1 DEF Range
  <2>2. CASE p < i
    <3>1. i - 1 \in 1..(N - 1) /\ ~(i - 1 < p) /\ (i - 1) + 1 = i
      BY <1>0, <2>2
    <3>2. others[i - 1] = list[i]
      BY <1>3, <3>1
    <3> QED
      BY <1>3, <3>1, <3>2 DEF Range
  <2> QED
    BY <1>7, <2>1, <2>2
<1>8. Range(others) = Range(list) \ {list[p]}
  BY <1>0, <1>3, <1>6, <1>7 DEF Range
<1> QED
  BY <1>0, <1>3, <1>4, <1>5, <1>8 DEF N, IsWithout

(* A track whose key lies between those of the others lies where it was    *)
(* put, the others lie as before, and no two tracks share a key.           *)
LEMMA PutIs ==
  ASSUME NEW new, NEW low, IsTracks(new, low), NEW t \in DOMAIN new, NEW n \in Nat,
         Cardinality(DOMAIN new) = n + 1, NEW others, others = [i \in 1..n |-> others[i]],
         Range(others) = DOMAIN new \ {t}, NEW to \in 0..n,
         \A i, j \in 1..n : i < j => KeyLess(new[others[i]], new[others[j]]),
         \A i \in 1..n : IF i <= to THEN KeyLess(new[others[i]], new[t])
                                   ELSE KeyLess(new[t], new[others[i]])
  PROVE  /\ Listed(new)[to + 1] = t /\ Others(Listed(new), t) = others
         /\ \A u, v \in DOMAIN new : u # v => new[u] # new[v]
<1>1. PICK N \in Nat : N = n + 1
  OBVIOUS
<1>2. PICK now : now = [i \in 1..N |-> IF i <= to THEN others[i]
                                       ELSE IF i = to + 1 THEN t ELSE others[i - 1]]
  OBVIOUS
<1>3. /\ DOMAIN now = 1..N /\ to + 1 \in 1..N /\ now[to + 1] = t
      /\ \A i \in 1..N : i <= to => i \in 1..n /\ now[i] = others[i]
      /\ \A i \in 1..N : i > to + 1 => i - 1 \in 1..n /\ ~(i - 1 <= to) /\ now[i] = others[i - 1]
  BY <1>1, <1>2
<1>4. ASSUME NEW i \in 1..N, NEW j \in 1..N, i < j PROVE KeyLess(new[now[i]], new[now[j]])
  <2>1. CASE j <= to
    <3>1. i <= to
      BY <1>4, <2>1
    <3> QED
      BY <1>3, <1>4, <2>1, <3>1
  <2>2. CASE j = to + 1
    <3>1. i <= to
      BY <1>4, <2>2
    <3> QED
      BY <1>3, <2>2, <3>1
  <2>3. CASE j > to + 1 /\ i <= to
    <3>1. i < j - 1 /\ i \in 1..n /\ j - 1 \in 1..n
      <4>1. i < j - 1
        BY <2>3
      <4> QED
        BY <1>3, <2>3, <4>1
    <3>2. now[i] = others[i] /\ now[j] = others[j - 1]
      BY <1>3, <2>3
    <3>3. KeyLess(new[others[i]], new[others[j - 1]])
      BY <3>1
    <3> QED
      BY <3>2, <3>3
  <2>4. CASE j > to + 1 /\ i = to + 1
    BY <1>3, <2>4
  <2>5. CASE j > to + 1 /\ i > to + 1
    <3>1. i - 1 < j - 1 /\ i - 1 \in 1..n /\ j - 1 \in 1..n
      <4>1. i - 1 < j - 1
        BY <1>4
      <4> QED
        BY <1>3, <2>5, <4>1
    <3>2. now[i] = others[i - 1] /\ now[j] = others[j - 1]
      BY <1>3, <2>5
    <3>3. KeyLess(new[others[i - 1]], new[others[j - 1]])
      BY <3>1
    <3> QED
      BY <3>2, <3>3
  <2> QED
    BY <2>1, <2>2, <2>3, <2>4, <2>5
<1>5. ASSUME NEW i \in 1..N PROVE now[i] \in DOMAIN new
  <2>1. i <= to \/ i = to + 1 \/ i > to + 1
    OBVIOUS
  <2>2. \A x \in 1..n : others[x] \in DOMAIN new
    BY DEF Range
  <2> QED
    BY <1>3, <2>1, <2>2
<1>6. ASSUME NEW u \in DOMAIN new PROVE \E i \in 1..N : now[i] = u
  <2>1. CASE u = t
    BY <1>3, <2>1
  <2>2. CASE u # t
    <3>1. u \in Range(others) /\ DOMAIN others = 1..n
      BY <2>2
    <3>2. PICK i \in 1..n : others[i] = u
      BY <3>1 DEF Range
    <3>3. CASE i <= to
      <4>1. i \in 1..N
        BY <1>1
      <4> QED
        BY <1>3, <3>2, <3>3, <4>1
    <3>4. CASE ~(i <= to)
      <4>1. i + 1 \in 1..N /\ i + 1 > to + 1 /\ (i + 1) - 1 = i
        BY <1>1, <3>4
      <4>2. now[i + 1] = u
        BY <1>3, <3>2, <4>1
      <4> QED
        BY <4>1, <4>2
    <3> QED
      BY <3>3, <3>4
  <2> QED
    BY <2>1, <2>2
<1>7. Range(now) = DOMAIN new /\ now \in [1..N -> DOMAIN new]
  <2>1. Range(now) = {now[i] : i \in 1..N}
    BY <1>3 DEF Range
  <2>2. now = [i \in 1..N |-> now[i]]
    BY <1>2, <1>3
  <2>3. now \in [1..N -> DOMAIN new]
    BY <1>5, <2>2
  <2>4. {now[i] : i \in 1..N} = DOMAIN new
    BY <1>5, <1>6
  <2> QED
    BY <2>1, <2>3, <2>4
<1>8. InOrder(now, new)
  BY <1>3, <1>4, <1>7 DEF InOrder, LiesBelow
<1>9. Listed(new) = now
  <2>1. Listed(new) \in [1..N -> DOMAIN new] /\ InOrder(Listed(new), new)
    BY <1>1, ListedIs
  <2> QED
    BY <1>7, <1>8, <2>1, ListIsUnique
<1>10. \A i, j \in 1..N : i < j => now[i] # now[j] /\ new[now[i]] # new[now[j]]
  <2>1. \A i \in 1..N : IsKey(new[now[i]])
    BY <1>5 DEF IsTracks
  <2> QED
    BY <1>4, <2>1, KeysOrder
<1>11. Others(now, t) = others
  <2>1. Len(now) = N
    <3>1. now = [i \in 1..N |-> now[i]]
      BY <1>2, <1>3
    <3> QED
      BY <3>1
  <2>2. PICK q \in 1..Len(now) : q = to + 1
    BY <1>3, <2>1
  <2>3. PICK rest : rest = Others(now, now[q])
    OBVIOUS
  <2>4. IsListing(now)
    BY <1>3, <1>10, <2>1 DEF IsListing
  <2>5. /\ rest = [i \in 1..(Len(now) - 1) |-> rest[i]]
        /\ \A i \in 1..(Len(now) - 1) : rest[i] = IF i < q THEN now[i] ELSE now[i + 1]
    <3>1. IsWithout(rest, now, q)
      BY <2>3, <2>4, OthersAre
    <3> QED
      BY <3>1 DEF IsWithout
  <2>6. Len(now) - 1 = n
    BY <1>1, <2>1
  <2>7. ASSUME NEW i \in 1..n PROVE rest[i] = others[i]
    <3>1. i \in 1..N /\ i + 1 \in 1..N /\ (i + 1) - 1 = i /\ (i <= to \/ i + 1 > to + 1)
            /\ (i <= to <=> i < q)
      BY <1>1, <2>2
    <3>2. rest[i] = IF i <= to THEN now[i] ELSE now[i + 1]
      BY <2>5, <2>6, <3>1
    <3>3. i + 1 > to + 1 => now[i + 1] = others[(i + 1) - 1]
      BY <1>3, <3>1
    <3> QED
      BY <1>3, <3>1, <3>2, <3>3
  <2>8. rest = others
    BY <2>5, <2>6, <2>7
  <2> QED
    BY <1>3, <2>2, <2>3, <2>8
<1>12. ASSUME NEW u \in DOMAIN new, NEW v \in DOMAIN new, u # v PROVE new[u] # new[v]
  <2>1. PICK i \in 1..N : now[i] = u
    BY <1>6
  <2>2. PICK j \in 1..N : now[j] = v
    BY <1>6
  <2>3. i < j \/ j < i
    BY <1>12, <2>1, <2>2
  <2> QED
    BY <1>10, <2>1, <2>2, <2>3
<1> QED
  BY <1>3, <1>9, <1>11, <1>12

(* The key of a moved track lies strictly between those of its neighbours. *)
Amid(r, others, n, to, key) ==
  /\ \A i, j \in 1..n : i < j => KeyLess(r[others[i]], r[others[j]])
  /\ \A i \in 1..n : IF i <= to THEN KeyLess(r[others[i]], key) ELSE KeyLess(key, r[others[i]])

LEMMA MovedKeyIs ==
  ASSUME NEW k, NEW low \in Int, IsTracks(k, low), low - 1 > -IntegerLimit, low <= 2,
         NEW p \in 1..Len(Listed(k)), NEW to \in 0..(Len(Listed(k)) - 1),
         NEW key, key = MovedKey(RepairedKeys(k), Others(Listed(k), Listed(k)[p]), to)
  PROVE  /\ IsKey(key) /\ key.int >= low - 2
         /\ Amid(RepairedKeys(k), Others(Listed(k), Listed(k)[p]), Len(Listed(k)) - 1, to, key)
<1> SUFFICES ASSUME NEW list, list = Listed(k), NEW N, N = Len(list), NEW r, r = RepairedKeys(k),
                    NEW others, others = Others(list, list[p]),
                    key = MovedKey(r, others, to)
             PROVE  /\ IsKey(key) /\ key.int >= low - 2
                    /\ \A i, j \in 1..(N - 1) : i < j => KeyLess(r[others[i]], r[others[j]])
                    /\ \A i \in 1..(N - 1) : IF i <= to THEN KeyLess(r[others[i]], key)
                                                         ELSE KeyLess(key, r[others[i]])
  BY DEF Amid
<1>0. /\ N \in Nat /\ list \in [1..N -> DOMAIN k] /\ DOMAIN list = 1..N /\ Range(list) = DOMAIN k
      /\ \A i, j \in 1..N : i < j => list[i] # list[j]
  BY KeysAlong
<1>1. /\ DOMAIN others = 1..(N - 1) /\ N - 1 \in Nat
      /\ \A i \in 1..(N - 1) : others[i] = IF i < p THEN list[i] ELSE list[i + 1]
  <2>1. IsListing(list)
    BY <1>0 DEF IsListing
  <2>2. IsWithout(others, list, p)
    BY <2>1, OthersAre
  <2> QED
    BY <2>2 DEF IsWithout
<1>2. /\ IsTracks(r, low - 1) /\ DOMAIN r = DOMAIN k
      /\ \A i, j \in 1..N : i < j => KeyLess(r[list[i]], r[list[j]])
  <2>1. low > -IntegerLimit
    BY BaseIs
  <2> QED
    BY <2>1, RepairIs
<1>3. ASSUME NEW i \in 1..(N - 1), NEW j \in 1..(N - 1), i < j
      PROVE  KeyLess(r[others[i]], r[others[j]])
  <2>1. i \in 1..N /\ i + 1 \in 1..N /\ j \in 1..N /\ j + 1 \in 1..N /\ i < j + 1 /\ i + 1 < j + 1
    BY <1>0, <1>3
  <2>2. j < p => i < p
    BY <1>3
  <2> QED
    BY <1>1, <1>2, <1>3, <2>1, <2>2
<1>4. \A i \in 1..(N - 1) : /\ IsKey(r[others[i]]) /\ r[others[i]].int \in Int
                            /\ r[others[i]].int >= low - 1 /\ r[others[i]] # NoKey
  <2> SUFFICES ASSUME NEW i \in 1..(N - 1)
               PROVE  /\ IsKey(r[others[i]]) /\ r[others[i]].int \in Int
                      /\ r[others[i]].int >= low - 1 /\ r[others[i]] # NoKey
    OBVIOUS
  <2>1. i \in 1..N /\ i + 1 \in 1..N
    BY <1>0
  <2>2. others[i] \in DOMAIN k
    BY <1>0, <1>1, <2>1
  <2> QED
    BY <1>2, <2>2, NoneIs DEF IsTracks
<1> DEFINE below == KeyAt(others, r, to)
           above == KeyAt(others, r, to + 1)
<1>5. to = 0 => below = NoKey
  BY <1>1 DEF KeyAt
<1>6. to # 0 => to \in 1..(N - 1) /\ below = r[others[to]]
  BY <1>0, <1>1 DEF KeyAt
<1>7. to = N - 1 => above = NoKey
  BY <1>0, <1>1 DEF KeyAt
<1>8. to # N - 1 => to + 1 \in 1..(N - 1) /\ above = r[others[to + 1]]
  BY <1>0, <1>1 DEF KeyAt
<1>9. key = KeyBetween(below, above)
  BY DEF MovedKey
<1> HIDE DEF below, above
<1>10. IsEnd(below) /\ IsEnd(above)
  BY <1>4, <1>5, <1>6, <1>7, <1>8 DEF IsEnd
<1>11. below # NoKey /\ above # NoKey => KeyLess(below, above)
  <2>1. to < to + 1
    BY <1>0
  <2> QED
    BY <1>3, <1>5, <1>6, <1>7, <1>8, <2>1
<1>12. above # NoKey => above.int \in Int /\ above.int >= low - 1 /\ above.int > -IntegerLimit
  <2>1. above # NoKey => above.int \in Int /\ above.int >= low - 1
    BY <1>4, <1>7, <1>8
  <2> QED
    BY <2>1, BaseIs
<1>13. /\ IsKey(key)
       /\ below # NoKey => KeyLess(below, key) /\ key.int >= below.int
       /\ above # NoKey => KeyLess(key, above)
       /\ below = NoKey => IF above = NoKey THEN key.int = 0 ELSE key.int = above.int - 1
  BY <1>9, <1>10, <1>11, <1>12, BetweenIs
<1>14. key.int >= low - 2
  <2>1. key.int \in Int
    BY <1>13, NoneIs
  <2>2. below # NoKey => below.int \in Int /\ below.int >= low - 1
    BY <1>4, <1>5, <1>6
  <2>3. CASE below # NoKey
    BY <1>13, <2>1, <2>2, <2>3
  <2>4. CASE below = NoKey /\ above # NoKey
    BY <1>12, <1>13, <2>1, <2>4
  <2>5. CASE below = NoKey /\ above = NoKey
    BY <1>13, <2>1, <2>5
  <2> QED
    BY <2>3, <2>4, <2>5
<1>15. ASSUME NEW i \in 1..(N - 1), i <= to PROVE KeyLess(r[others[i]], key)
  <2>1. to # 0 /\ (i = to \/ i < to)
    BY <1>15
  <2>2. KeyLess(below, key) /\ below = r[others[to]] /\ to \in 1..(N - 1)
    BY <1>4, <1>6, <1>13, <2>1
  <2>3. i < to => KeyLess(r[others[i]], below)
    BY <1>3, <2>2
  <2> QED
    BY <1>4, <1>13, <2>1, <2>2, <2>3, KeysOrder
<1>16. ASSUME NEW i \in 1..(N - 1), ~(i <= to) PROVE KeyLess(key, r[others[i]])
  <2>1. to # N - 1 /\ (i = to + 1 \/ to + 1 < i)
    BY <1>16
  <2>2. KeyLess(key, above) /\ above = r[others[to + 1]] /\ to + 1 \in 1..(N - 1)
    BY <1>4, <1>8, <1>13, <2>1
  <2>3. to + 1 < i => KeyLess(above, r[others[i]])
    BY <1>3, <2>2
  <2> QED
    BY <1>4, <1>13, <2>1, <2>2, <2>3, KeysOrder
<1> QED
  BY <1>3, <1>13, <1>14, <1>15, <1>16

---------------------------------------------------------------------------
(* The invariant of the order of tracks                                    *)

(* The call of an adder: a key not too low.  The call of a mover: what it  *)
(* read, the repair of that, and the key that it made of both.             *)
AddOK(m, low) ==
  m.phase = "add" /\ m.track \in SpareOrder /\ IsKey(m.key) /\ m.key.int >= low
MoveOK(m, low) ==
  /\ m.phase = "move" /\ IsTracks(m.seen, low) /\ m.repaired = RepairedKeys(m.seen)
  /\ \E p \in 1..Len(Listed(m.seen)) : m.track = Listed(m.seen)[p]
  /\ m.to \in 0..(Len(Listed(m.seen)) - 1)
  /\ m.key = MovedKey(m.repaired, Others(Listed(m.seen), m.track), m.to)

(* A call lowers the lowest integer by two at most.                        *)
Lowest(n) == 0 - 2 * n
OrderInv ==
  /\ moves \in 0..MaxMoves
  /\ IsTracks(keys, Lowest(moves)) /\ DOMAIN keys \subseteq StartOrder \cup SpareOrder
  /\ movers = [c \in Movers |-> movers[c]]
  /\ \A c \in Movers : \/ movers[c] = NoMove
                       \/ AddOK(movers[c], Lowest(moves))
                       \/ MoveOK(movers[c], Lowest(moves) + 2)

LEMMA BoundsAre ==
  /\ MaxMoves \in Nat /\ \A n \in 0..MaxMoves : Lowest(n) \in Int /\ Lowest(n) <= 0
                                                /\ Lowest(n) > -IntegerLimit
  /\ \A n \in Nat : Lowest(n + 1) = Lowest(n) - 2 /\ Lowest(n) \in Int
  /\ StartOrder \cup SpareOrder \subseteq Nat /\ IsFiniteSet(StartOrder \cup SpareOrder)
<1>1. MaxMoves \in Nat /\ 2 * MaxMoves < IntegerLimit
  BY TrackOrderAssumption, Zenon
<1>2. StartOrder \cup SpareOrder \subseteq Nat /\ IsFiniteSet(StartOrder \cup SpareOrder)
  BY TrackOrderAssumption, Zenon
<1>3. ASSUME NEW n \in 0..MaxMoves
      PROVE  Lowest(n) \in Int /\ Lowest(n) <= 0 /\ Lowest(n) > -IntegerLimit
  BY <1>1, BaseIs DEF Lowest
<1>4. \A n \in Nat : Lowest(n + 1) = Lowest(n) - 2 /\ Lowest(n) \in Int
  BY DEF Lowest
<1> QED
  BY <1>1, <1>2, <1>3, <1>4

LEMMA TracksLower ==
  ASSUME NEW k, NEW low \in Int, NEW less \in Int, less <= low, IsTracks(k, low)
  PROVE  IsTracks(k, less)
<1>1. \A t \in DOMAIN k : IsKey(k[t]) /\ k[t].int \in Int /\ k[t].int >= low
  BY NoneIs DEF IsTracks
<1>2. \A t \in DOMAIN k : IsKey(k[t]) /\ k[t].int >= less
  BY <1>1
<1> QED
  BY <1>2 DEF IsTracks

(* A key that could be made, and one that isOrderKey accepts.              *)
LEMMA KeyIsValid ==
  ASSUME NEW k, IsKey(k)
  PROVE  ValidKey(k) /\ NoRoom \notin Range(k.frac)
<1>1. IsFrac(k.frac) /\ k.int \in -IntegerLimit..IntegerLimit
  BY DEF IsKey
<1> DEFINE a == k.frac
<1>2. DOMAIN a = 1..Len(a) /\ \A i \in 1..Len(a) : a[i] \in 0..(DigitBase - 1)
  <2>1. /\ DOMAIN a = 1..Len(a) /\ Len(a) \in Nat
        /\ \A i \in Nat : Digit(a, i) \in 0..(DigitBase - 1)
        /\ \A i \in 1..Len(a) : Digit(a, i) = a[i]
    BY <1>1, DigitIs
  <2> HIDE DEF a
  <2> QED
    BY <2>1
<1>3. a # <<>> => a[Len(a)] # 0
  BY <1>1 DEF IsFrac
<1> HIDE DEF a
<1>4. NoRoom \notin Range(a)
  BY <1>2, BaseIs DEF NoRoom, Range
<1>5. ValidKey(k)
  BY <1>1, <1>2, <1>3 DEF ValidKey, a
<1> QED
  BY <1>4, <1>5 DEF a

(* What a mover made: keys that lie where they should.                     *)
LEMMA MadeIs ==
  ASSUME NEW low \in Int, low - 1 > -IntegerLimit, low <= 2, NEW m, MoveOK(m, low)
  PROVE  /\ IsTracks(m.repaired, low - 1) /\ DOMAIN m.repaired = DOMAIN m.seen
         /\ IsKey(m.key) /\ m.key.int >= low - 2 /\ m.track \in DOMAIN m.seen
         /\ \A new : new = [u \in DOMAIN m.seen |-> IF u = m.track THEN m.key ELSE m.repaired[u]] =>
              /\ Listed(new)[m.to + 1] = m.track
              /\ Others(Listed(new), m.track) = Others(Listed(m.seen), m.track)
              /\ \A t, u \in DOMAIN new : t # u => new[t] # new[u]
<1> DEFINE k == m.seen
           list == Listed(k)
           N == Len(list)
           r == m.repaired
           to == m.to
           key == m.key
<1>1. /\ IsTracks(k, low) /\ r = RepairedKeys(k) /\ to \in 0..(N - 1)
      /\ \E p \in 1..N : m.track = list[p]
      /\ key = MovedKey(r, Others(list, m.track), to)
  BY DEF MoveOK
<1>2. PICK p \in 1..N : m.track = list[p]
  BY <1>1
<1>3. PICK others : others = Others(list, list[p])
  OBVIOUS
<1> DEFINE t == m.track
<1>4. key = MovedKey(r, others, to) /\ t = list[p]
  BY <1>1, <1>2, <1>3
<1>5. list = Listed(k) /\ N = Len(list)
  OBVIOUS
<1>6. list \in [1..N -> DOMAIN k] /\ N = Cardinality(DOMAIN k) /\ N \in Nat
  BY <1>1, ListedIs
<1> HIDE DEF k, list, N, r, to, key, t
<1>7. /\ IsKey(key) /\ key.int >= low - 2
      /\ \A i, j \in 1..(N - 1) : i < j => KeyLess(r[others[i]], r[others[j]])
      /\ \A i \in 1..(N - 1) : IF i <= to THEN KeyLess(r[others[i]], key)
                                           ELSE KeyLess(key, r[others[i]])
  <2>1. p \in 1..Len(Listed(k)) /\ to \in 0..(Len(Listed(k)) - 1)
    BY <1>1, <1>5
  <2>2. others = Others(Listed(k), Listed(k)[p])
    BY <1>3, <1>5
  <2>3. IsKey(key) /\ key.int >= low - 2 /\ Amid(r, others, N - 1, to, key)
    BY <1>1, <1>4, <1>5, <2>1, <2>2, MovedKeyIs
  <2> QED
    BY <2>3 DEF Amid
<1>8. IsTracks(r, low - 1) /\ DOMAIN r = DOMAIN k
  <2>1. low > -IntegerLimit
    BY BaseIs
  <2> QED
    BY <1>1, <1>5, <2>1, RepairIs
<1>9. t \in DOMAIN k
  BY <1>4, <1>6
<1>10. ASSUME NEW new, new = [u \in DOMAIN k |-> IF u = t THEN key ELSE r[u]]
       PROVE  /\ Listed(new)[to + 1] = t /\ Others(Listed(new), t) = others
              /\ \A u, v \in DOMAIN new : u # v => new[u] # new[v]
  <2>1. IsTracks(new, low - 2) /\ DOMAIN new = DOMAIN k
    <3>1. \A u \in DOMAIN k : /\ IsKey(r[u]) /\ r[u].int \in Int /\ r[u].int >= low - 1
      BY <1>8, NoneIs DEF IsTracks
    <3>2. \A u \in DOMAIN k : IsKey(r[u]) /\ r[u].int >= low - 2
      BY <3>1
    <3>3. DOMAIN k \subseteq Nat /\ IsFiniteSet(DOMAIN k)
      BY <1>1 DEF IsTracks
    <3> QED
      BY <1>7, <1>10, <3>2, <3>3 DEF IsTracks
  <2>2. /\ N - 1 \in Nat /\ others = [i \in 1..(N - 1) |-> others[i]] /\ DOMAIN others = 1..(N - 1)
        /\ Range(others) = DOMAIN new \ {t}
    <3>1. IsListing(list) /\ Range(list) = DOMAIN k
      BY <1>1, <1>5, KeysAlong DEF IsListing
    <3>2. p \in 1..Len(list)
      BY <1>5
    <3>3. IsWithout(others, list, p)
      BY <1>3, <3>1, <3>2, OthersAre
    <3> QED
      BY <1>4, <1>5, <2>1, <3>1, <3>3 DEF IsWithout
  <2>3. PICK n \in Nat : n = N - 1
    BY <2>2
  <2>4. others = [i \in 1..n |-> others[i]] /\ to \in 0..n /\ Cardinality(DOMAIN new) = n + 1
    BY <1>1, <1>6, <2>1, <2>2, <2>3
  <2>5. \A i \in 1..n : new[others[i]] = r[others[i]]
    BY <1>10, <2>1, <2>2, <2>3 DEF Range
  <2>6. new[t] = key /\ t \in DOMAIN new
    BY <1>9, <1>10
  <2>7. \A i, j \in 1..n : i < j => KeyLess(new[others[i]], new[others[j]])
    BY <1>7, <2>3, <2>5
  <2>8. \A i \in 1..n : IF i <= to THEN KeyLess(new[others[i]], new[t])
                                   ELSE KeyLess(new[t], new[others[i]])
    BY <1>7, <2>3, <2>5, <2>6
  <2> HIDE <1>10
  <2> QED
    BY <2>1, <2>2, <2>4, <2>6, <2>7, <2>8, PutIs
<1> QED
  BY <1>3, <1>4, <1>7, <1>8, <1>9, <1>10 DEF k, list, r, to, key, t

LEMMA OrderStarts == OrderInit => OrderInv
<1> SUFFICES ASSUME OrderInit PROVE OrderInv
  OBVIOUS
<1>1. IsFiniteSet(StartOrder) /\ StartOrder \subseteq Nat /\ Cardinality(StartOrder) <= IntegerLimit
  <2>1. StartOrder \subseteq StartOrder \cup SpareOrder /\ Cardinality(StartOrder) <= IntegerLimit
    BY TrackOrderAssumption, Zenon
  <2> QED
    BY <2>1, BoundsAre, FS_Subset
<1>2. ASSUME NEW t \in StartOrder
      PROVE  LET n == Cardinality({u \in StartOrder : u < t}) IN
             n \in -IntegerLimit..IntegerLimit /\ n >= 0
  <2> DEFINE under == {u \in StartOrder : u < t}
             n == Cardinality(under)
             all == Cardinality(StartOrder)
  <2>1. n \in Nat /\ all \in Nat /\ n <= all
    BY <1>1, FS_Subset, FS_CardinalityType
  <2>2. all <= IntegerLimit
    BY <1>1
  <2> HIDE DEF n, all
  <2>3. n \in -IntegerLimit..IntegerLimit /\ n >= 0
    BY <2>1, <2>2, BaseIs
  <2> QED
    BY <2>3 DEF n
<1>3. DOMAIN keys = StartOrder /\ \A t \in StartOrder : IsKey(keys[t]) /\ keys[t].int >= 0
  <2>1. keys = [t \in StartOrder |-> Key(Cardinality({u \in StartOrder : u < t}), <<>>)]
    BY DEF OrderInit
  <2>2. ASSUME NEW t \in StartOrder PROVE IsKey(keys[t]) /\ keys[t].int >= 0
    <3> DEFINE n == Cardinality({u \in StartOrder : u < t})
    <3>1. n \in -IntegerLimit..IntegerLimit /\ n >= 0 /\ keys[t] = Key(n, <<>>)
      BY <1>2, <2>1
    <3> HIDE DEF n
    <3> QED
      BY <3>1, NoneIs, KeyIs
  <2> QED
    BY <2>1, <2>2
<1>4. moves = 0 /\ moves \in 0..MaxMoves /\ Lowest(moves) = 0
  BY BoundsAre DEF OrderInit, Lowest
<1>5. IsTracks(keys, Lowest(moves))
  <2>1. keys = [t \in DOMAIN keys |-> keys[t]]
    BY DEF OrderInit
  <2> QED
    BY <1>1, <1>3, <1>4, <2>1 DEF IsTracks
<1>6. movers = [c \in Movers |-> movers[c]] /\ \A c \in Movers : movers[c] = NoMove
  BY DEF OrderInit
<1> QED
  BY <1>3, <1>4, <1>5, <1>6 DEF OrderInv

(* A step of a caller changes its call only; the rest of the calls hold on.*)
LEMMA CallsHold ==
  ASSUME OrderInv, NEW c \in Movers, NEW m, movers' = [movers EXCEPT ![c] = m],
         moves' = moves \/ moves' = moves + 1, moves' \in 0..MaxMoves,
         m = NoMove \/ AddOK(m, Lowest(moves')) \/ MoveOK(m, Lowest(moves') + 2),
         IsTracks(keys', Lowest(moves')), DOMAIN keys' \subseteq StartOrder \cup SpareOrder
  PROVE  OrderInv'
<1>1. moves \in Nat /\ Lowest(moves) \in Int /\ Lowest(moves') \in Int /\ Lowest(moves') <= Lowest(moves)
  <2>1. moves \in 0..MaxMoves /\ moves \in Nat
    BY BoundsAre DEF OrderInv
  <2> QED
    BY <2>1, BoundsAre
<1>2. ASSUME NEW d \in Movers
      PROVE  movers'[d] = NoMove \/ AddOK(movers'[d], Lowest(moves')) \/ MoveOK(movers'[d], Lowest(moves') + 2)
  <2>1. CASE d = c
    BY <2>1 DEF OrderInv
  <2>2. CASE d # c
    <3>1. movers'[d] = movers[d]
      BY <2>2 DEF OrderInv
    <3>2. movers[d] = NoMove \/ AddOK(movers[d], Lowest(moves)) \/ MoveOK(movers[d], Lowest(moves) + 2)
      BY DEF OrderInv
    <3>3. AddOK(movers[d], Lowest(moves)) => AddOK(movers[d], Lowest(moves'))
      <4> SUFFICES ASSUME AddOK(movers[d], Lowest(moves)) PROVE AddOK(movers[d], Lowest(moves'))
        OBVIOUS
      <4>1. IsKey(movers[d].key) /\ movers[d].key.int >= Lowest(moves) /\ movers[d].key.int \in Int
        BY NoneIs DEF AddOK
      <4>2. movers[d].key.int >= Lowest(moves')
        BY <1>1, <4>1
      <4> QED
        BY <4>2 DEF AddOK
    <3>4. MoveOK(movers[d], Lowest(moves) + 2) => MoveOK(movers[d], Lowest(moves') + 2)
      <4> SUFFICES ASSUME MoveOK(movers[d], Lowest(moves) + 2) PROVE MoveOK(movers[d], Lowest(moves') + 2)
        OBVIOUS
      <4>1. PICK a \in Int, b \in Int : a = Lowest(moves) + 2 /\ b = Lowest(moves') + 2 /\ b <= a
        BY <1>1
      <4>2. IsTracks(movers[d].seen, b)
        BY <4>1, TracksLower DEF MoveOK
      <4> QED
        BY <4>1, <4>2 DEF MoveOK
    <3> QED
      BY <3>1, <3>2, <3>3, <3>4
  <2> QED
    BY <2>1, <2>2
<1>3. movers' = [d \in Movers |-> movers'[d]]
  BY DEF OrderInv
<1> QED
  BY <1>2, <1>3 DEF OrderInv

LEMMA KeysGrow ==
  ASSUME OrderInv, moves' \in 0..MaxMoves, moves' = moves + 1
  PROVE  IsTracks(keys, Lowest(moves'))
<1>1. moves \in Nat /\ moves \in 0..MaxMoves
  BY BoundsAre DEF OrderInv
<1>2. Lowest(moves) \in Int /\ Lowest(moves') \in Int /\ Lowest(moves') <= Lowest(moves)
  BY <1>1, BoundsAre
<1>3. IsTracks(keys, Lowest(moves))
  BY DEF OrderInv
<1> QED
  BY <1>2, <1>3, TracksLower

LEMMA BeginAddStep ==
  ASSUME OrderInv, NEW c \in Movers, NEW t \in SpareOrder, BeginAdd(c, t)
  PROVE  OrderInv'
<1> DEFINE low == Lowest(moves)
           list == Listed(keys)
           N == Len(list)
           p == KeyAt(list, keys, N)
<1>1. moves \in Nat /\ moves \in 0..MaxMoves /\ moves' = moves + 1 /\ moves' \in 0..MaxMoves /\ keys' = keys
        /\ IsTracks(keys, low)
  BY BoundsAre DEF OrderInv, BeginAdd
<1>2. low \in Int /\ low <= 0 /\ Lowest(moves') = low - 2
  BY <1>1, BoundsAre
<1>3. list \in [1..N -> DOMAIN keys] /\ N \in Nat
  BY <1>1, ListedIs
<1> HIDE DEF list, N, low
<1>4. IsEnd(p) /\ (p # NoKey => p.int >= low /\ p.int \in Int)
  <2>1. CASE N \in 1..N
    <3>1. p = keys[list[N]] /\ list[N] \in DOMAIN keys
      BY <1>3, <2>1 DEF KeyAt
    <3> QED
      BY <1>1, <3>1, NoneIs DEF IsTracks, IsEnd
  <2>2. CASE N \notin 1..N
    BY <1>3, <2>2 DEF KeyAt, IsEnd
  <2> QED
    BY <2>1, <2>2
<1>5. AppendedKey = KeyBetween(p, NoKey)
  BY DEF AppendedKey, list, N
<1> HIDE DEF p
<1>6. IsKey(AppendedKey) /\ AppendedKey.int >= low - 2
  <2>1. IsEnd(NoKey)
    BY DEF IsEnd
  <2>2. /\ IsKey(AppendedKey)
        /\ p # NoKey => AppendedKey.int >= p.int
        /\ p = NoKey => AppendedKey.int = 0
    BY <1>4, <1>5, <2>1, BetweenIs
  <2>3. AppendedKey.int \in Int
    BY <2>2, NoneIs
  <2> QED
    BY <1>2, <1>4, <2>2, <2>3
<1> DEFINE m == [phase |-> "add", track |-> t, key |-> AppendedKey]
<1>7. AddOK(m, Lowest(moves'))
  BY <1>2, <1>6 DEF AddOK
<1>8. movers' = [movers EXCEPT ![c] = m]
  BY DEF BeginAdd
<1>9. IsTracks(keys', Lowest(moves')) /\ DOMAIN keys' \subseteq StartOrder \cup SpareOrder
  BY <1>1, KeysGrow DEF OrderInv
<1> HIDE DEF m
<1> QED
  BY <1>1, <1>7, <1>8, <1>9, CallsHold

LEMMA CommitAddStep ==
  ASSUME OrderInv, NEW c \in Movers, CommitAdd(c)
  PROVE  OrderInv'
<1> DEFINE t == movers[c].track
           k == movers[c].key
<1>1. AddOK(movers[c], Lowest(moves))
  <2>1. movers[c].phase = "add"
    BY DEF CommitAdd
  <2>2. movers[c] # NoMove
    BY <2>1 DEF NoMove
  <2> QED
    BY <2>1, <2>2 DEF OrderInv, MoveOK
<1>2. t \in SpareOrder /\ IsKey(k) /\ k.int >= Lowest(moves)
  BY <1>1 DEF AddOK
<1>3. keys' = [u \in DOMAIN keys \cup {t} |-> IF u = t THEN k ELSE keys[u]]
  BY DEF CommitAdd
<1> HIDE DEF t, k
<1>4. IsTracks(keys, Lowest(moves)) /\ DOMAIN keys \subseteq StartOrder \cup SpareOrder
  BY DEF OrderInv
<1>5. DOMAIN keys' \subseteq StartOrder \cup SpareOrder /\ DOMAIN keys' \subseteq Nat
  BY <1>2, <1>3, <1>4, BoundsAre
<1>6. IsFiniteSet(DOMAIN keys')
  BY <1>3, <1>4, FS_AddElement DEF IsTracks
<1>7. IsTracks(keys', Lowest(moves))
  BY <1>2, <1>3, <1>4, <1>5, <1>6 DEF IsTracks
<1>8. moves' = moves /\ movers' = [movers EXCEPT ![c] = NoMove] /\ moves' \in 0..MaxMoves
  BY DEF CommitAdd, OrderInv
<1> QED
  BY <1>5, <1>7, <1>8, CallsHold

LEMMA BeginMoveStep ==
  ASSUME OrderInv, NEW c \in Movers, NEW t \in DOMAIN keys, NEW to \in Nat, BeginMove(c, t, to)
  PROVE  OrderInv'
<1> DEFINE list == Listed(keys)
           m == [phase |-> "move", track |-> t, to |-> to, seen |-> keys, repaired |-> RepairedKeys(keys),
                 key |-> MovedKey(RepairedKeys(keys), Others(list, t), to)]
<1>1. moves \in Nat /\ moves \in 0..MaxMoves /\ moves' = moves + 1 /\ moves' \in 0..MaxMoves /\ keys' = keys
        /\ IsTracks(keys, Lowest(moves))
  BY BoundsAre DEF OrderInv, BeginMove
<1>2. Lowest(moves') + 2 = Lowest(moves)
  BY <1>1, BoundsAre
<1>3. IsListing(list) /\ Range(list) = DOMAIN keys
  BY <1>1, KeysAlong DEF IsListing
<1>4. movers' = [movers EXCEPT ![c] = m] /\ to <= Len(Others(list, t))
  BY DEF BeginMove
<1>5. PICK p \in 1..Len(list) : list[p] = t
  BY <1>3 DEF IsListing, Range
<1>6. to \in 0..(Len(list) - 1)
  <2>1. IsWithout(Others(list, t), list, p)
    BY <1>3, <1>5, OthersAre
  <2> QED
    BY <1>4, <2>1 DEF IsWithout
<1>7. MoveOK(m, Lowest(moves))
  BY <1>1, <1>5, <1>6 DEF MoveOK
<1>8. MoveOK(m, Lowest(moves') + 2)
  BY <1>2, <1>7
<1>9. IsTracks(keys', Lowest(moves')) /\ DOMAIN keys' \subseteq StartOrder \cup SpareOrder
  BY <1>1, KeysGrow DEF OrderInv
<1> HIDE DEF m
<1> QED
  BY <1>1, <1>4, <1>8, <1>9, CallsHold

(* The mover that commits made what it writes from what it read.           *)
LEMMA MoverMade ==
  ASSUME OrderInv, NEW c \in Movers, movers[c].phase = "move"
  PROVE  \E low \in Int : /\ low = Lowest(moves) + 2 /\ low - 1 > -IntegerLimit /\ low <= 2
                          /\ MoveOK(movers[c], low)
<1>1. movers[c] # NoMove
  BY DEF NoMove
<1>2. MoveOK(movers[c], Lowest(moves) + 2)
  BY <1>1 DEF OrderInv, AddOK
<1>3. moves \in 0..MaxMoves
  BY DEF OrderInv
<1>4. Lowest(moves) \in Int /\ Lowest(moves) <= 0 /\ Lowest(moves) > -IntegerLimit
  BY <1>3, BoundsAre
<1>5. Lowest(moves) + 2 \in Int /\ (Lowest(moves) + 2) - 1 > -IntegerLimit /\ Lowest(moves) + 2 <= 2
  BY <1>4, BaseIs
<1> QED
  BY <1>2, <1>5

LEMMA CommitMoveStep ==
  ASSUME OrderInv, NEW c \in Movers, CommitMove(c)
  PROVE  OrderInv'
<1> DEFINE m == movers[c]
<1>1. m.phase = "move"
  BY DEF CommitMove
<1>2. PICK low \in Int : /\ low = Lowest(moves) + 2 /\ low - 1 > -IntegerLimit /\ low <= 2
                        /\ MoveOK(m, low)
  BY <1>1, MoverMade
<1>3. keys' = [u \in DOMAIN keys |->
                IF u = m.track THEN m.key
                ELSE IF u \in DOMAIN m.seen /\ m.repaired[u] # m.seen[u] THEN m.repaired[u] ELSE keys[u]]
  BY DEF CommitMove
<1> HIDE DEF m
<1>4. /\ IsTracks(m.repaired, low - 1) /\ DOMAIN m.repaired = DOMAIN m.seen
      /\ IsKey(m.key) /\ m.key.int >= low - 2
  BY <1>2, MadeIs
<1>5. Lowest(moves) \in Int /\ low - 2 = Lowest(moves) /\ low - 1 >= Lowest(moves)
  <2>1. moves \in 0..MaxMoves
    BY DEF OrderInv
  <2>2. Lowest(moves) \in Int
    BY <2>1, BoundsAre
  <2> QED
    BY <1>2, <2>2
<1>6. IsTracks(keys, Lowest(moves)) /\ DOMAIN keys \subseteq StartOrder \cup SpareOrder
  BY DEF OrderInv
<1>7. \A u \in DOMAIN m.seen : IsKey(m.repaired[u]) /\ m.repaired[u].int >= Lowest(moves)
  <2>1. \A u \in DOMAIN m.seen : /\ IsKey(m.repaired[u]) /\ m.repaired[u].int \in Int
                                  /\ m.repaired[u].int >= low - 1
    BY <1>4, NoneIs DEF IsTracks
  <2> QED
    BY <1>5, <2>1
<1>8. IsTracks(keys', Lowest(moves)) /\ DOMAIN keys' = DOMAIN keys
  <2>1. \A u \in DOMAIN keys : IsKey(keys'[u]) /\ keys'[u].int >= Lowest(moves)
    BY <1>3, <1>4, <1>5, <1>6, <1>7 DEF IsTracks
  <2> QED
    BY <1>3, <1>6, <2>1 DEF IsTracks
<1>9. moves' = moves /\ movers' = [movers EXCEPT ![c] = NoMove] /\ moves' \in 0..MaxMoves
  BY DEF CommitMove, OrderInv
<1> QED
  BY <1>6, <1>8, <1>9, CallsHold

LEMMA RemoveStep ==
  ASSUME OrderInv, NEW t \in DOMAIN keys, RemoveFromOrder(t)
  PROVE  OrderInv'
<1>1. keys' = [u \in DOMAIN keys \ {t} |-> keys[u]] /\ movers' = movers /\ moves' = moves
  BY DEF RemoveFromOrder
<1>2. IsTracks(keys, Lowest(moves)) /\ DOMAIN keys \subseteq StartOrder \cup SpareOrder
  BY DEF OrderInv
<1>3. DOMAIN keys' = DOMAIN keys \ {t} /\ IsFiniteSet(DOMAIN keys')
  BY <1>1, <1>2, FS_Subset DEF IsTracks
<1>4. IsTracks(keys', Lowest(moves))
  BY <1>1, <1>2, <1>3 DEF IsTracks
<1> QED
  BY <1>1, <1>2, <1>3, <1>4 DEF OrderInv

LEMMA OrderInvariance == OrderSpec => []OrderInv
<1>1. OrderInit => OrderInv
  BY OrderStarts
<1>2. OrderInv /\ [OrderNext]_orderVars => OrderInv'
  <2> SUFFICES ASSUME OrderInv, [OrderNext]_orderVars PROVE OrderInv'
    OBVIOUS
  <2>1. CASE OrderNext
    <3>1. \A c \in Movers, t \in SpareOrder : BeginAdd(c, t) => OrderInv'
      BY BeginAddStep
    <3>2. \A c \in Movers : CommitAdd(c) => OrderInv'
      BY CommitAddStep
    <3>3. ASSUME NEW c \in Movers, NEW t \in DOMAIN keys, NEW to \in 0..Cardinality(DOMAIN keys),
                 BeginMove(c, t, to)
          PROVE  OrderInv'
      <4>1. to \in Nat
        OBVIOUS
      <4> QED
        BY <3>3, <4>1, BeginMoveStep
    <3>4. \A c \in Movers : CommitMove(c) => OrderInv'
      BY CommitMoveStep
    <3>5. \A t \in DOMAIN keys : RemoveFromOrder(t) => OrderInv'
      BY RemoveStep
    <3> QED
      BY <2>1, <3>1, <3>2, <3>3, <3>4, <3>5 DEF OrderNext
  <2>2. CASE UNCHANGED orderVars
    BY <2>2 DEF OrderInv, orderVars, IsTracks
  <2> QED
    BY <2>1, <2>2
<1> QED
  BY <1>1, <1>2, PTL DEF OrderSpec

(* order-keys.ts: addTrack and moveTrack write nothing that isOrderKey     *)
(* refuses, whatever overlapped.                                           *)
THEOREM OrderTypes == OrderSpec => []OrderTypeOK
<1>1. OrderInv => OrderTypeOK
  <2> SUFFICES ASSUME OrderInv PROVE OrderTypeOK
    OBVIOUS
  <2>1. \A t \in DOMAIN keys : ValidKey(keys[t])
    BY KeyIsValid DEF OrderInv, IsTracks
  <2> QED
    BY <2>1 DEF OrderInv, OrderTypeOK
<1> QED
  BY <1>1, OrderInvariance, PTL

LEMMA MoverIsMakeable == OrderInv => RoomIsFound
<1> SUFFICES ASSUME OrderInv, NEW c \in Movers, movers[c].phase = "move"
             PROVE  Makeable(movers[c])
  BY DEF RoomIsFound
<1> DEFINE m == movers[c]
<1>1. PICK low \in Int : low - 1 > -IntegerLimit /\ low <= 2 /\ MoveOK(m, low)
  BY MoverMade
<1> HIDE DEF m
<1>2. IsTracks(m.repaired, low - 1) /\ IsKey(m.key)
  BY <1>1, MadeIs
<1>3. \A t \in DOMAIN m.repaired : IsKey(m.repaired[t])
  BY <1>2 DEF IsTracks
<1>4. Makeable(m)
  BY <1>2, <1>3, KeyIsValid DEF Makeable
<1> QED
  BY <1>4 DEF m

(* The call of a mover ends with its commit.                               *)
LEMMA MoverEnds ==
  ASSUME OrderInv, OrderNext, NEW c \in Movers, movers[c].phase = "move", movers'[c] # movers[c]
  PROVE  CommitMove(c)
<1>1. movers[c] # NoMove /\ movers[c].phase # "add"
  BY DEF NoMove
<1>2. \A d \in Movers : \A m : movers' = [movers EXCEPT ![d] = m] => d = c
  BY DEF OrderInv
<1>3. \A d \in Movers, t \in SpareOrder : ~BeginAdd(d, t)
  BY <1>1, <1>2 DEF BeginAdd
<1>4. \A d \in Movers : ~CommitAdd(d)
  BY <1>1, <1>2 DEF CommitAdd
<1>5. \A d \in Movers, t \in DOMAIN keys, to \in 0..Cardinality(DOMAIN keys) : ~BeginMove(d, t, to)
  BY <1>1, <1>2 DEF BeginMove
<1>6. \A d \in Movers : CommitMove(d) => d = c
  BY <1>2 DEF CommitMove
<1>7. \A t \in DOMAIN keys : ~RemoveFromOrder(t)
  BY DEF RemoveFromOrder
<1> QED
  BY <1>3, <1>4, <1>5, <1>6, <1>7 DEF OrderNext

(* A commit that nothing overlapped writes the repair of what is there, and*)
(* the key of the moved track.                                             *)
LEMMA MoveIsExact ==
  ASSUME OrderInv, NEW c \in Movers, CommitMove(c), movers[c].seen = keys
  PROVE  LET now == Listed(keys') IN
         /\ now[movers[c].to + 1] = movers[c].track
         /\ Others(now, movers[c].track) = Others(Listed(keys), movers[c].track)
         /\ \A t, u \in DOMAIN keys' : t # u => keys'[t] # keys'[u]
<1> DEFINE m == movers[c]
<1>1. m.phase = "move" /\ m.seen = keys
  BY DEF CommitMove
<1>2. PICK low \in Int : low - 1 > -IntegerLimit /\ low <= 2 /\ MoveOK(m, low)
  BY <1>1, MoverMade
<1>3. keys' = [u \in DOMAIN keys |->
                IF u = m.track THEN m.key
                ELSE IF u \in DOMAIN m.seen /\ m.repaired[u] # m.seen[u] THEN m.repaired[u] ELSE keys[u]]
  BY DEF CommitMove
<1> HIDE DEF m
<1>4. keys' = [u \in DOMAIN m.seen |-> IF u = m.track THEN m.key ELSE m.repaired[u]]
  BY <1>1, <1>3
<1>5. \A new : new = [u \in DOMAIN m.seen |-> IF u = m.track THEN m.key ELSE m.repaired[u]] =>
        /\ Listed(new)[m.to + 1] = m.track
        /\ Others(Listed(new), m.track) = Others(Listed(m.seen), m.track)
        /\ \A t, u \in DOMAIN new : t # u => new[t] # new[u]
  BY <1>2, MadeIs
<1>6. PICK new : new = keys'
  OBVIOUS
<1>7. /\ Listed(new)[m.to + 1] = m.track /\ Others(Listed(new), m.track) = Others(Listed(m.seen), m.track)
      /\ \A t, u \in DOMAIN new : t # u => new[t] # new[u]
  BY <1>4, <1>5, <1>6
<1> QED
  BY <1>1, <1>6, <1>7 DEF m

(* order-keys.ts:106, 121, sequences.ts (moveTrack): whatever calls        *)
(* overlapped before and gave tracks one key, a track can always be moved, *)
(* and a move that nothing overlaps puts it where it was asked to, the     *)
(* others in their order, no two on one key.                               *)
THEOREM OrderIsKept == OrderSpec => TracksKeepOrder
<1>1. OrderInv /\ [OrderNext]_orderVars =>
        [\A c \in Movers :
           (movers[c].phase = "move" /\ movers[c].seen = keys /\ movers'[c] # movers[c]) =>
             LET now == Listed(keys') IN
             /\ now[movers[c].to + 1] = movers[c].track
             /\ Others(now, movers[c].track) = Others(Listed(keys), movers[c].track)
             /\ \A t, u \in DOMAIN keys' : t # u => keys'[t] # keys'[u]]_orderVars
  <2> SUFFICES ASSUME OrderInv, OrderNext, NEW c \in Movers,
                      movers[c].phase = "move", movers[c].seen = keys, movers'[c] # movers[c]
               PROVE  LET now == Listed(keys') IN
                      /\ now[movers[c].to + 1] = movers[c].track
                      /\ Others(now, movers[c].track) = Others(Listed(keys), movers[c].track)
                      /\ \A t, u \in DOMAIN keys' : t # u => keys'[t] # keys'[u]
    OBVIOUS
  <2> QED
    BY MoverEnds, MoveIsExact
<1>2. OrderSpec => MovesWhereAsked
  BY <1>1, OrderInvariance, PTL DEF OrderSpec, MovesWhereAsked
<1>3. OrderSpec => []RoomIsFound
  BY OrderInvariance, MoverIsMakeable, PTL
<1> QED
  BY <1>2, <1>3 DEF TracksKeepOrder

---------------------------------------------------------------------------
(* The book                                                                *)

(* Each part of a book runs, or stays as it is.                            *)
LEMMA BookParts ==
  BookSpec => TimelineSpec /\ OrderSpec /\ NotebookSpec /\ FkSpec /\ TagsSpec /\ HistorySpec
<1>1. BookInit => TimelineInit /\ OrderInit /\ NbInit /\ FkInit /\ TagsInit /\ HistoryInit
  BY DEF BookInit
<1> DEFINE allVars == <<part, tlVars, orderVars, nbVars, fkVars, tagVars, historyVars>>
<1>2. [BookNext]_allVars =>
        /\ [TimelineNext]_tlVars /\ [OrderNext]_orderVars /\ [NotebookNext]_nbVars
        /\ [FkNext]_fkVars /\ [TagsNext]_tagVars /\ [HistoryNext]_historyVars
  BY DEF BookNext
<1> HIDE DEF allVars
<1>3. BookSpec => BookInit /\ [][BookNext]_allVars
  BY DEF BookSpec, allVars
<1> QED
  BY <1>1, <1>2, <1>3, PTL
     DEF TimelineSpec, OrderSpec, NotebookSpec, FkSpec, TagsSpec, HistorySpec

(* Every part of a book keeps its tables in shape: sequences, order keys,  *)
(* notebooks, forks, tags and history, for all values of the constants.    *)
THEOREM BookTypes == BookSpec => []BookTypeOK
<1>1. TimelineTypeOK /\ OrderTypeOK /\ NotebookTypeOK /\ FkTypeOK /\ TagsTypeOK /\ HistoryTypeOK
        => BookTypeOK
  BY DEF BookTypeOK
<1> QED
  BY <1>1, BookParts, TimelineTypes, OrderTypes, NotebookTypes, ForkTypes, TagsTypes, HistoryTypes, PTL

(* What the parts of a book promise holds where they run side by side.     *)
THEOREM BookPromises ==
  BookSpec => /\ EditsAreFaithful /\ SequenceStaysWhole /\ BoardKeepsPlaces
              /\ MergesKeepPromises /\ TagsKeepConsent /\ HistoryKeeps
<1>1. TracksKeepOrder /\ CutsShowOnce => SequenceStaysWhole
  BY DEF SequenceStaysWhole
<1> QED
  BY <1>1, BookParts, EditsAreKept, OrderIsKept, CutsAreShownOnce, PlacesAreKept, PromisesAreKept,
     ConsentIsKept, HistoryIsKept, PTL
================================================================================
