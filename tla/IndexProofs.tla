------------------------------- MODULE IndexProofs -------------------------------
(***************************************************************************)
(* Proofs about the indexes: the native vector index and its snapshot, the *)
(* similarity rows and their cache, and the generations of search, for any *)
(* number of segments, artifacts, spaces and calls.                        *)
(***************************************************************************)
EXTENDS VectorIndex, Similarity, SearchIndex, TLAPS

---------------------------------------------------------------------------
(* The native vector index                                                 *)

PrepareTasks == [built : Vectors, loaded : BOOLEAN, pass : Vectors, moved : BOOLEAN,
                 updated : BOOLEAN, periodic : BOOLEAN]
Savings == [step : {"graph", "metadata", "prior"}, graph : Vectors, prior : Vectors \cup {NoSnapshotFile}]

VectorTypes ==
  /\ VectorTypeOK
  /\ preparing \in PrepareTasks \cup {NotPreparing}
  /\ saving \in Savings \cup {NotSaving}

(* A pass that saw no change is a pass over the entries there are.         *)
PassIsCurrent == preparing # NotPreparing => preparing.moved \/ disposed \/ preparing.pass = entries

(* The steps of a save: until the metadata is written the snapshot is the  *)
(* prior one; it is written once its graph is there.                       *)
SavingIsOrdered ==
  /\ saving.step \in {"graph", "metadata"} => saving.prior = snapshot
  /\ saving.step = "metadata" => saving.graph \in graphs
  /\ saving.step = "prior" => snapshot = saving.graph

VectorInv == VectorTypes /\ PassIsCurrent /\ SavingIsOrdered /\ VectorsAreServed

LEMMA NoGraphIsNoVectors == NoGraph \notin Vectors
<1>1. PICK k \in VecKeys : TRUE
  BY VectorAssumption
<1>2. NoGraph[k] = "no index" /\ "no index" \notin Digests \cup {NoVector}
  BY <1>1, VectorAssumption DEF NoGraph, NoVector
<1> QED
  BY <1>1, <1>2 DEF Vectors

(* What a checkpoint leaves, where nothing is being saved.                 *)
LEMMA Checkpointing ==
  ASSUME VectorInv, IndexIdle, NEW v \in Vectors \cup {NoGraph}, NEW n \in 0..CheckpointChanges,
         NEW p \in BOOLEAN, Checkpoint(v, n, p), UNCHANGED <<snapshot, graphs>>
  PROVE  /\ unsaved' \in 0..CheckpointChanges
         /\ saving' \in Savings \cup {NotSaving}
         /\ SavingIsOrdered'
<1>1. CASE saving' = NotSaving /\ unsaved' = n
  BY <1>1 DEF SavingIsOrdered, NotSaving
<1>2. CASE v # NoGraph /\ saving' = [step |-> "graph", graph |-> v, prior |-> snapshot] /\ unsaved' = n
  <2>1. saving' \in Savings
    BY <1>2 DEF Savings, VectorInv, VectorTypes, VectorTypeOK
  <2>2. SavingIsOrdered'
    BY <1>2 DEF SavingIsOrdered
  <2> QED
    BY <1>2, <2>1, <2>2
<1> QED
  BY <1>1, <1>2 DEF Checkpoint

(* Every step of the index keeps the invariant.                            *)
LEMMA VectorStep == VectorInv /\ [VectorNext]_vectorVars => VectorInv'
<1> SUFFICES ASSUME VectorInv, [VectorNext]_vectorVars PROVE VectorInv'
  OBVIOUS
<1> USE NoGraphIsNoVectors
<1>a. CheckpointChanges \in Nat /\ 0 \in 0..CheckpointChanges /\ 1 \in 0..CheckpointChanges
  <2>1. CheckpointChanges \in Nat
    BY VectorAssumption
  <2>2. CheckpointChanges > 0
    BY VectorAssumption
  <2> QED
    BY <2>1, <2>2
<1>t. /\ entries \in Vectors /\ native \in Vectors \cup {NoGraph} /\ unsaved \in 0..CheckpointChanges
      /\ graphs \subseteq Vectors /\ snapshot \in Vectors \cup {NoSnapshotFile}
      /\ preparing \in PrepareTasks \cup {NotPreparing} /\ saving \in Savings \cup {NotSaving}
  BY DEF VectorInv, VectorTypes, VectorTypeOK
<1>i. /\ NativeServesAll /\ SnapshotLoads /\ DisposedStaysEmpty /\ PassIsCurrent /\ SavingIsOrdered
  BY DEF VectorInv, VectorsAreServed
<1>n. NoVectors \in Vectors
  BY DEF NoVectors, Vectors
<1>c. CountedChange \in 0..CheckpointChanges
  BY <1>a, <1>t DEF CountedChange
<1>p. /\ Touched \in PrepareTasks \cup {NotPreparing}
      /\ Touched # NotPreparing => Touched.moved
  BY <1>t DEF Touched, PrepareTasks
<1>l. Loaded \in Vectors \cup {NoGraph}
  BY <1>t DEF Loaded, NoSnapshotFile
<1>1. ASSUME NEW k \in VecKeys, NEW d \in Digests, SetVector(k, d) PROVE VectorInv'
  <2>1. entries' = [entries EXCEPT ![k] = d] /\ entries' \in Vectors
    BY <1>1, <1>t DEF SetVector, Vectors
  <2>2. /\ native = NoGraph => native' = native
        /\ native # NoGraph => native' = [native EXCEPT ![k] = d]
    BY <1>1, Zenon DEF SetVector
  <2>3. native' \in Vectors \cup {NoGraph}
    BY <2>2, <1>t DEF Vectors
  <2>4. VectorTypes'
    BY <1>1, <1>t, <1>c, <1>p, <2>1, <2>3 DEF SetVector, VectorTypes, VectorTypeOK
  <2>5. NativeServesAll'
    BY <2>1, <2>2, <1>t, <1>i DEF NativeServesAll, Keyed, Vectors
  <2>6. PassIsCurrent' /\ SavingIsOrdered' /\ SnapshotLoads' /\ DisposedStaysEmpty'
    BY <1>1, <1>i, <1>p DEF SetVector, PassIsCurrent, SavingIsOrdered, SnapshotLoads, DisposedStaysEmpty
  <2> QED
    BY <2>4, <2>5, <2>6 DEF VectorInv, VectorsAreServed
<1>2. ASSUME NEW k \in VecKeys, DeleteVector(k) PROVE VectorInv'
  <2>1. entries' = [entries EXCEPT ![k] = NoVector] /\ entries' \in Vectors /\ native' = native
    BY <1>2, <1>t DEF DeleteVector, Vectors
  <2>2. VectorTypes'
    BY <1>2, <1>t, <1>c, <1>p, <2>1 DEF DeleteVector, VectorTypes, VectorTypeOK
  <2>3. NativeServesAll'
    BY <2>1, <1>t, <1>i DEF NativeServesAll, Keyed, Vectors
  <2>4. PassIsCurrent' /\ SavingIsOrdered' /\ SnapshotLoads' /\ DisposedStaysEmpty'
    BY <1>2, <1>i, <1>p DEF DeleteVector, PassIsCurrent, SavingIsOrdered, SnapshotLoads, DisposedStaysEmpty
  <2> QED
    BY <2>2, <2>3, <2>4 DEF VectorInv, VectorsAreServed
<1>3. ASSUME NEW periodic \in BOOLEAN, StartPrepareVectors(periodic) PROVE VectorInv'
  <2> DEFINE w == IF native = NoGraph /\ Loaded # NoGraph /\ ~NeedsCompaction(Loaded) THEN Loaded ELSE NoGraph
             t == [built |-> IF w = NoGraph THEN NoVectors ELSE w, loaded |-> w # NoGraph,
                   pass |-> entries, moved |-> FALSE, updated |-> FALSE, periodic |-> periodic]
  <2>0. /\ IndexIdle /\ preparing = NotPreparing /\ ~disposed
        /\ UNCHANGED <<entries, native, disposed, snapshot, graphs>>
    BY <1>3 DEF StartPrepareVectors
  <2>1. /\ unsaved' \in 0..CheckpointChanges /\ saving' \in Savings \cup {NotSaving}
        /\ SavingIsOrdered'
    <3>1. CASE UNCHANGED <<saving, unsaved>>
      BY <3>1, <2>0, <1>t, <1>i DEF SavingIsOrdered
    <3>2. CASE Checkpoint(native, unsaved, periodic)
      BY <3>2, <2>0, <1>t, Checkpointing
    <3> QED
      BY <1>3, <3>1, <3>2 DEF StartPrepareVectors
  <2>2. preparing' = preparing \/ preparing' = t
    BY <1>3 DEF StartPrepareVectors
  <2>3. t \in PrepareTasks /\ t.pass = entries
    BY <1>t, <1>n, <1>l DEF PrepareTasks
  <2> HIDE DEF t
  <2>4. VectorTypes'
    BY <2>0, <2>1, <2>2, <2>3, <1>t DEF VectorTypes, VectorTypeOK
  <2>5. PassIsCurrent' /\ NativeServesAll' /\ SnapshotLoads' /\ DisposedStaysEmpty'
    BY <2>0, <2>2, <2>3, <1>i DEF PassIsCurrent, NativeServesAll, SnapshotLoads, DisposedStaysEmpty
  <2> QED
    BY <2>1, <2>4, <2>5 DEF VectorInv, VectorsAreServed
<1>4. ASSUME NEW k \in VecKeys, AddNative(k) PROVE VectorInv'
  <2>0. /\ preparing # NotPreparing /\ preparing \in PrepareTasks
        /\ UNCHANGED <<entries, native, unsaved, disposed, snapshot, graphs, saving>>
    BY <1>4, <1>t DEF AddNative
  <2> DEFINE t == [preparing EXCEPT !.built[k] = preparing.pass[k], !.updated = TRUE]
  <2>1. preparing' = NotPreparing \/ preparing' = t
    BY <1>4 DEF AddNative
  <2>2. preparing.pass[k] \in Digests \cup {NoVector} /\ preparing.built \in Vectors
    BY <2>0 DEF PrepareTasks, Vectors
  <2>3. [preparing.built EXCEPT ![k] = preparing.pass[k]] \in Vectors
    BY <2>2 DEF Vectors
  <2>4. t \in PrepareTasks /\ t.pass = preparing.pass /\ t.moved = preparing.moved
    BY <2>0, <2>3 DEF PrepareTasks
  <2> HIDE DEF t
  <2>5. VectorTypes'
    BY <2>0, <2>1, <2>4, <1>t DEF VectorTypes, VectorTypeOK
  <2>6. PassIsCurrent'
    BY <2>0, <2>1, <2>4, <1>i DEF PassIsCurrent
  <2>7. NativeServesAll' /\ SnapshotLoads' /\ DisposedStaysEmpty' /\ SavingIsOrdered'
    BY <2>0, <1>i DEF NativeServesAll, SnapshotLoads, DisposedStaysEmpty, SavingIsOrdered
  <2> QED
    BY <2>5, <2>6, <2>7 DEF VectorInv, VectorsAreServed
<1>5. CASE EndPass
  <2>0. /\ IndexIdle /\ preparing # NotPreparing /\ preparing \in PrepareTasks /\ Remaining = {}
        /\ UNCHANGED <<entries, disposed, snapshot, graphs>>
    BY <1>5, <1>t DEF EndPass
  <2>1. CASE preparing' = NotPreparing /\ UNCHANGED <<native, unsaved, saving>>
    BY <2>0, <2>1, <1>t, <1>i DEF VectorInv, VectorTypes, VectorTypeOK, PassIsCurrent, SavingIsOrdered,
       VectorsAreServed, NativeServesAll, SnapshotLoads, DisposedStaysEmpty
  <2>2. CASE /\ preparing' = [preparing EXCEPT !.pass = entries, !.moved = FALSE]
             /\ UNCHANGED <<native, unsaved, saving>>
    <3>1. preparing' \in PrepareTasks /\ preparing'.pass = entries
      BY <2>0, <2>2, <1>t DEF PrepareTasks
    <3> QED
      BY <2>0, <2>2, <3>1, <1>t, <1>i DEF VectorInv, VectorTypes, VectorTypeOK, PassIsCurrent, SavingIsOrdered,
         VectorsAreServed, NativeServesAll, SnapshotLoads, DisposedStaysEmpty
  <2>3. CASE /\ ~PrepareCancelled(disposed) /\ PassSettled(preparing)
             /\ native' = preparing.built /\ preparing' = NotPreparing
             /\ Checkpoint(preparing.built, IF preparing.updated \/ ~preparing.loaded THEN 1 ELSE 0,
                           preparing.loaded /\ preparing.periodic)
    <3>1. preparing.built \in Vectors /\ ~disposed /\ preparing.pass = entries
      BY <2>0, <2>3, <1>i DEF PrepareTasks, PrepareCancelled, PassSettled, PassIsCurrent
    <3>2. /\ unsaved' \in 0..CheckpointChanges /\ saving' \in Savings \cup {NotSaving} /\ SavingIsOrdered'
      <4>1. PICK n \in 0..CheckpointChanges, p \in BOOLEAN : Checkpoint(preparing.built, n, p)
        <5>1. (IF preparing.updated \/ ~preparing.loaded THEN 1 ELSE 0) \in 0..CheckpointChanges
          BY <1>a
        <5>2. (preparing.loaded /\ preparing.periodic) \in BOOLEAN
          OBVIOUS
        <5> QED
          BY <2>3, <5>1, <5>2
      <4> QED
        BY <4>1, <3>1, <2>0, Checkpointing
    <3>3. \A k \in Keyed(entries) : preparing.built[k] = entries[k]
      BY <2>0, <3>1 DEF Remaining
    <3>4. VectorTypes'
      BY <2>0, <2>3, <3>1, <3>2, <1>t DEF VectorTypes, VectorTypeOK
    <3>5. NativeServesAll'
      BY <2>0, <2>3, <3>3 DEF NativeServesAll, Keyed
    <3>6. PassIsCurrent' /\ SnapshotLoads' /\ DisposedStaysEmpty'
      BY <2>0, <2>3, <3>1, <1>i DEF PassIsCurrent, SnapshotLoads, DisposedStaysEmpty
    <3> QED
      BY <3>2, <3>4, <3>5, <3>6 DEF VectorInv, VectorsAreServed
  <2> QED
    BY <1>5, <2>1, <2>2, <2>3 DEF EndPass
<1>6. CASE QueryLoads
  <2>1. /\ native' = Loaded /\ unsaved' = 0 /\ ~disposed /\ \A k \in Keyed(entries) : Loaded[k] = entries[k]
        /\ UNCHANGED <<entries, preparing, disposed, snapshot, graphs, saving>>
    BY <1>6 DEF QueryLoads
  <2>2. VectorTypes'
    BY <1>a, <2>1, <1>t, <1>l DEF VectorTypes, VectorTypeOK
  <2>3. NativeServesAll'
    BY <2>1 DEF NativeServesAll, Keyed
  <2>4. PassIsCurrent' /\ SnapshotLoads' /\ DisposedStaysEmpty' /\ SavingIsOrdered'
    BY <2>1, <1>i DEF PassIsCurrent, SnapshotLoads, DisposedStaysEmpty, SavingIsOrdered
  <2> QED
    BY <2>2, <2>3, <2>4 DEF VectorInv, VectorsAreServed
<1>7. CASE Abort \/ UNCHANGED vectorVars
  <2>1. UNCHANGED <<entries, native, unsaved, preparing, disposed, snapshot, graphs, saving>>
    BY <1>7 DEF Abort, vectorVars
  <2> QED
    BY <2>1, <1>t, <1>i DEF VectorInv, VectorTypes, VectorTypeOK, PassIsCurrent, SavingIsOrdered,
       VectorsAreServed, NativeServesAll, SnapshotLoads, DisposedStaysEmpty, Keyed
<1>8. CASE Dispose
  <2>1. /\ IndexIdle /\ disposed' = TRUE /\ Checkpoint(native, unsaved, FALSE)
        /\ native' = NoGraph /\ entries' = NoVectors /\ UNCHANGED <<preparing, snapshot, graphs>>
    BY <1>8 DEF Dispose
  <2>2. /\ unsaved' \in 0..CheckpointChanges /\ saving' \in Savings \cup {NotSaving} /\ SavingIsOrdered'
    BY <2>1, <1>t, Checkpointing
  <2>3. VectorTypes'
    BY <2>1, <2>2, <1>t, <1>n DEF VectorTypes, VectorTypeOK
  <2>4. PassIsCurrent' /\ NativeServesAll' /\ SnapshotLoads' /\ DisposedStaysEmpty'
    BY <2>1, <1>i DEF PassIsCurrent, NativeServesAll, SnapshotLoads, DisposedStaysEmpty
  <2> QED
    BY <2>2, <2>3, <2>4 DEF VectorInv, VectorsAreServed
<1>9. CASE Renew
  <2>1. /\ entries' = NoVectors /\ native' = NoGraph /\ unsaved' = 0 /\ preparing' = NotPreparing
        /\ saving' = NotSaving /\ UNCHANGED <<snapshot, graphs>>
    BY <1>9 DEF Renew
  <2>2. VectorTypes'
    BY <1>a, <2>1, <1>t, <1>n DEF VectorTypes, VectorTypeOK
  <2>3. /\ PassIsCurrent' /\ NativeServesAll' /\ SnapshotLoads' /\ DisposedStaysEmpty' /\ SavingIsOrdered'
    BY <2>1, <1>i DEF PassIsCurrent, NativeServesAll, SnapshotLoads, DisposedStaysEmpty, SavingIsOrdered, NotSaving
  <2> QED
    BY <2>2, <2>3 DEF VectorInv, VectorsAreServed
<1>10. CASE SaveStep \/ SaveFails
  <2>0. /\ UNCHANGED <<entries, native, preparing, disposed>>
        /\ saving \in Savings
    <3>1. saving.step # "none" /\ UNCHANGED <<entries, native, preparing, disposed>>
      BY <1>10 DEF SaveStep, SaveFails
    <3>2. NotSaving.step = "none"
      BY DEF NotSaving
    <3> QED
      BY <3>1, <3>2, <1>t
  <2>1. VectorTypes' /\ SavingIsOrdered' /\ SnapshotLoads'
    <3>1. CASE /\ saving.step = "graph" /\ graphs' = graphs \cup {saving.graph}
               /\ saving' = [saving EXCEPT !.step = "metadata"] /\ UNCHANGED <<snapshot, unsaved>>
      <4>1. /\ saving' \in Savings /\ saving'.step = "metadata" /\ saving'.prior = saving.prior
            /\ saving'.graph = saving.graph /\ saving.graph \in Vectors
        BY <2>0, <3>1 DEF Savings
      <4>2. VectorTypes'
        BY <2>0, <3>1, <4>1, <1>t DEF VectorTypes, VectorTypeOK
      <4>3. saving'.prior = snapshot' /\ saving'.graph \in graphs' /\ SnapshotLoads'
        BY <3>1, <4>1, <1>i DEF SavingIsOrdered, SnapshotLoads
      <4> QED
        BY <4>1, <4>2, <4>3 DEF SavingIsOrdered
    <3>2. CASE /\ saving.step = "metadata" /\ snapshot' = saving.graph
               /\ saving' = [saving EXCEPT !.step = "prior"] /\ UNCHANGED <<graphs, unsaved>>
      <4>1. /\ saving' \in Savings /\ saving'.step = "prior"
            /\ saving'.graph = saving.graph /\ saving.graph \in Vectors
        BY <2>0, <3>2 DEF Savings
      <4>2. VectorTypes'
        BY <2>0, <3>2, <4>1, <1>t DEF VectorTypes, VectorTypeOK
      <4> QED
        BY <3>2, <4>1, <4>2, <1>i DEF SavingIsOrdered, SnapshotLoads
    <3>3. CASE /\ saving.step = "prior"
               /\ graphs' = IF Replaced(saving.prior, saving.graph) THEN graphs \ {saving.prior} ELSE graphs
               /\ saving' = NotSaving /\ unsaved' = 0 /\ UNCHANGED snapshot
      <4>1. graphs' \subseteq graphs /\ (snapshot \in graphs => snapshot \in graphs')
        BY <3>3, <1>i DEF SavingIsOrdered, Replaced
      <4>2. VectorTypes'
        BY <1>a, <2>0, <3>3, <4>1, <1>t DEF VectorTypes, VectorTypeOK
      <4> QED
        BY <3>3, <4>1, <4>2, <1>i DEF SavingIsOrdered, SnapshotLoads, NotSaving
    <3>4. CASE SaveFails
      BY <3>4, <1>t, <1>i DEF SaveFails, VectorTypes, VectorTypeOK, SavingIsOrdered, SnapshotLoads, NotSaving
    <3> QED
      BY <1>10, <3>1, <3>2, <3>3, <3>4 DEF SaveStep
  <2>2. PassIsCurrent' /\ NativeServesAll' /\ DisposedStaysEmpty'
    BY <2>0, <1>i DEF PassIsCurrent, NativeServesAll, DisposedStaysEmpty, Keyed
  <2> QED
    BY <2>1, <2>2 DEF VectorInv, VectorsAreServed
<1> QED
  BY <1>1, <1>2, <1>3, <1>4, <1>5, <1>6, <1>7, <1>8, <1>9, <1>10 DEF VectorNext

(* temporal-vector-index.ts:171, temporal-index-cache.ts:57: the native    *)
(* index has the vector of every entry although entries change while it is *)
(* built; the metadata on disk names a graph that is there after a crash   *)
(* between any two steps of a save; a disposed index stays empty.          *)
THEOREM VectorServing == VectorSpec => [](VectorTypeOK /\ VectorsAreServed)
<1>1. VectorInit => VectorInv
  <2> SUFFICES ASSUME VectorInit PROVE VectorInv
    OBVIOUS
  <2>1. CheckpointChanges \in Nat
    BY VectorAssumption
  <2>2. NoVectors \in Vectors /\ 0 \in 0..CheckpointChanges
    BY <2>1 DEF NoVectors, Vectors
  <2> QED
    BY <2>2 DEF VectorInit, VectorInv, VectorTypes, VectorTypeOK, PassIsCurrent, SavingIsOrdered, NotSaving,
       VectorsAreServed, NativeServesAll, SnapshotLoads, DisposedStaysEmpty
<1>2. VectorInv => VectorTypeOK /\ VectorsAreServed
  BY DEF VectorInv, VectorTypes
<1> QED
  BY <1>1, <1>2, VectorStep, PTL DEF VectorSpec

---------------------------------------------------------------------------
(* The similarity rows and their cache                                     *)

EmbedRows == [id : 0..MaxEmbedIds, entry : 0..MaxEmbedIds, object : Originals \cup {"none"},
              vector : Originals \cup {"none"}]
Calls == [phase : {"read", "embed"}, item : Items, source : Originals, row : 0..MaxEmbedIds, force : BOOLEAN]
IndexKinds == {"media", "text"}

SimTypes ==
  /\ originals \in [Items -> Originals \cup {"gone"}]
  /\ embedded \in [Items -> EmbedRows] /\ embedId \in 0..MaxEmbedIds
  /\ neighbours \in [IndexKinds -> SUBSET ((0..MaxEmbedIds) \X (Originals \cup {"none"}))]
  /\ indexing \in [Indexers -> Calls \cup {NotIndexing}]

(* A row is empty or has the vector of its object; its ids were given.     *)
GoodRow(i, r) ==
  /\ r.vector = r.object
  /\ r = NotEmbedded \/ (r.id # 0 /\ r.entry # 0)
  /\ r.id <= embedId /\ r.entry <= embedId
  /\ i \in Media => r.entry = r.id

(* Ids are not given twice, so media never share an entry of the index.    *)
EntriesDiffer ==
  \A i, j \in Media : i # j /\ embedded[i].entry # 0 => embedded[i].entry # embedded[j].entry

SimilarityInv ==
  /\ SimTypes
  /\ \A i \in Items : GoodRow(i, embedded[i])
  /\ EntriesDiffer
  /\ CacheFindsAll

LEMMA EmptyRow ==
  NotEmbedded.id = 0 /\ NotEmbedded.entry = 0 /\ NotEmbedded.vector = NotEmbedded.object
BY DEF NotEmbedded

LEMMA KindsOfItems ==
  ASSUME NEW i \in Items
  PROVE  /\ KindOf(i) \in IndexKinds /\ (KindOf(i) = "media" <=> i \in Media)
         /\ KindOf(i) = "text" <=> i \notin Media
BY DEF KindOf, IndexKinds

(* A row that is cached anew is found, and so are the rows of the others   *)
(* of its kind, whose entries are not its own.                             *)
LEMMA Recaching ==
  ASSUME SimilarityInv, NEW i \in Items, NEW r \in EmbedRows,
         i \in Media => \A j \in Media \ {i} : embedded[j] # NotEmbedded => embedded[j].entry # r.entry,
         neighbours' = [neighbours EXCEPT ![KindOf(i)] = Recached(KindOf(i), r)],
         originals' = originals, \A j \in Items \ {i} : embedded'[j] = embedded[j], embedded'[i] = r
  PROVE  /\ neighbours' \in [IndexKinds -> SUBSET ((0..MaxEmbedIds) \X (Originals \cup {"none"}))]
         /\ CacheFindsAll'
<1>t. /\ neighbours \in [IndexKinds -> SUBSET ((0..MaxEmbedIds) \X (Originals \cup {"none"}))]
      /\ embedded \in [Items -> EmbedRows] /\ KindOf(i) \in IndexKinds
  BY KindsOfItems DEF SimilarityInv, SimTypes
<1>o. SimilarityAssumption
  BY SimilarityAssumption
<1>m. MaxEmbedIds \in Nat
  BY <1>o DEF SimilarityAssumption
<1> DEFINE k == KindOf(i)
<1>1. <<r.entry, r.vector>> \in (0..MaxEmbedIds) \X (Originals \cup {"none"})
  BY DEF EmbedRows
<1>2. NotCached \subseteq (0..MaxEmbedIds) \X (Originals \cup {"none"})
  BY <1>m DEF NotCached
<1>3. Recached(k, r) \subseteq (0..MaxEmbedIds) \X (Originals \cup {"none"})
  BY <1>t, <1>1, <1>2 DEF Recached
<1>4. neighbours' \in [IndexKinds -> SUBSET ((0..MaxEmbedIds) \X (Originals \cup {"none"}))]
  BY <1>t, <1>3
<1>5. /\ neighbours'[k] = Recached(k, r)
      /\ \A kind \in IndexKinds \ {k} : neighbours'[kind] = neighbours[kind]
  BY <1>t
<1>6. ASSUME NEW j \in Items, (j \in Listed(KindOf(j)))', neighbours'[KindOf(j)] # NotCached
      PROVE  <<embedded'[j].entry, embedded'[j].vector>> \in neighbours'[KindOf(j)]
  <2>0. KindOf(j) \in IndexKinds
    BY KindsOfItems
  <2>1. CASE KindOf(j) # k
    <3>1. embedded'[j] = embedded[j] /\ neighbours'[KindOf(j)] = neighbours[KindOf(j)]
      BY <2>0, <2>1, <1>5
    <3>2. j \in Listed(KindOf(j))
      BY <1>6, <3>1 DEF Listed
    <3> QED
      BY <3>1, <3>2, <1>6 DEF SimilarityInv, CacheFindsAll
  <2>2. CASE KindOf(j) = k
    <3>1. /\ k = "media" /\ neighbours[k] # NotCached
          /\ neighbours'[k] = {e \in neighbours[k] : e[1] # r.entry} \cup {<<r.entry, r.vector>>}
      BY <2>2, <1>5, <1>6, <1>t DEF Recached, IndexKinds
    <3>2. CASE j = i
      BY <2>2, <3>1, <3>2
    <3>3. CASE j # i
      <4>1. embedded'[j] = embedded[j]
        BY <3>3
      <4>2. j \in Listed(k) /\ embedded[j] # NotEmbedded
        BY <1>6, <2>2, <4>1 DEF Listed
      <4>3. i \in Media /\ j \in Media
        BY <2>2, <3>1, KindsOfItems
      <4>4. embedded[j].entry # r.entry
        BY <3>3, <4>2, <4>3
      <4>5. <<embedded[j].entry, embedded[j].vector>> \in neighbours[k]
        BY <2>2, <3>1, <4>2 DEF SimilarityInv, CacheFindsAll
      <4> QED
        BY <2>2, <3>1, <4>1, <4>4, <4>5
    <3> QED
      BY <3>2, <3>3
  <2> QED
    BY <2>1, <2>2
<1> QED
  BY <1>4, <1>6 DEF CacheFindsAll

(* The text index that is dropped, or a cache that is as it was, answers   *)
(* for as many rows as before.                                             *)
LEMMA Uncached ==
  ASSUME SimilarityInv, neighbours' = neighbours \/ neighbours' = [neighbours EXCEPT !["text"] = NotCached],
         \A i \in Items : /\ originals'[i] = "gone" \/ originals[i] # "gone"
                          /\ embedded'[i] = embedded[i] \/ embedded'[i] = NotEmbedded
  PROVE  /\ neighbours' \in [IndexKinds -> SUBSET ((0..MaxEmbedIds) \X (Originals \cup {"none"}))]
         /\ CacheFindsAll'
<1>t. neighbours \in [IndexKinds -> SUBSET ((0..MaxEmbedIds) \X (Originals \cup {"none"}))]
  BY DEF SimilarityInv, SimTypes
<1>m. MaxEmbedIds \in Nat
  BY SimilarityAssumption
<1>1. NotCached \subseteq (0..MaxEmbedIds) \X (Originals \cup {"none"})
  BY <1>m DEF NotCached
<1>2. \A kind \in IndexKinds : neighbours'[kind] = neighbours[kind] \/ neighbours'[kind] = NotCached
  BY <1>t DEF IndexKinds
<1>3. neighbours' \in [IndexKinds -> SUBSET ((0..MaxEmbedIds) \X (Originals \cup {"none"}))]
  BY <1>t, <1>1 DEF IndexKinds
<1>4. ASSUME NEW j \in Items, (j \in Listed(KindOf(j)))', neighbours'[KindOf(j)] # NotCached
      PROVE  <<embedded'[j].entry, embedded'[j].vector>> \in neighbours'[KindOf(j)]
  <2>1. KindOf(j) \in IndexKinds /\ neighbours'[KindOf(j)] = neighbours[KindOf(j)]
    BY <1>2, <1>4, KindsOfItems
  <2>2. embedded'[j] = embedded[j] /\ j \in Listed(KindOf(j))
    BY <1>4 DEF Listed
  <2> QED
    BY <2>1, <2>2, <1>4 DEF SimilarityInv, CacheFindsAll
<1> QED
  BY <1>3, <1>4 DEF CacheFindsAll

(* What a call that was read from the rows may hold.                       *)
LEMMA Writing ==
  ASSUME SimilarityInv, NEW call \in Calls, WriteEmbedding(call, call.source), originals' = originals
  PROVE  /\ embedded' \in [Items -> EmbedRows] /\ embedId' \in 0..MaxEmbedIds
         /\ neighbours' \in [IndexKinds -> SUBSET ((0..MaxEmbedIds) \X (Originals \cup {"none"}))]
         /\ \A i \in Items : GoodRow(i, embedded[i])'
         /\ EntriesDiffer' /\ CacheFindsAll'
<1>t. SimTypes /\ (\A i \in Items : GoodRow(i, embedded[i])) /\ EntriesDiffer /\ CacheFindsAll
  BY DEF SimilarityInv
<1>m. MaxEmbedIds \in Nat
  BY SimilarityAssumption
<1> DEFINE i == call.item
           row == RowFor(call, call.source)
<1>c. i \in Items /\ call.source \in Originals /\ call.row \in 0..MaxEmbedIds
  BY DEF Calls
<1>1. CASE embedded[i].id = call.row
  <2>0. /\ embedId < MaxEmbedIds
        /\ embedded' = [embedded EXCEPT ![i] = row]
        /\ embedId' = IF row.entry > embedId THEN row.entry ELSE embedId
        /\ neighbours' = [neighbours EXCEPT ![KindOf(i)] = Recached(KindOf(i), row)]
    BY <1>1 DEF WriteEmbedding
  <2>1. /\ row.object = call.source /\ row.vector = call.source
        /\ row.id = IF call.row = 0 THEN embedId + 1 ELSE call.row
        /\ row.entry = IF call.row = 0 \/ KindOf(i) = "text" THEN embedId + 1 ELSE call.row
        /\ row = [id |-> row.id, entry |-> row.entry, object |-> row.object, vector |-> row.vector]
    BY DEF RowFor, WrittenObject
  <2> HIDE DEF row
  <2>2. embedded[i].id <= embedId /\ embedId \in 0..MaxEmbedIds /\ embedded[i] \in EmbedRows
    BY <1>t, <1>c DEF SimTypes, GoodRow
  <2>3. row.id \in 1..MaxEmbedIds /\ row.entry \in 1..MaxEmbedIds
    BY <2>0, <2>1, <2>2, <1>c, <1>m, <1>1
  <2>4. row \in EmbedRows
    BY <2>1, <2>3, <1>c DEF EmbedRows
  <2>5. /\ embedded' \in [Items -> EmbedRows] /\ embedded'[i] = row
        /\ \A j \in Items \ {i} : embedded'[j] = embedded[j]
    BY <2>0, <2>4, <1>t, <1>c DEF SimTypes
  <2>6. embedId' \in 0..MaxEmbedIds /\ embedId <= embedId' /\ row.entry <= embedId' /\ row.id <= embedId'
    BY <2>0, <2>1, <2>2, <2>3, <1>1, <1>m
  <2>7. i \in Media => row.entry = row.id
    BY <2>1, <1>c, KindsOfItems
  <2>8. ASSUME NEW j \in Items PROVE GoodRow(j, embedded[j])'
    <3>1. CASE j = i
      BY <3>1, <2>1, <2>3, <2>5, <2>6, <2>7 DEF GoodRow
    <3>2. CASE j # i
      <4>1. embedded[j].id \in Nat /\ embedded[j].entry \in Nat /\ embedId' \in Nat /\ embedId \in Nat
        BY <1>t, <1>m, <2>6 DEF SimTypes, EmbedRows
      <4> QED
        BY <3>2, <4>1, <2>5, <2>6, <1>t DEF GoodRow
    <3> QED
      BY <3>1, <3>2
  <2>9. ASSUME NEW j \in Media \ {i}, i \in Media PROVE embedded[j].entry # row.entry
    <3>1. j \in Items /\ embedded[j] \in EmbedRows /\ embedded[j].entry <= embedId
      BY <1>t DEF SimTypes, GoodRow, Items
    <3>2. CASE call.row = 0
      BY <3>1, <3>2, <2>1, <2>2, <1>m DEF EmbedRows
    <3>3. CASE call.row # 0
      <4>1. row.entry = call.row /\ embedded[i].entry = call.row
        BY <3>3, <2>1, <2>9, <1>1, <1>c, <1>t, KindsOfItems DEF GoodRow
      <4> QED
        BY <4>1, <3>3, <2>9, <1>t DEF EntriesDiffer
    <3> QED
      BY <3>2, <3>3
  <2>10. EntriesDiffer'
    <3> SUFFICES ASSUME NEW g \in Media, NEW h \in Media, g # h, embedded'[g].entry # 0
                 PROVE embedded'[g].entry # embedded'[h].entry
      BY DEF EntriesDiffer
    <3>0. g \in Items /\ h \in Items
      BY DEF Items
    <3> QED
      BY <3>0, <2>5, <2>9, <1>t DEF EntriesDiffer
  <2>11. /\ neighbours' \in [IndexKinds -> SUBSET ((0..MaxEmbedIds) \X (Originals \cup {"none"}))]
         /\ CacheFindsAll'
    <3>1. i \in Media => \A j \in Media \ {i} : embedded[j] # NotEmbedded => embedded[j].entry # row.entry
      BY <2>9
    <3> QED
      BY <3>1, <2>0, <2>4, <2>5, <1>c, Recaching
  <2> QED
    BY <2>5, <2>6, <2>8, <2>10, <2>11
<1>2. CASE embedded[i].id # call.row
  <2>1. /\ UNCHANGED <<embedded, embedId>>
        /\ neighbours' = neighbours \/ neighbours' = [neighbours EXCEPT !["text"] = NotCached]
    BY <1>2 DEF WriteEmbedding
  <2>2. /\ neighbours' \in [IndexKinds -> SUBSET ((0..MaxEmbedIds) \X (Originals \cup {"none"}))]
        /\ CacheFindsAll'
    BY <2>1, Uncached
  <2>3. (\A j \in Items : GoodRow(j, embedded[j])') /\ EntriesDiffer'
    BY <2>1, <1>t DEF GoodRow, EntriesDiffer
  <2> QED
    BY <2>1, <2>2, <2>3, <1>t DEF SimTypes
<1> QED
  BY <1>1, <1>2

(* Where the row, the model or another row answers.                        *)
LEMMA Continuing ==
  ASSUME SimilarityInv, NEW c \in Indexers, NEW call \in Calls, Continue(c, call), originals' = originals
  PROVE  SimilarityInv'
<1>t. SimTypes /\ (\A i \in Items : GoodRow(i, embedded[i])) /\ EntriesDiffer /\ CacheFindsAll
  BY DEF SimilarityInv
<1>c. call.item \in Items /\ call.source \in Originals
  BY DEF Calls
<1>1. CASE /\ indexing' = [indexing EXCEPT ![c] = NotIndexing] /\ UNCHANGED <<embedded, embedId>>
           /\ neighbours' = IF KindOf(call.item) = "media"
                            THEN [neighbours EXCEPT !["media"] = Recached("media", embedded[call.item])]
                            ELSE neighbours
  <2>1. /\ neighbours' \in [IndexKinds -> SUBSET ((0..MaxEmbedIds) \X (Originals \cup {"none"}))]
        /\ CacheFindsAll'
    <3>1. CASE KindOf(call.item) = "media"
      <4>1. call.item \in Media /\ embedded[call.item] \in EmbedRows
        BY <3>1, <1>c, <1>t, KindsOfItems DEF SimTypes
      <4>2. \A j \in Media \ {call.item} : embedded[j] # NotEmbedded => embedded[j].entry # embedded[call.item].entry
        <5> SUFFICES ASSUME NEW j \in Media \ {call.item}, embedded[j] # NotEmbedded
                     PROVE  embedded[j].entry # embedded[call.item].entry
          OBVIOUS
        <5>1. j \in Items
          BY DEF Items
        <5>2. embedded[j].entry # 0
          BY <5>1, <1>t DEF GoodRow
        <5> QED
          BY <5>2, <4>1, <1>t DEF EntriesDiffer
      <4>3. neighbours' = [neighbours EXCEPT ![KindOf(call.item)] = Recached(KindOf(call.item), embedded[call.item])]
        BY <1>1, <3>1
      <4>4. embedded' = embedded
        BY <1>1
      <4> QED
        BY <4>1, <4>2, <4>3, <4>4, <1>c, Recaching
    <3>2. CASE KindOf(call.item) # "media"
      BY <1>1, <3>2, Uncached
    <3> QED
      BY <3>1, <3>2
  <2>2. SimTypes'
    BY <1>1, <1>t, <2>1 DEF SimTypes
  <2>3. (\A i \in Items : GoodRow(i, embedded[i])') /\ EntriesDiffer'
    BY <1>1, <1>t DEF GoodRow, EntriesDiffer
  <2> QED
    BY <2>1, <2>2, <2>3 DEF SimilarityInv
<1>2. CASE WriteEmbedding(call, call.source) /\ indexing' = [indexing EXCEPT ![c] = NotIndexing]
  <2>1. /\ embedded' \in [Items -> EmbedRows] /\ embedId' \in 0..MaxEmbedIds
        /\ neighbours' \in [IndexKinds -> SUBSET ((0..MaxEmbedIds) \X (Originals \cup {"none"}))]
        /\ \A i \in Items : GoodRow(i, embedded[i])'
        /\ EntriesDiffer' /\ CacheFindsAll'
    BY <1>2, Writing
  <2>2. SimTypes'
    BY <1>2, <1>t, <2>1 DEF SimTypes
  <2> QED
    BY <2>1, <2>2 DEF SimilarityInv
<1>3. CASE /\ indexing' = [indexing EXCEPT ![c] = [call EXCEPT !.phase = "embed"]]
           /\ UNCHANGED <<embedded, embedId, neighbours>>
  <2>1. [call EXCEPT !.phase = "embed"] \in Calls
    BY DEF Calls
  <2>2. SimTypes'
    BY <1>3, <1>t, <2>1 DEF SimTypes
  <2>3. (\A i \in Items : GoodRow(i, embedded[i])') /\ EntriesDiffer'
    BY <1>3, <1>t DEF GoodRow, EntriesDiffer
  <2>4. CacheFindsAll'
    BY <1>3, Uncached
  <2> QED
    BY <2>2, <2>3, <2>4 DEF SimilarityInv
<1> QED
  BY <1>1, <1>2, <1>3 DEF Continue

(* Every step of the similarity index keeps the invariant.                 *)
LEMMA SimilarityStep == SimilarityInv /\ [SimilarityNext]_similarityVars => SimilarityInv'
<1> SUFFICES ASSUME SimilarityInv, [SimilarityNext]_similarityVars PROVE SimilarityInv'
  OBVIOUS
<1>t. SimTypes /\ (\A i \in Items : GoodRow(i, embedded[i])) /\ EntriesDiffer /\ CacheFindsAll
  BY DEF SimilarityInv
<1>m. MaxEmbedIds \in Nat
  BY SimilarityAssumption
<1>u. ASSUME UNCHANGED <<embedded, embedId, originals>>, SimTypes',
             neighbours' = neighbours \/ neighbours' = [neighbours EXCEPT !["text"] = NotCached]
      PROVE  SimilarityInv'
  <2>1. (\A i \in Items : GoodRow(i, embedded[i])') /\ EntriesDiffer'
    BY <1>u, <1>t DEF GoodRow, EntriesDiffer
  <2>2. CacheFindsAll'
    BY <1>u, Uncached
  <2> QED
    BY <1>u, <2>1, <2>2 DEF SimilarityInv
<1>1. ASSUME NEW c \in Indexers, NEW i \in Items, NEW force \in BOOLEAN, StartIndex(c, i, force)
      PROVE  SimilarityInv'
  <2> DEFINE call == [phase |-> "read", item |-> i, source |-> originals[i], row |-> embedded[i].id,
                      force |-> force]
  <2>1. call \in Calls
    BY <1>1, <1>t DEF StartIndex, SimTypes, Calls, EmbedRows
  <2>2. originals' = originals /\ (\/ Continue(c, call)
                                   \/ /\ indexing' = [indexing EXCEPT ![c] = call]
                                      /\ UNCHANGED <<embedded, embedId, neighbours>>)
    BY <1>1 DEF StartIndex
  <2> HIDE DEF call
  <2>3. CASE Continue(c, call)
    BY <2>1, <2>2, <2>3, Continuing
  <2>4. CASE indexing' = [indexing EXCEPT ![c] = call] /\ UNCHANGED <<embedded, embedId, neighbours>>
    <3>1. SimTypes'
      BY <2>1, <2>2, <2>4, <1>t DEF SimTypes
    <3> QED
      BY <2>2, <2>4, <3>1, <1>u
  <2> QED
    BY <2>2, <2>3, <2>4
<1>2. ASSUME NEW c \in Indexers, TextIsRead(c) PROVE SimilarityInv'
  <2>1. indexing[c] \in Calls
    BY <1>2, <1>t DEF TextIsRead, SimTypes, NotIndexing
  <2> DEFINE call == [indexing[c] EXCEPT !.row = embedded[indexing[c].item].id]
  <2>2. call \in Calls
    <3>1. indexing[c].item \in Items /\ embedded[indexing[c].item].id \in 0..MaxEmbedIds
      BY <2>1, <1>t DEF Calls, SimTypes, EmbedRows
    <3> QED
      BY <2>1, <3>1 DEF Calls
  <2>3. Continue(c, call) /\ originals' = originals
    BY <1>2 DEF TextIsRead
  <2> HIDE DEF call
  <2> QED
    BY <2>2, <2>3, Continuing
<1>3. ASSUME NEW c \in Indexers, ModelAnswers(c) PROVE SimilarityInv'
  <2>1. indexing[c] \in Calls
    BY <1>3, <1>t DEF ModelAnswers, SimTypes, NotIndexing
  <2>2. /\ WriteEmbedding(indexing[c], indexing[c].source) /\ originals' = originals
        /\ indexing' = [indexing EXCEPT ![c] = NotIndexing]
    BY <1>3 DEF ModelAnswers
  <2>3. /\ embedded' \in [Items -> EmbedRows] /\ embedId' \in 0..MaxEmbedIds
        /\ neighbours' \in [IndexKinds -> SUBSET ((0..MaxEmbedIds) \X (Originals \cup {"none"}))]
        /\ \A i \in Items : GoodRow(i, embedded[i])'
        /\ EntriesDiffer' /\ CacheFindsAll'
    BY <2>1, <2>2, Writing
  <2>4. SimTypes'
    BY <2>2, <2>3, <1>t DEF SimTypes
  <2> QED
    BY <2>3, <2>4 DEF SimilarityInv
<1>4. ASSUME NEW c \in Indexers, IndexingFails(c) PROVE SimilarityInv'
  <2>1. SimTypes'
    BY <1>4, <1>t DEF IndexingFails, SimTypes
  <2> QED
    BY <1>4, <2>1, <1>u DEF IndexingFails
<1>5. ASSUME NEW kind \in IndexKinds, BuildNeighbours(kind) PROVE SimilarityInv'
  <2> DEFINE built == {<<embedded[i].entry, embedded[i].vector>> : i \in Listed(kind)}
  <2>1. neighbours' = [neighbours EXCEPT ![kind] = built] /\ UNCHANGED <<originals, embedded, embedId, indexing>>
    BY <1>5 DEF BuildNeighbours
  <2>2. built \in SUBSET ((0..MaxEmbedIds) \X (Originals \cup {"none"}))
    BY <1>t DEF SimTypes, Listed, EmbedRows
  <2>3. \A i \in Listed(kind) : <<embedded[i].entry, embedded[i].vector>> \in built
    OBVIOUS
  <2> HIDE DEF built
  <2>4. SimTypes' /\ neighbours'[kind] = built /\ \A k \in IndexKinds \ {kind} : neighbours'[k] = neighbours[k]
    BY <2>1, <2>2, <1>t DEF SimTypes
  <2>5. ASSUME NEW i \in Items, (i \in Listed(KindOf(i)))', neighbours'[KindOf(i)] # NotCached
        PROVE  <<embedded'[i].entry, embedded'[i].vector>> \in neighbours'[KindOf(i)]
    <3>1. embedded' = embedded /\ i \in Listed(KindOf(i)) /\ KindOf(i) \in IndexKinds
      BY <2>1, <2>5, KindsOfItems DEF Listed
    <3> QED
      BY <3>1, <2>3, <2>4, <2>5, <1>t DEF CacheFindsAll
  <2>6. (\A i \in Items : GoodRow(i, embedded[i])') /\ EntriesDiffer'
    BY <2>1, <1>t DEF GoodRow, EntriesDiffer
  <2> QED
    BY <2>4, <2>5, <2>6 DEF SimilarityInv, CacheFindsAll
<1>6. ASSUME NEW i \in Items, NEW o \in Originals, ReplaceOriginalOf(i, o) PROVE SimilarityInv'
  <2>1. /\ originals[i] # "gone" /\ originals' = [originals EXCEPT ![i] = o]
        /\ UNCHANGED <<embedded, embedId, neighbours, indexing>>
    BY <1>6 DEF ReplaceOriginalOf
  <2>2. SimTypes' /\ \A j \in Items : originals'[j] = "gone" \/ originals[j] # "gone"
    BY <2>1, <1>t DEF SimTypes
  <2>3. (\A j \in Items : GoodRow(j, embedded[j])') /\ EntriesDiffer'
    BY <2>1, <1>t DEF GoodRow, EntriesDiffer
  <2>4. CacheFindsAll'
    BY <2>1, <2>2, Uncached
  <2> QED
    BY <2>2, <2>3, <2>4 DEF SimilarityInv
<1>7. ASSUME NEW i \in Items, DeleteItem(i) PROVE SimilarityInv'
  <2>1. /\ originals' = [originals EXCEPT ![i] = "gone"]
        /\ embedded' = [embedded EXCEPT ![i] = NotEmbedded]
        /\ UNCHANGED <<embedId, neighbours, indexing>>
    BY <1>7 DEF DeleteItem
  <2>2. NotEmbedded \in EmbedRows
    BY <1>m DEF NotEmbedded, EmbedRows
  <2>3. /\ SimTypes' /\ embedded'[i] = NotEmbedded
        /\ \A j \in Items : originals'[j] = "gone" \/ originals[j] # "gone"
        /\ \A j \in Items \ {i} : embedded'[j] = embedded[j]
    BY <2>1, <2>2, <1>t DEF SimTypes
  <2>4. \A j \in Items : embedded'[j] = embedded[j] \/ embedded'[j] = NotEmbedded
    BY <2>3
  <2>5. ASSUME NEW j \in Items PROVE GoodRow(j, embedded[j])'
    <3>1. CASE embedded'[j] = NotEmbedded
      <4>1. 0 <= embedId'
        BY <2>1, <1>m, <1>t DEF SimTypes
      <4> QED
        BY <3>1, <4>1, EmptyRow DEF GoodRow
    <3>2. CASE embedded'[j] = embedded[j]
      BY <3>2, <1>t, <2>1 DEF GoodRow
    <3> QED
      BY <3>1, <3>2, <2>4
  <2>6. EntriesDiffer'
    <3> SUFFICES ASSUME NEW g \in Media, NEW h \in Media, g # h, embedded'[g].entry # 0
                 PROVE embedded'[g].entry # embedded'[h].entry
      BY DEF EntriesDiffer
    <3>1. g \in Items /\ h \in Items
      BY DEF Items
    <3> QED
      BY <3>1, <2>4, <1>t DEF EntriesDiffer, NotEmbedded
  <2>7. CacheFindsAll'
    BY <2>1, <2>3, <2>4, Uncached
  <2> QED
    BY <2>3, <2>5, <2>6, <2>7 DEF SimilarityInv
<1>8. CASE UNCHANGED similarityVars
  <2>1. UNCHANGED <<originals, embedded, embedId, neighbours, indexing>>
    BY <1>8 DEF similarityVars
  <2>2. SimTypes'
    BY <2>1, <1>t DEF SimTypes
  <2> QED
    BY <2>1, <2>2, <1>u
<1> QED
  BY <1>1, <1>2, <1>3, <1>4, <1>5, <1>6, <1>7, <1>8 DEF SimilarityNext, IndexKinds

(* Nothing is indexed at first.                                            *)
LEMMA SimilarityStarts ==
  ASSUME originals \in [Items -> Originals \cup {"gone"}], embedded = [i \in Items |-> NotEmbedded],
         embedId = 0, neighbours = [k \in IndexKinds |-> NotCached],
         indexing = [c \in Indexers |-> NotIndexing]
  PROVE  SimilarityInv
<1>1. MaxEmbedIds \in Nat
  BY SimilarityAssumption
<1>2. NotEmbedded \in EmbedRows /\ NotCached \subseteq (0..MaxEmbedIds) \X (Originals \cup {"none"})
  BY <1>1 DEF NotEmbedded, EmbedRows, NotCached
<1>3. SimTypes
  BY <1>1, <1>2 DEF SimTypes
<1>4. \A i \in Items : embedded[i] = NotEmbedded
  OBVIOUS
<1>5. \A i \in Items : GoodRow(i, embedded[i])
  <2>1. embedId = 0 /\ 0 <= 0
    OBVIOUS
  <2> QED
    BY <1>4, <2>1, EmptyRow DEF GoodRow
<1>6. EntriesDiffer
  BY <1>4 DEF EntriesDiffer, NotEmbedded, Items
<1>7. CacheFindsAll
  BY <1>4 DEF CacheFindsAll, Listed
<1> QED
  BY <1>3, <1>5, <1>6, <1>7 DEF SimilarityInv

LEMMA SimilarityHolds == SimilarityInv => SimilarityTypeOK /\ SimilarityIsExact
<1> SUFFICES ASSUME SimilarityInv PROVE SimilarityTypeOK /\ SimilarityIsExact
  OBVIOUS
<1>1. SimilarityTypeOK
  BY DEF SimilarityInv, SimTypes, SimilarityTypeOK, EmbedRows
<1>2. VectorOfObject
  BY DEF SimilarityInv, GoodRow, VectorOfObject
<1>3. DuplicatesAreFound
  BY DEF DuplicatesAreFound, Matches
<1> QED
  BY <1>1, <1>2, <1>3 DEF SimilarityInv, SimilarityIsExact

(* similarity.ts:535, similarity.ts:1288, similarity.ts:765: a row has the *)
(* vector of the object it names although files change while the model     *)
(* works, the cached index of a kind has every row of an artifact that is  *)
(* there, and files of the same bytes are found whatever the graph answers.*)
THEOREM SimilarityExact == SimilaritySpec => [](SimilarityTypeOK /\ SimilarityIsExact)
<1>1. SimilarityInit => SimilarityInv
  <2> SUFFICES ASSUME SimilarityInit PROVE SimilarityInv
    OBVIOUS
  <2>1. originals \in [Items -> Originals \cup {"gone"}]
    BY DEF SimilarityInit
  <2> QED
    BY <2>1, SimilarityStarts DEF SimilarityInit, IndexKinds
<1> QED
  BY <1>1, SimilarityHolds, SimilarityStep, PTL DEF SimilaritySpec

---------------------------------------------------------------------------
(* The generations of search                                               *)

GenKeys == Spaces \X GenNames
GenStates == {"none", "building", "active", "retired"}
SegmentRows == [manifest : Manifests, object : Contents, read : Contents, space : Spaces]
Triples == GenNames \X Sources \X Contents
RetrievalStates ==
  [key : SUBSET (Spaces \X GenNames \X Manifests), segs : SUBSET Units, texts : (SUBSET Triples) \cup {NoTexts},
   fresh : BOOLEAN, pending : SUBSET Units, vectors : [GenKeys -> (SUBSET Triples) \cup {NoIndex}]]

SearchCalls == [kind : {"query"}, gens : SUBSET GenKeys]
                 \cup [kind : {"prepare"}, todo : SUBSET GenKeys, held : {"cached"} \cup (SUBSET Units)]

SearchTypes ==
  /\ searches \in [Searchers -> SearchCalls \cup {NotSearching}]
  /\ gens \in [GenKeys -> [manifest : Manifests \cup {"none"}, state : GenStates]]
  /\ \A k \in GenKeys : gens[k].state # "none" => gens[k].manifest \in Manifests
  /\ rows \in [Units -> {NoRow} \cup SegmentRows]
  /\ batches \subseteq BatchKeys
  /\ media \in [Sources -> Contents \cup {"gone"}]

OneActive == \A k, h \in Active : k[1] = h[1] => k = h

(* The rows of an artifact go with it.                                     *)
RowsHaveMedia == \A u \in Units : rows[u] # NoRow => media[u[2]] # "gone"

(* What the cache must have: the segments of its names that are not noted  *)
(* as pending, with their texts where it has texts.  It has nothing of an  *)
(* artifact that went before its metadata was read.                        *)
Settled(c) == SegmentsOf(NamesOf(c.key)) \ c.pending
GoodState(c) ==
  /\ c \in RetrievalStates
  /\ Settled(c) \subseteq c.segs
  /\ c.texts # NoTexts =>
       \A u \in Settled(c), x \in Contents : <<u[1], u[2], x>> \in c.texts <=> x = rows[u].read
  /\ c.fresh => \A u \in c.segs : media[u[2]] # "gone"

SearchInv ==
  /\ SearchTypes /\ OneActive /\ BatchesAreStored /\ RowsHaveMedia
  /\ retrieval = NoState \/ GoodState(retrieval)
  /\ retrieval = NoState => \A s \in Searchers : searches[s] = NotSearching

(* A cached state is never taken for its absence, nor a row.               *)
LEMMA StatesAreNotNone == ASSUME NEW c \in RetrievalStates PROVE c # NoState
<1>1. c.key \in SUBSET (Spaces \X GenNames \X Manifests)
  BY DEF RetrievalStates
<1>2. NoState.key = {<<"none", "none", "none">>}
  BY DEF NoState
<1>3. "none" \notin Manifests
  BY SearchAssumption
<1>4. <<"none", "none", "none">> \notin Spaces \X GenNames \X Manifests
  BY <1>3
<1> QED
  BY <1>1, <1>2, <1>4

LEMMA RowsAreNotNone == ASSUME NEW r \in SegmentRows PROVE r # NoRow
<1>1. r.manifest \in Manifests /\ NoRow.manifest = "none"
  BY DEF SegmentRows, NoRow
<1> QED
  BY <1>1, SearchAssumption

(* A unit is the pair of its name and artifact.                            *)
LEMMA UnitParts == ASSUME NEW u \in Units
                   PROVE u[1] \in GenNames /\ u[2] \in Sources /\ u = <<u[1], u[2]>>
BY DEF Units

LEMMA TriplesOf ==
  ASSUME SearchTypes, NEW units \in SUBSET Units
  PROVE  /\ TextsOf(units) \subseteq Triples
         /\ \A k \in GenKeys : VectorsOf(k, units) \subseteq Triples
         /\ \A u \in Units, x \in Contents :
              <<u[1], u[2], x>> \in TextsOf(units) <=> u \in units /\ rows[u] # NoRow /\ x = rows[u].read
<1>1. \A u \in units : rows[u] # NoRow => <<u[1], u[2], rows[u].read>> \in Triples
  BY UnitParts DEF SearchTypes, SegmentRows, Triples
<1>2. TextsOf(units) \subseteq Triples
  BY <1>1 DEF TextsOf
<1>3. \A k \in GenKeys : VectorsOf(k, units) \subseteq Triples
  BY <1>1 DEF VectorsOf
<1>4. ASSUME NEW u \in Units, NEW x \in Contents
      PROVE  <<u[1], u[2], x>> \in TextsOf(units) <=> u \in units /\ rows[u] # NoRow /\ x = rows[u].read
  <2>1. ASSUME u \in units, rows[u] # NoRow, x = rows[u].read PROVE <<u[1], u[2], x>> \in TextsOf(units)
    BY <2>1 DEF TextsOf
  <2>2. ASSUME <<u[1], u[2], x>> \in TextsOf(units) PROVE u \in units /\ rows[u] # NoRow /\ x = rows[u].read
    <3>1. PICK v \in units : rows[v] # NoRow /\ <<u[1], u[2], x>> = <<v[1], v[2], rows[v].read>>
      BY <2>2 DEF TextsOf
    <3>2. u = v
      BY <3>1, UnitParts
    <3> QED
      BY <3>1, <3>2
  <2> QED
    BY <2>1, <2>2
<1> QED
  BY <1>2, <1>3, <1>4

LEMMA KeysAreTyped == SearchTypes => ActiveKey \in SUBSET (Spaces \X GenNames \X Manifests)
BY DEF SearchTypes, ActiveKey, Active, GenKeys

(* The three ways in which a cached state is brought up to date.           *)
LEMMA RebuiltIsGood ==
  ASSUME SearchInv
  PROVE  GoodState(Rebuilt(retrieval)) /\ Rebuilt(retrieval).key = ActiveKey /\ Rebuilt(retrieval).fresh
<1>t. SearchTypes /\ RowsHaveMedia /\ (retrieval = NoState \/ retrieval \in RetrievalStates)
  BY DEF SearchInv, GoodState
<1> DEFINE segs == SegmentsOf(NamesOf(ActiveKey))
           pending == IF retrieval = NoState THEN {} ELSE retrieval.pending
           vectors == [k \in DOMAIN gens |-> IF retrieval = NoState \/ k \notin Active THEN NoIndex
                                             ELSE IF retrieval.vectors[k] = NoIndex THEN NoIndex
                                             ELSE In(segs, retrieval.vectors[k])]
           r == [key |-> ActiveKey, segs |-> segs, texts |-> NoTexts, fresh |-> TRUE,
                 pending |-> pending, vectors |-> vectors]
<1>1. segs \subseteq Units /\ \A u \in segs : rows[u] # NoRow
  BY DEF SegmentsOf
<1>2. pending \in SUBSET Units
  BY <1>t DEF RetrievalStates
<1>3. DOMAIN gens = GenKeys
  BY <1>t DEF SearchTypes
<1>4. vectors \in [GenKeys -> (SUBSET Triples) \cup {NoIndex}]
  <2>1. ASSUME NEW k \in GenKeys, retrieval # NoState, retrieval.vectors[k] # NoIndex
        PROVE  In(segs, retrieval.vectors[k]) \in SUBSET Triples
    BY <2>1, <1>t DEF RetrievalStates, In
  <2> QED
    BY <2>1, <1>3
<1>5. Rebuilt(retrieval) = r
  BY DEF Rebuilt
<1> HIDE DEF segs, pending, vectors
<1>6. r \in RetrievalStates
  BY <1>t, <1>1, <1>2, <1>4, KeysAreTyped DEF RetrievalStates
<1>7. /\ r.key = ActiveKey /\ r.fresh /\ r.segs = segs /\ r.texts = NoTexts /\ r.pending = pending
  OBVIOUS
<1>8. Settled(r) \subseteq r.segs
  BY <1>7 DEF Settled, segs
<1>9. \A u \in r.segs : media[u[2]] # "gone"
  BY <1>1, <1>7, <1>t DEF RowsHaveMedia
<1> HIDE DEF r
<1> QED
  BY <1>5, <1>6, <1>7, <1>8, <1>9 DEF GoodState

LEMMA RefreshedIsGood ==
  ASSUME SearchInv, NEW c, GoodState(c)
  PROVE  GoodState(Refreshed(c)) /\ Refreshed(c).key = c.key /\ Refreshed(c).fresh
<1>t. SearchTypes /\ RowsHaveMedia /\ c \in RetrievalStates
  BY DEF SearchInv, GoodState
<1> DEFINE segs == SegmentsOf(NamesOf(c.key))
           vectors == [k \in DOMAIN gens |-> IF c.vectors[k] = NoIndex \/ In(segs, c.vectors[k]) = {}
                                             THEN NoIndex ELSE In(segs, c.vectors[k])]
           r == [c EXCEPT !.segs = segs, !.texts = NoTexts, !.fresh = TRUE, !.vectors = vectors]
<1>1. segs \in SUBSET Units /\ \A u \in segs : rows[u] # NoRow
  BY DEF SegmentsOf
<1>2. DOMAIN gens = GenKeys
  BY <1>t DEF SearchTypes
<1>3. vectors \in [GenKeys -> (SUBSET Triples) \cup {NoIndex}]
  <2>1. ASSUME NEW k \in GenKeys, c.vectors[k] # NoIndex PROVE In(segs, c.vectors[k]) \in SUBSET Triples
    BY <2>1, <1>t DEF RetrievalStates, In
  <2> QED
    BY <2>1, <1>2
<1>4. Refreshed(c) = r
  BY DEF Refreshed
<1> HIDE DEF segs, vectors
<1>5. r \in RetrievalStates
  BY <1>t, <1>1, <1>3 DEF RetrievalStates
<1>6. /\ r.key = c.key /\ r.fresh /\ r.segs = segs /\ r.texts = NoTexts /\ r.pending = c.pending
  BY <1>t DEF RetrievalStates
<1>7. Settled(r) \subseteq r.segs
  BY <1>6 DEF Settled, segs
<1>8. \A u \in r.segs : media[u[2]] # "gone"
  BY <1>1, <1>6, <1>t DEF RowsHaveMedia
<1> HIDE DEF r
<1> QED
  BY <1>4, <1>5, <1>6, <1>7, <1>8 DEF GoodState

LEMMA DrainedIsGood ==
  ASSUME SearchInv, NEW c, GoodState(c)
  PROVE  /\ GoodState(Drained(c)) /\ Drained(c).key = c.key /\ Drained(c).fresh = c.fresh
         /\ Drained(c).pending = {}
<1>t. SearchTypes /\ RowsHaveMedia /\ c \in RetrievalStates
  BY DEF SearchInv, GoodState
<1> DEFINE named == SegmentsOf(NamesOf(c.key))
           segs == (c.segs \ c.pending) \cup (named \cap c.pending)
           kept(found) == {e \in found : <<e[1], e[2]>> \notin c.pending}
           texts == IF c.texts = NoTexts THEN NoTexts ELSE kept(c.texts) \cup TextsOf(c.pending)
           vectors == [k \in DOMAIN gens |-> IF c.vectors[k] = NoIndex THEN NoIndex
                                             ELSE kept(c.vectors[k]) \cup VectorsOf(k, c.pending \cap segs)]
           r == [c EXCEPT !.segs = segs, !.pending = {}, !.texts = texts, !.vectors = vectors]
<1>0. c.pending \in SUBSET Units /\ c.segs \in SUBSET Units /\ DOMAIN gens = GenKeys
  BY <1>t DEF RetrievalStates, SearchTypes
<1>1. segs \in SUBSET Units /\ (\A u \in named : u \in Units /\ rows[u] # NoRow)
  BY <1>0 DEF SegmentsOf
<1>2. texts \in (SUBSET Triples) \cup {NoTexts}
  <2>1. c.texts # NoTexts => kept(c.texts) \in SUBSET Triples
    BY <1>t DEF RetrievalStates
  <2>2. TextsOf(c.pending) \in SUBSET Triples
    BY <1>0, <1>t, TriplesOf
  <2> QED
    BY <2>1, <2>2
<1>3. vectors \in [GenKeys -> (SUBSET Triples) \cup {NoIndex}]
  <2>1. ASSUME NEW k \in GenKeys, c.vectors[k] # NoIndex
        PROVE  kept(c.vectors[k]) \cup VectorsOf(k, c.pending \cap segs) \in SUBSET Triples
    <3>1. kept(c.vectors[k]) \in SUBSET Triples
      BY <2>1, <1>t DEF RetrievalStates
    <3>2. c.pending \cap segs \in SUBSET Units
      BY <1>0
    <3>3. VectorsOf(k, c.pending \cap segs) \in SUBSET Triples
      BY <3>2, <1>t, TriplesOf
    <3> QED
      BY <3>1, <3>3
  <2> QED
    BY <2>1, <1>0
<1>4. Drained(c) = r
  BY DEF Drained
<1> HIDE DEF vectors
<1>5. r \in RetrievalStates
  BY <1>t, <1>1, <1>2, <1>3 DEF RetrievalStates
<1>6. /\ r.key = c.key /\ r.fresh = c.fresh /\ r.segs = segs /\ r.texts = texts /\ r.pending = {}
  BY <1>t DEF RetrievalStates
<1> HIDE DEF r
<1>7. Settled(c) = named \ c.pending /\ Settled(r) = named
  BY <1>6 DEF Settled
<1>8. Settled(r) \subseteq r.segs
  BY <1>6, <1>7 DEF GoodState
<1>9. r.fresh => \A u \in r.segs : media[u[2]] # "gone"
  BY <1>1, <1>6, <1>t DEF GoodState, RowsHaveMedia
<1>10. ASSUME r.texts # NoTexts, NEW u \in Settled(r), NEW x \in Contents
       PROVE  <<u[1], u[2], x>> \in r.texts <=> x = rows[u].read
  <2>1. c.texts # NoTexts /\ r.texts = kept(c.texts) \cup TextsOf(c.pending)
    BY <1>6, <1>10
  <2>2. u \in Units /\ rows[u] # NoRow /\ u = <<u[1], u[2]>>
    BY <1>1, <1>7, UnitParts
  <2>3. <<u[1], u[2], x>> \in TextsOf(c.pending) <=> u \in c.pending /\ x = rows[u].read
    BY <2>2, <1>0, <1>t, TriplesOf
  <2>4. <<u[1], u[2], x>> \in kept(c.texts) <=> <<u[1], u[2], x>> \in c.texts /\ u \notin c.pending
    BY <2>2
  <2>5. u \notin c.pending => (<<u[1], u[2], x>> \in c.texts <=> x = rows[u].read)
    BY <2>1, <1>7 DEF GoodState
  <2> QED
    BY <2>1, <2>3, <2>4, <2>5
<1> QED
  BY <1>4, <1>5, <1>6, <1>8, <1>9, <1>10 DEF GoodState

(* What a query or a prepare reads.                                        *)
LEMMA Retrieving ==
  ASSUME SearchInv, NEW metadata \in BOOLEAN
  PROVE  /\ GoodState(Retrieved(metadata)) /\ Retrieved(metadata).key = ActiveKey
         /\ Retrieved(metadata).pending = {} /\ (metadata => Retrieved(metadata).fresh)
<1> DEFINE c == Rekeyed(retrieval)
           d == IF metadata /\ ~c.fresh THEN Refreshed(c) ELSE c
<1>1. GoodState(c) /\ c.key = ActiveKey
  BY RebuiltIsGood DEF Rekeyed, SearchInv
<1>2. Retrieved(metadata) = IF d.pending = {} THEN d ELSE Drained(d)
  BY DEF Retrieved
<1> HIDE DEF c
<1>3. GoodState(d) /\ d.key = ActiveKey /\ (metadata => d.fresh)
  BY <1>1, RefreshedIsGood
<1> HIDE DEF d
<1>4. GoodState(Drained(d)) /\ Drained(d).key = ActiveKey /\ Drained(d).fresh = d.fresh /\ Drained(d).pending = {}
  BY <1>3, DrainedIsGood
<1> QED
  BY <1>2, <1>3, <1>4

(* A state that is good stays so while rows only go, media only go with    *)
(* the metadata outdated, and the row that changes is pending or of a name *)
(* that the cache does not have.                                           *)
LEMMA StaysGood ==
  ASSUME NEW c, GoodState(c), NEW P \in SUBSET Units, NEW f \in BOOLEAN,
         NEW r, r = [c EXCEPT !.fresh = f, !.pending = @ \cup P],
         rows \in [Units -> {NoRow} \cup SegmentRows],
         \A u \in Units : rows'[u] = rows[u] \/ rows'[u] = NoRow \/ u \in P \/ u[1] \notin NamesOf(c.key),
         \A u \in Units : f => media[u[2]] = media'[u[2]] \/ media'[u[2]] # "gone", f => c.fresh
  PROVE  GoodState(r)'
<1>t. c \in RetrievalStates
  BY DEF GoodState
<1>1. /\ r \in RetrievalStates /\ r.key = c.key /\ r.segs = c.segs /\ r.texts = c.texts
      /\ r.fresh = f /\ r.pending = c.pending \cup P
  BY <1>t DEF RetrievalStates
<1>2. ASSUME NEW u \in Settled(r)' PROVE u \in Settled(c) /\ rows'[u] = rows[u]
  <2>1. /\ u \in Units /\ u[1] \in NamesOf(c.key) /\ rows'[u] # NoRow
        /\ u \notin c.pending /\ u \notin P
    BY <1>2, <1>1 DEF Settled, SegmentsOf, NamesOf
  <2> QED
    BY <2>1 DEF Settled, SegmentsOf
<1>3. Settled(r)' \subseteq r.segs
  BY <1>1, <1>2 DEF GoodState
<1>4. ASSUME r.texts # NoTexts, NEW u \in Settled(r)', NEW x \in Contents
      PROVE  <<u[1], u[2], x>> \in r.texts <=> x = rows'[u].read
  <2>1. u \in Settled(c) /\ rows'[u] = rows[u] /\ c.texts # NoTexts
    BY <1>1, <1>2, <1>4
  <2> QED
    BY <2>1, <1>1 DEF GoodState
<1>5. r.fresh => \A u \in r.segs : media'[u[2]] # "gone"
  BY <1>1, <1>t DEF GoodState, RetrievalStates
<1> QED
  BY <1>1, <1>3, <1>4, <1>5 DEF GoodState

(* A batch is written with its row, and noted where the cache has its name.*)
LEMMA CommitStep ==
  ASSUME SearchInv, NEW m \in Manifests, NEW g \in GenNames, NEW a \in Sources, NEW complete \in BOOLEAN,
         CommitBatch(m, g, a, complete)
  PROVE  SearchInv'
<1>t. /\ SearchTypes /\ OneActive /\ BatchesAreStored /\ RowsHaveMedia
      /\ retrieval = NoState \/ GoodState(retrieval)
      /\ retrieval = NoState => \A s \in Searchers : searches[s] = NotSearching
  BY DEF SearchInv
<1> DEFINE k == <<SpaceOf[m], g>>
           o == media[a]
           row == Upserted(rows[<<g, a>>], m, o)
<1>0. k \in GenKeys /\ <<g, a>> \in Units /\ SpaceOf[m] \in Spaces
  BY DEF GenKeys, Spaces, Units
<1>1. /\ m \in NamedBy[g] /\ o # "gone" /\ o \in Contents
      /\ gens' = IF gens[k] = Unbuilt THEN [gens EXCEPT ![k] = [manifest |-> m, state |-> "building"]] ELSE gens
      /\ rows' = [rows EXCEPT ![<<g, a>>] = row]
      /\ batches' = batches \cup {<<m, g, a, o>>}
      /\ retrieval' = Noted(g, a)
      /\ UNCHANGED <<media, searches>>
  BY <1>t DEF CommitBatch, SearchTypes
<1>2. row \in SegmentRows
  <2>1. rows[<<g, a>>] \in {NoRow} \cup SegmentRows
    BY <1>0, <1>t DEF SearchTypes
  <2>2. CASE rows[<<g, a>>] = NoRow
    BY <2>2, <1>0, <1>1 DEF Upserted, SegmentRows
  <2>3. CASE rows[<<g, a>>] # NoRow
    BY <2>1, <2>3, <1>0, <1>1 DEF Upserted, SegmentRows
  <2> QED
    BY <2>2, <2>3
<1>3. row # NoRow
  BY <1>2, RowsAreNotNone
<1> HIDE DEF row
<1>4. /\ rows' \in [Units -> {NoRow} \cup SegmentRows] /\ rows'[<<g, a>>] = row
      /\ \A u \in Units : u = <<g, a>> \/ rows'[u] = rows[u]
  BY <1>0, <1>1, <1>2, <1>t DEF SearchTypes
<1>5. /\ gens' \in [GenKeys -> [manifest : Manifests \cup {"none"}, state : GenStates]]
      /\ \A h \in GenKeys : gens'[h] = gens[h] \/ gens'[h] = [manifest |-> m, state |-> "building"]
  <2>1. CASE gens' = gens
    BY <2>1, <1>t DEF SearchTypes
  <2>2. CASE gens' = [gens EXCEPT ![k] = [manifest |-> m, state |-> "building"]]
    <3>1. [manifest |-> m, state |-> "building"] \in [manifest : Manifests \cup {"none"}, state : GenStates]
      BY DEF GenStates
    <3> QED
      BY <2>2, <3>1, <1>0, <1>t DEF SearchTypes
  <2> QED
    BY <1>1, <2>1, <2>2
<1>6. batches' \subseteq BatchKeys
  BY <1>1, <1>t DEF SearchTypes, BatchKeys
<1>7. SearchTypes'
  BY <1>1, <1>4, <1>5, <1>6, <1>t DEF SearchTypes
<1>8. OneActive'
  <2>1. \A h \in Active' : h \in Active
    BY <1>5, <1>t DEF Active, SearchTypes
  <2> QED
    BY <2>1, <1>t DEF OneActive
<1>9. BatchesAreStored'
  <2> SUFFICES ASSUME NEW b \in batches' PROVE rows'[<<b[2], b[3]>>] # NoRow
    BY DEF BatchesAreStored
  <2>1. CASE b = <<m, g, a, o>>
    BY <2>1, <1>3, <1>4
  <2>2. CASE b \in batches
    <3>1. <<b[2], b[3]>> \in Units
      BY <2>2, <1>t DEF SearchTypes, BatchKeys, Units
    <3> QED
      BY <2>2, <3>1, <1>3, <1>4, <1>t DEF BatchesAreStored
  <2> QED
    BY <2>1, <2>2, <1>1
<1>10. RowsHaveMedia'
  <2> SUFFICES ASSUME NEW u \in Units, rows'[u] # NoRow PROVE media[u[2]] # "gone"
    BY <1>1 DEF RowsHaveMedia
  <2>1. CASE u = <<g, a>>
    BY <2>1, <1>1
  <2>2. CASE rows'[u] = rows[u]
    BY <2>2, <1>t DEF RowsHaveMedia
  <2> QED
    BY <2>1, <2>2, <1>4
<1>11. CASE retrieval = NoState
  <2>1. retrieval' = NoState
    BY <1>1, <1>11 DEF Noted
  <2> QED
    BY <2>1, <1>1, <1>7, <1>8, <1>9, <1>10, <1>11, <1>t DEF SearchInv
<1>12. CASE retrieval # NoState
  <2>1. PICK c : c = retrieval
    OBVIOUS
  <2>2. GoodState(c) /\ c \in RetrievalStates
    BY <2>1, <1>12, <1>t DEF GoodState
  <2>3. PICK P \in SUBSET Units : P = IF g \in NamesOf(c.key) THEN {<<g, a>>} ELSE {}
    BY <1>0
  <2>4. PICK r : r = [c EXCEPT !.fresh = c.fresh, !.pending = @ \cup P]
    OBVIOUS
  <2>5. retrieval' = r
    <3>1. CASE g \in NamesOf(c.key)
      BY <3>1, <2>1, <2>2, <2>3, <2>4, <1>1, <1>12 DEF Noted, RetrievalStates
    <3>2. CASE g \notin NamesOf(c.key)
      <4>1. P = {} /\ retrieval' = c
        BY <3>2, <2>1, <2>3, <1>1 DEF Noted
      <4> QED
        BY <4>1, <2>2, <2>4 DEF RetrievalStates
    <3> QED
      BY <3>1, <3>2
  <2>6. \A u \in Units : rows'[u] = rows[u] \/ rows'[u] = NoRow \/ u \in P \/ u[1] \notin NamesOf(c.key)
    BY <2>3, <1>4
  <2>7. rows \in [Units -> {NoRow} \cup SegmentRows] /\ c.fresh \in BOOLEAN
    BY <2>2, <1>t DEF SearchTypes, RetrievalStates
  <2>8. GoodState(r)'
    BY <2>2, <2>4, <2>6, <2>7, <1>1, StaysGood
  <2>9. r # NoState
    BY <2>8, StatesAreNotNone DEF GoodState
  <2>10. retrieval' # NoState /\ GoodState(retrieval)'
    BY <2>5, <2>8, <2>9
  <2> QED
    BY <2>10, <1>7, <1>8, <1>9, <1>10 DEF SearchInv
<1> QED
  BY <1>11, <1>12

(* The cache over a step that writes no row: as it was, or outdated.       *)
LEMMA CacheKept ==
  ASSUME SearchInv, \A u \in Units : rows'[u] = rows[u] \/ rows'[u] = NoRow,
         \/ retrieval' = retrieval /\ media' = media
         \/ retrieval' = Outdated
  PROVE  /\ retrieval' = NoState <=> retrieval = NoState
         /\ retrieval' = NoState \/ GoodState(retrieval)'
<1>1. CASE retrieval = NoState
  BY <1>1 DEF Outdated
<1>2. CASE retrieval # NoState
  <2>1. PICK c : c = retrieval
    OBVIOUS
  <2>2. GoodState(c) /\ c \in RetrievalStates /\ rows \in [Units -> {NoRow} \cup SegmentRows]
    BY <2>1, <1>2 DEF SearchInv, GoodState, SearchTypes
  <2>3. PICK f \in BOOLEAN : f = IF retrieval' = Outdated THEN FALSE ELSE c.fresh
    BY <2>2 DEF RetrievalStates
  <2>4. PICK r : r = [c EXCEPT !.fresh = f, !.pending = @ \cup {}]
    OBVIOUS
  <2>5. retrieval' = r
    <3>1. CASE retrieval' = Outdated
      BY <3>1, <2>1, <2>2, <2>3, <2>4, <1>2 DEF Outdated, RetrievalStates
    <3>2. CASE retrieval' # Outdated
      BY <3>2, <2>1, <2>2, <2>3, <2>4 DEF RetrievalStates
    <3> QED
      BY <3>1, <3>2
  <2>6. \A u \in Units : f => media[u[2]] = media'[u[2]] \/ media'[u[2]] # "gone"
    BY <2>3
  <2>7. f => c.fresh
    BY <2>3
  <2>8. PICK P \in SUBSET Units : P = {} /\ r = [c EXCEPT !.fresh = f, !.pending = @ \cup P]
    BY <2>4
  <2>9. GoodState(r)'
    <3>1. \A u \in Units : rows'[u] = rows[u] \/ rows'[u] = NoRow \/ u \in P \/ u[1] \notin NamesOf(c.key)
      OBVIOUS
    <3> QED
      BY <2>2, <2>6, <2>7, <2>8, <3>1, StaysGood
  <2>10. r # NoState
    BY <2>9, StatesAreNotNone DEF GoodState
  <2>11. GoodState(retrieval)'
    BY <2>5, <2>9
  <2> QED
    BY <2>5, <2>10, <2>11, <1>2
<1> QED
  BY <1>1, <1>2

(* A step that leaves the tables leaves a good state good.                 *)
LEMMA TablesKept ==
  ASSUME SearchInv, UNCHANGED <<manifests, gens, rows, coverage, batches, media>>, NEW c, retrieval' = c, GoodState(c),
         searches' \in [Searchers -> SearchCalls \cup {NotSearching}]
  PROVE  SearchInv'
<1>1. SearchTypes' /\ OneActive' /\ BatchesAreStored' /\ RowsHaveMedia'
  BY DEF SearchInv, SearchTypes, OneActive, Active, BatchesAreStored, RowsHaveMedia
<1>2. GoodState(c)'
  BY DEF GoodState, Settled, SegmentsOf
<1>3. c # NoState
  BY StatesAreNotNone DEF GoodState
<1>4. retrieval' # NoState /\ GoodState(retrieval)'
  BY <1>2, <1>3
<1> QED
  BY <1>1, <1>4 DEF SearchInv

LEMMA Detaching ==
  ASSUME SearchInv, NEW c
  PROVE  Detached(c) \in [Searchers -> SearchCalls \cup {NotSearching}]
<1> SUFFICES ASSUME NEW s \in Searchers, searches[s].kind = "prepare"
             PROVE  [searches[s] EXCEPT !.held = retrieval.segs] \in SearchCalls
  BY DEF Detached, SearchInv, SearchTypes
<1>1. searches[s] # NotSearching
  BY DEF NotSearching
<1>2. retrieval.segs \in SUBSET Units
  BY <1>1 DEF SearchInv, GoodState, RetrievalStates
<1>3. searches[s] \in [kind : {"prepare"}, todo : SUBSET GenKeys, held : {"cached"} \cup (SUBSET Units)]
  BY <1>1 DEF SearchInv, SearchTypes, SearchCalls
<1> QED
  BY <1>2, <1>3 DEF SearchCalls

(* Every step of the search index keeps the invariant.                     *)
LEMMA SearchStep == SearchInv /\ [SearchNext]_searchVars => SearchInv'
<1> SUFFICES ASSUME SearchInv, [SearchNext]_searchVars PROVE SearchInv'
  OBVIOUS
<1>t. /\ SearchTypes /\ OneActive /\ BatchesAreStored /\ RowsHaveMedia
      /\ retrieval = NoState \/ GoodState(retrieval)
      /\ retrieval = NoState => \A s \in Searchers : searches[s] = NotSearching
  BY DEF SearchInv
<1>u. ASSUME UNCHANGED <<rows, batches, media, retrieval, searches>>, OneActive',
             gens' \in [GenKeys -> [manifest : Manifests \cup {"none"}, state : GenStates]],
             \A k \in GenKeys : gens'[k].state # "none" => gens'[k].manifest \in Manifests
      PROVE  SearchInv'
  <2>1. SearchTypes'
    BY <1>u, <1>t DEF SearchTypes
  <2>2. BatchesAreStored' /\ RowsHaveMedia'
    BY <1>u, <1>t DEF BatchesAreStored, RowsHaveMedia
  <2>3. /\ retrieval' = NoState <=> retrieval = NoState
        /\ retrieval' = NoState \/ GoodState(retrieval)'
    BY <1>u, CacheKept
  <2> QED
    BY <1>u, <1>t, <2>1, <2>2, <2>3 DEF SearchInv
<1>1. ASSUME NEW m \in Manifests, RegisterManifest(m) PROVE SearchInv'
  BY <1>1, <1>t, <1>u DEF RegisterManifest, SearchTypes, OneActive, Active
<1>2. ASSUME NEW m \in Manifests, NEW g \in GenNames, Activate(m, g) PROVE SearchInv'
  <2> DEFINE k == <<SpaceOf[m], g>>
  <2>0. k \in GenKeys /\ DOMAIN gens = GenKeys
    BY <1>t DEF GenKeys, Spaces, SearchTypes
  <2>1. /\ gens[k].manifest = m /\ UNCHANGED <<rows, batches, media, retrieval, searches>>
        /\ gens' = [h \in GenKeys |->
                     IF h = k THEN [gens[h] EXCEPT !.state = "active"]
                     ELSE IF h \in Superseded(m, g) THEN [gens[h] EXCEPT !.state = "retired"] ELSE gens[h]]
    BY <1>2, <2>0 DEF Activate
  <2>2. \A h \in GenKeys : /\ gens[h] \in [manifest : Manifests \cup {"none"}, state : GenStates]
                           /\ gens[h].state # "none" => gens[h].manifest \in Manifests
    BY <1>t DEF SearchTypes
  <2>3. ASSUME NEW h \in GenKeys
        PROVE  /\ gens'[h] \in [manifest : Manifests \cup {"none"}, state : GenStates]
               /\ gens'[h].state # "none" => gens'[h].manifest \in Manifests
               /\ h # k => (gens'[h].state = "active" => h \in Active /\ h \notin Superseded(m, g))
    <3>1. CASE h = k
      BY <3>1, <2>0, <2>1, <2>2 DEF GenStates
    <3>2. CASE h # k /\ h \in Superseded(m, g)
      <4>1. gens'[h] = [gens[h] EXCEPT !.state = "retired"] /\ gens[h].state = "active"
        BY <3>2, <2>1 DEF Superseded, Active
      <4> QED
        BY <4>1, <2>2 DEF GenStates
    <3>3. CASE h # k /\ h \notin Superseded(m, g)
      BY <3>3, <2>0, <2>1, <2>2 DEF Active
    <3> QED
      BY <3>1, <3>2, <3>3
  <2>4. gens' \in [GenKeys -> [manifest : Manifests \cup {"none"}, state : GenStates]]
    BY <2>1, <2>3
  <2>5. OneActive'
    <3> SUFFICES ASSUME NEW h \in Active', NEW j \in Active', h[1] = j[1] PROVE h = j
      BY DEF OneActive
    <3>1. h \in GenKeys /\ j \in GenKeys /\ gens'[h].state = "active" /\ gens'[j].state = "active"
      BY <2>4 DEF Active
    <3>2. CASE h # k /\ j # k
      BY <3>1, <3>2, <2>3, <1>t DEF OneActive
    <3>3. ASSUME NEW e \in GenKeys, gens'[e].state = "active", e # k PROVE e[1] # k[1]
      <4>1. e \in Active /\ e \notin Superseded(m, g)
        BY <3>3, <2>3
      <4>2. e[1] = SpaceOf[m] => e[2] = g
        BY <4>1 DEF Superseded
      <4>3. e = <<e[1], e[2]>>
        BY DEF GenKeys
      <4> QED
        BY <3>3, <4>2, <4>3
    <3> QED
      BY <3>1, <3>2, <3>3
  <2> QED
    BY <2>1, <2>3, <2>4, <2>5, <1>u
<1>3. ASSUME NEW m \in Manifests, NEW g \in GenNames, NEW a \in Sources, NEW complete \in BOOLEAN,
             CommitBatch(m, g, a, complete)
      PROVE  SearchInv'
  BY <1>3, CommitStep
<1>4. ASSUME NEW a \in Sources, Invalidate(a) PROVE SearchInv'
  BY <1>4, <1>t, <1>u DEF Invalidate, SearchTypes, OneActive, Active
<1>5. CASE CleanupRetired
  <2>1. /\ gens' = [k \in GenKeys |-> IF k[2] \in RetiredNames THEN Unbuilt ELSE gens[k]]
        /\ rows' = [u \in Units |-> IF u[1] \in RetiredNames THEN NoRow ELSE rows[u]]
        /\ batches' = {b \in batches : b[2] \notin RetiredNames}
        /\ UNCHANGED <<media, retrieval, searches>>
    BY <1>5, <1>t DEF CleanupRetired, BatchesLeft, SearchTypes
  <2>2. Unbuilt \in [manifest : Manifests \cup {"none"}, state : GenStates] /\ Unbuilt.state = "none"
    BY DEF Unbuilt, GenStates
  <2>3. SearchTypes'
    <3>1. gens' \in [GenKeys -> [manifest : Manifests \cup {"none"}, state : GenStates]]
      BY <2>1, <2>2, <1>t DEF SearchTypes
    <3>2. \A k \in GenKeys : gens'[k].state # "none" => gens'[k].manifest \in Manifests
      BY <2>1, <2>2, <1>t DEF SearchTypes
    <3>3. rows' \in [Units -> {NoRow} \cup SegmentRows]
      BY <2>1, <1>t DEF SearchTypes
    <3> QED
      BY <2>1, <3>1, <3>2, <3>3, <1>t DEF SearchTypes
  <2>4. \A k \in Active' : k \in Active
    BY <2>1, <2>2, <1>t DEF Active, SearchTypes
  <2>5. OneActive'
    BY <2>4, <1>t DEF OneActive
  <2>6. BatchesAreStored'
    <3> SUFFICES ASSUME NEW b \in batches' PROVE rows'[<<b[2], b[3]>>] # NoRow
      BY DEF BatchesAreStored
    <3>1. b \in batches /\ b[2] \notin RetiredNames /\ <<b[2], b[3]>> \in Units
      BY <2>1, <1>t DEF SearchTypes, BatchKeys, Units
    <3> QED
      BY <3>1, <2>1, <1>t DEF BatchesAreStored
  <2>7. RowsHaveMedia'
    BY <2>1, <1>t DEF RowsHaveMedia
  <2>8. /\ retrieval' = NoState <=> retrieval = NoState
        /\ retrieval' = NoState \/ GoodState(retrieval)'
    BY <2>1, CacheKept
  <2> QED
    BY <2>1, <2>3, <2>5, <2>6, <2>7, <2>8, <1>t DEF SearchInv
<1>6. ASSUME NEW a \in Sources, NEW o \in Contents, ReplaceMedia(a, o) PROVE SearchInv'
  <2>1. /\ media[a] # "gone" /\ media' = [media EXCEPT ![a] = o] /\ retrieval' = Outdated
        /\ UNCHANGED <<gens, rows, batches, searches>>
    BY <1>6 DEF ReplaceMedia
  <2>2. SearchTypes'
    BY <2>1, <1>t DEF SearchTypes
  <2>3. OneActive' /\ BatchesAreStored'
    BY <2>1, <1>t DEF OneActive, Active, BatchesAreStored
  <2>4. RowsHaveMedia'
    <3> SUFFICES ASSUME NEW u \in Units, rows'[u] # NoRow PROVE media'[u[2]] # "gone"
      BY DEF RowsHaveMedia
    <3>1. u[2] \in Sources /\ media[u[2]] # "gone"
      BY <2>1, <1>t, UnitParts DEF RowsHaveMedia
    <3>2. CASE u[2] # a
      BY <3>1, <3>2, <2>1, <1>t DEF SearchTypes
    <3>3. CASE u[2] = a
      <4>1. media'[a] = o /\ o # "gone"
        BY <2>1, <1>t, SearchAssumption DEF SearchTypes
      <4> QED
        BY <3>3, <4>1
    <3> QED
      BY <3>2, <3>3
  <2>5. /\ retrieval' = NoState <=> retrieval = NoState
        /\ retrieval' = NoState \/ GoodState(retrieval)'
    BY <2>1, CacheKept
  <2> QED
    BY <2>1, <2>2, <2>3, <2>4, <2>5, <1>t DEF SearchInv
<1>7. ASSUME NEW a \in Sources, DeleteMedia(a) PROVE SearchInv'
  <2>1. /\ media' = [media EXCEPT ![a] = "gone"] /\ retrieval' = Outdated
        /\ rows' = [u \in Units |-> IF u[2] = a THEN NoRow ELSE rows[u]]
        /\ batches' = {b \in batches : b[3] # a}
        /\ UNCHANGED <<gens, searches>>
    BY <1>7 DEF DeleteMedia
  <2>2. rows' \in [Units -> {NoRow} \cup SegmentRows] /\ media' \in [Sources -> Contents \cup {"gone"}]
    BY <2>1, <1>t DEF SearchTypes
  <2>3. SearchTypes'
    BY <2>1, <2>2, <1>t DEF SearchTypes
  <2>4. OneActive'
    BY <2>1, <1>t DEF OneActive, Active
  <2>5. BatchesAreStored'
    <3> SUFFICES ASSUME NEW b \in batches' PROVE rows'[<<b[2], b[3]>>] # NoRow
      BY DEF BatchesAreStored
    <3>1. b \in batches /\ b[3] # a /\ <<b[2], b[3]>> \in Units
      BY <2>1, <1>t DEF SearchTypes, BatchKeys, Units
    <3> QED
      BY <3>1, <2>1, <1>t DEF BatchesAreStored
  <2>6. RowsHaveMedia'
    <3> SUFFICES ASSUME NEW u \in Units, rows'[u] # NoRow PROVE media'[u[2]] # "gone"
      BY DEF RowsHaveMedia
    <3>1. u[2] # a /\ u[2] \in Sources /\ rows[u] # NoRow
      BY <2>1, UnitParts
    <3> QED
      BY <3>1, <2>1, <1>t DEF RowsHaveMedia, SearchTypes
  <2>7. /\ retrieval' = NoState <=> retrieval = NoState
        /\ retrieval' = NoState \/ GoodState(retrieval)'
    BY <2>1, CacheKept
  <2> QED
    BY <2>1, <2>3, <2>4, <2>5, <2>6, <2>7, <1>t DEF SearchInv
<1>8. ASSUME NEW s \in Searchers, StartQuery(s) PROVE SearchInv'
  <2>1. PICK c : c = Retrieved(TRUE)
    OBVIOUS
  <2>2. GoodState(c) /\ c \in RetrievalStates /\ c.pending = {}
    BY <2>1, Retrieving DEF GoodState
  <2>3. SegmentsOf(NamesOf(c.key)) \in SUBSET Units
    BY DEF SegmentsOf
  <2>4. PICK texts \in (SUBSET Triples) \cup {NoTexts} :
          texts = IF c.texts = NoTexts THEN TextsOf(SegmentsOf(NamesOf(c.key))) ELSE c.texts
    BY <2>2, <2>3, <1>t, TriplesOf DEF RetrievalStates
  <2>5. PICK r : r = [c EXCEPT !.texts = texts]
    OBVIOUS
  <2>6. /\ r \in RetrievalStates /\ r.key = c.key /\ r.segs = c.segs /\ r.texts = texts
        /\ r.pending = {} /\ r.fresh = c.fresh
    BY <2>2, <2>4, <2>5 DEF RetrievalStates
  <2>7. WithTexts(c) = r
    BY <2>2, <2>4, <2>5 DEF WithTexts, RetrievalStates
  <2>8. Settled(r) = SegmentsOf(NamesOf(c.key)) /\ Settled(c) = SegmentsOf(NamesOf(c.key))
    BY <2>2, <2>6 DEF Settled
  <2>9. ASSUME NEW u \in Settled(r), NEW x \in Contents PROVE <<u[1], u[2], x>> \in texts <=> x = rows[u].read
    <3>1. CASE c.texts = NoTexts
      <4>1. u \in Units /\ rows[u] # NoRow
        BY <2>8 DEF SegmentsOf
      <4> QED
        BY <3>1, <4>1, <2>3, <2>4, <2>8, <1>t, TriplesOf
    <3>2. CASE c.texts # NoTexts
      BY <3>2, <2>2, <2>4, <2>8 DEF GoodState
    <3> QED
      BY <3>1, <3>2
  <2>10. GoodState(r)
    BY <2>2, <2>6, <2>8, <2>9 DEF GoodState
  <2>11. retrieval' = r /\ UNCHANGED <<manifests, gens, rows, coverage, batches, media>>
    BY <1>8, <2>1, <2>7 DEF StartQuery
  <2>12. searches' \in [Searchers -> SearchCalls \cup {NotSearching}]
    <3>1. [kind |-> "query", gens |-> Active] \in SearchCalls
      BY <1>t DEF SearchCalls, Active, SearchTypes
    <3>2. searches' = [Detached(r) EXCEPT ![s] = [kind |-> "query", gens |-> Active]]
      BY <1>8, <2>1, <2>7 DEF StartQuery
    <3> QED
      BY <3>1, <3>2, Detaching
  <2> QED
    BY <2>10, <2>11, <2>12, TablesKept
<1>9. ASSUME NEW c, GoodState(c), NEW ks, NEW segs \in SUBSET Units PROVE GoodState(WithIndexes(c, ks, segs))
  <2> DEFINE vectors == [k \in DOMAIN gens |-> IF k \in ks /\ c.vectors[k] = NoIndex
                                               THEN VectorsOf(k, segs) ELSE c.vectors[k]]
             r == [c EXCEPT !.vectors = vectors]
  <2>1. c \in RetrievalStates /\ DOMAIN gens = GenKeys
    BY <1>9, <1>t DEF GoodState, SearchTypes
  <2>2. \A k \in GenKeys : VectorsOf(k, segs) \in SUBSET Triples
    BY <1>t, TriplesOf
  <2>3. vectors \in [GenKeys -> (SUBSET Triples) \cup {NoIndex}]
    BY <2>1, <2>2 DEF RetrievalStates
  <2>4. WithIndexes(c, ks, segs) = r
    BY DEF WithIndexes
  <2> HIDE DEF vectors
  <2>5. /\ r \in RetrievalStates /\ r.key = c.key /\ r.segs = c.segs /\ r.texts = c.texts
        /\ r.pending = c.pending /\ r.fresh = c.fresh
    BY <2>1, <2>3 DEF RetrievalStates
  <2> HIDE DEF r
  <2>6. Settled(r) = Settled(c)
    BY <2>5 DEF Settled
  <2> QED
    BY <2>4, <2>5, <2>6, <1>9 DEF GoodState
<1>10. ASSUME NEW s \in Searchers, FinishQuery(s) PROVE SearchInv'
  <2>1. PICK c : c = Retrieved(TRUE)
    OBVIOUS
  <2>2. GoodState(c) /\ c.segs \in SUBSET Units
    BY <2>1, Retrieving DEF GoodState, RetrievalStates
  <2>3. PICK r : r = WithIndexes(c, searches[s].gens, c.segs)
    OBVIOUS
  <2>4. GoodState(r)
    BY <2>2, <2>3, <1>9
  <2>5. retrieval' = r /\ UNCHANGED <<manifests, gens, rows, coverage, batches, media>>
    BY <1>10, <2>1, <2>3 DEF FinishQuery
  <2>6. searches' \in [Searchers -> SearchCalls \cup {NotSearching}]
    <3>1. searches' = [Detached(c) EXCEPT ![s] = NotSearching]
      BY <1>10, <2>1 DEF FinishQuery
    <3> QED
      BY <3>1, Detaching
  <2> QED
    BY <2>4, <2>5, <2>6, TablesKept
<1>11. ASSUME NEW s \in Searchers, StartPrepare(s) PROVE SearchInv'
  <2>1. PICK c : c = Retrieved(FALSE)
    OBVIOUS
  <2>2. GoodState(c)
    BY <2>1, Retrieving
  <2>3. retrieval' = c /\ UNCHANGED <<manifests, gens, rows, coverage, batches, media>>
    BY <1>11, <2>1 DEF StartPrepare
  <2>4. searches' \in [Searchers -> SearchCalls \cup {NotSearching}]
    <3>1. [kind |-> "prepare", todo |-> Active, held |-> "cached"] \in SearchCalls
      BY <1>t DEF SearchCalls, Active, SearchTypes
    <3>2. searches' = [Detached(c) EXCEPT ![s] = [kind |-> "prepare", todo |-> Active, held |-> "cached"]]
      BY <1>11, <2>1 DEF StartPrepare
    <3> QED
      BY <3>1, <3>2, Detaching
  <2> QED
    BY <2>2, <2>3, <2>4, TablesKept
<1>12. ASSUME NEW s \in Searchers, NEW k, PrepareNext(s, k) PROVE SearchInv'
  <2> DEFINE call == searches[s]
             left == call.todo \ {k}
  <2>1. call.kind = "prepare" /\ call # NotSearching
    BY <1>12 DEF PrepareNext, NotSearching
  <2>2. GoodState(retrieval) /\ retrieval.segs \in SUBSET Units
    BY <2>1, <1>t DEF GoodState, RetrievalStates
  <2>3. call \in [kind : {"prepare"}, todo : SUBSET GenKeys, held : {"cached"} \cup (SUBSET Units)]
    BY <2>1, <1>t DEF SearchTypes, SearchCalls
  <2>4. PICK segs \in SUBSET Units : segs = IF call.held = "cached" THEN retrieval.segs ELSE call.held
    BY <2>2, <2>3
  <2>5. PICK r : r = WithIndexes(retrieval, {k}, segs)
    OBVIOUS
  <2>6. GoodState(r)
    BY <2>2, <2>5, <1>9
  <2>7. retrieval' = r /\ UNCHANGED <<manifests, gens, rows, coverage, batches, media>>
    BY <1>12, <2>4, <2>5 DEF PrepareNext
  <2>8. searches' \in [Searchers -> SearchCalls \cup {NotSearching}]
    <3>1. [call EXCEPT !.todo = left] \in SearchCalls
      BY <2>3 DEF SearchCalls
    <3>2. searches' = [searches EXCEPT ![s] = IF left = {} THEN NotSearching ELSE [call EXCEPT !.todo = left]]
      BY <1>12 DEF PrepareNext
    <3> QED
      BY <3>1, <3>2, <1>t DEF SearchTypes
  <2> QED
    BY <2>6, <2>7, <2>8, TablesKept
<1>13. CASE UNCHANGED searchVars
  BY <1>13, <1>t, <1>u DEF searchVars, SearchTypes, OneActive, Active
<1> QED
  BY <1>1, <1>2, <1>3, <1>4, <1>5, <1>6, <1>7, <1>8, <1>10, <1>11, <1>12, <1>13 DEF SearchNext

(* The cache, the tables and the calls agree in every state.               *)
LEMMA SearchInvariant == SearchSpec => []SearchInv
<1>1. SearchInit => SearchInv
  <2> SUFFICES ASSUME SearchInit PROVE SearchInv
    OBVIOUS
  <2>1. Unbuilt \in [manifest : Manifests \cup {"none"}, state : GenStates] /\ Unbuilt.state = "none"
    BY DEF Unbuilt, GenStates
  <2>2. SearchTypes
    BY <2>1 DEF SearchInit, SearchTypes, GenKeys
  <2>3. OneActive
    BY <2>1 DEF SearchInit, OneActive, Active
  <2>4. BatchesAreStored /\ RowsHaveMedia /\ retrieval = NoState /\ \A s \in Searchers : searches[s] = NotSearching
    BY DEF SearchInit, BatchesAreStored, RowsHaveMedia
  <2> QED
    BY <2>2, <2>3, <2>4 DEF SearchInv
<1> QED
  BY <1>1, SearchStep, PTL DEF SearchSpec

(* schema.ts:968, temporal-search.ts:442, temporal-search.ts:556: a space  *)
(* has one active generation, a batch that is answered as committed has    *)
(* its segment, and the cache, once up to date, has every segment of the   *)
(* active generations with its text of now and none of an artifact that is *)
(* gone, whatever was committed, replaced, deleted or cleaned up between.  *)
THEOREM SearchServing == SearchSpec => [](SearchTypeOK /\ BatchesAreStored /\ MetadataComplete)
<1>1. SearchInv => SearchTypeOK /\ BatchesAreStored /\ MetadataComplete
  <2> SUFFICES ASSUME SearchInv PROVE SearchTypeOK /\ BatchesAreStored /\ MetadataComplete
    OBVIOUS
  <2>1. SearchTypeOK /\ BatchesAreStored
    BY DEF SearchInv, SearchTypes, SearchTypeOK, GenKeys, GenStates, SegmentRows, OneActive
  <2> DEFINE c == Retrieved(TRUE)
             now == SegmentsOf(NamesOf(ActiveKey))
  <2>2. GoodState(c) /\ c.key = ActiveKey /\ c.pending = {} /\ c.fresh
    BY Retrieving
  <2> HIDE DEF c
  <2>3. Settled(c) = now /\ now \in SUBSET Units /\ \A u \in now : rows[u] # NoRow
    BY <2>2 DEF Settled, SegmentsOf
  <2>4. now \subseteq c.segs /\ \A u \in c.segs : media[u[2]] # "gone"
    BY <2>2, <2>3 DEF GoodState
  <2>5. ASSUME c.texts # NoTexts PROVE In(now, c.texts) = TextsOf(now)
    <3>0. c.texts \in SUBSET Triples /\ TextsOf(now) \in SUBSET Triples /\ SearchTypes
      BY <2>2, <2>3, <2>5, TriplesOf DEF GoodState, RetrievalStates, SearchInv
    <3>1. ASSUME NEW e \in Triples PROVE e \in In(now, c.texts) <=> e \in TextsOf(now)
      <4>1. PICK u \in Units, x \in Contents : e = <<u[1], u[2], x>> /\ u = <<e[1], e[2]>>
        <5>1. e = <<e[1], e[2], e[3]>> /\ <<e[1], e[2]>> \in Units /\ e[3] \in Contents
          BY DEF Triples, Units
        <5> QED
          BY <5>1
      <4>2. e \in TextsOf(now) <=> u \in now /\ x = rows[u].read
        BY <4>1, <3>0, <2>3, TriplesOf
      <4>3. u \in now => (e \in c.texts <=> x = rows[u].read)
        BY <4>1, <2>2, <2>3, <2>5 DEF GoodState
      <4>4. e \in In(now, c.texts) <=> e \in c.texts /\ u \in now
        BY <4>1 DEF In
      <4> QED
        BY <4>2, <4>3, <4>4
    <3>2. In(now, c.texts) \subseteq Triples
      BY <3>0 DEF In
    <3> QED
      BY <3>0, <3>1, <3>2
  <2>6. MetadataComplete
    BY <2>4, <2>5 DEF MetadataComplete, c
  <2> QED
    BY <2>1, <2>6
<1> QED
  BY <1>1, SearchInvariant, PTL

(* What a manifest's name is used for: one embedding space.                *)
NamesAreOfOneSpace == \A g \in GenNames : \A m, n \in NamedBy[g] : SpaceOf[m] = SpaceOf[n]

(* A generation is bound to a manifest that uses its name, in the space of *)
(* that manifest.                                                          *)
GensAreBound ==
  \A k \in GenKeys : gens[k].manifest # "none" =>
    gens[k].manifest \in NamedBy[k[2]] /\ SpaceOf[gens[k].manifest] = k[1]

(* What a step may do to the generations.                                  *)
LEMMA GenerationSteps ==
  ASSUME SearchInv, [SearchNext]_searchVars
  PROVE  \/ gens' = gens
         \/ \E m \in Manifests, g \in GenNames : Activate(m, g)
         \/ \E m \in Manifests, g \in GenNames :
              /\ m \in NamedBy[g] /\ gens[<<SpaceOf[m], g>>] = Unbuilt
              /\ gens' = [gens EXCEPT ![<<SpaceOf[m], g>>] = [manifest |-> m, state |-> "building"]]
         \/ gens' = [k \in GenKeys |-> IF k[2] \in RetiredNames THEN Unbuilt ELSE gens[k]]
<1>1. ASSUME NEW m \in Manifests, NEW g \in GenNames, NEW a \in Sources, NEW complete \in BOOLEAN,
             CommitBatch(m, g, a, complete)
      PROVE  \/ gens' = gens
             \/ /\ m \in NamedBy[g] /\ gens[<<SpaceOf[m], g>>] = Unbuilt
                /\ gens' = [gens EXCEPT ![<<SpaceOf[m], g>>] = [manifest |-> m, state |-> "building"]]
  BY <1>1, Zenon DEF CommitBatch
<1>2. CASE CleanupRetired
  BY <1>2 DEF CleanupRetired, SearchInv, SearchTypes
<1>3. ASSUME NEW m \in Manifests, RegisterManifest(m) PROVE gens' = gens
  BY <1>3 DEF RegisterManifest
<1>4. ASSUME NEW a \in Sources, Invalidate(a) \/ DeleteMedia(a) \/ \E o \in Contents : ReplaceMedia(a, o)
      PROVE  gens' = gens
  BY <1>4 DEF Invalidate, DeleteMedia, ReplaceMedia
<1>5. ASSUME NEW s \in Searchers,
             StartQuery(s) \/ FinishQuery(s) \/ StartPrepare(s) \/ \E k \in DOMAIN gens : PrepareNext(s, k)
      PROVE  gens' = gens
  BY <1>5 DEF StartQuery, FinishQuery, StartPrepare, PrepareNext
<1>6. ASSUME UNCHANGED searchVars PROVE gens' = gens
  BY <1>6 DEF searchVars
<1> DEFINE Begins(m, g) == /\ m \in NamedBy[g] /\ gens[<<SpaceOf[m], g>>] = Unbuilt
                           /\ gens' = [gens EXCEPT ![<<SpaceOf[m], g>>] = [manifest |-> m, state |-> "building"]]
<1>7. ASSUME NEW m \in Manifests, NEW g \in GenNames,
             Activate(m, g) \/ \E a \in Sources, complete \in BOOLEAN : CommitBatch(m, g, a, complete)
      PROVE  gens' = gens \/ Activate(m, g) \/ Begins(m, g)
  BY <1>1, <1>7, Zenon
<1> HIDE DEF Begins
<1> DEFINE Goal == \/ gens' = gens
                   \/ \E m \in Manifests, g \in GenNames : Activate(m, g)
                   \/ \E m \in Manifests, g \in GenNames : Begins(m, g)
                   \/ CleanupRetired
<1>8. ASSUME NEW m \in Manifests, NEW g \in GenNames,
             Activate(m, g) \/ \E a \in Sources, complete \in BOOLEAN : CommitBatch(m, g, a, complete)
      PROVE  Goal
  BY <1>7, <1>8, Zenon
<1>9. gens' = gens => Goal
  OBVIOUS
<1>10. CleanupRetired => Goal
  OBVIOUS
<1> HIDE DEF Goal
<1>11. ASSUME SearchNext PROVE Goal
  BY <1>3, <1>4, <1>5, <1>8, <1>9, <1>10, <1>11, Zenon DEF SearchNext
<1>12. Goal
  BY <1>6, <1>9, <1>11
<1> QED
  BY <1>2, <1>12, Zenon DEF Begins, Goal

LEMMA GensStayBound == SearchInv /\ GensAreBound /\ [SearchNext]_searchVars => GensAreBound'
<1> SUFFICES ASSUME SearchInv, GensAreBound, [SearchNext]_searchVars, NEW k \in GenKeys, gens'[k].manifest # "none"
             PROVE  gens'[k].manifest \in NamedBy[k[2]] /\ SpaceOf[gens'[k].manifest] = k[1]
  BY DEF GensAreBound
<1>t. gens \in [GenKeys -> [manifest : Manifests \cup {"none"}, state : GenStates]]
  BY DEF SearchInv, SearchTypes
<1>1. CASE gens' = gens
  BY <1>1 DEF GensAreBound
<1>2. ASSUME NEW m \in Manifests, NEW g \in GenNames, Activate(m, g)
      PROVE  gens'[k].manifest \in NamedBy[k[2]] /\ SpaceOf[gens'[k].manifest] = k[1]
  <2> DEFINE h == <<SpaceOf[m], g>>
  <2>1. /\ gens[h].manifest = m /\ h \in GenKeys
        /\ gens' = [j \in GenKeys |->
                     IF j = h THEN [gens[j] EXCEPT !.state = "active"]
                     ELSE IF j \in Superseded(m, g) THEN [gens[j] EXCEPT !.state = "retired"] ELSE gens[j]]
    BY <1>2, <1>t DEF Activate, GenKeys, Spaces
  <2>2. gens'[k] = gens[k] \/ gens'[k] = [gens[k] EXCEPT !.state = "active"]
                           \/ gens'[k] = [gens[k] EXCEPT !.state = "retired"]
    BY <2>1
  <2>3. gens'[k].manifest = gens[k].manifest
    BY <2>2, <1>t
  <2> QED
    BY <2>3 DEF GensAreBound
<1>3. ASSUME NEW m \in Manifests, NEW g \in GenNames, m \in NamedBy[g],
             gens' = [gens EXCEPT ![<<SpaceOf[m], g>>] = [manifest |-> m, state |-> "building"]]
      PROVE  gens'[k].manifest \in NamedBy[k[2]] /\ SpaceOf[gens'[k].manifest] = k[1]
  BY <1>3, <1>t DEF GensAreBound
<1>4. CASE gens' = [j \in GenKeys |-> IF j[2] \in RetiredNames THEN Unbuilt ELSE gens[j]]
  BY <1>4 DEF GensAreBound, Unbuilt
<1> QED
  BY <1>1, <1>2, <1>3, <1>4, GenerationSteps

(* Where a name is used in one space, an active generation ends only as    *)
(* another one of its space is activated.                                  *)
LEMMA ActiveStep ==
  ASSUME NamesAreOfOneSpace, SearchInv, GensAreBound, [SearchNext]_searchVars,
         NEW k \in Active, gens'[k].state # "active"
  PROVE  \E m \in Manifests, g \in GenNames : SpaceOf[m] = k[1] /\ Activate(m, g)
<1>t. gens \in [GenKeys -> [manifest : Manifests \cup {"none"}, state : GenStates]]
  BY DEF SearchInv, SearchTypes
<1>0. k \in GenKeys /\ gens[k].state = "active" /\ k = <<k[1], k[2]>>
  BY <1>t DEF Active, GenKeys
<1>1. CASE gens' = gens
  BY <1>0, <1>1
<1>2. ASSUME NEW m \in Manifests, NEW g \in GenNames, Activate(m, g) PROVE SpaceOf[m] = k[1]
  <2>1. gens' = [j \in GenKeys |->
                  IF j = <<SpaceOf[m], g>> THEN [gens[j] EXCEPT !.state = "active"]
                  ELSE IF j \in Superseded(m, g) THEN [gens[j] EXCEPT !.state = "retired"] ELSE gens[j]]
    BY <1>2, <1>t DEF Activate
  <2>2. CASE k = <<SpaceOf[m], g>>
    BY <2>2
  <2>3. CASE k # <<SpaceOf[m], g>>
    BY <2>1, <2>3, <1>0 DEF Superseded
  <2> QED
    BY <2>2, <2>3
<1>3. ASSUME NEW m \in Manifests, NEW g \in GenNames, gens[<<SpaceOf[m], g>>] = Unbuilt,
             gens' = [gens EXCEPT ![<<SpaceOf[m], g>>] = [manifest |-> m, state |-> "building"]]
      PROVE  FALSE
  <2>1. k # <<SpaceOf[m], g>>
    BY <1>0, <1>3 DEF Unbuilt
  <2> QED
    BY <2>1, <1>0, <1>3, <1>t
<1>4. CASE gens' = [j \in GenKeys |-> IF j[2] \in RetiredNames THEN Unbuilt ELSE gens[j]]
  <2>1. k[2] \in RetiredNames
    BY <1>0, <1>4
  <2>2. PICK h \in GenKeys : gens[h].state = "retired" /\ h[2] = k[2]
    BY <2>1, <1>t DEF RetiredNames
  <2>3. gens[h].manifest # "none" /\ gens[k].manifest # "none"
    BY <2>2, <1>0, SearchAssumption DEF SearchInv, SearchTypes
  <2>4. k[2] \in GenNames /\ h = <<h[1], h[2]>>
    BY <1>0 DEF GenKeys
  <2>5. h[1] = k[1]
    BY <1>0, <2>2, <2>3, <2>4 DEF GensAreBound, NamesAreOfOneSpace
  <2>6. h = k
    BY <1>0, <2>2, <2>4, <2>5
  <2> QED
    BY <1>0, <2>2, <2>6
<1> QED
  BY <1>1, <1>2, <1>3, <1>4, GenerationSteps

(* temporal-search.ts:871, mvp-prd.md:615: with the theorem above, also    *)
(* that search keeps what it has active until a generation of the same     *)
(* space replaces it.  Cleaning up goes by the names of generations, so    *)
(* this needs that no name is used in two spaces.                          *)
THEOREM SearchCurrency ==
  ASSUME NamesAreOfOneSpace
  PROVE  SearchSpec => SearchIsCurrent
<1>1. SearchInit => GensAreBound
  <2>1. Unbuilt.manifest = "none"
    BY DEF Unbuilt
  <2> QED
    BY <2>1 DEF SearchInit, GensAreBound, GenKeys
<1>2. SearchSpec => []GensAreBound
  BY <1>1, SearchInvariant, GensStayBound, PTL DEF SearchSpec
<1>3. SearchInv /\ GensAreBound /\ [SearchNext]_searchVars =>
        \A k \in Active :
          gens'[k].state # "active" => \E m \in Manifests, g \in GenNames : SpaceOf[m] = k[1] /\ Activate(m, g)
  BY ActiveStep
<1>4. SearchSpec => ActiveStays
  BY <1>2, <1>3, SearchInvariant, PTL DEF SearchSpec, ActiveStays
<1> QED
  BY <1>4, SearchServing, PTL DEF SearchIsCurrent

================================================================================
