------------------------------ MODULE VectorIndex ------------------------------
(* One native vector index of a generation and its snapshot on disk             *)
(* (src/temporal-vector-index.ts, src/temporal-index-cache.ts).  The vectors of *)
(* the keys are kept in memory; the native graph is prepared from them in turns *)
(* of the event loop, between which keys are set and deleted.                   *)
EXTENDS Naturals, FiniteSets

CONSTANTS VecKeys, Digests,   \* segments, and the digests that their vectors may have
          DirectLimit,        \* DIRECT_VECTOR_LIMIT: fewer vectors are compared directly
          CheckpointChanges,  \* CHECKPOINT_CHANGES
          MaxVecChanges       \* bound on set and delete

ASSUME VectorAssumption ==
  /\ {DirectLimit, CheckpointChanges, MaxVecChanges} \subseteq Nat /\ CheckpointChanges > 0
  /\ VecKeys # {} /\ "no index" \notin Digests

VARIABLES entries,     \* [key -> digest of its vector, or NoVector]
          native,      \* nativeEntries where the native index is there, else NoGraph
          unsaved,     \* changesSinceCheckpoint, counted up to CheckpointChanges
          preparing,   \* the prepare task, or NotPreparing
          disposed, aborted,
          snapshot,    \* the metadata on disk, or NoSnapshotFile
          graphs,      \* graph files on disk, named for their content
          saving,      \* the step of saveTemporalIndexSnapshot, or NotSaving
          vecChanges

vectorVars == <<entries, native, unsaved, preparing, disposed, aborted, snapshot, graphs, saving, vecChanges>>

NoVector == "absent"
Vectors == [VecKeys -> Digests \cup {NoVector}]
NoVectors == [k \in VecKeys |-> NoVector]
NoGraph == [k \in VecKeys |-> "no index"]
NoSnapshotFile == NoGraph
NotPreparing == [built |-> NoGraph]
NotSaving == [step |-> "none"]
Keyed(v) == {k \in VecKeys : v[k] # NoVector}

VectorInit ==
  /\ entries = NoVectors /\ native = NoGraph /\ unsaved = 0 /\ preparing = NotPreparing
  /\ disposed = FALSE /\ aborted = FALSE
  /\ snapshot = NoSnapshotFile /\ graphs = {} /\ saving = NotSaving /\ vecChanges = 0

IndexIdle == saving = NotSaving
Touched == IF preparing = NotPreparing THEN preparing ELSE [preparing EXCEPT !.moved = TRUE]
CountedChange == IF unsaved < CheckpointChanges THEN unsaved + 1 ELSE unsaved

SetVector(k, d) ==
  /\ IndexIdle /\ ~disposed /\ vecChanges < MaxVecChanges
  /\ entries' = [entries EXCEPT ![k] = d]
  /\ native' = IF native = NoGraph THEN native ELSE [native EXCEPT ![k] = d]
  /\ unsaved' = CountedChange /\ preparing' = Touched /\ vecChanges' = vecChanges + 1
  /\ UNCHANGED <<disposed, aborted, snapshot, graphs, saving>>

(* The native slot stays; queries skip the keys that are not in the entries.   *)
DeleteVector(k) ==
  /\ IndexIdle /\ ~disposed /\ entries[k] # NoVector /\ vecChanges < MaxVecChanges
  /\ entries' = [entries EXCEPT ![k] = NoVector]
  /\ unsaved' = CountedChange /\ preparing' = Touched /\ vecChanges' = vecChanges + 1
  /\ UNCHANGED <<native, disposed, aborted, snapshot, graphs, saving>>

--------------------------------------------------------------------------------
(* loadSnapshot: only a snapshot whose graph is there.                         *)
Loaded == IF snapshot # NoSnapshotFile /\ snapshot \in graphs THEN snapshot ELSE NoGraph
NeedsCompaction(v) == Cardinality({k \in Keyed(v) : entries[k] = NoVector}) * 4 > Cardinality(Keyed(v))

(* checkpoint, and the steps of saveTemporalIndexSnapshot: the graph, then the *)
(* metadata that names it, then the graph it replaces.                         *)
Replaced(prior, graph) == prior # graph
Checkpoint(v, changes, periodic) ==
  IF v = NoGraph \/ changes = 0 \/ (periodic /\ changes < CheckpointChanges)
  THEN saving' = NotSaving /\ unsaved' = changes
  ELSE saving' = [step |-> "graph", graph |-> v, prior |-> snapshot] /\ unsaved' = changes

SaveStep ==
  /\ \/ /\ saving.step = "graph" /\ graphs' = graphs \cup {saving.graph}
        /\ saving' = [saving EXCEPT !.step = "metadata"] /\ UNCHANGED <<snapshot, unsaved>>
     \/ /\ saving.step = "metadata" /\ snapshot' = saving.graph
        /\ saving' = [saving EXCEPT !.step = "prior"] /\ UNCHANGED <<graphs, unsaved>>
     \/ /\ saving.step = "prior"
        /\ graphs' = IF Replaced(saving.prior, saving.graph) THEN graphs \ {saving.prior} ELSE graphs
        /\ saving' = NotSaving /\ unsaved' = 0 /\ UNCHANGED snapshot
  /\ UNCHANGED <<entries, native, preparing, disposed, aborted, vecChanges>>

SaveFails ==
  /\ saving.step \in {"graph", "metadata"} /\ saving' = NotSaving
  /\ UNCHANGED <<entries, native, unsaved, preparing, disposed, aborted, snapshot, graphs, vecChanges>>

--------------------------------------------------------------------------------
(* prepare: nothing to do for few vectors or a compact index; else a pass over *)
(* the entries, starting from the snapshot where that is compact.              *)
StartPrepareVectors(periodic) ==
  /\ IndexIdle /\ preparing = NotPreparing /\ ~disposed
  /\ aborted' = FALSE
  /\ IF native = NoGraph /\ Cardinality(Keyed(entries)) <= DirectLimit
     THEN UNCHANGED <<preparing, saving, unsaved>>
     ELSE IF native # NoGraph /\ ~NeedsCompaction(native)
     THEN Checkpoint(native, unsaved, periodic) /\ UNCHANGED preparing
     ELSE LET v == IF native = NoGraph /\ Loaded # NoGraph /\ ~NeedsCompaction(Loaded) THEN Loaded ELSE NoGraph IN
          /\ preparing' = [built |-> IF v = NoGraph THEN NoVectors ELSE v, loaded |-> v # NoGraph,
                           pass |-> entries, moved |-> FALSE, updated |-> FALSE, periodic |-> periodic]
          /\ UNCHANGED <<saving, unsaved>>
  /\ UNCHANGED <<entries, native, disposed, snapshot, graphs, vecChanges>>

Remaining == {k \in Keyed(preparing.pass) : preparing.built[k] # preparing.pass[k]}
PrepareCancelled(d) == aborted \/ d

AddNative(k) ==
  /\ IndexIdle /\ preparing # NotPreparing /\ k \in Remaining
  /\ preparing' = IF PrepareCancelled(disposed) THEN NotPreparing
                  ELSE [preparing EXCEPT !.built[k] = preparing.pass[k], !.updated = TRUE]
  /\ UNCHANGED <<entries, native, unsaved, disposed, aborted, snapshot, graphs, saving, vecChanges>>

(* A pass during which the entries moved is followed by another.               *)
MutantOnePass(task) == TRUE
PassSettled(task) == ~task.moved
EndPass ==
  /\ IndexIdle /\ preparing # NotPreparing /\ Remaining = {}
  /\ IF PrepareCancelled(disposed) THEN preparing' = NotPreparing /\ UNCHANGED <<native, unsaved, saving>>
     ELSE IF ~PassSettled(preparing)
     THEN /\ preparing' = [preparing EXCEPT !.pass = entries, !.moved = FALSE]
          /\ UNCHANGED <<native, unsaved, saving>>
     ELSE /\ native' = preparing.built /\ preparing' = NotPreparing
          /\ Checkpoint(preparing.built, IF preparing.updated \/ ~preparing.loaded THEN 1 ELSE 0,
                        preparing.loaded /\ preparing.periodic)
  /\ UNCHANGED <<entries, disposed, aborted, snapshot, graphs, vecChanges>>

(* readyIndex: a query takes the snapshot as it is where it has every entry.   *)
QueryLoads ==
  /\ IndexIdle /\ ~disposed /\ native = NoGraph /\ preparing = NotPreparing
  /\ Cardinality(Keyed(entries)) > DirectLimit
  /\ Loaded # NoGraph /\ \A k \in Keyed(entries) : Loaded[k] = entries[k]
  /\ native' = Loaded /\ unsaved' = 0
  /\ UNCHANGED <<entries, preparing, disposed, aborted, snapshot, graphs, saving, vecChanges>>

Abort ==
  /\ IndexIdle /\ preparing # NotPreparing /\ ~aborted /\ aborted' = TRUE
  /\ UNCHANGED <<entries, native, unsaved, preparing, disposed, snapshot, graphs, saving, vecChanges>>

Dispose ==
  /\ IndexIdle /\ ~disposed /\ disposed' = TRUE
  /\ Checkpoint(native, unsaved, FALSE)
  /\ native' = NoGraph /\ entries' = NoVectors
  /\ UNCHANGED <<preparing, aborted, snapshot, graphs, vecChanges>>

(* A fresh index of the same identity, after a dispose or a crash.             *)
Renew ==
  /\ disposed \/ saving # NotSaving \/ preparing # NotPreparing
  /\ disposed => preparing = NotPreparing /\ IndexIdle
  /\ entries' = NoVectors /\ native' = NoGraph /\ unsaved' = 0 /\ preparing' = NotPreparing
  /\ disposed' = FALSE /\ aborted' = FALSE /\ saving' = NotSaving
  /\ UNCHANGED <<snapshot, graphs, vecChanges>>

VectorNext ==
  \/ \E k \in VecKeys : AddNative(k) \/ DeleteVector(k) \/ \E d \in Digests : SetVector(k, d)
  \/ \E periodic \in BOOLEAN : StartPrepareVectors(periodic)
  \/ EndPass \/ QueryLoads \/ Abort \/ Dispose \/ Renew \/ SaveStep \/ SaveFails
VectorSpec == VectorInit /\ [][VectorNext]_vectorVars

--------------------------------------------------------------------------------
(* Types.                                                                      *)
VectorTypeOK ==
  /\ entries \in Vectors /\ native \in Vectors \cup {NoGraph} /\ unsaved \in 0..CheckpointChanges
  /\ graphs \subseteq Vectors /\ snapshot \in Vectors \cup {NoSnapshotFile}

(* temporal-vector-index.ts:171: a native index that answers queries holds the *)
(* current vector of every entry, whatever was set while it was prepared.      *)
NativeServesAll == native # NoGraph => \A k \in Keyed(entries) : native[k] = entries[k]

(* temporal-index-cache.ts:57: the metadata on disk names a graph that is      *)
(* there, after a crash at any step of a save.                                 *)
SnapshotLoads == snapshot # NoSnapshotFile => snapshot \in graphs

(* temporal-vector-index.ts:200: a prepare that ends after its index was       *)
(* disposed installs nothing.                                                  *)
DisposedStaysEmpty == disposed => native = NoGraph

(* Native index, entries and snapshot agree, and a disposed index stays so.    *)
VectorsAreServed == NativeServesAll /\ SnapshotLoads /\ DisposedStaysEmpty
================================================================================
