----------------------------- MODULE CatalogClose -------------------------------
(* The catalog file between sessions (src/catalog-close.ts, close and          *)
(* gcCatalog of src/store.ts): how a connection is closed so that nothing      *)
(* writes to the file afterwards, and the record that says the file was        *)
(* compacted and not written since (src/catalog-gc-state.ts).                  *)
(* The native database is external: each commit appends to its file, one that  *)
(* adds no chunks a bare root.  A connection whose close comes after such an   *)
(* append owes the file a marker; a live statement defers that close until it  *)
(* is collected.  A newcomer takes a bare root for a marker.                   *)
EXTENDS Integers

CONSTANTS MaxCatalogWrites,  \* bound: changes of the file after which no write begins
          MaxMishaps         \* bound: kills, failed opens and failed closes

ASSUME CloseAssumption == MaxCatalogWrites \in Nat /\ MaxMishaps \in Nat

VARIABLES catalog,    \* the file: a stamp per change, its size and last entry
          record,     \* the stamp in the compaction record, or NoRecord
          session,    \* the open connection and the step it is at
          lingering,  \* for each deferred close, whether it owes a marker
          mishaps
closeVars == <<catalog, record, session, lingering, mishaps>>

NoRecord == -1
NoSession == [step |-> "closed"]
Appended(kind) == [catalog EXCEPT !.stamp = @ + 1, !.size = @ + 1, !.tail = kind]
MarkedBy(owes) == IF owes THEN Appended("marker") ELSE catalog
RecordValid == record = catalog.stamp
At(step) == session' = [session EXCEPT !.step = step]

(* since, quiet: what the properties ask about.  since: who committed since    *)
(* the last collection, a transaction of the store, a statement that completes *)
(* the schema, or the row of a close.  quiet: nothing was asked to be written  *)
(* since a clean and complete catalog with a valid record was opened.  lacks:  *)
(* the catalog is of an engine that had fewer runtime tables or patterns.      *)
Commits == {"write", "schema", "row"}
Committed(kind, what) == [Appended(kind) EXCEPT !.since = @ \cup {what}]
CloseInit ==
  /\ \E lacks \in BOOLEAN :
       catalog = [stamp |-> 0, size |-> 1, tail |-> "marker", since |-> {}, lacks |-> lacks]
  /\ record = NoRecord /\ session = NoSession /\ lingering = {} /\ mishaps = 0

(* The constructor runs up to FinishOpen: it may collect before anything else, *)
(* then completes the schema by statements that commit on their own and leave  *)
(* the record alone, migrates and recovers by transactions, or fails.          *)
OpenCatalog ==
  /\ session = NoSession
  /\ session' = [step |-> "open", constructed |-> FALSE, owes |-> catalog.tail = "chunks",
                 compacted |-> RecordValid, marked |-> catalog.size, wrote |-> FALSE,
                 counted |-> FALSE, opened |-> catalog.stamp,
                 quiet |-> /\ RecordValid /\ catalog.tail # "chunks" /\ ~catalog.lacks
                           /\ TRUE \notin lingering]
  /\ UNCHANGED <<catalog, record, lingering, mishaps>>
CompleteSchema ==
  /\ session.step = "open" /\ ~session.constructed
  /\ catalog.lacks /\ catalog.stamp < MaxCatalogWrites
  /\ \E lacks \in BOOLEAN : catalog' = [Committed("chunks", "schema") EXCEPT !.lacks = lacks]
  /\ session' = [session EXCEPT !.owes = TRUE]
  /\ UNCHANGED <<record, lingering, mishaps>>
FinishOpen ==
  /\ session.step = "open" /\ ~session.constructed /\ ~catalog.lacks
  /\ session' = [session EXCEPT !.constructed = TRUE]
  /\ UNCHANGED <<catalog, record, lingering, mishaps>>
(* Its close is not told that something was written.                           *)
FailOpen ==
  /\ session.step = "open" /\ ~session.constructed /\ mishaps < MaxMishaps
  /\ session' = [session EXCEPT !.step = "peer", !.wrote = FALSE]
  /\ mishaps' = mishaps + 1
  /\ UNCHANGED <<catalog, record, lingering>>

(* Removing the record is best effort.                                         *)
Invalidated == IF session.compacted THEN {NoRecord, record} ELSE {record}
MutantStaysCompacted == session.compacted
StillCompacted == FALSE
BeginWrite ==
  /\ session.step = "open" /\ catalog.stamp < MaxCatalogWrites
  /\ record' \in Invalidated
  /\ session' = [session EXCEPT !.step = "writing", !.compacted = StillCompacted, !.quiet = FALSE]
  /\ UNCHANGED <<catalog, lingering, mishaps>>
(* Transactions of the store and the two statements that invalidate the record *)
(* themselves, of the schema version and of a remote, which are not counted.   *)
CommitCatalogWrite(kind, counts) ==
  /\ session.step = "writing"
  /\ catalog' = Committed(kind, "write")
  /\ session' = [session EXCEPT !.step = "open", !.owes = TRUE, !.counted = @ \/ counts]
  /\ UNCHANGED <<record, lingering, mishaps>>
Rollback ==
  /\ session.step = "writing" /\ At("open")
  /\ UNCHANGED <<catalog, record, lingering, mishaps>>

(* gcCatalog: the file is rewritten without its log, or nothing is removed, or *)
(* the call throws.                                                            *)
Collected(s, rewrites) ==
  [s EXCEPT !.compacted = TRUE, !.counted = FALSE, !.quiet = FALSE,
            !.owes = @ /\ ~rewrites, !.marked = IF rewrites THEN 0 ELSE @]
Compacted(rewrites) ==
  IF rewrites THEN [catalog EXCEPT !.stamp = @ + 1, !.size = 0, !.tail = "clean", !.since = {}]
              ELSE [catalog EXCEPT !.since = {}]
NothingDone == ~session.compacted /\ catalog.stamp = session.opened
CollectCatalog(rewrites) ==
  /\ session.step = "open" /\ (session.constructed \/ NothingDone)
  /\ (rewrites => catalog.size > 0 /\ catalog.stamp < MaxCatalogWrites)
  /\ record' \in Invalidated
  /\ catalog' = Compacted(rewrites) /\ session' = Collected(session, rewrites)
  /\ UNCHANGED <<lingering, mishaps>>
CollectFails ==
  /\ session.step = "open" /\ session.constructed
  /\ record' \in Invalidated
  /\ session' = [session EXCEPT !.compacted = StillCompacted, !.quiet = FALSE]
  /\ UNCHANGED <<catalog, lingering, mishaps>>

--------------------------------------------------------------------------------
(* close: collect first if something was written, then let a peer that has no  *)
(* statements mark the file, and adopt its marker by a read.                   *)
BeginClose ==
  /\ session.step = "open" /\ session.constructed
  /\ \/ session' = [session EXCEPT !.step = "peer", !.wrote = catalog.size # session.marked]
        /\ UNCHANGED <<catalog, record>>
     \/ \E rewrites \in BOOLEAN :
          /\ session.counted /\ (rewrites => catalog.size > 0)
          /\ record' \in Invalidated /\ catalog' = Compacted(rewrites)
          /\ LET s == Collected(session, rewrites) IN
             session' = [s EXCEPT !.step = "peer", !.wrote = catalog'.size # s.marked]
  /\ UNCHANGED <<lingering, mishaps>>
NeedsRow(s) == s.wrote /\ catalog.tail # "chunks"
PeerCloses ==
  /\ session.step = "peer"
  /\ catalog' = MarkedBy(catalog.tail = "chunks")
  /\ At(IF NeedsRow(session) THEN "row" ELSE "adopt")
  /\ UNCHANGED <<record, lingering, mishaps>>
WriteCloseRow ==
  /\ session.step = "row"
  /\ catalog' = Committed("chunks", "row")
  /\ session' = [session EXCEPT !.step = "again", !.owes = TRUE]
  /\ UNCHANGED <<record, lingering, mishaps>>
PeerClosesAgain ==
  /\ session.step = "again"
  /\ catalog' = MarkedBy(catalog.tail = "chunks") /\ At("adopt")
  /\ UNCHANGED <<record, lingering, mishaps>>
AdoptMarker ==
  /\ session.step = "adopt"
  /\ session' = [session EXCEPT !.step = "drop", !.owes = @ /\ catalog.tail # "marker"]
  /\ UNCHANGED <<catalog, record, lingering, mishaps>>
CloseThrows ==
  /\ session.step \in {"peer", "row", "again", "adopt"} /\ mishaps < MaxMishaps
  /\ At("drop") /\ mishaps' = mishaps + 1
  /\ UNCHANGED <<catalog, record, lingering>>
DropHandle(deferred) ==
  /\ session.step = "drop" /\ At("remember")
  /\ IF deferred THEN lingering' = lingering \cup {session.owes} /\ UNCHANGED catalog
                 ELSE catalog' = MarkedBy(session.owes) /\ UNCHANGED lingering
  /\ UNCHANGED <<record, mishaps>>
Remember ==
  /\ session.step = "remember" /\ session' = NoSession
  /\ record' \in IF session.compacted /\ session.constructed THEN {catalog.stamp, record} ELSE {record}
  /\ UNCHANGED <<catalog, lingering, mishaps>>

Finalize(owes) ==
  /\ owes \in lingering
  /\ session = NoSession \/ (session.step = "open" /\ session.constructed)
  /\ lingering' = lingering \ {owes} /\ catalog' = MarkedBy(owes)
  /\ UNCHANGED <<record, session, mishaps>>
Killed ==
  /\ mishaps < MaxMishaps /\ session # NoSession
  /\ mishaps' = mishaps + 1 /\ session' = NoSession /\ lingering' = {}
  /\ UNCHANGED <<catalog, record>>

CloseNext ==
  \/ OpenCatalog \/ CompleteSchema \/ FinishOpen \/ FailOpen \/ BeginWrite \/ Rollback \/ CollectFails
  \/ \E kind \in {"chunks", "bare"}, counts \in BOOLEAN : CommitCatalogWrite(kind, counts)
  \/ \E rewrites \in BOOLEAN : CollectCatalog(rewrites)
  \/ BeginClose \/ PeerCloses \/ WriteCloseRow \/ PeerClosesAgain \/ AdoptMarker \/ CloseThrows
  \/ \E deferred \in BOOLEAN : DropHandle(deferred)
  \/ Remember
  \/ \E owes \in BOOLEAN : Finalize(owes)
  \/ Killed

CloseSpec == CloseInit /\ [][CloseNext]_closeVars

--------------------------------------------------------------------------------
(* Types; a record names a state that the file has been in.                    *)
CloseTypeOK ==
  /\ catalog \in [stamp : Nat, size : Nat, tail : {"clean", "chunks", "bare", "marker"},
                  since : SUBSET Commits, lacks : BOOLEAN]
  /\ record # NoRecord => record \in 0..catalog.stamp
  /\ session.step \in {"closed", "open", "writing", "peer", "row", "again", "adopt", "drop", "remember"}
  /\ lingering \subseteq BOOLEAN /\ mishaps \in 0..MaxMishaps

(* docs/engine-layout.md:669-680: after closeCatalogDatabase has returned the  *)
(* deferred close has nothing to write, also when the last commit added no     *)
(* chunks and the peer took it for a marker; it may owe one only after an open *)
(* or a close that failed.                                                     *)
DeferredCloseIsSilent == TRUE \in lingering => mishaps > 0

(* docs/engine-layout.md:650-653: transactions invalidate the record before    *)
(* writing.  A closed catalog that its record calls compacted has no           *)
(* transaction of the store that was committed since the collection, whatever  *)
(* calls fail and wherever the process is killed.  What invalidates nothing may*)
(* be there: the row of the close itself, committed after its collection, and  *)
(* statements that completed the schema of an older engine's catalog.          *)
RecordIsTruthful == session = NoSession /\ RecordValid => catalog.since \subseteq {"row", "schema"}

(* docs/engine-layout.md:657-659: a session that writes nothing leaves a       *)
(* cleanly closed catalog of the current version as it is, and its record valid*)
QuietSessionLeavesNoTrace ==
  [][session.step = "remember" /\ session.quiet /\ session' = NoSession /\ mishaps' = mishaps =>
       catalog.stamp = session.opened /\ RecordValid']_closeVars

(* A closed catalog is left alone, and its record says what it is.             *)
CloseIsTruthful == [](DeferredCloseIsSilent /\ RecordIsTruthful) /\ QuietSessionLeavesNoTrace
================================================================================
