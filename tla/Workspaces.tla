------------------------------ MODULE Workspaces --------------------------------
(* The files of one artifact (src/files.ts): the catalog names an object for   *)
(* each path, the workspace directory holds copies, and the hydrated flag of   *)
(* the workspace entry says that the copies are the current ones.  A call      *)
(* changes the catalog and the flag in one mutation, and the directory before  *)
(* or after it, over awaits at which other calls go on.                        *)
EXTENDS Naturals, FiniteSets

CONSTANTS Callers, Paths,
          Objects,        \* contents, named by their hash
          Absent,         \* no file
          MaxChanges      \* bound: changes by calls outside of this module

ASSUME WsAssumption == Absent \notin Objects \cup Paths /\ MaxChanges \in Nat

VARIABLES files,          \* artifact_files
          disk,           \* the workspace directory
          hydrated,       \* runtime_workspace_entries: hydrated, not invalidated
          op,             \* the call each caller has in flight
          changes,        \* changes made from outside
          apart,          \* history: the calls in flight name different paths
          trusted         \* history: see below

wsVars == <<files, disk, hydrated, op, changes, apart, trusted>>

Kinds  == {"idle", "write", "read", "delete", "rename", "copy", "ingest", "evict",
           "materialize", "restore"}
Phases == {"begin", "commit", "place", "unlink", "stat", "hydrate"}
FileRows == [Paths -> Objects \cup {Absent}]
Idling == [kind |-> "idle", phase |-> "begin", src |-> Absent, dst |-> Absent, obj |-> Absent,
           links |-> [p \in Paths |-> Absent], todo |-> {}, warm |-> FALSE, copied |-> FALSE]

WsInit ==
  /\ files = [p \in Paths |-> Absent] /\ disk = [p \in Paths |-> Absent]
  /\ hydrated = FALSE                               \* createArtifact
  /\ op = [c \in Callers |-> Idling]
  /\ changes = 0 /\ apart = TRUE /\ trusted = TRUE

InFlight == {c \in Callers : op[c].kind # "idle"}

(* The paths a call reads or changes: all of them for a call on the workspace. *)
PathsOf(o) == IF o.kind \in {"evict", "materialize", "restore"} THEN Paths
              ELSE {p \in Paths : p = o.src \/ p = o.dst \/ o.links[p] # Absent}
Meets(o) == \E d \in InFlight : PathsOf(o) \cap PathsOf(op[d]) # {}

(* The history knows events only, never what the copies hold.  Trust ends when *)
(* two calls on one path overlap, when the rows are changed by another part or *)
(* the process is killed, and comes back when a call that met no other one has *)
(* emptied the directory or has filled it without relying on the flag.         *)
Start(c, o) ==
  /\ op[c] = Idling
  /\ op' = [op EXCEPT ![c] = o]
  /\ apart' = (InFlight = {} \/ (apart /\ ~Meets(o)))
  /\ trusted' = (trusted /\ ~Meets(o) /\ o.kind # "restore")
CallGoes(c, o) == op' = [op EXCEPT ![c] = o] /\ UNCHANGED apart
CallEnds(c)    == CallGoes(c, Idling)

--------------------------------------------------------------------------------
(* writeFile, writeFromPath: the object is stored, linked with the flag set,   *)
(* and copied into the workspace after the commit.                             *)
Write(c, p, x) ==
  /\ Start(c, [Idling EXCEPT !.kind = "write", !.phase = "commit", !.dst = p, !.obj = x])
  /\ UNCHANGED <<files, disk, hydrated, changes>>

CommitWrite(c) ==
  /\ op[c].kind = "write" /\ op[c].phase = "commit"
  /\ files' = [files EXCEPT ![op[c].dst] = op[c].obj]
  /\ hydrated' = TRUE
  /\ CallGoes(c, [op[c] EXCEPT !.phase = "place"])
  /\ UNCHANGED <<disk, changes, trusted>>

Placed(c) == [disk EXCEPT ![op[c].dst] = op[c].obj]

Place(c) ==
  /\ op[c].kind \in {"write", "read"} /\ op[c].phase = "place"
  /\ disk' = Placed(c)
  /\ CallEnds(c)
  /\ UNCHANGED <<files, hydrated, changes, trusted>>

(* readFile: the bytes of the row, copied into the workspace as well.          *)
Read(c, p) ==
  /\ files[p] # Absent
  /\ Start(c, [Idling EXCEPT !.kind = "read", !.phase = "place", !.dst = p, !.obj = files[p]])
  /\ UNCHANGED <<files, disk, hydrated, changes>>

(* deleteFile: the row, then the copy.                                         *)
Delete(c, p) ==
  /\ files[p] # Absent
  /\ Start(c, [Idling EXCEPT !.kind = "delete", !.phase = "commit", !.src = p])
  /\ UNCHANGED <<files, disk, hydrated, changes>>

CommitDelete(c) ==
  /\ op[c].kind = "delete" /\ op[c].phase = "commit"
  /\ files' = [files EXCEPT ![op[c].src] = Absent]
  /\ CallGoes(c, [op[c] EXCEPT !.phase = "unlink"])
  /\ UNCHANGED <<disk, hydrated, changes, trusted>>

Unlink(c) ==
  /\ op[c].kind \in {"delete", "rename"} /\ op[c].phase = "unlink"
  /\ disk' = [disk EXCEPT ![op[c].src] = Absent]
  /\ CallEnds(c)
  /\ UNCHANGED <<files, hydrated, changes, trusted>>

(* renameFile: a copy under the new name, the row, then the old copy.  The     *)
(* row is moved wherever it has got to; the key of the table refuses a name    *)
(* that was taken meanwhile.                                                   *)
Rename(c, p, q) ==
  /\ files[p] # Absent /\ files[q] = Absent
  /\ Start(c, [Idling EXCEPT !.kind = "rename", !.phase = "place", !.src = p, !.dst = q,
                             !.obj = files[p]])
  /\ UNCHANGED <<files, disk, hydrated, changes>>

PlaceFirst(c) ==
  /\ op[c].kind \in {"rename", "copy"} /\ op[c].phase = "place"
  /\ disk' = [disk EXCEPT ![op[c].dst] = op[c].obj]
  /\ CallGoes(c, [op[c] EXCEPT !.phase = "commit"])
  /\ UNCHANGED <<files, hydrated, changes, trusted>>

NameTaken(c) == files[op[c].src] # Absent /\ files[op[c].dst] # Absent

CommitRename(c) ==
  /\ op[c].kind = "rename" /\ op[c].phase = "commit"
  /\ IF NameTaken(c) THEN CallEnds(c) /\ UNCHANGED files
     ELSE /\ files' = IF files[op[c].src] = Absent THEN files
                      ELSE [files EXCEPT ![op[c].dst] = files[op[c].src], ![op[c].src] = Absent]
          /\ CallGoes(c, [op[c] EXCEPT !.phase = "unlink"])
  /\ UNCHANGED <<disk, hydrated, changes, trusted>>

(* copyFile, from this artifact or another one: a copy, then the row, which    *)
(* sets the flag.                                                              *)
Copy(c, q, x) ==
  /\ Start(c, [Idling EXCEPT !.kind = "copy", !.phase = "place", !.dst = q, !.obj = x])
  /\ UNCHANGED <<files, disk, hydrated, changes>>

CommitCopy(c) ==
  /\ op[c].kind = "copy" /\ op[c].phase = "commit"
  /\ files' = [files EXCEPT ![op[c].dst] = op[c].obj]
  /\ hydrated' = TRUE
  /\ CallEnds(c)
  /\ UNCHANGED <<disk, changes, trusted>>

(* ingestWorkspace: files that are in the workspace are imported, then linked. *)
Ingest(c, S) ==
  /\ \A p \in S : disk[p] # Absent
  /\ Start(c, [Idling EXCEPT !.kind = "ingest", !.phase = "commit",
                             !.links = [p \in Paths |-> IF p \in S THEN disk[p] ELSE Absent]])
  /\ UNCHANGED <<files, disk, hydrated, changes>>

CommitIngest(c) ==
  /\ op[c].kind = "ingest" /\ op[c].phase = "commit"
  /\ files' = [p \in Paths |-> IF op[c].links[p] # Absent THEN op[c].links[p] ELSE files[p]]
  /\ hydrated' = TRUE
  /\ CallEnds(c)
  /\ UNCHANGED <<disk, changes, trusted>>

(* evictWorkspace: the directory, then the flag.                               *)
Evict(c) ==
  /\ Start(c, [Idling EXCEPT !.kind = "evict", !.phase = "hydrate"])
  /\ disk' = [p \in Paths |-> Absent]
  /\ UNCHANGED <<files, hydrated, changes>>

ClearHydration(c) ==
  /\ op[c].kind = "evict" /\ op[c].phase = "hydrate"
  /\ hydrated' = FALSE
  /\ trusted' = (trusted \/ apart)
  /\ CallEnds(c)
  /\ UNCHANGED <<files, disk, changes>>

--------------------------------------------------------------------------------
(* materializeArtifact: the flag and the rows are read once; in a hydrated     *)
(* workspace a file that is there is left as it is, in any other all are       *)
(* copied.  The flag is then set unless nothing was copied into a hydrated one.*)
(* The rows have one order, that of their names: here some order that is fixed.*)
RowsListed == {p \in Paths : files[p] # Absent}
RowInHand(c) == CHOOSE p \in op[c].todo : TRUE
RowsLeft(c) == op[c].todo \ {RowInHand(c)}
Materializing(kind, warm) ==
  [Idling EXCEPT !.kind = kind, !.phase = "stat", !.links = files, !.todo = RowsListed, !.warm = warm]

Materialize(c) ==
  /\ Start(c, Materializing("materialize", hydrated))
  /\ UNCHANGED <<files, disk, hydrated, changes>>

MutantSkipsPresent(c, p) == disk[p] # Absent
Skips(c, p) == op[c].warm /\ disk[p] # Absent

Stat(c) ==
  /\ op[c].phase = "stat" /\ op[c].todo # {}
  /\ IF Skips(c, RowInHand(c)) THEN CallGoes(c, [op[c] EXCEPT !.todo = RowsLeft(c)])
     ELSE CallGoes(c, [op[c] EXCEPT !.phase = "place"])
  /\ UNCHANGED <<files, disk, hydrated, changes, trusted>>

CopyListed(c) ==
  /\ op[c].kind \in {"materialize", "restore"} /\ op[c].phase = "place"
  /\ LET p == RowInHand(c) IN disk' = [disk EXCEPT ![p] = op[c].links[p]]
  /\ CallGoes(c, [op[c] EXCEPT !.phase = "stat", !.todo = RowsLeft(c), !.copied = TRUE])
  /\ UNCHANGED <<files, hydrated, changes, trusted>>

Hydrate(c) ==
  /\ op[c].phase = "stat" /\ op[c].todo = {}
  /\ hydrated' = (hydrated \/ ~op[c].warm \/ op[c].copied)
  /\ trusted' = (trusted \/ (apart /\ ~op[c].warm))
  /\ CallEnds(c)
  /\ UNCHANGED <<files, disk, changes>>

(* The bytes of an object are not to be had: the call ends where it stands.    *)
Unavailable(c) ==
  /\ op[c].phase = "place" /\ op[c].kind # "write"
  /\ CallEnds(c)
  /\ UNCHANGED <<files, disk, hydrated, changes, trusted>>

(* restoreBook: the rows of a revision with the flag cleared, then the         *)
(* directory is removed and filled again.  An edit, a merge or the restore of  *)
(* an artifact does the first of these only.                                   *)
ChangeRows(rows) ==
  /\ changes < MaxChanges /\ changes' = changes + 1
  /\ files' = rows /\ hydrated' = FALSE

Restore(c, rows) ==
  /\ Start(c, [Idling EXCEPT !.kind = "restore", !.phase = "unlink"])
  /\ ChangeRows(rows)
  /\ UNCHANGED disk

Refill(c) ==
  /\ op[c].kind = "restore" /\ op[c].phase = "unlink"
  /\ disk' = [p \in Paths |-> Absent]
  /\ CallGoes(c, Materializing("restore", hydrated))
  /\ UNCHANGED <<files, hydrated, changes, trusted>>

InvalidateFiles(rows) ==
  /\ ChangeRows(rows)
  /\ apart' = (apart /\ InFlight = {})
  /\ trusted' = FALSE
  /\ UNCHANGED <<disk, op>>

(* The process is killed: rows and directory stay.                             *)
KillCalls ==
  /\ InFlight # {} /\ changes < MaxChanges /\ changes' = changes + 1
  /\ op' = [c \in Callers |-> Idling]
  /\ trusted' = FALSE
  /\ UNCHANGED <<files, disk, hydrated, apart>>

Begins(c) ==
  \/ \E p \in Paths : \/ \E x \in Objects : Write(c, p, x) \/ Copy(c, p, x)
                      \/ Read(c, p) \/ Delete(c, p) \/ \E q \in Paths : Rename(c, p, q)
  \/ (\E S \in SUBSET Paths : Ingest(c, S)) \/ Evict(c) \/ Materialize(c)
  \/ \E rows \in FileRows : Restore(c, rows)

Continues(c) ==
  \/ CommitWrite(c) \/ Place(c) \/ CommitDelete(c) \/ Unlink(c) \/ PlaceFirst(c)
  \/ CommitRename(c) \/ CommitCopy(c) \/ CommitIngest(c) \/ ClearHydration(c)
  \/ Stat(c) \/ CopyListed(c) \/ Hydrate(c) \/ Unavailable(c) \/ Refill(c)

WsNext ==
  \/ \E c \in Callers : Begins(c) \/ Continues(c)
  \/ (\E rows \in FileRows : InvalidateFiles(rows)) \/ KillCalls

WsSpec == WsInit /\ [][WsNext]_wsVars

--------------------------------------------------------------------------------
WsTypeOK ==
  /\ files \in FileRows /\ disk \in FileRows /\ hydrated \in BOOLEAN
  /\ apart \in BOOLEAN /\ trusted \in BOOLEAN
  /\ op \in [Callers -> [kind : Kinds, phase : Phases, src : Paths \cup {Absent},
                         dst : Paths \cup {Absent}, obj : Objects \cup {Absent}, links : FileRows,
                         todo : SUBSET Paths, warm : BOOLEAN, copied : BOOLEAN]]
  /\ changes \in 0..MaxChanges

(* The copies that may be handed out without a look at the catalog.           *)
Current(p)    == files[p] # Absent => disk[p] \in {Absent, files[p]}
CopiesCurrent == \A p \in Paths : Current(p)

(* A hydrated workspace is served as it is (materializeArtifact).  The flag    *)
(* does not carry that alone: a write, a copy or an ingest sets it over copies *)
(* of other paths that an edit or a merge has just made stale, and overlapping *)
(* calls on one path leave the copy of either.  What does carry it: since the  *)
(* directory was last emptied, or filled by a call that did not rely on the    *)
(* flag, calls on one path ran one after the other, none was killed and no     *)
(* other part changed the rows.  Then the copy of every path that no call is   *)
(* working on is the file of the catalog, or missing, whatever calls on other  *)
(* paths overlapped, were refused or found no bytes.                           *)
WorkspacesAgree ==
  trusted => \A p \in Paths : Current(p) \/ \E c \in InFlight : p \in PathsOf(op[c])
================================================================================
