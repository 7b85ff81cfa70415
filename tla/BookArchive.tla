------------------------------ MODULE BookArchive -------------------------------
(* The snapshot of a book, its archive and its import (src/book-archive.ts and *)
(* book-archive-catalog.ts).  A snapshot holds the write chain of its engine   *)
(* over every await, so semantic mutations wait; runtime rows change beside    *)
(* it, and each assertIdle looks at them anew.  Snapshot directories lie in    *)
(* one temporary directory, which the engines of all processes clean.          *)
EXTENDS Naturals, FiniteSets

CONSTANTS Engines, Objs,
          MaxHead,     \* bound: revisions of a book
          MaxPids      \* bound: processes that run an engine, one after another

ASSUME ArchiveAssumption == MaxHead \in Nat /\ MaxPids \in Nat \ {0}

VARIABLES books,        \* per engine: live object rows, head, runtime work
          history,     \* history: the rows of every revision of every book
          pid,         \* per engine: its process; 0 when there is none
          spawned,     \* processes so far
          snap,        \* per engine: the snapshot in progress
          dirs,        \* snapshot directories
          archive,     \* the file that was packed
          import       \* the import in progress

archiveVars == <<books, history, pid, spawned, snap, dirs, archive, import>>

Work   == {"job", "task", "lease"}
Idlest == [phase |-> "none", dir |-> 0, listed |-> {}, head |-> 0, copied |-> {},
           rows |-> {}, work |-> {}]
SnapPhases == {"none", "made", "owned", "listed", "vacuumed", "ready"}
NoArchive == [exists |-> FALSE, listed |-> {}, head |-> 0, objects |-> {}, rows |-> {},
              work |-> {}, intact |-> FALSE]
NoImport == [phase |-> "none", of |-> NoArchive]

ArchiveInit ==
  /\ books = [e \in Engines |-> [rows |-> {}, head |-> 0, work |-> {}]]
  /\ history = [e \in Engines |-> {<<0, {}>>}]
  /\ pid = [e \in Engines |-> 0] /\ spawned = 0
  /\ snap = [e \in Engines |-> Idlest] /\ dirs = {}
  /\ archive = NoArchive /\ import = NoImport

(* The snapshot holds the chain from its first step to its return.             *)
ChainFree(e) == snap[e].phase \in {"none", "ready"}

SemanticWrite(e, rows) ==
  /\ pid[e] # 0 /\ ChainFree(e) /\ books[e].head < MaxHead /\ rows # books[e].rows
  /\ books' = [books EXCEPT ![e].rows = rows, ![e].head = @ + 1]
  /\ history' = [history EXCEPT ![e] = @ \cup {<<books[e].head + 1, rows>>}]
  /\ UNCHANGED <<pid, spawned, snap, dirs, archive, import>>

(* enqueue is refused while a snapshot is taken; tasks and leases are not.     *)
BeginWork(e, w) ==
  /\ pid[e] # 0 /\ w \notin books[e].work /\ (w = "job" => ChainFree(e))
  /\ books' = [books EXCEPT ![e].work = @ \cup {w}]
  /\ UNCHANGED <<history, pid, spawned, snap, dirs, archive, import>>

EndWork(e, w) ==
  /\ w \in books[e].work
  /\ books' = [books EXCEPT ![e].work = @ \ {w}]
  /\ UNCHANGED <<history, pid, spawned, snap, dirs, archive, import>>

--------------------------------------------------------------------------------
(* cleanupOwnedDirectories: the directory of a process that has gone.  One     *)
(* whose owner cannot be read is left alone.                                   *)
Dead(p) == \A e \in Engines : pid[e] # p
Abandoned(d) == d.owned /\ Dead(d.pid)

(* createBookSnapshot: idle, cleaned, a fresh directory.  (Bound: one          *)
(* directory of a process at a time.)                                          *)
Snap(e) ==
  /\ pid[e] # 0 /\ ChainFree(e) /\ books[e].work = {}
  /\ \A d \in dirs : d.pid # pid[e]
  /\ dirs' = {d \in dirs : ~Abandoned(d)} \cup {[pid |-> pid[e], owned |-> FALSE]}
  /\ snap' = [snap EXCEPT ![e] = [Idlest EXCEPT !.phase = "made", !.dir = pid[e]]]
  /\ UNCHANGED <<books, history, pid, spawned, archive, import>>

HasDir(e) == \E d \in dirs : d.pid = snap[e].dir
Step(e, from, to) == snap[e].phase = from /\ HasDir(e) /\ snap' = [snap EXCEPT ![e] = to]

SnapOwns(e) ==
  /\ Step(e, "made", [snap[e] EXCEPT !.phase = "owned"])
  /\ dirs' = {d \in dirs : d.pid # pid[e]} \cup {[pid |-> pid[e], owned |-> TRUE]}
  /\ UNCHANGED <<books, history, pid, spawned, archive, import>>

SnapLists(e) ==
  /\ Step(e, "owned", [snap[e] EXCEPT !.phase = "listed", !.listed = books[e].rows,
                                      !.head = books[e].head])
  /\ UNCHANGED <<books, history, pid, spawned, dirs, archive, import>>

SnapLinks(e, x) ==
  /\ x \in snap[e].listed \ snap[e].copied
  /\ Step(e, "listed", [snap[e] EXCEPT !.copied = @ \cup {x}])
  /\ UNCHANGED <<books, history, pid, spawned, dirs, archive, import>>

(* The second assertIdle and the copy of the catalog are one step.             *)
MutantAsksOnce(e) == TRUE
StillIdle(e) == books[e].work = {}

SnapVacuums(e) ==
  /\ snap[e].copied = snap[e].listed /\ StillIdle(e)
  /\ Step(e, "listed", [snap[e] EXCEPT !.phase = "vacuumed", !.rows = books[e].rows,
                                       !.work = books[e].work])
  /\ UNCHANGED <<books, history, pid, spawned, dirs, archive, import>>

(* Scrub in a worker, digests, the manifest.                                   *)
SnapReturns(e) ==
  /\ Step(e, "vacuumed", [snap[e] EXCEPT !.phase = "ready"])
  /\ UNCHANGED <<books, history, pid, spawned, dirs, archive, import>>

(* Not idle, or a step that fails: the directory is removed.                   *)
SnapFails(e) ==
  /\ snap[e].phase \notin {"none", "ready"}
  /\ snap' = [snap EXCEPT ![e] = Idlest]
  /\ dirs' = {d \in dirs : d.pid # snap[e].dir}
  /\ UNCHANGED <<books, history, pid, spawned, archive, import>>

(* releaseBookSnapshot.                                                        *)
ReleaseSnap(e) ==
  /\ snap[e].phase = "ready"
  /\ snap' = [snap EXCEPT ![e] = Idlest]
  /\ dirs' = {d \in dirs : d.pid # snap[e].dir}
  /\ UNCHANGED <<books, history, pid, spawned, archive, import>>

(* packBookArchive: verified, written to a temporary file, then linked, which  *)
(* refuses a path that is there.                                               *)
Pack(e) ==
  /\ snap[e].phase = "ready" /\ HasDir(e) /\ ~archive.exists
  /\ archive' = [exists |-> TRUE, listed |-> snap[e].listed, head |-> snap[e].head,
                 objects |-> snap[e].copied, rows |-> snap[e].rows, work |-> snap[e].work,
                 intact |-> TRUE]
  /\ UNCHANGED <<books, history, pid, spawned, snap, dirs, import>>

(* The file is damaged, or loses an entry, on its way.                         *)
Damage ==
  /\ archive.exists /\ archive.intact
  /\ \E lost \in SUBSET archive.objects :
       archive' = [archive EXCEPT !.intact = FALSE, !.objects = @ \ lost]
  /\ UNCHANGED <<books, history, pid, spawned, snap, dirs, import>>

--------------------------------------------------------------------------------
(* restoreBookArchive: the inventory is compared with the manifest, the file   *)
(* is read again and extracted, the catalog and every object are verified and  *)
(* the catalog validated; the new directory is removed on any error.           *)
InventoryMatches(a) == a.objects = a.listed

Inspect ==
  /\ archive.exists /\ import.phase \in {"none", "failed"}
  /\ InventoryMatches(archive)
  /\ import' = [phase |-> "inspected", of |-> archive]
  /\ UNCHANGED <<books, history, pid, spawned, snap, dirs, archive>>

Extract ==
  /\ import.phase = "inspected"
  /\ archive.listed = import.of.listed /\ InventoryMatches(archive)
  /\ import' = [phase |-> "extracted", of |-> archive]
  /\ UNCHANGED <<books, history, pid, spawned, snap, dirs, archive>>

Verified(a) == a.intact
Validates(a) == a.rows = a.listed /\ a.work \cap {"job", "task"} = {}

PlaceBook ==
  /\ import.phase = "extracted" /\ Verified(import.of) /\ Validates(import.of)
  /\ import' = [import EXCEPT !.phase = "restored"]
  /\ UNCHANGED <<books, history, pid, spawned, snap, dirs, archive>>

ImportFails ==
  /\ import.phase \in {"inspected", "extracted"}
  /\ import' = [phase |-> "failed", of |-> NoArchive]
  /\ UNCHANGED <<books, history, pid, spawned, snap, dirs, archive>>

--------------------------------------------------------------------------------
Spawn(e) ==
  /\ pid[e] = 0 /\ spawned < MaxPids
  /\ spawned' = spawned + 1 /\ pid' = [pid EXCEPT ![e] = spawned + 1]
  /\ UNCHANGED <<books, history, snap, dirs, archive, import>>

KillEngine(e) ==
  /\ pid[e] # 0
  /\ pid' = [pid EXCEPT ![e] = 0] /\ snap' = [snap EXCEPT ![e] = Idlest]
  /\ UNCHANGED <<books, history, spawned, dirs, archive, import>>

SnapStep(e) ==
  \/ Snap(e) \/ SnapOwns(e) \/ SnapLists(e) \/ (\E x \in Objs : SnapLinks(e, x))
  \/ SnapVacuums(e) \/ SnapReturns(e) \/ SnapFails(e) \/ ReleaseSnap(e) \/ Pack(e)

ArchiveNext ==
  \/ \E e \in Engines : \/ \E rows \in SUBSET Objs : SemanticWrite(e, rows)
                        \/ \E w \in Work : BeginWork(e, w) \/ EndWork(e, w)
                        \/ SnapStep(e) \/ Spawn(e) \/ KillEngine(e)
  \/ Damage \/ Inspect \/ Extract \/ PlaceBook \/ ImportFails

ArchiveSpec == ArchiveInit /\ [][ArchiveNext]_archiveVars

--------------------------------------------------------------------------------
ArchiveTypeOK ==
  /\ books \in [Engines -> [rows : SUBSET Objs, head : 0..MaxHead, work : SUBSET Work]]
  /\ pid \in [Engines -> 0..MaxPids] /\ spawned \in 0..MaxPids
  /\ \A e \in Engines : /\ snap[e].phase \in SnapPhases /\ snap[e].dir \in 0..MaxPids
                        /\ snap[e].copied \subseteq snap[e].listed /\ snap[e].listed \subseteq Objs
  /\ dirs \subseteq [pid : 1..MaxPids, owned : BOOLEAN]
  /\ import.phase \in {"none", "inspected", "extracted", "restored", "failed"}

(* A snapshot that is handed out is one revision of its book: the catalog copy,*)
(* the objects beside it and the head of the manifest belong together.         *)
SnapshotIsOneRevision ==
  \A e \in Engines : snap[e].phase = "ready" =>
    /\ snap[e].rows = snap[e].listed /\ snap[e].copied = snap[e].listed
    /\ <<snap[e].head, snap[e].rows>> \in history[e]

(* The catalog copy holds no work, although tasks and leases may begin while   *)
(* the objects are copied; an import would refuse it.                          *)
SnapshotIsIdle == \A e \in Engines : snap[e].phase = "ready" => snap[e].work = {}

(* Nobody removes the directory of a snapshot that a living process takes or   *)
(* holds, at any moment between its creation and its release.                  *)
LiveDirectoryKept == \A e \in Engines : snap[e].phase # "none" => HasDir(e)

(* A book that an import leaves behind has every object its catalog names, and *)
(* is a revision that was packed, whatever happened to the file on its way and *)
(* while it was read.                                                          *)
RestoredIsWhole ==
  import.phase = "restored" =>
    /\ import.of.objects = import.of.rows /\ import.of.intact /\ import.of.work = {}
    /\ \E e \in Engines : <<import.of.head, import.of.rows>> \in history[e]

(* What leaves as a snapshot is one idle revision, and arrives whole or not.   *)
ArchiveIsWhole == SnapshotIsOneRevision /\ SnapshotIsIdle /\ LiveDirectoryKept /\ RestoredIsWhole
================================================================================
