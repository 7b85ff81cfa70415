----------------------------- MODULE CatalogProofs ------------------------------
(***************************************************************************)
(* Proofs about the archive of a book, about the catalog file between      *)
(* sessions and about the workspace of an artifact, for any number of      *)
(* engines, objects, revisions, processes and calls.                       *)
(***************************************************************************)
EXTENDS BookArchive, CatalogClose, Workspaces, FiniteSetTheorems, TLAPS

---------------------------------------------------------------------------
(* Book archive                                                            *)

Snapshots == [phase : SnapPhases, dir : 0..MaxPids, listed : SUBSET Objs, head : 0..MaxHead,
              copied : SUBSET Objs, rows : SUBSET Objs, work : SUBSET Work]
Archives  == [exists : BOOLEAN, listed : SUBSET Objs, head : 0..MaxHead, objects : SUBSET Objs,
              rows : SUBSET Objs, work : SUBSET Work, intact : BOOLEAN]

ArchiveTypes ==
  /\ books \in [Engines -> [rows : SUBSET Objs, head : 0..MaxHead, work : SUBSET Work]]
  /\ history \in [Engines -> SUBSET ((0..MaxHead) \X SUBSET Objs)]
  /\ pid \in [Engines -> 0..MaxPids] /\ spawned \in 0..MaxPids
  /\ snap \in [Engines -> Snapshots]
  /\ dirs \subseteq [pid : 1..MaxPids, owned : BOOLEAN]
  /\ archive \in Archives
  /\ import \in [phase : {"none", "inspected", "extracted", "restored", "failed"}, of : Archives]

(* Process numbers are not used again, so an engine that runs is the only  *)
(* one of its number.                                                      *)
PidsAreUnique ==
  /\ \A e \in Engines : pid[e] <= spawned
  /\ \A e, f \in Engines : pid[e] # 0 /\ pid[e] = pid[f] => e = f

(* The chain keeps what was listed the present revision until the catalog  *)
(* is copied; the directory is named after the process.                    *)
GoodSnap(e, r) ==
  /\ r.copied \subseteq r.listed
  /\ r.phase \in {"made", "owned"} => r.copied = {}
  /\ r.phase # "none" => pid[e] # 0 /\ r.dir = pid[e] /\ \E d \in dirs : d.pid = r.dir
  /\ r.phase \in {"listed", "vacuumed"} => r.listed = books[e].rows /\ r.head = books[e].head
  /\ r.phase \in {"vacuumed", "ready"} =>
       /\ r.rows = r.listed /\ r.copied = r.listed /\ r.work = {}
       /\ <<r.head, r.rows>> \in history[e]

(* What a packed file says, damaged or not, until it is found out.         *)
GoodArchive(a) ==
  /\ a.exists => /\ a.rows = a.listed /\ a.work = {}
                 /\ \E e \in Engines : <<a.head, a.rows>> \in history[e]
  /\ a.intact => a.objects = a.listed

ArchiveInv ==
  /\ ArchiveTypes
  /\ PidsAreUnique
  /\ \A e \in Engines : <<books[e].head, books[e].rows>> \in history[e]
  /\ \A e \in Engines : GoodSnap(e, snap[e])
  /\ GoodArchive(archive)
  /\ import.phase \in {"inspected", "extracted", "restored"} =>
       import.of.exists /\ GoodArchive(import.of)
  /\ import.phase \in {"inspected", "extracted"} => archive.exists
  /\ import.phase = "restored" => import.of.intact

(* A step of one snapshot keeps the invariant when the snapshot it leaves  *)
(* is good and it removes no directory of another process that lives.      *)
LEMMA SnapshotStep ==
  ASSUME ArchiveInv, NEW e \in Engines, NEW r \in Snapshots,
         snap' = [snap EXCEPT ![e] = r], GoodSnap(e, snap[e])',
         dirs' \subseteq [pid : 1..MaxPids, owned : BOOLEAN],
         \A d \in dirs : d.pid # pid[e] /\ ~Dead(d.pid) => d \in dirs',
         UNCHANGED <<books, history, pid, spawned, archive, import>>
  PROVE  ArchiveInv'
<1>1. ArchiveTypes'
  BY DEF ArchiveInv, ArchiveTypes
<1>2. ASSUME NEW f \in Engines PROVE GoodSnap(f, snap[f])'
  <2>1. CASE f = e
    BY <2>1 DEF ArchiveInv, ArchiveTypes
  <2>2. CASE f # e
    <3>1. snap'[f] = snap[f] /\ GoodSnap(f, snap[f])
      BY <2>2 DEF ArchiveInv, ArchiveTypes
    <3>2. ASSUME snap[f].phase # "none" PROVE \E d \in dirs' : d.pid = snap[f].dir
      <4>1. PICK d \in dirs : d.pid = snap[f].dir
        BY <3>1, <3>2 DEF GoodSnap
      <4>2. d.pid # pid[e] /\ ~Dead(d.pid)
        BY <2>2, <3>1, <3>2, <4>1 DEF GoodSnap, ArchiveInv, PidsAreUnique, Dead
      <4> QED
        BY <4>1, <4>2
    <3> QED
      BY <3>1, <3>2 DEF GoodSnap
  <2> QED
    BY <2>1, <2>2
<1>3. PidsAreUnique' /\ \A f \in Engines : (<<books[f].head, books[f].rows>> \in history[f])'
  BY DEF ArchiveInv, PidsAreUnique
<1>4. /\ GoodArchive(archive)'
      /\ (import.phase \in {"inspected", "extracted", "restored"} =>
            import.of.exists /\ GoodArchive(import.of))'
      /\ (import.phase \in {"inspected", "extracted"} => archive.exists)'
      /\ (import.phase = "restored" => import.of.intact)'
  BY DEF ArchiveInv, GoodArchive
<1> QED
  BY <1>1, <1>2, <1>3, <1>4 DEF ArchiveInv

(* One that changes neither snapshots nor directories nor what archives    *)
(* were packed from keeps it when the file and the import stay good.       *)
LEMMA FileStep ==
  ASSUME ArchiveInv, UNCHANGED <<books, history, pid, spawned, snap, dirs>>,
         archive' \in Archives,
         import' \in [phase : {"none", "inspected", "extracted", "restored", "failed"}, of : Archives],
         GoodArchive(archive'),
         import'.phase \in {"inspected", "extracted", "restored"} =>
           import'.of.exists /\ GoodArchive(import'.of),
         import'.phase \in {"inspected", "extracted"} => archive'.exists,
         import'.phase = "restored" => import'.of.intact
  PROVE  ArchiveInv'
<1>1. ArchiveTypes'
  BY DEF ArchiveInv, ArchiveTypes
<1>2. PidsAreUnique' /\ \A f \in Engines : (<<books[f].head, books[f].rows>> \in history[f])'
  BY DEF ArchiveInv, PidsAreUnique
<1>3. \A e \in Engines : GoodSnap(e, snap[e])'
  BY DEF ArchiveInv, GoodSnap
<1>4. /\ GoodArchive(archive)'
      /\ (import.phase \in {"inspected", "extracted", "restored"} =>
            import.of.exists /\ GoodArchive(import.of))'
      /\ (import.phase \in {"inspected", "extracted"} => archive.exists)'
      /\ (import.phase = "restored" => import.of.intact)'
  BY DEF GoodArchive
<1> QED
  BY <1>1, <1>2, <1>3, <1>4 DEF ArchiveInv

LEMMA SnapStepKeeps ==
  ASSUME ArchiveInv, NEW e \in Engines, SnapStep(e) PROVE ArchiveInv'
<1>a. /\ snap[e] \in Snapshots /\ GoodSnap(e, snap[e])
      /\ books[e] \in [rows : SUBSET Objs, head : 0..MaxHead, work : SUBSET Work]
      /\ <<books[e].head, books[e].rows>> \in history[e]
      /\ pid[e] \in 0..MaxPids
      /\ dirs \subseteq [pid : 1..MaxPids, owned : BOOLEAN]
  BY DEF ArchiveInv, ArchiveTypes
<1>b. Idlest \in Snapshots
  BY ArchiveAssumption DEF Idlest, Snapshots, SnapPhases
<1>c. \A r : snap' = [snap EXCEPT ![e] = r] => snap'[e] = r
  BY DEF ArchiveInv, ArchiveTypes
<1>1. CASE Snap(e)
  <2> DEFINE r == [Idlest EXCEPT !.phase = "made", !.dir = pid[e]]
  <2>1. r \in Snapshots
    BY <1>a, <1>b DEF Snapshots, SnapPhases
  <2>2. snap'[e] = r
    BY <1>1, <1>c DEF Snap
  <2>3. GoodSnap(e, snap[e])'
    <3>1. [pid |-> pid[e], owned |-> FALSE] \in dirs' /\ pid'[e] = pid[e] /\ pid[e] # 0
      BY <1>1 DEF Snap
    <3>2. \E d \in dirs' : d.pid = pid[e]
      BY <3>1
    <3>3. r.copied = {} /\ r.phase = "made" /\ r.dir = pid[e]
      BY DEF Idlest
    <3> HIDE DEF r
    <3> QED
      BY <2>2, <3>1, <3>2, <3>3 DEF GoodSnap
  <2>4. /\ dirs' \subseteq [pid : 1..MaxPids, owned : BOOLEAN]
        /\ \A d \in dirs : ~Dead(d.pid) => d \in dirs'
    <3>1. pid[e] \in 1..MaxPids
      BY <1>1, <1>a DEF Snap
    <3>2. [pid |-> pid[e], owned |-> FALSE] \in [pid : 1..MaxPids, owned : BOOLEAN]
      BY <3>1
    <3> QED
      BY <3>2, <1>1, <1>a DEF Snap, Abandoned
  <2>5. snap' = [snap EXCEPT ![e] = r] /\ UNCHANGED <<books, history, pid, spawned, archive, import>>
    BY <1>1 DEF Snap
  <2> HIDE DEF r
  <2> QED
    BY <2>1, <2>3, <2>4, <2>5, SnapshotStep
<1>2. CASE SnapOwns(e)
  <2> DEFINE r == [snap[e] EXCEPT !.phase = "owned"]
  <2>1. r \in Snapshots
    BY <1>a DEF Snapshots, SnapPhases
  <2>2. snap'[e] = r
    BY <1>2, <1>c DEF SnapOwns, Step
  <2>3. GoodSnap(e, snap[e])'
    <3>1. [pid |-> pid[e], owned |-> TRUE] \in dirs' /\ pid'[e] = pid[e] /\ snap[e].phase = "made"
      BY <1>2 DEF SnapOwns, Step
    <3>2. \E d \in dirs' : d.pid = pid[e]
      BY <3>1
    <3>3. r.copied = snap[e].copied /\ r.listed = snap[e].listed /\ r.phase = "owned" /\ r.dir = snap[e].dir
      BY <1>a DEF Snapshots
    <3> HIDE DEF r
    <3> QED
      BY <2>2, <3>1, <3>2, <3>3, <1>a DEF GoodSnap
  <2>4. pid[e] \in 1..MaxPids
    BY <1>2, <1>a DEF SnapOwns, Step, GoodSnap
  <2>5. /\ dirs' \subseteq [pid : 1..MaxPids, owned : BOOLEAN]
        /\ \A d \in dirs : d.pid # pid[e] => d \in dirs'
    <3>1. [pid |-> pid[e], owned |-> TRUE] \in [pid : 1..MaxPids, owned : BOOLEAN]
      BY <2>4
    <3> QED
      BY <3>1, <1>2, <1>a DEF SnapOwns
  <2>6. snap' = [snap EXCEPT ![e] = r] /\ UNCHANGED <<books, history, pid, spawned, archive, import>>
    BY <1>2 DEF SnapOwns, Step
  <2> HIDE DEF r
  <2> QED
    BY <2>1, <2>3, <2>5, <2>6, SnapshotStep
<1>3. CASE SnapLists(e)
  <2> DEFINE r == [snap[e] EXCEPT !.phase = "listed", !.listed = books[e].rows,
                                  !.head = books[e].head]
  <2>1. r \in Snapshots
    BY <1>a DEF Snapshots, SnapPhases
  <2>2. snap'[e] = r
    BY <1>3, <1>c DEF SnapLists, Step
  <2>3. GoodSnap(e, snap[e])'
    <3>1. UNCHANGED <<books, pid, dirs>> /\ snap[e].phase = "owned"
      BY <1>3 DEF SnapLists, Step
    <3>2. r.copied = snap[e].copied /\ r.listed = books[e].rows /\ r.head = books[e].head
          /\ r.phase = "listed" /\ r.dir = snap[e].dir
      BY <1>a DEF Snapshots
    <3> HIDE DEF r
    <3> QED
      BY <2>2, <3>1, <3>2, <1>a DEF GoodSnap
  <2> QED
    BY <2>1, <2>3, <1>3, <1>a, SnapshotStep DEF SnapLists, Step
<1>4. ASSUME NEW x \in Objs, SnapLinks(e, x) PROVE ArchiveInv'
  <2> DEFINE r == [snap[e] EXCEPT !.copied = @ \cup {x}]
  <2>1. r \in Snapshots
    BY <1>a DEF Snapshots
  <2>2. snap'[e] = r
    BY <1>4, <1>c DEF SnapLinks, Step
  <2>3. GoodSnap(e, snap[e])'
    BY <2>2, <1>4, <1>a DEF SnapLinks, Step, GoodSnap, Snapshots
  <2> QED
    BY <2>1, <2>3, <1>4, <1>a, SnapshotStep DEF SnapLinks, Step
<1>5. CASE SnapVacuums(e)
  <2> DEFINE r == [snap[e] EXCEPT !.phase = "vacuumed", !.rows = books[e].rows,
                                  !.work = books[e].work]
  <2>1. r \in Snapshots
    BY <1>a DEF Snapshots, SnapPhases
  <2>2. snap'[e] = r
    BY <1>5, <1>c DEF SnapVacuums, Step
  <2>3. GoodSnap(e, snap[e])'
    BY <2>2, <1>5, <1>a DEF SnapVacuums, Step, GoodSnap, Snapshots, StillIdle
  <2> QED
    BY <2>1, <2>3, <1>5, <1>a, SnapshotStep DEF SnapVacuums, Step
<1>6. CASE SnapReturns(e)
  <2> DEFINE r == [snap[e] EXCEPT !.phase = "ready"]
  <2>1. r \in Snapshots
    BY <1>a DEF Snapshots, SnapPhases
  <2>2. snap'[e] = r
    BY <1>6, <1>c DEF SnapReturns, Step
  <2>3. GoodSnap(e, snap[e])'
    BY <2>2, <1>6, <1>a DEF SnapReturns, Step, GoodSnap, Snapshots
  <2> QED
    BY <2>1, <2>3, <1>6, <1>a, SnapshotStep DEF SnapReturns, Step
<1>7. CASE SnapFails(e) \/ ReleaseSnap(e)
  <2>1. GoodSnap(e, snap[e])'
    BY <1>7, <1>c DEF SnapFails, ReleaseSnap, GoodSnap, Idlest
  <2>2. snap[e].dir = pid[e]
    BY <1>7, <1>a DEF SnapFails, ReleaseSnap, GoodSnap
  <2> QED
    BY <2>1, <2>2, <1>7, <1>a, <1>b, SnapshotStep DEF SnapFails, ReleaseSnap
<1>8. CASE Pack(e)
  <2> DEFINE a == [exists |-> TRUE, listed |-> snap[e].listed, head |-> snap[e].head,
                   objects |-> snap[e].copied, rows |-> snap[e].rows, work |-> snap[e].work,
                   intact |-> TRUE]
  <2>1. archive' = a
    BY <1>8 DEF Pack
  <2>2. a \in Archives
    BY <1>a DEF Snapshots, Archives
  <2>3. GoodArchive(a)
    BY <1>8, <1>a DEF Pack, GoodSnap, GoodArchive
  <2> QED
    BY <2>1, <2>2, <2>3, <1>8, FileStep DEF Pack, ArchiveInv, ArchiveTypes
<1> QED
  BY <1>1, <1>2, <1>3, <1>4, <1>5, <1>6, <1>7, <1>8 DEF SnapStep

LEMMA ArchiveStep == ArchiveInv /\ [ArchiveNext]_archiveVars => ArchiveInv'
<1> SUFFICES ASSUME ArchiveInv, [ArchiveNext]_archiveVars PROVE ArchiveInv'
  OBVIOUS
<1>a. /\ archive \in Archives /\ import.of \in Archives /\ GoodArchive(archive)
      /\ import \in [phase : {"none", "inspected", "extracted", "restored", "failed"},
                     of : Archives]
      /\ NoArchive \in Archives
  BY ArchiveAssumption DEF ArchiveInv, ArchiveTypes, NoArchive, Archives
(* A new revision of the book, while no snapshot holds the chain.          *)
<1>1. ASSUME NEW e \in Engines, NEW rows \in SUBSET Objs, SemanticWrite(e, rows)
      PROVE  ArchiveInv'
  <2>1. /\ books[e].head + 1 \in 0..MaxHead
        /\ books' = [books EXCEPT ![e] = [books[e] EXCEPT !.rows = rows, !.head = books[e].head + 1]]
        /\ history' = [history EXCEPT ![e] = history[e] \cup {<<books[e].head + 1, rows>>}]
        /\ UNCHANGED <<pid, spawned, snap, dirs, archive, import>>
    BY <1>1 DEF SemanticWrite, ArchiveInv, ArchiveTypes
  <2>2. ArchiveTypes'
    <3>1. [books[e] EXCEPT !.rows = rows, !.head = books[e].head + 1]
            \in [rows : SUBSET Objs, head : 0..MaxHead, work : SUBSET Work]
      BY <2>1 DEF ArchiveInv, ArchiveTypes
    <3>2. books' \in [Engines -> [rows : SUBSET Objs, head : 0..MaxHead, work : SUBSET Work]]
      BY <2>1, <3>1 DEF ArchiveInv, ArchiveTypes
    <3>3. history[e] \cup {<<books[e].head + 1, rows>>} \in SUBSET ((0..MaxHead) \X SUBSET Objs)
      BY <2>1 DEF ArchiveInv, ArchiveTypes
    <3>4. history' \in [Engines -> SUBSET ((0..MaxHead) \X SUBSET Objs)]
      BY <2>1, <3>3 DEF ArchiveInv, ArchiveTypes
    <3> QED
      BY <2>1, <3>2, <3>4 DEF ArchiveInv, ArchiveTypes
  <2>3. \A f \in Engines : (<<books[f].head, books[f].rows>> \in history[f])'
    BY <2>1 DEF ArchiveInv, ArchiveTypes
  <2>4. \A f \in Engines : history[f] \subseteq history'[f]
    BY <2>1 DEF ArchiveInv, ArchiveTypes
  <2>5. ASSUME NEW f \in Engines PROVE GoodSnap(f, snap[f])'
    <3>1. f = e => snap[f].phase \in {"none", "ready"}
      BY <1>1 DEF SemanticWrite, ChainFree
    <3>2. f # e => books'[f] = books[f]
      BY <2>1 DEF ArchiveInv, ArchiveTypes
    <3> QED
      BY <2>1, <2>4, <3>1, <3>2 DEF ArchiveInv, GoodSnap
  <2>6. \A a : GoodArchive(a) => GoodArchive(a)'
    BY <2>4 DEF GoodArchive
  <2>7. PidsAreUnique'
    BY <2>1 DEF ArchiveInv, PidsAreUnique
  <2> QED
    BY <2>1, <2>2, <2>3, <2>5, <2>6, <2>7 DEF ArchiveInv
<1>2. ASSUME NEW e \in Engines, NEW w \in Work, BeginWork(e, w) \/ EndWork(e, w)
      PROVE  ArchiveInv'
  <2>1. PICK W \in SUBSET Work : books' = [books EXCEPT ![e] = [books[e] EXCEPT !.work = W]]
    BY <1>2 DEF BeginWork, EndWork, ArchiveInv, ArchiveTypes
  <2>2. UNCHANGED <<history, pid, spawned, snap, dirs, archive, import>>
    BY <1>2 DEF BeginWork, EndWork
  <2>3. \A f \in Engines : books'[f].rows = books[f].rows /\ books'[f].head = books[f].head
    BY <2>1 DEF ArchiveInv, ArchiveTypes
  <2>4. ArchiveTypes'
    BY <2>1, <2>2 DEF ArchiveInv, ArchiveTypes
  <2> QED
    BY <2>2, <2>3, <2>4 DEF ArchiveInv, PidsAreUnique, GoodSnap, GoodArchive
<1>3. ASSUME NEW e \in Engines, Spawn(e) PROVE ArchiveInv'
  <2>1. /\ spawned' = spawned + 1 /\ spawned + 1 \in 0..MaxPids
        /\ pid' = [pid EXCEPT ![e] = spawned + 1] /\ pid[e] = 0
        /\ UNCHANGED <<books, history, snap, dirs, archive, import>>
    BY <1>3, ArchiveAssumption DEF Spawn, ArchiveInv, ArchiveTypes
  <2>2. ArchiveTypes'
    BY <2>1 DEF ArchiveInv, ArchiveTypes
  <2>3. PidsAreUnique'
    BY <2>1 DEF ArchiveInv, ArchiveTypes, PidsAreUnique
  <2>4. ASSUME NEW f \in Engines PROVE GoodSnap(f, snap[f])'
    <3>1. f # e => pid'[f] = pid[f]
      BY <2>1 DEF ArchiveInv, ArchiveTypes
    <3> QED
      BY <2>1, <3>1 DEF ArchiveInv, GoodSnap
  <2> QED
    BY <2>1, <2>2, <2>3, <2>4 DEF ArchiveInv, GoodArchive
<1>4. ASSUME NEW e \in Engines, KillEngine(e) PROVE ArchiveInv'
  <2>1. /\ pid' = [pid EXCEPT ![e] = 0] /\ snap' = [snap EXCEPT ![e] = Idlest]
        /\ UNCHANGED <<books, history, spawned, dirs, archive, import>>
    BY <1>4 DEF KillEngine
  <2>2. ArchiveTypes'
    BY <2>1, ArchiveAssumption DEF ArchiveInv, ArchiveTypes, Idlest, Snapshots, SnapPhases
  <2>3. PidsAreUnique'
    BY <2>1 DEF ArchiveInv, ArchiveTypes, PidsAreUnique
  <2>4. ASSUME NEW f \in Engines PROVE GoodSnap(f, snap[f])'
    <3>1. CASE f # e
      <4>1. pid'[f] = pid[f] /\ snap'[f] = snap[f]
        BY <2>1, <3>1 DEF ArchiveInv, ArchiveTypes
      <4> QED
        BY <2>1, <4>1 DEF ArchiveInv, GoodSnap
    <3>2. CASE f = e
      <4>1. snap'[f] = Idlest
        BY <2>1, <3>2 DEF ArchiveInv, ArchiveTypes
      <4> QED
        BY <4>1 DEF GoodSnap, Idlest
    <3> QED
      BY <3>1, <3>2
  <2> QED
    BY <2>1, <2>2, <2>3, <2>4 DEF ArchiveInv, GoodArchive
<1>5. CASE Damage
  <2>1. PICK lost \in SUBSET archive.objects :
          archive' = [archive EXCEPT !.intact = FALSE, !.objects = archive.objects \ lost]
    BY <1>5 DEF Damage
  <2>2. archive' \in Archives
    BY <2>1, <1>a DEF Archives
  <2>3. GoodArchive(archive')
    BY <2>1, <1>a DEF GoodArchive, Archives
  <2> QED
    BY <2>2, <2>3, <1>5, <1>a, FileStep DEF Damage, ArchiveInv
<1>6. CASE Inspect
  <2>1. import' = [phase |-> "inspected", of |-> archive] /\ archive.exists
    BY <1>6 DEF Inspect
  <2> QED
    BY <2>1, <1>6, <1>a, FileStep DEF Inspect
<1>7. CASE Extract
  <2>1. import' = [phase |-> "extracted", of |-> archive] /\ archive.exists
    <3>1. archive.exists
      BY <1>7 DEF Extract, ArchiveInv
    <3> QED
      BY <3>1, <1>7 DEF Extract
  <2> QED
    BY <2>1, <1>7, <1>a, FileStep DEF Extract
<1>8. CASE PlaceBook
  <2>1. import' = [import EXCEPT !.phase = "restored"] /\ import.of.intact
        /\ import.of.exists /\ GoodArchive(import.of)
    BY <1>8 DEF PlaceBook, Verified, ArchiveInv
  <2> QED
    BY <2>1, <1>8, <1>a, FileStep DEF PlaceBook
<1>9. CASE ImportFails
  <2>1. import' = [phase |-> "failed", of |-> NoArchive]
    BY <1>9 DEF ImportFails
  <2> QED
    BY <2>1, <1>9, <1>a, FileStep DEF ImportFails
<1>10. CASE UNCHANGED archiveVars
  <2>1. UNCHANGED <<books, history, pid, spawned, snap, dirs, archive, import>>
    BY <1>10 DEF archiveVars
  <2> QED
    BY <2>1, <1>a, FileStep DEF ArchiveInv
<1> QED
  BY <1>1, <1>2, <1>3, <1>4, <1>5, <1>6, <1>7, <1>8, <1>9, <1>10, SnapStepKeeps DEF ArchiveNext

(* What leaves as a snapshot is one idle revision in a directory nobody    *)
(* else removes, and an import leaves a whole packed revision or nothing:  *)
(* createBookSnapshot, packBookArchive and restoreBookArchive, with writes,*)
(* work, other engines, kills and damage to the file in between.           *)
THEOREM ArchiveWholeness == ArchiveSpec => [](ArchiveTypeOK /\ ArchiveIsWhole)
<1>1. ArchiveInit => ArchiveInv
  <2> SUFFICES ASSUME ArchiveInit PROVE ArchiveInv
    OBVIOUS
  <2>1. Idlest \in Snapshots /\ NoArchive \in Archives /\ spawned \in 0..MaxPids
    BY ArchiveAssumption DEF ArchiveInit, Idlest, Snapshots, SnapPhases, NoArchive, Archives
  <2>2. ArchiveTypes
    BY <2>1, ArchiveAssumption DEF ArchiveInit, ArchiveTypes, NoImport
  <2>3. PidsAreUnique
    BY <2>1 DEF ArchiveInit, PidsAreUnique
  <2>4. \A e \in Engines : GoodSnap(e, snap[e])
    BY DEF ArchiveInit, GoodSnap, Idlest
  <2>5. GoodArchive(archive)
    BY DEF ArchiveInit, GoodArchive, NoArchive
  <2> QED
    BY <2>2, <2>3, <2>4, <2>5 DEF ArchiveInit, ArchiveInv, NoImport
<1>2. ASSUME ArchiveInv PROVE ArchiveTypeOK /\ ArchiveIsWhole
  <2>1. ArchiveTypeOK
    BY <1>2 DEF ArchiveInv, ArchiveTypes, GoodSnap, Snapshots, ArchiveTypeOK
  <2>2. SnapshotIsOneRevision /\ SnapshotIsIdle
    BY <1>2 DEF ArchiveInv, GoodSnap, SnapshotIsOneRevision, SnapshotIsIdle
  <2>3. LiveDirectoryKept
    BY <1>2 DEF ArchiveInv, GoodSnap, LiveDirectoryKept, HasDir
  <2>4. RestoredIsWhole
    BY <1>2 DEF ArchiveInv, GoodArchive, RestoredIsWhole
  <2> QED
    BY <2>1, <2>2, <2>3, <2>4 DEF ArchiveIsWhole
<1> QED
  BY <1>1, <1>2, ArchiveStep, PTL DEF ArchiveSpec

---------------------------------------------------------------------------
(* Closing the catalog                                                     *)

Sessions ==
  [step : {"open", "writing", "peer", "row", "again", "adopt", "drop", "remember"},
   constructed : BOOLEAN, owes : BOOLEAN, compacted : BOOLEAN, marked : Nat, wrote : BOOLEAN, counted : BOOLEAN,
   opened : Nat, quiet : BOOLEAN]

Catalogs == [stamp : Nat, size : Nat, tail : {"clean", "chunks", "bare", "marker"},
             since : SUBSET Commits, lacks : BOOLEAN]

CloseTypes ==
  /\ catalog \in Catalogs
  /\ record \in Int /\ record <= catalog.stamp /\ record >= NoRecord
  /\ session = NoSession \/ session \in Sessions
  /\ lingering \subseteq BOOLEAN /\ mishaps \in 0..MaxMishaps

(* While nothing has gone wrong, a connection that owes the file a marker  *)
(* either finds chunks at its end, or has written since its last mark and  *)
(* will see this in the size; once the marker is placed it owes nothing.   *)
DebtIsSeen ==
  /\ TRUE \notin lingering
  /\ session.step \in {"open", "writing"} =>
       /\ session.marked <= catalog.size
       /\ session.owes => catalog.tail = "chunks" \/ session.marked < catalog.size
  /\ session.step = "peer" /\ session.owes => catalog.tail = "chunks" \/ session.wrote
  /\ session.step = "again" => catalog.tail = "chunks"
  /\ session.step = "adopt" /\ session.owes => catalog.tail = "marker"
  /\ session.step = "drop" => ~session.owes

(* The session knows of each transaction committed since the collection.   *)
NoWriteSince == "write" \notin catalog.since
CompactedIsCompact ==
  /\ RecordValid => NoWriteSince
  /\ session # NoSession /\ session.compacted => NoWriteSince
  /\ session.step = "writing" => ~session.compacted

QuietIsQuiet ==
  session # NoSession /\ session.quiet =>
    /\ session.step \notin {"writing", "row", "again"}
    /\ catalog.stamp = session.opened /\ RecordValid /\ catalog.tail # "chunks"
    /\ ~catalog.lacks /\ ~session.owes /\ ~session.counted /\ TRUE \notin lingering
    /\ session.step = "open" => catalog.size = session.marked
    /\ session.step = "peer" => ~session.wrote

CloseInv ==
  /\ CloseTypes
  /\ mishaps = 0 => DebtIsSeen
  /\ CompactedIsCompact
  /\ QuietIsQuiet

(* What appending to the file, and placing a marker that is owed, leave.   *)
LEMMA Appending ==
  ASSUME catalog \in Catalogs, NEW kind \in {"chunks", "bare", "marker"}
  PROVE  /\ Appended(kind) \in Catalogs
         /\ Appended(kind).stamp = catalog.stamp + 1 /\ Appended(kind).size = catalog.size + 1
         /\ Appended(kind).tail = kind /\ Appended(kind).since = catalog.since
         /\ Appended(kind).lacks = catalog.lacks
<1>1. catalog.stamp + 1 \in Nat /\ catalog.size + 1 \in Nat
  BY DEF Catalogs
<1> QED
  BY <1>1 DEF Appended, Catalogs

LEMMA Committing ==
  ASSUME catalog \in Catalogs, NEW kind \in {"chunks", "bare"}, NEW what \in Commits
  PROVE  /\ Committed(kind, what) \in Catalogs
         /\ Committed(kind, what).stamp = catalog.stamp + 1
         /\ Committed(kind, what).size = catalog.size + 1
         /\ Committed(kind, what).tail = kind
         /\ Committed(kind, what).since = catalog.since \cup {what}
         /\ Committed(kind, what).lacks = catalog.lacks
<1>1. PICK c \in Catalogs : /\ c = Appended(kind) /\ c.since = catalog.since /\ c.tail = kind
                             /\ c.stamp = catalog.stamp + 1 /\ c.size = catalog.size + 1
                             /\ c.lacks = catalog.lacks
  BY Appending
<1>2. Committed(kind, what) = [c EXCEPT !.since = c.since \cup {what}]
  BY <1>1 DEF Committed
<1>3. c.since \cup {what} \in SUBSET Commits
  BY DEF Catalogs
<1> QED
  BY <1>1, <1>2, <1>3 DEF Catalogs

LEMMA Marking ==
  ASSUME catalog \in Catalogs, NEW owes \in BOOLEAN, NEW c, c = MarkedBy(owes)
  PROVE  /\ c \in Catalogs /\ c.since = catalog.since /\ c.lacks = catalog.lacks
         /\ owes  => c.stamp = catalog.stamp + 1 /\ c.size = catalog.size + 1 /\ c.tail = "marker"
         /\ ~owes => c = catalog
BY Appending DEF MarkedBy

LEMMA Compacting ==
  ASSUME catalog \in Catalogs, NEW rewrites \in BOOLEAN, NEW c, c = Compacted(rewrites)
  PROVE  /\ c \in Catalogs /\ c.since = {} /\ c.stamp >= catalog.stamp
         /\ rewrites  => c.size = 0
         /\ ~rewrites => c.size = catalog.size /\ c.tail = catalog.tail
<1>1. catalog.stamp \in Nat /\ catalog.stamp + 1 \in Nat
  BY DEF Catalogs
<1>2. CASE rewrites
  <2>1. c = [catalog EXCEPT !.stamp = catalog.stamp + 1, !.size = 0, !.tail = "clean", !.since = {}]
    BY <1>2 DEF Compacted
  <2>2. c.since = {} /\ c.stamp = catalog.stamp + 1 /\ c.size = 0
    BY <2>1 DEF Catalogs
  <2>3. PICK n \in Nat : n = catalog.stamp + 1 /\ n >= catalog.stamp
    BY <1>1
  <2>4. PICK e \in SUBSET Commits : e = {}
    OBVIOUS
  <2>5. c \in Catalogs
    <3>1. c = [[[[catalog EXCEPT !.stamp = n] EXCEPT !.size = 0] EXCEPT !.tail = "clean"] EXCEPT !.since = e]
      BY <2>1, <2>3, <2>4 DEF Catalogs
    <3>2. [[catalog EXCEPT !.stamp = n] EXCEPT !.size = 0] \in Catalogs
      BY DEF Catalogs
    <3> QED
      BY <3>1, <3>2 DEF Catalogs
  <2> QED
    BY <1>2, <2>2, <2>3, <2>5
<1>3. CASE ~rewrites
  <2>1. c = [catalog EXCEPT !.since = {}]
    BY <1>3 DEF Compacted
  <2>2. c \in Catalogs /\ c.since = {} /\ c.stamp = catalog.stamp
        /\ c.size = catalog.size /\ c.tail = catalog.tail
    BY <2>1 DEF Catalogs
  <2> QED
    BY <1>1, <1>3, <2>2
<1> QED
  BY <1>2, <1>3

(* What a collection leaves in the session.                                *)
LEMMA Collecting ==
  ASSUME session \in Sessions, NEW rewrites \in BOOLEAN, NEW k, k = Collected(session, rewrites)
  PROVE  /\ k \in Sessions /\ k.step = session.step /\ k.compacted = TRUE
         /\ k.counted = FALSE /\ k.quiet = FALSE /\ k.wrote = session.wrote
         /\ k.opened = session.opened /\ (k.owes => session.owes /\ ~rewrites)
         /\ rewrites => k.marked = 0
         /\ ~rewrites => k.marked = session.marked
<1>1. CASE rewrites
  BY <1>1 DEF Collected, Sessions
<1>2. CASE ~rewrites
  BY <1>2 DEF Collected, Sessions
<1> QED
  BY <1>1, <1>2

LEMMA CloseStep == CloseInv /\ [CloseNext]_closeVars => CloseInv'
<1> SUFFICES ASSUME CloseInv, [CloseNext]_closeVars PROVE CloseInv'
  OBVIOUS
<1>a. /\ session.step # "closed" => session \in Sessions /\ session # NoSession
      /\ session = NoSession => session.step = "closed"
  BY DEF CloseInv, CloseTypes, NoSession, Sessions
(* An open session is a record of all fields.                              *)
<1>b. /\ catalog \in Catalogs
      /\ catalog.stamp \in Nat /\ catalog.size \in Nat /\ catalog.since \subseteq Commits /\ catalog.lacks \in BOOLEAN
      /\ record \in Int /\ record <= catalog.stamp /\ record >= -1
      /\ lingering \subseteq BOOLEAN /\ mishaps \in Nat
      /\ session.step # "closed" =>
           /\ session \in Sessions /\ session # NoSession
           /\ session.owes \in BOOLEAN /\ session.compacted \in BOOLEAN /\ session.marked \in Nat
           /\ session.wrote \in BOOLEAN /\ session.counted \in BOOLEAN
           /\ session.opened \in Nat /\ session.quiet \in BOOLEAN
  BY <1>a, CloseAssumption DEF CloseInv, CloseTypes, Catalogs, Sessions, NoRecord
(* A step that leaves an open session and a file not shorter in stamps.    *)
<1>c. ASSUME NEW s \in Sessions, session' = s, catalog' \in Catalogs,
             record' \in {NoRecord, record}, catalog'.stamp >= catalog.stamp,
             lingering' \subseteq BOOLEAN, mishaps' \in 0..MaxMishaps
      PROVE  CloseTypes' /\ session' # NoSession
  BY <1>c, <1>b DEF CloseTypes, NoRecord, NoSession, Sessions, Catalogs
<1>1. CASE OpenCatalog
  <2> DEFINE s == [step |-> "open", constructed |-> FALSE, owes |-> catalog.tail = "chunks",
                   compacted |-> RecordValid, marked |-> catalog.size, wrote |-> FALSE,
                   counted |-> FALSE, opened |-> catalog.stamp,
                   quiet |-> /\ RecordValid /\ catalog.tail # "chunks" /\ ~catalog.lacks
                             /\ TRUE \notin lingering]
  <2>1. s \in Sessions /\ session' = s /\ session = NoSession
    BY <1>1, <1>b DEF OpenCatalog, RecordValid, Catalogs, Sessions
  <2>2. /\ s.step = "open" /\ s.owes = (catalog.tail = "chunks")
        /\ s.compacted = RecordValid /\ s.marked = catalog.size
        /\ s.wrote = FALSE /\ s.counted = FALSE
        /\ s.opened = catalog.stamp /\ s.quiet = (RecordValid /\ catalog.tail # "chunks" /\ ~catalog.lacks /\ TRUE \notin lingering)
        /\ (s.owes => (catalog.tail = "chunks"))
    BY <2>1, <1>b DEF Sessions
  <2>3. UNCHANGED <<catalog, record, lingering, mishaps>>
    BY <1>1, <1>b DEF OpenCatalog
  <2>4. mishaps \in 0..MaxMishaps
    BY DEF CloseInv, CloseTypes
  <2> HIDE DEF s
  <2>5. CloseTypes' /\ session' # NoSession
    BY <2>1, <2>3, <2>4, <1>b, <1>c, CloseAssumption DEF NoRecord
  <2>6. (mishaps = 0 => DebtIsSeen)'
    <3> SUFFICES ASSUME mishaps' = 0 PROVE DebtIsSeen'
      OBVIOUS
    <3>1. mishaps = 0 /\ DebtIsSeen
      BY <2>3, <1>b DEF CloseInv
    <3>2. (TRUE \notin lingering)'
      BY <2>1, <2>2, <2>3, <3>1 DEF DebtIsSeen
    <3>3. s.step \in {"open", "writing"} =>
           /\ s.marked <= catalog'.size
           /\ s.owes => catalog'.tail = "chunks" \/ s.marked < catalog'.size
      BY <2>1, <2>2, <2>3, <3>1, <1>b DEF DebtIsSeen
    <3>4. /\ s.step = "peer" /\ s.owes => catalog'.tail = "chunks" \/ s.wrote
          /\ s.step = "again" => catalog'.tail = "chunks"
          /\ s.step = "adopt" /\ s.owes => catalog'.tail = "marker"
          /\ s.step = "drop" => ~s.owes
      BY <2>1, <2>2, <2>3, <3>1, <1>b DEF DebtIsSeen
    <3> QED
      BY <2>1, <3>2, <3>3, <3>4 DEF DebtIsSeen
  <2>7. CompactedIsCompact'
    BY <2>1, <2>2, <2>3, <1>b DEF CloseInv, CompactedIsCompact, NoWriteSince, RecordValid, NoRecord
  <2>8. QuietIsQuiet'
    BY <2>1, <2>2, <2>3, <1>b DEF CloseInv, QuietIsQuiet, RecordValid, NoRecord
  <2> QED
    BY <2>5, <2>6, <2>7, <2>8 DEF CloseInv
<1>2. CASE BeginWrite
  <2> DEFINE s == [session EXCEPT !.step = "writing", !.compacted = FALSE, !.quiet = FALSE]
  <2>1. s \in Sessions /\ session' = s /\ session.step = "open"
    BY <1>2, <1>b DEF BeginWrite, StillCompacted, Sessions
  <2>2. /\ s.step = "writing" /\ s.owes = session.owes
        /\ s.compacted = FALSE /\ s.marked = session.marked
        /\ s.wrote = session.wrote /\ s.counted = session.counted
        /\ s.opened = session.opened /\ s.quiet = FALSE
    BY <2>1, <1>b DEF Sessions
  <2>3. record' \in {NoRecord, record} /\ UNCHANGED <<catalog, lingering, mishaps>>
    BY <1>2, <1>b DEF BeginWrite, Invalidated
  <2>4. mishaps \in 0..MaxMishaps
    BY DEF CloseInv, CloseTypes
  <2> HIDE DEF s
  <2>5. CloseTypes' /\ session' # NoSession
    BY <2>1, <2>3, <2>4, <1>b, <1>c, CloseAssumption DEF NoRecord
  <2>6. (mishaps = 0 => DebtIsSeen)'
    <3> SUFFICES ASSUME mishaps' = 0 PROVE DebtIsSeen'
      OBVIOUS
    <3>1. mishaps = 0 /\ DebtIsSeen
      BY <2>3, <1>b DEF CloseInv
    <3>2. (TRUE \notin lingering)'
      BY <2>1, <2>2, <2>3, <3>1 DEF DebtIsSeen
    <3>3. s.step \in {"open", "writing"} =>
           /\ s.marked <= catalog'.size
           /\ s.owes => catalog'.tail = "chunks" \/ s.marked < catalog'.size
      BY <2>1, <2>2, <2>3, <3>1, <1>b DEF DebtIsSeen
    <3>4. /\ s.step = "peer" /\ s.owes => catalog'.tail = "chunks" \/ s.wrote
          /\ s.step = "again" => catalog'.tail = "chunks"
          /\ s.step = "adopt" /\ s.owes => catalog'.tail = "marker"
          /\ s.step = "drop" => ~s.owes
      BY <2>1, <2>2, <2>3, <3>1, <1>b DEF DebtIsSeen
    <3> QED
      BY <2>1, <3>2, <3>3, <3>4 DEF DebtIsSeen
  <2>7. CompactedIsCompact'
    BY <2>1, <2>2, <2>3, <1>b DEF CloseInv, CompactedIsCompact, NoWriteSince, RecordValid, NoRecord
  <2>8. QuietIsQuiet'
    BY <2>1, <2>2, <2>3, <1>b DEF CloseInv, QuietIsQuiet, RecordValid, NoRecord
  <2> QED
    BY <2>5, <2>6, <2>7, <2>8 DEF CloseInv
<1>3. ASSUME NEW kind \in {"chunks", "bare"}, NEW counts \in BOOLEAN,
             CommitCatalogWrite(kind, counts)
      PROVE  CloseInv'
  <2> DEFINE s == [session EXCEPT !.step = "open", !.owes = TRUE, !.counted = session.counted \/ counts]
  <2>1. s \in Sessions /\ session' = s /\ session.step = "writing"
    BY <1>3, <1>b DEF CommitCatalogWrite, Sessions
  <2>2. /\ s.step = "open" /\ s.owes = TRUE
        /\ s.compacted = session.compacted /\ s.marked = session.marked
        /\ s.wrote = session.wrote /\ s.counted = (session.counted \/ counts)
        /\ s.opened = session.opened /\ s.quiet = session.quiet
    BY <2>1, <1>b DEF Sessions
  <2>3. /\ catalog' \in Catalogs /\ catalog'.stamp = catalog.stamp + 1
        /\ catalog'.size = catalog.size + 1 /\ UNCHANGED <<record, lingering, mishaps>>
    BY <1>3, <1>b, Committing DEF CommitCatalogWrite, Commits
  <2>4. mishaps \in 0..MaxMishaps
    BY DEF CloseInv, CloseTypes
  <2> HIDE DEF s
  <2>5. CloseTypes' /\ session' # NoSession
    BY <2>1, <2>3, <2>4, <1>b, <1>c, CloseAssumption DEF NoRecord
  <2>6. (mishaps = 0 => DebtIsSeen)'
    <3> SUFFICES ASSUME mishaps' = 0 PROVE DebtIsSeen'
      OBVIOUS
    <3>1. mishaps = 0 /\ DebtIsSeen
      BY <2>3, <1>b DEF CloseInv
    <3>2. (TRUE \notin lingering)'
      BY <2>1, <2>2, <2>3, <3>1 DEF DebtIsSeen
    <3>3. s.step \in {"open", "writing"} =>
           /\ s.marked <= catalog'.size
           /\ s.owes => catalog'.tail = "chunks" \/ s.marked < catalog'.size
      BY <2>1, <2>2, <2>3, <3>1, <1>b DEF DebtIsSeen
    <3>4. /\ s.step = "peer" /\ s.owes => catalog'.tail = "chunks" \/ s.wrote
          /\ s.step = "again" => catalog'.tail = "chunks"
          /\ s.step = "adopt" /\ s.owes => catalog'.tail = "marker"
          /\ s.step = "drop" => ~s.owes
      BY <2>1, <2>2, <2>3, <3>1, <1>b DEF DebtIsSeen
    <3> QED
      BY <2>1, <3>2, <3>3, <3>4 DEF DebtIsSeen
  <2>7. CompactedIsCompact'
    BY <2>1, <2>2, <2>3, <1>b DEF CloseInv, CompactedIsCompact, NoWriteSince, RecordValid, NoRecord
  <2>8. QuietIsQuiet'
    BY <2>1, <2>2, <2>3, <1>b DEF CloseInv, QuietIsQuiet, RecordValid, NoRecord
  <2> QED
    BY <2>5, <2>6, <2>7, <2>8 DEF CloseInv
<1>4. CASE Rollback
  <2> DEFINE s == [session EXCEPT !.step = "open"]
  <2>1. s \in Sessions /\ session' = s /\ session.step = "writing"
    BY <1>4, <1>b DEF Rollback, At, Sessions
  <2>2. /\ s.step = "open" /\ s.owes = session.owes
        /\ s.compacted = session.compacted /\ s.marked = session.marked
        /\ s.wrote = session.wrote /\ s.counted = session.counted
        /\ s.opened = session.opened /\ s.quiet = session.quiet
    BY <2>1, <1>b DEF Sessions
  <2>3. UNCHANGED <<catalog, record, lingering, mishaps>>
    BY <1>4, <1>b DEF Rollback
  <2>4. mishaps \in 0..MaxMishaps
    BY DEF CloseInv, CloseTypes
  <2> HIDE DEF s
  <2>5. CloseTypes' /\ session' # NoSession
    BY <2>1, <2>3, <2>4, <1>b, <1>c, CloseAssumption DEF NoRecord
  <2>6. (mishaps = 0 => DebtIsSeen)'
    <3> SUFFICES ASSUME mishaps' = 0 PROVE DebtIsSeen'
      OBVIOUS
    <3>1. mishaps = 0 /\ DebtIsSeen
      BY <2>3, <1>b DEF CloseInv
    <3>2. (TRUE \notin lingering)'
      BY <2>1, <2>2, <2>3, <3>1 DEF DebtIsSeen
    <3>3. s.step \in {"open", "writing"} =>
           /\ s.marked <= catalog'.size
           /\ s.owes => catalog'.tail = "chunks" \/ s.marked < catalog'.size
      BY <2>1, <2>2, <2>3, <3>1, <1>b DEF DebtIsSeen
    <3>4. /\ s.step = "peer" /\ s.owes => catalog'.tail = "chunks" \/ s.wrote
          /\ s.step = "again" => catalog'.tail = "chunks"
          /\ s.step = "adopt" /\ s.owes => catalog'.tail = "marker"
          /\ s.step = "drop" => ~s.owes
      BY <2>1, <2>2, <2>3, <3>1, <1>b DEF DebtIsSeen
    <3> QED
      BY <2>1, <3>2, <3>3, <3>4 DEF DebtIsSeen
  <2>7. CompactedIsCompact'
    BY <2>1, <2>2, <2>3, <1>b DEF CloseInv, CompactedIsCompact, NoWriteSince, RecordValid, NoRecord
  <2>8. QuietIsQuiet'
    BY <2>1, <2>2, <2>3, <1>b DEF CloseInv, QuietIsQuiet, RecordValid, NoRecord
  <2> QED
    BY <2>5, <2>6, <2>7, <2>8 DEF CloseInv
(* A collection, on its own or at the start of a close.                    *)
<1>d. ASSUME NEW rewrites \in BOOLEAN, session.step = "open", record' \in Invalidated,
             catalog' = Compacted(rewrites), UNCHANGED <<lingering, mishaps>>,
             NEW s \in Sessions, session' = s, s.step \in {"open", "peer"},
             LET k == Collected(session, rewrites) IN
               /\ s.owes = k.owes /\ s.compacted = k.compacted /\ s.marked = k.marked
               /\ s.quiet = k.quiet
               /\ s.step = "peer" => (s.wrote <=> catalog'.size # k.marked)
      PROVE  CloseInv'
  <2> DEFINE k == Collected(session, rewrites)
  <2>1. session \in Sessions /\ mishaps \in 0..MaxMishaps
    BY <1>b, <1>d DEF CloseInv, CloseTypes
  <2>2. /\ s.compacted = TRUE /\ s.quiet = FALSE /\ (s.owes => session.owes /\ ~rewrites)
        /\ rewrites => s.marked = 0
        /\ ~rewrites => s.marked = session.marked
        /\ s.step = "peer" => (s.wrote <=> catalog'.size # s.marked)
    BY <2>1, <1>d, Collecting
  <2>3. /\ record' \in {NoRecord, record} /\ catalog' \in Catalogs /\ catalog'.since = {}
        /\ catalog'.stamp >= catalog.stamp
        /\ rewrites => catalog'.size = 0
        /\ ~rewrites => catalog'.size = catalog.size /\ catalog'.tail = catalog.tail
        /\ UNCHANGED <<lingering, mishaps>>
    BY <1>d, <1>b, Compacting DEF Invalidated
  <2>4. CloseTypes' /\ session' # NoSession
    BY <2>1, <2>3, <1>b, <1>c, <1>d
  <2>5. (mishaps = 0 => DebtIsSeen)'
    <3> SUFFICES ASSUME mishaps' = 0 PROVE DebtIsSeen'
      OBVIOUS
    <3>1. DebtIsSeen
      BY <2>3 DEF CloseInv
    <3>2. s.marked <= catalog'.size /\ (s.owes => catalog'.tail = "chunks" \/ s.marked < catalog'.size)
      BY <2>2, <2>3, <3>1, <1>b, <1>d DEF DebtIsSeen
    <3>3. s.step = "peer" /\ s.owes => catalog'.tail = "chunks" \/ s.wrote
      BY <2>2, <2>3, <3>2, <1>d DEF Catalogs
    <3> QED
      BY <2>3, <3>1, <3>2, <3>3, <1>d DEF DebtIsSeen
  <2>6. CompactedIsCompact' /\ QuietIsQuiet'
    BY <2>2, <2>3, <1>d DEF CompactedIsCompact, NoWriteSince, QuietIsQuiet
  <2> QED
    BY <2>4, <2>5, <2>6 DEF CloseInv
<1>5. ASSUME NEW rewrites \in BOOLEAN, CollectCatalog(rewrites) PROVE CloseInv'
  <2>1. Collected(session, rewrites) \in Sessions /\ Collected(session, rewrites).step = "open"
    BY <1>5, <1>b, Collecting DEF CollectCatalog
  <2> QED
    BY <2>1, <1>5, <1>d DEF CollectCatalog
<1>6. CASE CollectFails
  <2> DEFINE s == [session EXCEPT !.compacted = FALSE, !.quiet = FALSE]
  <2>1. s \in Sessions /\ session' = s /\ session.step = "open"
    BY <1>6, <1>b DEF CollectFails, StillCompacted, Sessions
  <2>2. /\ s.step = session.step /\ s.owes = session.owes
        /\ s.compacted = FALSE /\ s.marked = session.marked
        /\ s.wrote = session.wrote /\ s.counted = session.counted
        /\ s.opened = session.opened /\ s.quiet = FALSE
    BY <2>1, <1>b DEF Sessions
  <2>3. record' \in {NoRecord, record} /\ UNCHANGED <<catalog, lingering, mishaps>>
    BY <1>6, <1>b DEF CollectFails, Invalidated
  <2>4. mishaps \in 0..MaxMishaps
    BY DEF CloseInv, CloseTypes
  <2> HIDE DEF s
  <2>5. CloseTypes' /\ session' # NoSession
    BY <2>1, <2>3, <2>4, <1>b, <1>c, CloseAssumption DEF NoRecord
  <2>6. (mishaps = 0 => DebtIsSeen)'
    <3> SUFFICES ASSUME mishaps' = 0 PROVE DebtIsSeen'
      OBVIOUS
    <3>1. mishaps = 0 /\ DebtIsSeen
      BY <2>3, <1>b DEF CloseInv
    <3>2. (TRUE \notin lingering)'
      BY <2>1, <2>2, <2>3, <3>1 DEF DebtIsSeen
    <3>3. s.step \in {"open", "writing"} =>
           /\ s.marked <= catalog'.size
           /\ s.owes => catalog'.tail = "chunks" \/ s.marked < catalog'.size
      BY <2>1, <2>2, <2>3, <3>1, <1>b DEF DebtIsSeen
    <3>4. /\ s.step = "peer" /\ s.owes => catalog'.tail = "chunks" \/ s.wrote
          /\ s.step = "again" => catalog'.tail = "chunks"
          /\ s.step = "adopt" /\ s.owes => catalog'.tail = "marker"
          /\ s.step = "drop" => ~s.owes
      BY <2>1, <2>2, <2>3, <3>1, <1>b DEF DebtIsSeen
    <3> QED
      BY <2>1, <3>2, <3>3, <3>4 DEF DebtIsSeen
  <2>7. CompactedIsCompact'
    BY <2>1, <2>2, <2>3, <1>b DEF CloseInv, CompactedIsCompact, NoWriteSince, RecordValid, NoRecord
  <2>8. QuietIsQuiet'
    BY <2>1, <2>2, <2>3, <1>b DEF CloseInv, QuietIsQuiet, RecordValid, NoRecord
  <2> QED
    BY <2>5, <2>6, <2>7, <2>8 DEF CloseInv
<1>7a. CASE /\ session.step = "open" /\ UNCHANGED <<catalog, record, lingering, mishaps>>
           /\ session' = [session EXCEPT !.step = "peer", !.wrote = catalog.size # session.marked]
  <2> DEFINE s == [session EXCEPT !.step = "peer", !.wrote = catalog.size # session.marked]
  <2>1. s \in Sessions /\ session' = s /\ session.step = "open"
    BY <1>7a, <1>b DEF At, Sessions
  <2>2. /\ s.step = "peer" /\ s.owes = session.owes
        /\ s.compacted = session.compacted /\ s.marked = session.marked
        /\ s.wrote = (catalog.size # session.marked) /\ s.counted = session.counted
        /\ s.opened = session.opened /\ s.quiet = session.quiet
    BY <2>1, <1>b DEF Sessions
  <2>3. UNCHANGED <<catalog, record, lingering, mishaps>>
    BY <1>7a, <1>b DEF At
  <2>4. mishaps \in 0..MaxMishaps
    BY DEF CloseInv, CloseTypes
  <2> HIDE DEF s
  <2>5. CloseTypes' /\ session' # NoSession
    BY <2>1, <2>3, <2>4, <1>b, <1>c, CloseAssumption DEF NoRecord
  <2>6. (mishaps = 0 => DebtIsSeen)'
    <3> SUFFICES ASSUME mishaps' = 0 PROVE DebtIsSeen'
      OBVIOUS
    <3>1. mishaps = 0 /\ DebtIsSeen
      BY <2>3, <1>b DEF CloseInv
    <3>2. (TRUE \notin lingering)'
      BY <2>1, <2>2, <2>3, <3>1 DEF DebtIsSeen
    <3>3. s.step \in {"open", "writing"} =>
           /\ s.marked <= catalog'.size
           /\ s.owes => catalog'.tail = "chunks" \/ s.marked < catalog'.size
      BY <2>1, <2>2, <2>3, <3>1, <1>b DEF DebtIsSeen
    <3>4. /\ s.step = "peer" /\ s.owes => catalog'.tail = "chunks" \/ s.wrote
          /\ s.step = "again" => catalog'.tail = "chunks"
          /\ s.step = "adopt" /\ s.owes => catalog'.tail = "marker"
          /\ s.step = "drop" => ~s.owes
      BY <2>1, <2>2, <2>3, <3>1, <1>b DEF DebtIsSeen
    <3> QED
      BY <2>1, <3>2, <3>3, <3>4 DEF DebtIsSeen
  <2>7. CompactedIsCompact'
    BY <2>1, <2>2, <2>3, <1>b DEF CloseInv, CompactedIsCompact, NoWriteSince, RecordValid, NoRecord
  <2>8. QuietIsQuiet'
    BY <2>1, <2>2, <2>3, <1>b DEF CloseInv, QuietIsQuiet, RecordValid, NoRecord
  <2> QED
    BY <2>5, <2>6, <2>7, <2>8 DEF CloseInv
<1>7b. ASSUME NEW rewrites \in BOOLEAN, session.step = "open", record' \in Invalidated,
              catalog' = Compacted(rewrites), UNCHANGED <<lingering, mishaps>>,
              session' = [Collected(session, rewrites) EXCEPT !.step = "peer",
                            !.wrote = catalog'.size # Collected(session, rewrites).marked]
       PROVE  CloseInv'
  <2>1. PICK k : k = Collected(session, rewrites)
    OBVIOUS
  <2>2. k \in Sessions
    BY <2>1, <1>7b, <1>b, Collecting
  <2>3. PICK w \in BOOLEAN : w <=> (catalog'.size # k.marked)
    OBVIOUS
  <2> DEFINE s == [k EXCEPT !.step = "peer", !.wrote = w]
  <2>4. session' = s
    BY <2>1, <2>3, <1>7b
  <2>5. /\ s \in Sessions /\ s.step = "peer" /\ s.owes = k.owes /\ s.compacted = k.compacted
        /\ s.marked = k.marked /\ s.quiet = k.quiet /\ s.wrote = w
    BY <2>2 DEF Sessions
  <2> HIDE DEF s
  <2>6. /\ s.owes = Collected(session, rewrites).owes
        /\ s.compacted = Collected(session, rewrites).compacted
        /\ s.marked = Collected(session, rewrites).marked
        /\ s.quiet = Collected(session, rewrites).quiet
        /\ s.step = "peer" => (s.wrote <=> catalog'.size # Collected(session, rewrites).marked)
    BY <2>1, <2>3, <2>5
  <2> QED
    BY <2>4, <2>5, <2>6, <1>7b, <1>d
<1>7. CASE BeginClose
  BY <1>7, <1>7a, <1>7b DEF BeginClose
<1>8. CASE PeerCloses
  <2> DEFINE s == [session EXCEPT !.step = IF NeedsRow(session) THEN "row" ELSE "adopt"]
  <2>1. s \in Sessions /\ session' = s /\ session.step = "peer"
    BY <1>8, <1>b DEF PeerCloses, At, Sessions
  <2>2. /\ s.step = (IF session.wrote /\ catalog.tail # "chunks" THEN "row" ELSE "adopt") /\ s.owes = session.owes
        /\ s.compacted = session.compacted /\ s.marked = session.marked
        /\ s.wrote = session.wrote /\ s.counted = session.counted
        /\ s.opened = session.opened /\ s.quiet = session.quiet
    BY <2>1, <1>b DEF Sessions, NeedsRow
  <2>3. /\ catalog' \in Catalogs /\ catalog'.since = catalog.since /\ catalog'.lacks = catalog.lacks
        /\ (catalog.tail = "chunks") => /\ catalog'.stamp = catalog.stamp + 1 /\ catalog'.size = catalog.size + 1
                    /\ catalog'.tail = "marker"
        /\ ~(catalog.tail = "chunks") => catalog' = catalog
        /\ UNCHANGED <<record, lingering, mishaps>>
    BY <1>8, <1>b, Marking DEF PeerCloses
  <2>4. mishaps \in 0..MaxMishaps
    BY DEF CloseInv, CloseTypes
  <2> HIDE DEF s
  <2>5. CloseTypes' /\ session' # NoSession
    BY <2>1, <2>3, <2>4, <1>b, <1>c, CloseAssumption DEF NoRecord
  <2>6. (mishaps = 0 => DebtIsSeen)'
    <3> SUFFICES ASSUME mishaps' = 0 PROVE DebtIsSeen'
      OBVIOUS
    <3>1. mishaps = 0 /\ DebtIsSeen
      BY <2>3, <1>b DEF CloseInv
    <3>2. (TRUE \notin lingering)'
      BY <2>1, <2>2, <2>3, <3>1 DEF DebtIsSeen
    <3>3. s.step \in {"open", "writing"} =>
           /\ s.marked <= catalog'.size
           /\ s.owes => catalog'.tail = "chunks" \/ s.marked < catalog'.size
      BY <2>1, <2>2, <2>3, <3>1, <1>b DEF DebtIsSeen
    <3>4. /\ s.step = "peer" /\ s.owes => catalog'.tail = "chunks" \/ s.wrote
          /\ s.step = "again" => catalog'.tail = "chunks"
          /\ s.step = "adopt" /\ s.owes => catalog'.tail = "marker"
          /\ s.step = "drop" => ~s.owes
      BY <2>1, <2>2, <2>3, <3>1, <1>b DEF DebtIsSeen
    <3> QED
      BY <2>1, <3>2, <3>3, <3>4 DEF DebtIsSeen
  <2>7. CompactedIsCompact'
    BY <2>1, <2>2, <2>3, <1>b DEF CloseInv, CompactedIsCompact, NoWriteSince, RecordValid, NoRecord
  <2>8. QuietIsQuiet'
    BY <2>1, <2>2, <2>3, <1>b DEF CloseInv, QuietIsQuiet, RecordValid, NoRecord
  <2> QED
    BY <2>5, <2>6, <2>7, <2>8 DEF CloseInv
<1>9. CASE WriteCloseRow
  <2> DEFINE s == [session EXCEPT !.step = "again", !.owes = TRUE]
  <2>1. s \in Sessions /\ session' = s /\ session.step = "row"
    BY <1>9, <1>b DEF WriteCloseRow, Sessions
  <2>2. /\ s.step = "again" /\ s.owes = TRUE
        /\ s.compacted = session.compacted /\ s.marked = session.marked
        /\ s.wrote = session.wrote /\ s.counted = session.counted
        /\ s.opened = session.opened /\ s.quiet = session.quiet
    BY <2>1, <1>b DEF Sessions
  <2>3. /\ catalog' \in Catalogs /\ catalog'.since = catalog.since \cup {"row"} /\ catalog'.tail = "chunks"
        /\ catalog'.stamp = catalog.stamp + 1 /\ UNCHANGED <<record, lingering, mishaps>>
    BY <1>9, <1>b, Committing DEF WriteCloseRow, Commits
  <2>4. mishaps \in 0..MaxMishaps
    BY DEF CloseInv, CloseTypes
  <2> HIDE DEF s
  <2>5. CloseTypes' /\ session' # NoSession
    BY <2>1, <2>3, <2>4, <1>b, <1>c, CloseAssumption DEF NoRecord
  <2>6. (mishaps = 0 => DebtIsSeen)'
    <3> SUFFICES ASSUME mishaps' = 0 PROVE DebtIsSeen'
      OBVIOUS
    <3>1. mishaps = 0 /\ DebtIsSeen
      BY <2>3, <1>b DEF CloseInv
    <3>2. (TRUE \notin lingering)'
      BY <2>1, <2>2, <2>3, <3>1 DEF DebtIsSeen
    <3>3. s.step \in {"open", "writing"} =>
           /\ s.marked <= catalog'.size
           /\ s.owes => catalog'.tail = "chunks" \/ s.marked < catalog'.size
      BY <2>1, <2>2, <2>3, <3>1, <1>b DEF DebtIsSeen
    <3>4. /\ s.step = "peer" /\ s.owes => catalog'.tail = "chunks" \/ s.wrote
          /\ s.step = "again" => catalog'.tail = "chunks"
          /\ s.step = "adopt" /\ s.owes => catalog'.tail = "marker"
          /\ s.step = "drop" => ~s.owes
      BY <2>1, <2>2, <2>3, <3>1, <1>b DEF DebtIsSeen
    <3> QED
      BY <2>1, <3>2, <3>3, <3>4 DEF DebtIsSeen
  <2>7. CompactedIsCompact'
    BY <2>1, <2>2, <2>3, <1>b DEF CloseInv, CompactedIsCompact, NoWriteSince, RecordValid, NoRecord
  <2>8. QuietIsQuiet'
    BY <2>1, <2>2, <2>3, <1>b DEF CloseInv, QuietIsQuiet, RecordValid, NoRecord
  <2> QED
    BY <2>5, <2>6, <2>7, <2>8 DEF CloseInv
<1>10. CASE PeerClosesAgain
  <2> DEFINE s == [session EXCEPT !.step = "adopt"]
  <2>1. s \in Sessions /\ session' = s /\ session.step = "again"
    BY <1>10, <1>b DEF PeerClosesAgain, At, Sessions
  <2>2. /\ s.step = "adopt" /\ s.owes = session.owes
        /\ s.compacted = session.compacted /\ s.marked = session.marked
        /\ s.wrote = session.wrote /\ s.counted = session.counted
        /\ s.opened = session.opened /\ s.quiet = session.quiet
    BY <2>1, <1>b DEF Sessions
  <2>3. /\ catalog' \in Catalogs /\ catalog'.since = catalog.since /\ catalog'.lacks = catalog.lacks
        /\ (catalog.tail = "chunks") => /\ catalog'.stamp = catalog.stamp + 1 /\ catalog'.size = catalog.size + 1
                    /\ catalog'.tail = "marker"
        /\ ~(catalog.tail = "chunks") => catalog' = catalog
        /\ UNCHANGED <<record, lingering, mishaps>>
    BY <1>10, <1>b, Marking DEF PeerClosesAgain
  <2>4. mishaps \in 0..MaxMishaps
    BY DEF CloseInv, CloseTypes
  <2> HIDE DEF s
  <2>5. CloseTypes' /\ session' # NoSession
    BY <2>1, <2>3, <2>4, <1>b, <1>c, CloseAssumption DEF NoRecord
  <2>6. (mishaps = 0 => DebtIsSeen)'
    <3> SUFFICES ASSUME mishaps' = 0 PROVE DebtIsSeen'
      OBVIOUS
    <3>1. mishaps = 0 /\ DebtIsSeen
      BY <2>3, <1>b DEF CloseInv
    <3>2. (TRUE \notin lingering)'
      BY <2>1, <2>2, <2>3, <3>1 DEF DebtIsSeen
    <3>3. s.step \in {"open", "writing"} =>
           /\ s.marked <= catalog'.size
           /\ s.owes => catalog'.tail = "chunks" \/ s.marked < catalog'.size
      BY <2>1, <2>2, <2>3, <3>1, <1>b DEF DebtIsSeen
    <3>4. /\ s.step = "peer" /\ s.owes => catalog'.tail = "chunks" \/ s.wrote
          /\ s.step = "again" => catalog'.tail = "chunks"
          /\ s.step = "adopt" /\ s.owes => catalog'.tail = "marker"
          /\ s.step = "drop" => ~s.owes
      BY <2>1, <2>2, <2>3, <3>1, <1>b DEF DebtIsSeen
    <3> QED
      BY <2>1, <3>2, <3>3, <3>4 DEF DebtIsSeen
  <2>7. CompactedIsCompact'
    BY <2>1, <2>2, <2>3, <1>b DEF CloseInv, CompactedIsCompact, NoWriteSince, RecordValid, NoRecord
  <2>8. QuietIsQuiet'
    BY <2>1, <2>2, <2>3, <1>b DEF CloseInv, QuietIsQuiet, RecordValid, NoRecord
  <2> QED
    BY <2>5, <2>6, <2>7, <2>8 DEF CloseInv
<1>11. CASE AdoptMarker
  <2> DEFINE s == [session EXCEPT !.step = "drop", !.owes = session.owes /\ catalog.tail # "marker"]
  <2>1. s \in Sessions /\ session' = s /\ session.step = "adopt"
    BY <1>11, <1>b DEF AdoptMarker, Sessions
  <2>2. /\ s.step = "drop" /\ s.owes = (session.owes /\ catalog.tail # "marker")
        /\ s.compacted = session.compacted /\ s.marked = session.marked
        /\ s.wrote = session.wrote /\ s.counted = session.counted
        /\ s.opened = session.opened /\ s.quiet = session.quiet
        /\ (s.owes => (session.owes /\ catalog.tail # "marker"))
    BY <2>1, <1>b DEF Sessions
  <2>3. UNCHANGED <<catalog, record, lingering, mishaps>>
    BY <1>11, <1>b DEF AdoptMarker
  <2>4. mishaps \in 0..MaxMishaps
    BY DEF CloseInv, CloseTypes
  <2> HIDE DEF s
  <2>5. CloseTypes' /\ session' # NoSession
    BY <2>1, <2>3, <2>4, <1>b, <1>c, CloseAssumption DEF NoRecord
  <2>6. (mishaps = 0 => DebtIsSeen)'
    <3> SUFFICES ASSUME mishaps' = 0 PROVE DebtIsSeen'
      OBVIOUS
    <3>1. mishaps = 0 /\ DebtIsSeen
      BY <2>3, <1>b DEF CloseInv
    <3>2. (TRUE \notin lingering)'
      BY <2>1, <2>2, <2>3, <3>1 DEF DebtIsSeen
    <3>3. s.step \in {"open", "writing"} =>
           /\ s.marked <= catalog'.size
           /\ s.owes => catalog'.tail = "chunks" \/ s.marked < catalog'.size
      BY <2>1, <2>2, <2>3, <3>1, <1>b DEF DebtIsSeen
    <3>4. /\ s.step = "peer" /\ s.owes => catalog'.tail = "chunks" \/ s.wrote
          /\ s.step = "again" => catalog'.tail = "chunks"
          /\ s.step = "adopt" /\ s.owes => catalog'.tail = "marker"
          /\ s.step = "drop" => ~s.owes
      BY <2>1, <2>2, <2>3, <3>1, <1>b DEF DebtIsSeen
    <3> QED
      BY <2>1, <3>2, <3>3, <3>4 DEF DebtIsSeen
  <2>7. CompactedIsCompact'
    BY <2>1, <2>2, <2>3, <1>b DEF CloseInv, CompactedIsCompact, NoWriteSince, RecordValid, NoRecord
  <2>8. QuietIsQuiet'
    BY <2>1, <2>2, <2>3, <1>b DEF CloseInv, QuietIsQuiet, RecordValid, NoRecord
  <2> QED
    BY <2>5, <2>6, <2>7, <2>8 DEF CloseInv
<1>12. CASE CloseThrows
  <2> DEFINE s == [session EXCEPT !.step = "drop"]
  <2>1. s \in Sessions /\ session' = s /\ session.step \in {"peer", "row", "again", "adopt"}
    BY <1>12, <1>b DEF CloseThrows, At, Sessions
  <2>2. /\ s.step = "drop" /\ s.owes = session.owes
        /\ s.compacted = session.compacted /\ s.marked = session.marked
        /\ s.wrote = session.wrote /\ s.counted = session.counted
        /\ s.opened = session.opened /\ s.quiet = session.quiet
    BY <2>1, <1>b DEF Sessions
  <2>3. /\ mishaps' = mishaps + 1 /\ mishaps' \in 0..MaxMishaps /\ UNCHANGED <<catalog, record, lingering>>
    BY <1>12, <1>b, CloseAssumption DEF CloseThrows
  <2>4. mishaps \in 0..MaxMishaps
    BY DEF CloseInv, CloseTypes
  <2> HIDE DEF s
  <2>5. CloseTypes' /\ session' # NoSession
    BY <2>1, <2>3, <2>4, <1>b, <1>c, CloseAssumption DEF NoRecord
  <2>6. (mishaps = 0 => DebtIsSeen)'
    <3> SUFFICES ASSUME mishaps' = 0 PROVE DebtIsSeen'
      OBVIOUS
    <3>1. mishaps = 0 /\ DebtIsSeen
      BY <2>3, <1>b DEF CloseInv
    <3>2. (TRUE \notin lingering)'
      BY <2>1, <2>2, <2>3, <3>1 DEF DebtIsSeen
    <3>3. s.step \in {"open", "writing"} =>
           /\ s.marked <= catalog'.size
           /\ s.owes => catalog'.tail = "chunks" \/ s.marked < catalog'.size
      BY <2>1, <2>2, <2>3, <3>1, <1>b DEF DebtIsSeen
    <3>4. /\ s.step = "peer" /\ s.owes => catalog'.tail = "chunks" \/ s.wrote
          /\ s.step = "again" => catalog'.tail = "chunks"
          /\ s.step = "adopt" /\ s.owes => catalog'.tail = "marker"
          /\ s.step = "drop" => ~s.owes
      BY <2>1, <2>2, <2>3, <3>1, <1>b DEF DebtIsSeen
    <3> QED
      BY <2>1, <3>2, <3>3, <3>4 DEF DebtIsSeen
  <2>7. CompactedIsCompact'
    BY <2>1, <2>2, <2>3, <1>b DEF CloseInv, CompactedIsCompact, NoWriteSince, RecordValid, NoRecord
  <2>8. QuietIsQuiet'
    BY <2>1, <2>2, <2>3, <1>b DEF CloseInv, QuietIsQuiet, RecordValid, NoRecord
  <2> QED
    BY <2>5, <2>6, <2>7, <2>8 DEF CloseInv
<1>13. ASSUME NEW deferred \in BOOLEAN, DropHandle(deferred) PROVE CloseInv'
  <2> DEFINE s == [session EXCEPT !.step = "remember"]
  <2>1. s \in Sessions /\ session' = s /\ session.step = "drop"
    BY <1>13, <1>b DEF DropHandle, At, Sessions
  <2>2. /\ s.step = "remember" /\ s.owes = session.owes
        /\ s.compacted = session.compacted /\ s.marked = session.marked
        /\ s.wrote = session.wrote /\ s.counted = session.counted
        /\ s.opened = session.opened /\ s.quiet = session.quiet
    BY <2>1, <1>b DEF Sessions
  <2>3. /\ catalog' \in Catalogs /\ catalog'.since = catalog.since /\ catalog'.lacks = catalog.lacks
        /\ catalog' = catalog \/ (session.owes /\ catalog'.stamp = catalog.stamp + 1)
        /\ lingering' = lingering \/ lingering' = lingering \cup {session.owes}
        /\ UNCHANGED <<record, mishaps>>
    BY <1>13, <1>b, Marking DEF DropHandle
  <2>4. mishaps \in 0..MaxMishaps
    BY DEF CloseInv, CloseTypes
  <2> HIDE DEF s
  <2>5. CloseTypes' /\ session' # NoSession
    BY <2>1, <2>3, <2>4, <1>b, <1>c, CloseAssumption DEF NoRecord
  <2>6. (mishaps = 0 => DebtIsSeen)'
    <3> SUFFICES ASSUME mishaps' = 0 PROVE DebtIsSeen'
      OBVIOUS
    <3>1. mishaps = 0 /\ DebtIsSeen
      BY <2>3, <1>b DEF CloseInv
    <3>2. (TRUE \notin lingering)'
      BY <2>1, <2>2, <2>3, <3>1 DEF DebtIsSeen
    <3>3. s.step \in {"open", "writing"} =>
           /\ s.marked <= catalog'.size
           /\ s.owes => catalog'.tail = "chunks" \/ s.marked < catalog'.size
      BY <2>1, <2>2, <2>3, <3>1, <1>b DEF DebtIsSeen
    <3>4. /\ s.step = "peer" /\ s.owes => catalog'.tail = "chunks" \/ s.wrote
          /\ s.step = "again" => catalog'.tail = "chunks"
          /\ s.step = "adopt" /\ s.owes => catalog'.tail = "marker"
          /\ s.step = "drop" => ~s.owes
      BY <2>1, <2>2, <2>3, <3>1, <1>b DEF DebtIsSeen
    <3> QED
      BY <2>1, <3>2, <3>3, <3>4 DEF DebtIsSeen
  <2>7. CompactedIsCompact'
    BY <2>1, <2>2, <2>3, <1>b DEF CloseInv, CompactedIsCompact, NoWriteSince, RecordValid, NoRecord
  <2>8. QuietIsQuiet'
    BY <2>1, <2>2, <2>3, <1>b DEF CloseInv, QuietIsQuiet, RecordValid, NoRecord
  <2> QED
    BY <2>5, <2>6, <2>7, <2>8 DEF CloseInv
<1>14. CASE Remember
  <2>1. /\ session.step = "remember" /\ session' = NoSession
        /\ record' = record \/ (session.compacted /\ record' = catalog.stamp)
        /\ UNCHANGED <<catalog, lingering, mishaps>>
    BY <1>14, <1>b DEF Remember
  <2>2. CloseTypes'
    BY <2>1, <1>b, CloseAssumption DEF CloseInv, CloseTypes, NoRecord
  <2>3. (mishaps = 0 => DebtIsSeen)'
    BY <2>1, <1>a, <1>b DEF CloseInv, DebtIsSeen, NoSession
  <2>4. CompactedIsCompact' /\ QuietIsQuiet'
    BY <2>1, <1>a, <1>b DEF CloseInv, CompactedIsCompact, NoWriteSince, QuietIsQuiet, RecordValid, NoSession
  <2> QED
    BY <2>2, <2>3, <2>4 DEF CloseInv
<1>15. ASSUME NEW owes \in BOOLEAN, Finalize(owes) PROVE CloseInv'
  <2>1. /\ owes \in lingering /\ session.step \in {"closed", "open"} /\ lingering' \subseteq lingering
        /\ catalog' \in Catalogs /\ catalog'.since = catalog.since /\ catalog'.lacks = catalog.lacks
        /\ catalog' = catalog \/ (TRUE \in lingering /\ catalog'.stamp = catalog.stamp + 1)
        /\ UNCHANGED <<record, session, mishaps>>
    <3>1. owes \in lingering /\ catalog' = MarkedBy(owes)
      BY <1>15 DEF Finalize
    <3>2. catalog' \in Catalogs /\ catalog'.since = catalog.since /\ catalog'.lacks = catalog.lacks
      BY <3>1, <1>b, Marking
    <3>3. catalog' = catalog \/ (TRUE \in lingering /\ catalog'.stamp = catalog.stamp + 1)
      BY <3>1, <1>b, Marking
    <3> QED
      BY <1>15, <1>a, <3>1, <3>2, <3>3 DEF Finalize
  <2>2. CloseTypes'
    <3>0. catalog'.stamp = catalog.stamp \/ catalog'.stamp = catalog.stamp + 1
      BY <2>1
    <3>1. record <= catalog'.stamp
      BY <3>0, <1>b
    <3> QED
      BY <2>1, <3>1 DEF CloseInv, CloseTypes
  <2>3. (mishaps = 0 => DebtIsSeen)'
    BY <2>1, <1>b DEF CloseInv, DebtIsSeen
  <2>4. CompactedIsCompact'
    <3>0. catalog'.stamp = catalog.stamp \/ catalog'.stamp = catalog.stamp + 1
      BY <2>1
    <3>1. RecordValid' => RecordValid
      BY <2>1, <3>0, <1>b DEF RecordValid
    <3> QED
      BY <2>1, <3>1 DEF CloseInv, CompactedIsCompact, NoWriteSince
  <2>5. QuietIsQuiet'
    BY <2>1, <1>b DEF CloseInv, QuietIsQuiet, RecordValid
  <2> QED
    BY <2>2, <2>3, <2>4, <2>5 DEF CloseInv
<1>16. CASE Killed
  <2>1. /\ mishaps' = mishaps + 1 /\ mishaps' \in 0..MaxMishaps /\ session' = NoSession
        /\ lingering' = {} /\ UNCHANGED <<catalog, record>>
    BY <1>16, <1>b, CloseAssumption DEF Killed
  <2>2. CloseTypes'
    BY <2>1, <1>b, CloseAssumption DEF CloseInv, CloseTypes, NoRecord
  <2>3. (mishaps = 0 => DebtIsSeen)'
    BY <2>1, <1>a, <1>b DEF CloseInv, DebtIsSeen, NoSession
  <2>4. CompactedIsCompact' /\ QuietIsQuiet'
    BY <2>1, <1>a, <1>b DEF CloseInv, CompactedIsCompact, NoWriteSince, QuietIsQuiet, RecordValid, NoSession
  <2> QED
    BY <2>2, <2>3, <2>4 DEF CloseInv
<1>17. CASE UNCHANGED closeVars
  <2>1. UNCHANGED <<catalog, record, session, lingering, mishaps>>
    BY <1>17 DEF closeVars
  <2>2. CloseTypes' /\ (mishaps = 0 => DebtIsSeen)'
    BY <2>1 DEF CloseInv, CloseTypes, DebtIsSeen
  <2>3. CompactedIsCompact' /\ QuietIsQuiet'
    BY <2>1 DEF CloseInv, CompactedIsCompact, NoWriteSince, QuietIsQuiet, RecordValid
  <2> QED
    BY <2>2, <2>3 DEF CloseInv
<1>18. CASE CompleteSchema
  <2> DEFINE s == [session EXCEPT !.owes = TRUE]
  <2>1. s \in Sessions /\ session' = s /\ session.step = "open"
    BY <1>18, <1>b DEF CompleteSchema, Sessions
  <2>2. /\ s.step = "open" /\ s.owes = TRUE
        /\ s.compacted = session.compacted /\ s.marked = session.marked
        /\ s.wrote = session.wrote /\ s.counted = session.counted
        /\ s.opened = session.opened /\ s.quiet = session.quiet
    BY <2>1, <1>b DEF Sessions
  <2>3. /\ catalog' \in Catalogs /\ catalog'.stamp = catalog.stamp + 1 /\ catalog.lacks
        /\ catalog'.size = catalog.size + 1 /\ catalog'.since = catalog.since \cup {"schema"}
        /\ UNCHANGED <<record, lingering, mishaps>>
    <3>1. PICK lacks \in BOOLEAN : catalog' = [Committed("chunks", "schema") EXCEPT !.lacks = lacks]
      BY <1>18 DEF CompleteSchema
    <3>2. PICK c \in Catalogs : /\ c = Committed("chunks", "schema")
                                /\ c.since = catalog.since \cup {"schema"}
                                /\ c.stamp = catalog.stamp + 1 /\ c.size = catalog.size + 1
      BY <1>b, Committing DEF Commits
    <3> QED
      BY <1>18, <3>1, <3>2 DEF CompleteSchema, Catalogs
  <2>4. mishaps \in 0..MaxMishaps
    BY DEF CloseInv, CloseTypes
  <2> HIDE DEF s
  <2>5. CloseTypes' /\ session' # NoSession
    BY <2>1, <2>3, <2>4, <1>b, <1>c, CloseAssumption DEF NoRecord
  <2>6. (mishaps = 0 => DebtIsSeen)'
    <3> SUFFICES ASSUME mishaps' = 0 PROVE DebtIsSeen'
      OBVIOUS
    <3>1. mishaps = 0 /\ DebtIsSeen
      BY <2>3, <1>b DEF CloseInv
    <3>2. (TRUE \notin lingering)'
      BY <2>1, <2>2, <2>3, <3>1 DEF DebtIsSeen
    <3>3. s.step \in {"open", "writing"} =>
           /\ s.marked <= catalog'.size
           /\ s.owes => catalog'.tail = "chunks" \/ s.marked < catalog'.size
      BY <2>1, <2>2, <2>3, <3>1, <1>b DEF DebtIsSeen
    <3>4. /\ s.step = "peer" /\ s.owes => catalog'.tail = "chunks" \/ s.wrote
          /\ s.step = "again" => catalog'.tail = "chunks"
          /\ s.step = "adopt" /\ s.owes => catalog'.tail = "marker"
          /\ s.step = "drop" => ~s.owes
      BY <2>1, <2>2, <2>3, <3>1, <1>b DEF DebtIsSeen
    <3> QED
      BY <2>1, <3>2, <3>3, <3>4 DEF DebtIsSeen
  <2>7. CompactedIsCompact'
    BY <2>1, <2>2, <2>3, <1>b DEF CloseInv, CompactedIsCompact, NoWriteSince, RecordValid, NoRecord
  <2>8. QuietIsQuiet'
    BY <2>1, <2>2, <2>3, <1>b DEF CloseInv, QuietIsQuiet, RecordValid, NoRecord
  <2> QED
    BY <2>5, <2>6, <2>7, <2>8 DEF CloseInv
<1>19. CASE FinishOpen
  <2> DEFINE s == [session EXCEPT !.constructed = TRUE]
  <2>1. s \in Sessions /\ session' = s /\ session.step = "open"
    BY <1>19, <1>b DEF FinishOpen, Sessions
  <2>2. /\ s.step = session.step /\ s.owes = session.owes
        /\ s.compacted = session.compacted /\ s.marked = session.marked
        /\ s.wrote = session.wrote /\ s.counted = session.counted
        /\ s.opened = session.opened /\ s.quiet = session.quiet
    BY <2>1, <1>b DEF Sessions
  <2>3. UNCHANGED <<catalog, record, lingering, mishaps>>
    BY <1>19 DEF FinishOpen
  <2>4. mishaps \in 0..MaxMishaps
    BY DEF CloseInv, CloseTypes
  <2> HIDE DEF s
  <2>5. CloseTypes' /\ session' # NoSession
    BY <2>1, <2>3, <2>4, <1>b, <1>c, CloseAssumption DEF NoRecord
  <2>6. (mishaps = 0 => DebtIsSeen)'
    <3> SUFFICES ASSUME mishaps' = 0 PROVE DebtIsSeen'
      OBVIOUS
    <3>1. mishaps = 0 /\ DebtIsSeen
      BY <2>3, <1>b DEF CloseInv
    <3>2. (TRUE \notin lingering)'
      BY <2>1, <2>2, <2>3, <3>1 DEF DebtIsSeen
    <3>3. s.step \in {"open", "writing"} =>
           /\ s.marked <= catalog'.size
           /\ s.owes => catalog'.tail = "chunks" \/ s.marked < catalog'.size
      BY <2>1, <2>2, <2>3, <3>1, <1>b DEF DebtIsSeen
    <3>4. /\ s.step = "peer" /\ s.owes => catalog'.tail = "chunks" \/ s.wrote
          /\ s.step = "again" => catalog'.tail = "chunks"
          /\ s.step = "adopt" /\ s.owes => catalog'.tail = "marker"
          /\ s.step = "drop" => ~s.owes
      BY <2>1, <2>2, <2>3, <3>1, <1>b DEF DebtIsSeen
    <3> QED
      BY <2>1, <3>2, <3>3, <3>4 DEF DebtIsSeen
  <2>7. CompactedIsCompact'
    BY <2>1, <2>2, <2>3, <1>b DEF CloseInv, CompactedIsCompact, NoWriteSince, RecordValid, NoRecord
  <2>8. QuietIsQuiet'
    BY <2>1, <2>2, <2>3, <1>b DEF CloseInv, QuietIsQuiet, RecordValid, NoRecord
  <2> QED
    BY <2>5, <2>6, <2>7, <2>8 DEF CloseInv
<1>20. CASE FailOpen
  <2> DEFINE s == [session EXCEPT !.step = "peer", !.wrote = FALSE]
  <2>1. s \in Sessions /\ session' = s /\ session.step = "open"
    BY <1>20, <1>b DEF FailOpen, Sessions
  <2>2. /\ s.step = "peer" /\ s.owes = session.owes
        /\ s.compacted = session.compacted /\ s.marked = session.marked
        /\ s.wrote = FALSE /\ s.counted = session.counted
        /\ s.opened = session.opened /\ s.quiet = session.quiet
    BY <2>1, <1>b DEF Sessions
  <2>3. /\ mishaps' = mishaps + 1 /\ mishaps' \in 0..MaxMishaps /\ UNCHANGED <<catalog, record, lingering>>
    BY <1>20, <1>b, CloseAssumption DEF FailOpen
  <2>4. mishaps \in 0..MaxMishaps
    BY DEF CloseInv, CloseTypes
  <2> HIDE DEF s
  <2>5. CloseTypes' /\ session' # NoSession
    BY <2>1, <2>3, <2>4, <1>b, <1>c, CloseAssumption DEF NoRecord
  <2>6. (mishaps = 0 => DebtIsSeen)'
    <3> SUFFICES ASSUME mishaps' = 0 PROVE DebtIsSeen'
      OBVIOUS
    <3>1. mishaps = 0 /\ DebtIsSeen
      BY <2>3, <1>b DEF CloseInv
    <3>2. (TRUE \notin lingering)'
      BY <2>1, <2>2, <2>3, <3>1 DEF DebtIsSeen
    <3>3. s.step \in {"open", "writing"} =>
           /\ s.marked <= catalog'.size
           /\ s.owes => catalog'.tail = "chunks" \/ s.marked < catalog'.size
      BY <2>1, <2>2, <2>3, <3>1, <1>b DEF DebtIsSeen
    <3>4. /\ s.step = "peer" /\ s.owes => catalog'.tail = "chunks" \/ s.wrote
          /\ s.step = "again" => catalog'.tail = "chunks"
          /\ s.step = "adopt" /\ s.owes => catalog'.tail = "marker"
          /\ s.step = "drop" => ~s.owes
      BY <2>1, <2>2, <2>3, <3>1, <1>b DEF DebtIsSeen
    <3> QED
      BY <2>1, <3>2, <3>3, <3>4 DEF DebtIsSeen
  <2>7. CompactedIsCompact'
    BY <2>1, <2>2, <2>3, <1>b DEF CloseInv, CompactedIsCompact, NoWriteSince, RecordValid, NoRecord
  <2>8. QuietIsQuiet'
    BY <2>1, <2>2, <2>3, <1>b DEF CloseInv, QuietIsQuiet, RecordValid, NoRecord
  <2> QED
    BY <2>5, <2>6, <2>7, <2>8 DEF CloseInv
<1> QED
  BY <1>1, <1>2, <1>3, <1>4, <1>5, <1>6, <1>7, <1>8, <1>9, <1>10, <1>11, <1>12, <1>13, <1>14,
     <1>15, <1>16, <1>17, <1>18, <1>19, <1>20 DEF CloseNext

LEMMA CloseInvariant == CloseSpec => []CloseInv
<1>1. CloseInit => CloseInv
  <2> SUFFICES ASSUME CloseInit PROVE CloseInv
    OBVIOUS
  <2>1. /\ catalog \in Catalogs /\ catalog.stamp = 0 /\ catalog.since = {}
        /\ session = NoSession /\ session.step = "closed"
    BY DEF CloseInit, Catalogs, NoSession
  <2> QED
    BY <2>1, CloseAssumption DEF CloseInit, CloseInv, CloseTypes, DebtIsSeen,
       CompactedIsCompact, NoWriteSince, QuietIsQuiet, NoRecord
<1> QED
  BY <1>1, CloseStep, PTL DEF CloseSpec

(* The types of the catalog file, its record and the connections.          *)
THEOREM CloseTyped == CloseSpec => []CloseTypeOK
<1>1. CloseInv => CloseTypeOK
  <2> SUFFICES ASSUME CloseInv PROVE CloseTypeOK
    OBVIOUS
  <2>1. record # NoRecord => record \in 0..catalog.stamp
    BY DEF CloseInv, CloseTypes, Catalogs, NoRecord
  <2>2. session.step \in {"closed", "open", "writing", "peer", "row", "again", "adopt", "drop", "remember"}
    BY DEF CloseInv, CloseTypes, Sessions, NoSession
  <2> QED
    BY <2>1, <2>2 DEF CloseInv, CloseTypes, CloseTypeOK, Catalogs
<1> QED
  BY <1>1, CloseInvariant, PTL

(* A catalog that is closed is left alone by deferred closes, a record     *)
(* that calls it compacted has seen every transaction of the store (if not *)
(* the row of its close and what completed its schema), and a session that *)
(* writes nothing leaves no trace: constructor, close, gcCatalog and       *)
(* catalog-gc-state.ts, with kills, failed opens and closes, and finalizers*)
(* at any moment.                                                          *)
THEOREM CloseTruth == CloseSpec => CloseIsTruthful
<1>2. CloseInv => DeferredCloseIsSilent /\ RecordIsTruthful
  <2> SUFFICES ASSUME CloseInv PROVE DeferredCloseIsSilent /\ RecordIsTruthful
    OBVIOUS
  <2>1. mishaps \in Nat
    BY CloseAssumption DEF CloseInv, CloseTypes
  <2>2. DeferredCloseIsSilent
    <3>1. mishaps = 0 => TRUE \notin lingering
      BY DEF CloseInv, DebtIsSeen
    <3>2. mishaps = 0 \/ mishaps > 0
      BY <2>1
    <3> QED
      BY <3>1, <3>2 DEF DeferredCloseIsSilent
  <2> QED
    BY <2>2 DEF CloseInv, CompactedIsCompact, NoWriteSince, RecordIsTruthful, CloseTypes, Catalogs, Commits
<1>3. ASSUME CloseInv, [CloseNext]_closeVars
      PROVE  [session.step = "remember" /\ session.quiet /\ session' = NoSession /\ mishaps' = mishaps =>
                catalog.stamp = session.opened /\ RecordValid']_closeVars
  <2> SUFFICES ASSUME session.step = "remember", session.quiet, session' = NoSession,
                      mishaps' = mishaps
               PROVE  catalog.stamp = session.opened /\ RecordValid'
    OBVIOUS
  <2>1. session # NoSession /\ mishaps \in Nat
    BY <1>3, CloseAssumption DEF CloseInv, CloseTypes, NoSession
  <2>2. catalog.stamp = session.opened /\ RecordValid
    BY <1>3, <2>1 DEF CloseInv, QuietIsQuiet
  <2>3. CASE Remember
    BY <2>2, <2>3 DEF Remember, RecordValid
  <2>4. ~Killed
    BY <2>1 DEF Killed
  <2>5. ~UNCHANGED closeVars
    BY <2>1 DEF closeVars
  <2>6. Remember
    <3>1. /\ ~OpenCatalog /\ ~BeginWrite /\ ~Rollback /\ ~CollectFails /\ ~BeginClose
          /\ ~CompleteSchema /\ ~FinishOpen /\ ~FailOpen
      BY <2>1 DEF OpenCatalog, BeginWrite, Rollback, CollectFails, BeginClose,
         CompleteSchema, FinishOpen, FailOpen
    <3>2. ~PeerCloses /\ ~WriteCloseRow /\ ~PeerClosesAgain /\ ~AdoptMarker /\ ~CloseThrows
      BY DEF PeerCloses, WriteCloseRow, PeerClosesAgain, AdoptMarker, CloseThrows
    <3>3. /\ \A kind \in {"chunks", "bare"}, counts \in BOOLEAN : ~CommitCatalogWrite(kind, counts)
          /\ \A b \in BOOLEAN : ~CollectCatalog(b) /\ ~DropHandle(b) /\ ~Finalize(b)
      BY <2>1 DEF CommitCatalogWrite, CollectCatalog, DropHandle, Finalize
    <3> QED
      BY <1>3, <2>4, <2>5, <3>1, <3>2, <3>3 DEF CloseNext
  <2> QED
    BY <2>2, <2>3, <2>6
<1>4. [](DeferredCloseIsSilent /\ RecordIsTruthful) /\ QuietSessionLeavesNoTrace => CloseIsTruthful
  BY DEF CloseIsTruthful
<1> QED
  BY <1>2, <1>3, <1>4, CloseInvariant, PTL DEF CloseSpec, QuietSessionLeavesNoTrace

---------------------------------------------------------------------------
(* Workspaces                                                              *)

OpRecords == [kind : Kinds, phase : Phases, src : Paths \cup {Absent}, dst : Paths \cup {Absent},
              obj : Objects \cup {Absent}, links : FileRows, todo : SUBSET Paths,
              warm : BOOLEAN, copied : BOOLEAN]

(* The steps that each call takes, and the names that it works on.         *)
WellFormed(o) ==
  /\ o.kind = "idle" => o = Idling
  /\ o.kind = "write" => o.phase \in {"commit", "place"} /\ o.dst \in Paths /\ o.obj \in Objects
  /\ o.kind = "read" => o.phase = "place" /\ o.dst \in Paths
  /\ o.kind = "delete" => o.phase \in {"commit", "unlink"} /\ o.src \in Paths
  /\ o.kind = "rename" => o.phase \in {"place", "commit", "unlink"} /\ o.src \in Paths /\ o.dst \in Paths
  /\ o.kind = "copy" => o.phase \in {"place", "commit"} /\ o.dst \in Paths /\ o.obj \in Objects
  /\ o.kind = "ingest" => o.phase = "commit"
  /\ o.kind = "evict" => o.phase = "hydrate"
  /\ o.kind = "materialize" => o.phase \in {"stat", "place"}
  /\ o.kind = "restore" => o.phase \in {"unlink", "stat", "place"}
  /\ o.kind \in {"materialize", "restore"} /\ o.phase = "place" => o.todo # {}

(* The path whose row and copy a call has left different for its next step. *)
Working(o) == {p \in Paths : p = o.dst /\ <<o.kind, o.phase>> \in {<<"write", "place">>, <<"copy", "commit">>}}

(* What a call that shares its paths with no other one has found or done,  *)
(* and what is still so.                                                   *)
Fits(o) ==
  /\ o.kind = "write" /\ o.phase = "place" => files[o.dst] = o.obj
  /\ o.kind = "read" => files[o.dst] = o.obj
  /\ o.kind = "rename" /\ o.phase \in {"place", "commit"} =>
       files[o.src] = o.obj /\ files[o.src] # Absent /\ files[o.dst] = Absent
  /\ o.kind \in {"rename", "copy"} /\ o.phase = "commit" => disk[o.dst] = o.obj
  /\ o.kind = "ingest" => \A p \in Paths : o.links[p] # Absent => disk[p] = o.links[p]
  /\ o.kind = "evict" => \A p \in Paths : disk[p] = Absent
  /\ o.kind \in {"materialize", "restore"} /\ o.phase # "unlink" =>
       /\ \A p \in Paths : o.links[p] = files[p]
       /\ ~o.warm => \A p \in Paths \ o.todo : files[p] # Absent => disk[p] = files[p]

WsTypes ==
  /\ files \in FileRows /\ disk \in FileRows /\ hydrated \in BOOLEAN
  /\ apart \in BOOLEAN /\ trusted \in BOOLEAN
  /\ op \in [Callers -> OpRecords] /\ changes \in 0..MaxChanges

WsInv ==
  /\ WsTypes
  /\ \A c \in Callers : WellFormed(op[c])
  /\ trusted => apart
  /\ apart => \A c, d \in InFlight : c # d => PathsOf(op[c]) \cap PathsOf(op[d]) = {}
  /\ apart => \A c \in Callers : Fits(op[c])
  /\ trusted => \A p \in Paths : Current(p) \/ \E c \in Callers : p \in Working(op[c])

(* The record of a call that has ended.                                    *)
LEMMA IdleRecord ==
  /\ Idling \in OpRecords /\ WellFormed(Idling) /\ Idling.kind = "idle"
  /\ PathsOf(Idling) = {} /\ Working(Idling) = {} /\ Fits(Idling)'
  /\ \A o \in OpRecords : WellFormed(o) => (o.kind = "idle" <=> o = Idling)
<1>1. [p \in Paths |-> Absent] \in FileRows
  BY DEF FileRows
<1>2. Idling \in OpRecords /\ Idling.kind = "idle" /\ Idling.src = Absent /\ Idling.dst = Absent
      /\ Idling.links = [p \in Paths |-> Absent]
  BY <1>1 DEF Idling, OpRecords, Kinds, Phases
<1>3. WellFormed(Idling)
  BY <1>2 DEF WellFormed
<1>4. PathsOf(Idling) = {} /\ Working(Idling) = {}
  BY <1>2, WsAssumption DEF PathsOf, Working
<1>5. Fits(Idling)'
  BY <1>2 DEF Fits
<1> QED
  BY <1>2, <1>3, <1>4, <1>5 DEF WellFormed

(* The path of a call's next step is one of its paths, and where it stands *)
(* rests on its paths only.                                                *)
LEMMA WorkIsWithin ==
  ASSUME NEW o \in OpRecords
  PROVE  Working(o) \subseteq PathsOf(o)
BY DEF Working, PathsOf

LEMMA FitsStays ==
  ASSUME NEW o \in OpRecords, WellFormed(o), Fits(o),
         \A p \in PathsOf(o) : files'[p] = files[p] /\ disk'[p] = disk[p]
  PROVE  Fits(o)'
<1>1. CASE o.kind \in {"evict", "materialize", "restore"}
  BY <1>1 DEF Fits, PathsOf
<1>2. CASE o.kind \notin {"evict", "materialize", "restore"}
  <2>1. /\ \A p \in Paths : p = o.src \/ p = o.dst \/ o.links[p] # Absent => p \in PathsOf(o)
    BY <1>2 DEF PathsOf
  <2>2. /\ o.kind \in {"write", "read", "rename", "copy"} => o.dst \in PathsOf(o)
        /\ o.kind = "rename" => o.src \in PathsOf(o)
    BY <2>1 DEF WellFormed
  <2>3. (o.kind = "ingest" => \A p \in Paths : o.links[p] # Absent => disk[p] = o.links[p])'
    BY <2>1 DEF Fits
  <2> QED
    BY <1>2, <2>2, <2>3 DEF Fits
<1> QED
  BY <1>1, <1>2

(* A call begins: where it meets no other one, its copies are current.     *)
LEMMA CallBegins ==
  ASSUME WsInv, NEW c \in Callers, NEW o \in OpRecords, o.kind # "idle", WellFormed(o), Start(c, o),
         files' \in FileRows, disk' \in FileRows, hydrated' \in BOOLEAN, changes' \in 0..MaxChanges,
         \A p \in Paths \ PathsOf(o) : files'[p] = files[p] /\ disk'[p] = disk[p],
         Fits(o)',
         o.kind # "restore" => \A p \in PathsOf(o) : Current(p) => Current(p)'
  PROVE  WsInv'
<1>0. /\ op[c] = Idling /\ op' = [op EXCEPT ![c] = o]
      /\ apart' = (InFlight = {} \/ (apart /\ ~Meets(o)))
      /\ trusted' = (trusted /\ ~Meets(o) /\ o.kind # "restore")
  BY DEF Start
<1>1. \A d \in Callers : op'[d] = (IF d = c THEN o ELSE op[d])
  BY <1>0 DEF WsInv, WsTypes
<1>2. InFlight' = InFlight \cup {c} /\ c \notin InFlight
  BY <1>0, <1>1, IdleRecord DEF InFlight
<1>3. WsTypes' /\ (\A d \in Callers : WellFormed(op'[d])) /\ (trusted' => apart')
  BY <1>0, <1>1 DEF WsInv, WsTypes
<1>a. apart' => \A d \in InFlight : apart /\ PathsOf(o) \cap PathsOf(op[d]) = {}
  BY <1>0 DEF Meets
<1>4. apart' => \A d, e \in InFlight' : d # e => PathsOf(op'[d]) \cap PathsOf(op'[e]) = {}
  <2> SUFFICES ASSUME apart', NEW d \in InFlight', NEW e \in InFlight', d # e
               PROVE  PathsOf(op'[d]) \cap PathsOf(op'[e]) = {}
    OBVIOUS
  <2>1. CASE d = c
    <3>1. e \in InFlight /\ op'[d] = o /\ op'[e] = op[e]
      BY <1>1, <1>2, <2>1 DEF InFlight
    <3> QED
      BY <3>1, <1>a
  <2>2. CASE e = c
    <3>1. d \in InFlight /\ op'[e] = o /\ op'[d] = op[d]
      BY <1>1, <1>2, <2>2 DEF InFlight
    <3> QED
      BY <3>1, <1>a
  <2>3. CASE d # c /\ e # c
    <3>1. d \in InFlight /\ op'[e] = op[e] /\ op'[d] = op[d] /\ e \in InFlight
      BY <1>1, <1>2, <2>3 DEF InFlight
    <3> QED
      BY <3>1, <1>a DEF WsInv
  <2> QED
    BY <2>1, <2>2, <2>3
<1>5. ASSUME apart', NEW d \in Callers PROVE Fits(op[d])'
  <2>1. CASE d = c
    BY <1>1, <2>1
  <2>2. CASE d # c /\ d \notin InFlight
    <3>1. op'[d] = Idling
      BY <1>1, <2>2, IdleRecord DEF InFlight, WsInv, WsTypes
    <3> QED
      BY <3>1, IdleRecord
  <2>3. CASE d # c /\ d \in InFlight
    <3>1. op'[d] = op[d] /\ apart /\ PathsOf(o) \cap PathsOf(op[d]) = {}
      BY <1>1, <1>5, <1>a, <2>3
    <3>2. PICK r \in OpRecords : r = op[d]
      BY DEF WsInv, WsTypes
    <3>3. WellFormed(r) /\ Fits(r) /\ PathsOf(r) \subseteq Paths /\ PathsOf(r) = PathsOf(op[d])
      BY <3>1, <3>2 DEF WsInv, PathsOf
    <3>4. \A p \in PathsOf(r) : files'[p] = files[p] /\ disk'[p] = disk[p]
      BY <3>1, <3>3
    <3>5. Fits(r)'
      BY <3>3, <3>4, FitsStays
    <3> QED
      BY <3>1, <3>2, <3>5
  <2> QED
    BY <2>1, <2>2, <2>3
<1>6. ASSUME trusted', NEW p \in Paths PROVE Current(p)' \/ \E d \in Callers : p \in Working(op'[d])
  <2>1. trusted /\ apart /\ o.kind # "restore" /\ \A d \in InFlight : PathsOf(o) \cap PathsOf(op[d]) = {}
    BY <1>0, <1>6 DEF Meets, WsInv
  <2>2. CASE \E d \in Callers : p \in Working(op[d])
    <3>1. PICK d \in Callers : p \in Working(op[d])
      BY <2>2
    <3>2. d # c
      BY <1>0, <3>1, IdleRecord
    <3> QED
      BY <1>1, <3>1, <3>2
  <2>3. CASE Current(p) /\ p \in PathsOf(o)
    BY <2>1, <2>3
  <2>4. CASE Current(p) /\ p \notin PathsOf(o)
    BY <2>4 DEF Current
  <2> QED
    BY <2>1, <2>2, <2>3, <2>4 DEF WsInv
<1> QED
  BY <1>3, <1>4, <1>5, <1>6 DEF WsInv

LEMMA CallStarts ==
  ASSUME WsInv, NEW c \in Callers, NEW o \in OpRecords, o.kind \notin {"idle", "restore"}, WellFormed(o),
         Start(c, o), UNCHANGED <<files, disk, hydrated, changes>>, Fits(o)'
  PROVE  WsInv'
<1>1. files' \in FileRows /\ disk' \in FileRows /\ hydrated' \in BOOLEAN /\ changes' \in 0..MaxChanges
  BY DEF WsInv, WsTypes
<1>2. \A p \in PathsOf(o) : Current(p) => Current(p)'
  BY DEF Current
<1> QED
  BY <1>1, <1>2, CallBegins

(* A call goes on or ends.                                                 *)
LEMMA CallContinues ==
  ASSUME WsInv, NEW c \in Callers, op[c].kind # "idle", NEW o \in OpRecords, WellFormed(o),
         op' = [op EXCEPT ![c] = o], UNCHANGED <<apart, changes>>, PathsOf(o) \subseteq PathsOf(op[c]),
         files' \in FileRows, disk' \in FileRows, hydrated' \in BOOLEAN, trusted' \in BOOLEAN,
         \A p \in Paths \ PathsOf(op[c]) : files'[p] = files[p] /\ disk'[p] = disk[p],
         Fits(op[c]) => Fits(o)',
         trusted' => trusted \/ (apart /\ PathsOf(op[c]) = Paths),
         trusted' /\ Fits(op[c]) /\ (trusted => \A p \in PathsOf(op[c]) : Current(p) \/ p \in Working(op[c]))
           => \A p \in PathsOf(op[c]) : Current(p)' \/ p \in Working(o)
  PROVE  WsInv'
<1>1. \A d \in Callers : op'[d] = (IF d = c THEN o ELSE op[d])
  BY DEF WsInv, WsTypes
<1>2. InFlight' \subseteq InFlight /\ c \in InFlight
  BY <1>1 DEF InFlight
<1>3. WsTypes' /\ (\A d \in Callers : WellFormed(op'[d])) /\ (trusted' => apart')
  BY <1>1 DEF WsInv, WsTypes
<1>a. apart => \A d \in InFlight : d # c => PathsOf(op[c]) \cap PathsOf(op[d]) = {}
  BY <1>2 DEF WsInv
<1>4. apart' => \A d, e \in InFlight' : d # e => PathsOf(op'[d]) \cap PathsOf(op'[e]) = {}
  <2> SUFFICES ASSUME apart', NEW d \in InFlight', NEW e \in InFlight', d # e
               PROVE  PathsOf(op'[d]) \cap PathsOf(op'[e]) = {}
    OBVIOUS
  <2>1. d \in InFlight /\ e \in InFlight /\ d \in Callers /\ e \in Callers
    BY <1>2 DEF InFlight
  <2>2. PathsOf(op'[d]) \subseteq PathsOf(op[d]) /\ PathsOf(op'[e]) \subseteq PathsOf(op[e])
    BY <1>1, <2>1
  <2>3. PathsOf(op[d]) \cap PathsOf(op[e]) = {}
    BY <2>1 DEF WsInv
  <2> QED
    BY <2>2, <2>3
<1>5. ASSUME apart', NEW d \in Callers PROVE Fits(op[d])'
  <2>1. CASE d = c
    BY <1>1, <1>5, <2>1 DEF WsInv
  <2>2. CASE d # c /\ d \notin InFlight
    <3>1. op'[d] = Idling
      BY <1>1, <2>2, IdleRecord DEF InFlight, WsInv, WsTypes
    <3> QED
      BY <3>1, IdleRecord
  <2>3. CASE d # c /\ d \in InFlight
    <3>1. op'[d] = op[d] /\ PathsOf(op[c]) \cap PathsOf(op[d]) = {}
      BY <1>1, <1>5, <1>a, <2>3
    <3>2. PICK r \in OpRecords : r = op[d]
      BY DEF WsInv, WsTypes
    <3>3. WellFormed(r) /\ Fits(r) /\ PathsOf(r) \subseteq Paths /\ PathsOf(r) = PathsOf(op[d])
      BY <1>5, <3>2 DEF WsInv, PathsOf
    <3>4. \A p \in PathsOf(r) : files'[p] = files[p] /\ disk'[p] = disk[p]
      BY <3>1, <3>3
    <3>5. Fits(r)'
      BY <3>3, <3>4, FitsStays
    <3> QED
      BY <3>1, <3>2, <3>5
  <2> QED
    BY <2>1, <2>2, <2>3
<1>6. ASSUME trusted', NEW p \in Paths PROVE Current(p)' \/ \E d \in Callers : p \in Working(op'[d])
  <2>1. apart /\ Fits(op[c]) /\ \A d \in Callers : d # c => PathsOf(op[c]) \cap Working(op[d]) = {}
    <3>1. apart /\ Fits(op[c])
      BY <1>6 DEF WsInv
    <3>2. ASSUME NEW d \in Callers, d # c PROVE PathsOf(op[c]) \cap Working(op[d]) = {}
      <4>1. CASE d \in InFlight
        BY <3>1, <4>1, <3>2, <1>a, WorkIsWithin DEF WsInv, WsTypes
      <4>2. CASE d \notin InFlight
        BY <4>2, IdleRecord DEF InFlight, WsInv, WsTypes
      <4> QED
        BY <4>1, <4>2
    <3> QED
      BY <3>1, <3>2
  <2>2. trusted => \A q \in PathsOf(op[c]) : Current(q) \/ q \in Working(op[c])
    BY <2>1 DEF WsInv, PathsOf
  <2>3. CASE p \in PathsOf(op[c])
    BY <1>1, <1>6, <2>1, <2>2, <2>3
  <2>4. CASE p \notin PathsOf(op[c])
    <3>1. trusted
      BY <1>6, <2>4
    <3>2. CASE Current(p)
      BY <2>4, <3>2 DEF Current
    <3>3. CASE \E d \in Callers : p \in Working(op[d])
      <4>1. PICK d \in Callers : p \in Working(op[d])
        BY <3>3
      <4>2. d # c
        BY <2>4, <4>1, WorkIsWithin DEF WsInv, WsTypes
      <4> QED
        BY <1>1, <4>1, <4>2
    <3> QED
      BY <3>1, <3>2, <3>3 DEF WsInv
  <2> QED
    BY <2>3, <2>4
<1> QED
  BY <1>3, <1>4, <1>5, <1>6 DEF WsInv

(* Every step keeps the invariant.                                         *)
LEMMA WsBegins ==
  ASSUME WsInv, NEW c \in Callers, Begins(c)
  PROVE  WsInv'
<1>1. /\ files \in FileRows /\ disk \in FileRows /\ hydrated \in BOOLEAN /\ changes \in 0..MaxChanges
      /\ Idling \in OpRecords /\ RowsListed \in SUBSET Paths /\ MaxChanges \in Nat
      /\ Idling.todo = {} /\ Idling.phase = "begin" /\ Idling.obj = Absent
  BY IdleRecord, WsAssumption DEF WsInv, WsTypes, RowsListed, Idling
<1>2. ASSUME NEW p \in Paths, NEW x \in Objects, Write(c, p, x) PROVE WsInv'
  <2>1. PICK o : o = [Idling EXCEPT !.kind = "write", !.phase = "commit", !.dst = p, !.obj = x]
    OBVIOUS
  <2>2. o \in OpRecords /\ o.kind = "write" /\ o.phase = "commit" /\ o.dst = p /\ o.obj = x
    BY <1>1, <2>1 DEF OpRecords, Kinds, Phases
  <2>3. WellFormed(o)
    BY <2>2 DEF WellFormed
  <2>4. Start(c, o) /\ UNCHANGED <<files, disk, hydrated, changes>>
    BY <1>2, <2>1 DEF Write
  <2>5. Fits(o)'
    BY <2>2, <2>4 DEF Fits
  <2> QED
    BY <2>2, <2>3, <2>4, <2>5, CallStarts
<1>3. ASSUME NEW p \in Paths, NEW x \in Objects, Copy(c, p, x) PROVE WsInv'
  <2>1. PICK o : o = [Idling EXCEPT !.kind = "copy", !.phase = "place", !.dst = p, !.obj = x]
    OBVIOUS
  <2>2. o \in OpRecords /\ o.kind = "copy" /\ o.phase = "place" /\ o.dst = p /\ o.obj = x
    BY <1>1, <2>1 DEF OpRecords, Kinds, Phases
  <2>3. WellFormed(o)
    BY <2>2 DEF WellFormed
  <2>4. Start(c, o) /\ UNCHANGED <<files, disk, hydrated, changes>>
    BY <1>3, <2>1 DEF Copy
  <2>5. Fits(o)'
    BY <2>2, <2>4 DEF Fits
  <2> QED
    BY <2>2, <2>3, <2>4, <2>5, CallStarts
<1>4. ASSUME NEW p \in Paths, Read(c, p) PROVE WsInv'
  <2>1. PICK o : o = [Idling EXCEPT !.kind = "read", !.phase = "place", !.dst = p, !.obj = files[p]]
    OBVIOUS
  <2>2. o \in OpRecords /\ o.kind = "read" /\ o.phase = "place" /\ o.dst = p /\ o.obj = files[p]
    BY <1>1, <2>1 DEF OpRecords, Kinds, Phases, FileRows
  <2>3. WellFormed(o)
    BY <2>2 DEF WellFormed
  <2>4. Start(c, o) /\ UNCHANGED <<files, disk, hydrated, changes>>
    BY <1>4, <2>1 DEF Read
  <2>5. Fits(o)'
    BY <2>2, <2>4 DEF Fits
  <2> QED
    BY <2>2, <2>3, <2>4, <2>5, CallStarts
<1>5. ASSUME NEW p \in Paths, Delete(c, p) PROVE WsInv'
  <2>1. PICK o : o = [Idling EXCEPT !.kind = "delete", !.phase = "commit", !.src = p]
    OBVIOUS
  <2>2. o \in OpRecords /\ o.kind = "delete" /\ o.phase = "commit" /\ o.src = p
    BY <1>1, <2>1 DEF OpRecords, Kinds, Phases
  <2>3. WellFormed(o)
    BY <2>2 DEF WellFormed
  <2>4. Start(c, o) /\ UNCHANGED <<files, disk, hydrated, changes>>
    BY <1>5, <2>1 DEF Delete
  <2>5. Fits(o)'
    BY <2>2, <2>4 DEF Fits
  <2> QED
    BY <2>2, <2>3, <2>4, <2>5, CallStarts
<1>6. ASSUME NEW p \in Paths, NEW q \in Paths, Rename(c, p, q) PROVE WsInv'
  <2>1. PICK o : o = [Idling EXCEPT !.kind = "rename", !.phase = "place", !.src = p, !.dst = q,
                                       !.obj = files[p]]
    OBVIOUS
  <2>2. o \in OpRecords /\ o.kind = "rename" /\ o.phase = "place" /\ o.src = p /\ o.dst = q /\ o.obj = files[p]
    BY <1>1, <2>1 DEF OpRecords, Kinds, Phases, FileRows
  <2>3. WellFormed(o)
    BY <2>2 DEF WellFormed
  <2>4. Start(c, o) /\ UNCHANGED <<files, disk, hydrated, changes>> /\ files[p] # Absent /\ files[q] = Absent
    BY <1>6, <2>1 DEF Rename
  <2>5. Fits(o)'
    BY <2>2, <2>4 DEF Fits
  <2> QED
    BY <2>2, <2>3, <2>4, <2>5, CallStarts
<1>7. ASSUME NEW S \in SUBSET Paths, Ingest(c, S) PROVE WsInv'
  <2>1. PICK l : l = [p \in Paths |-> IF p \in S THEN disk[p] ELSE Absent]
    OBVIOUS
  <2>2. PICK o : o = [Idling EXCEPT !.kind = "ingest", !.phase = "commit", !.links = l]
    OBVIOUS
  <2>3. l \in FileRows /\ \A p \in Paths : l[p] # Absent => l[p] = disk[p]
    BY <1>1, <2>1 DEF FileRows
  <2>4. o \in OpRecords /\ o.kind = "ingest" /\ o.phase = "commit" /\ o.links = l
    BY <1>1, <2>2, <2>3 DEF OpRecords, Kinds, Phases
  <2>5. WellFormed(o)
    BY <2>4 DEF WellFormed
  <2>6. Start(c, o) /\ UNCHANGED <<files, disk, hydrated, changes>>
    BY <1>7, <2>1, <2>2 DEF Ingest
  <2>7. Fits(o)'
    BY <2>3, <2>4, <2>6 DEF Fits
  <2> QED
    BY <2>4, <2>5, <2>6, <2>7, CallStarts
<1>8. ASSUME Evict(c) PROVE WsInv'
  <2>1. PICK o : o = [Idling EXCEPT !.kind = "evict", !.phase = "hydrate"]
    OBVIOUS
  <2>2. o \in OpRecords /\ o.kind = "evict" /\ o.phase = "hydrate"
    BY <1>1, <2>1 DEF OpRecords, Kinds, Phases
  <2>3. WellFormed(o) /\ PathsOf(o) = Paths
    BY <2>2 DEF WellFormed, PathsOf
  <2>4. Start(c, o) /\ UNCHANGED <<files, hydrated, changes>> /\ disk' = [p \in Paths |-> Absent]
    BY <1>8, <2>1 DEF Evict
  <2>5. disk' \in FileRows /\ \A p \in Paths : disk'[p] = Absent
    BY <2>4 DEF FileRows
  <2>6. Fits(o)' /\ \A p \in PathsOf(o) : Current(p)'
    BY <2>2, <2>3, <2>5 DEF Fits, Current
  <2> QED
    BY <1>1, <2>2, <2>3, <2>4, <2>5, <2>6, CallBegins
<1>9. ASSUME Materialize(c) PROVE WsInv'
  <2>1. PICK o : o = Materializing("materialize", hydrated)
    OBVIOUS
  <2>2. /\ o \in OpRecords /\ o.kind = "materialize" /\ o.phase = "stat"
        /\ o.links = files /\ o.warm = hydrated /\ o.todo = RowsListed
    BY <1>1, <2>1 DEF OpRecords, Kinds, Phases, Materializing
  <2>3. WellFormed(o)
    BY <2>2 DEF WellFormed
  <2>4. Start(c, o) /\ UNCHANGED <<files, disk, hydrated, changes>>
    BY <1>9, <2>1 DEF Materialize
  <2>5. Fits(o)'
    BY <2>2, <2>4 DEF Fits, RowsListed
  <2> QED
    BY <2>2, <2>3, <2>4, <2>5, CallStarts
<1>10. ASSUME NEW rows \in FileRows, Restore(c, rows) PROVE WsInv'
  <2>1. PICK o : o = [Idling EXCEPT !.kind = "restore", !.phase = "unlink"]
    OBVIOUS
  <2>2. o \in OpRecords /\ o.kind = "restore" /\ o.phase = "unlink"
    BY <1>1, <2>1 DEF OpRecords, Kinds, Phases
  <2>3. WellFormed(o) /\ PathsOf(o) = Paths /\ Fits(o)'
    BY <2>2 DEF WellFormed, PathsOf, Fits
  <2>4. Start(c, o)
    BY <1>10, <2>1 DEF Restore
  <2>5. files' \in FileRows /\ disk' \in FileRows /\ hydrated' \in BOOLEAN /\ changes' \in 0..MaxChanges
    <3>1. files' = rows /\ disk' = disk /\ hydrated' = FALSE /\ changes < MaxChanges /\ changes' = changes + 1
      BY <1>10 DEF Restore, ChangeRows
    <3>2. changes' \in 0..MaxChanges
      BY <1>1, <3>1
    <3>3. hydrated' \in BOOLEAN
      BY <3>1
    <3> QED
      BY <1>1, <3>1, <3>2, <3>3, Zenon
  <2> QED
    BY <2>2, <2>3, <2>4, <2>5, CallBegins
<1> QED
  BY <1>2, <1>3, <1>4, <1>5, <1>6, <1>7, <1>8, <1>9, <1>10 DEF Begins

LEMMA WsEnds ==
  ASSUME WsInv, NEW c \in Callers, op[c].kind # "idle", CallEnds(c),
         files' \in FileRows, disk' \in FileRows, hydrated' \in BOOLEAN, changes' = changes,
         trusted' \in BOOLEAN, trusted' => trusted \/ (apart /\ PathsOf(op[c]) = Paths),
         \A p \in Paths \ PathsOf(op[c]) : files'[p] = files[p] /\ disk'[p] = disk[p],
         trusted' /\ Fits(op[c]) /\ (trusted => \A p \in PathsOf(op[c]) : Current(p) \/ p \in Working(op[c]))
           => \A p \in PathsOf(op[c]) : Current(p)'
  PROVE  WsInv'
<1>1. op' = [op EXCEPT ![c] = Idling] /\ apart' = apart
  BY DEF CallEnds, CallGoes
<1>2. PICK o \in OpRecords : o = Idling
  BY IdleRecord
<1> QED
  BY <1>1, <1>2, IdleRecord, CallContinues

(* The fields of a call that a step keeps.                                 *)
SameCall(o, r) == o.kind = r.kind /\ o.src = r.src /\ o.dst = r.dst /\ o.links = r.links
LEMMA SamePaths ==
  ASSUME NEW o, NEW r, SameCall(o, r)
  PROVE  PathsOf(o) = PathsOf(r)
BY DEF SameCall, PathsOf

LEMMA WsContinues ==
  ASSUME WsInv, NEW c \in Callers, Continues(c)
  PROVE  WsInv'
<1>1. /\ files \in FileRows /\ disk \in FileRows /\ hydrated \in BOOLEAN /\ trusted \in BOOLEAN
      /\ op[c] \in OpRecords /\ WellFormed(op[c]) /\ Idling \in OpRecords
      /\ Idling.kind = "idle" /\ Idling.phase = "begin"
  BY IdleRecord DEF WsInv, WsTypes, Idling
<1>2. \A p \in Paths : files[p] \in Objects \cup {Absent} /\ disk[p] \in Objects \cup {Absent}
  BY <1>1 DEF FileRows
<1>3. \A x \in Objects : x # Absent
  BY WsAssumption
(* The paths of a call that is about its one or two files.                 *)
<1>p. /\ op[c].kind \in {"write", "read", "rename", "copy"} => op[c].dst \in PathsOf(op[c])
      /\ op[c].kind \in {"delete", "rename"} => op[c].src \in PathsOf(op[c])
      /\ op[c].kind \in {"evict", "materialize", "restore"} => PathsOf(op[c]) = Paths
      /\ op[c].kind = "ingest" => \A p \in Paths : op[c].links[p] # Absent => p \in PathsOf(op[c])
  BY <1>1 DEF PathsOf, WellFormed
<1>q. PathsOf(op[c]) \subseteq Paths
  BY DEF PathsOf
(* Only two calls have work under way between their steps.                 *)
<1>w. ASSUME NEW r, r.kind \notin {"write", "copy"} \/ (r.kind = "write" /\ r.phase # "place")
                      \/ (r.kind = "copy" /\ r.phase # "commit")
      PROVE  Working(r) = {}
  BY <1>w DEF Working
<1>4. ASSUME CommitWrite(c) PROVE WsInv'
  <2>0. op[c].kind = "write" /\ op[c].phase = "commit" /\ op[c].dst \in Paths /\ op[c].obj \in Objects
    BY <1>1, <1>4, IdleRecord DEF CommitWrite, WellFormed, OpRecords, Kinds
  <2>1. PICK o : o = [op[c] EXCEPT !.phase = "place"]
    OBVIOUS
  <2>2. /\ o \in OpRecords /\ SameCall(o, op[c]) /\ o.phase = "place" /\ o.obj = op[c].obj
    BY <1>1, <2>0, <2>1 DEF OpRecords, Phases, SameCall
  <2>3. WellFormed(o) /\ PathsOf(o) = PathsOf(op[c])
    BY <1>1, <2>0, <2>2, SamePaths DEF WellFormed, SameCall
  <2>4. op' = [op EXCEPT ![c] = o] /\ UNCHANGED <<disk, changes, trusted, apart>> /\ hydrated' = TRUE
    BY <1>4, <2>1 DEF CommitWrite, CallGoes
  <2>5. files' \in FileRows /\ \A p \in Paths : files'[p] = (IF p = op[c].dst THEN op[c].obj ELSE files[p])
    BY <1>1, <1>4, <2>0 DEF CommitWrite, FileRows
  <2>6. Fits(o)'
    BY <2>0, <2>2, <2>5 DEF Fits, SameCall
  <2>7. \A p \in Paths : Current(p) => Current(p)' \/ p \in Working(o)
    BY <2>0, <2>2, <2>4, <2>5 DEF Current, Working, SameCall
  <2>8. Working(op[c]) = {}
    BY <2>0, <1>w
  <2>9. disk' \in FileRows /\ hydrated' \in BOOLEAN
    BY <1>1, <2>4
  <2> QED
    BY <1>1, <1>p, <1>q, <2>0, <2>2, <2>3, <2>4, <2>5, <2>6, <2>7, <2>8, <2>9, CallContinues
<1>5. ASSUME Place(c) PROVE WsInv'
  <2>0. op[c].kind \in {"write", "read"} /\ op[c].dst \in Paths /\ op[c].obj \in Objects \cup {Absent}
    BY <1>1, <1>5 DEF Place, WellFormed, OpRecords
  <2>1. CallEnds(c) /\ UNCHANGED <<files, hydrated, changes, trusted>>
    BY <1>5 DEF Place
  <2>2. disk' \in FileRows /\ \A p \in Paths : disk'[p] = (IF p = op[c].dst THEN op[c].obj ELSE disk[p])
    BY <1>1, <1>5, <2>0 DEF Place, Placed, FileRows
  <2>3. Fits(op[c]) => files[op[c].dst] = op[c].obj
    BY <1>5, <2>0 DEF Place, Fits
  <2>4. \A p \in Working(op[c]) : p = op[c].dst
    BY DEF Working
  <2>5. ASSUME Fits(op[c]), NEW p \in Paths, Current(p) \/ p \in Working(op[c]) PROVE Current(p)'
    BY <2>0, <2>1, <2>2, <2>3, <2>4, <2>5 DEF Current
  <2> QED
    BY <1>1, <1>p, <1>q, <2>0, <2>1, <2>2, <2>5, WsEnds
<1>6. ASSUME CommitDelete(c) PROVE WsInv'
  <2>0. op[c].kind = "delete" /\ op[c].phase = "commit" /\ op[c].src \in Paths
    BY <1>1, <1>6, IdleRecord DEF CommitDelete, WellFormed, OpRecords, Kinds
  <2>1. PICK o : o = [op[c] EXCEPT !.phase = "unlink"]
    OBVIOUS
  <2>2. /\ o \in OpRecords /\ SameCall(o, op[c]) /\ o.phase = "unlink"
    BY <1>1, <2>0, <2>1 DEF OpRecords, Phases, SameCall
  <2>3. WellFormed(o) /\ PathsOf(o) = PathsOf(op[c])
    BY <1>1, <2>0, <2>2, SamePaths DEF WellFormed, SameCall
  <2>4. op' = [op EXCEPT ![c] = o] /\ UNCHANGED <<disk, hydrated, changes, trusted, apart>>
    BY <1>6, <2>1 DEF CommitDelete, CallGoes
  <2>5. files' \in FileRows /\ \A p \in Paths : files'[p] = (IF p = op[c].src THEN Absent ELSE files[p])
    BY <1>1, <1>6, <2>0 DEF CommitDelete, FileRows
  <2>6. Fits(o)'
    BY <2>0, <2>2 DEF Fits, SameCall
  <2>7. \A p \in Paths : Current(p) => Current(p)'
    BY <2>4, <2>5 DEF Current
  <2>8. Working(op[c]) = {}
    BY <2>0, <1>w
  <2> QED
    BY <1>1, <1>p, <1>q, <2>0, <2>2, <2>3, <2>4, <2>5, <2>6, <2>7, <2>8, CallContinues
<1>7. ASSUME Unlink(c) PROVE WsInv'
  <2>0. op[c].kind \in {"delete", "rename"} /\ op[c].src \in Paths
    BY <1>1, <1>7 DEF Unlink, WellFormed
  <2>1. CallEnds(c) /\ UNCHANGED <<files, hydrated, changes, trusted>>
    BY <1>7 DEF Unlink
  <2>2. disk' \in FileRows /\ \A p \in Paths : disk'[p] = (IF p = op[c].src THEN Absent ELSE disk[p])
    BY <1>1, <1>7, <2>0 DEF Unlink, FileRows
  <2>3. \A p \in Paths : Current(p) => Current(p)'
    BY <2>1, <2>2 DEF Current
  <2>4. Working(op[c]) = {}
    BY <2>0, <1>w
  <2> QED
    BY <1>1, <1>p, <1>q, <2>0, <2>1, <2>2, <2>3, <2>4, WsEnds
<1>8. ASSUME PlaceFirst(c) PROVE WsInv'
  <2>0. op[c].kind \in {"rename", "copy"} /\ op[c].phase = "place" /\ op[c].dst \in Paths
        /\ op[c].obj \in Objects \cup {Absent}
    BY <1>1, <1>8, IdleRecord DEF PlaceFirst, WellFormed, OpRecords, Kinds
  <2>1. PICK o : o = [op[c] EXCEPT !.phase = "commit"]
    OBVIOUS
  <2>2. /\ o \in OpRecords /\ SameCall(o, op[c]) /\ o.phase = "commit" /\ o.obj = op[c].obj
    BY <1>1, <2>0, <2>1 DEF OpRecords, Phases, SameCall
  <2>3. WellFormed(o) /\ PathsOf(o) = PathsOf(op[c])
    BY <1>1, <2>0, <2>2, SamePaths DEF WellFormed, SameCall
  <2>4. op' = [op EXCEPT ![c] = o] /\ UNCHANGED <<files, hydrated, changes, trusted, apart>>
    BY <1>8, <2>1 DEF PlaceFirst, CallGoes
  <2>5. disk' \in FileRows /\ \A p \in Paths : disk'[p] = (IF p = op[c].dst THEN op[c].obj ELSE disk[p])
    BY <1>1, <1>8, <2>0 DEF PlaceFirst, FileRows
  <2>6. Fits(op[c]) => Fits(o)'
    BY <2>0, <2>2, <2>4, <2>5 DEF Fits, SameCall
  <2>7. ASSUME Fits(op[c]), NEW p \in Paths, Current(p) PROVE Current(p)' \/ p \in Working(o)
    <3>1. CASE op[c].kind = "rename"
      BY <2>0, <2>4, <2>5, <2>7, <3>1 DEF Current, Fits
    <3>2. CASE op[c].kind = "copy"
      BY <2>0, <2>2, <2>4, <2>5, <2>7, <3>2 DEF Current, Working, SameCall
    <3> QED
      BY <2>0, <3>1, <3>2
  <2>8. Working(op[c]) = {}
    BY <2>0, <1>w
  <2> QED
    BY <1>1, <1>p, <1>q, <2>0, <2>2, <2>3, <2>4, <2>5, <2>6, <2>7, <2>8, CallContinues
<1>9. ASSUME CommitRename(c) PROVE WsInv'
  <2>0. op[c].kind = "rename" /\ op[c].phase = "commit" /\ op[c].src \in Paths /\ op[c].dst \in Paths
    BY <1>1, <1>9 DEF CommitRename, WellFormed
  <2>1. UNCHANGED <<disk, hydrated, changes, trusted, apart>>
    BY <1>9 DEF CommitRename, CallEnds, CallGoes
  <2>2. Fits(op[c]) => /\ files[op[c].src] = op[c].obj /\ files[op[c].src] # Absent
                       /\ files[op[c].dst] = Absent /\ disk[op[c].dst] = op[c].obj
    BY <2>0 DEF Fits
  <2>3. Working(op[c]) = {}
    BY <2>0, <1>w
  <2>4. CASE NameTaken(c)
    <3>1. ~Fits(op[c])
      BY <2>2, <2>4 DEF NameTaken
    <3>2. CallEnds(c) /\ files' = files
      BY <1>9, <2>4 DEF CommitRename
    <3> QED
      BY <1>1, <2>0, <2>1, <3>1, <3>2, WsEnds
  <2>5. CASE ~NameTaken(c)
    <3>1. PICK o : o = [op[c] EXCEPT !.phase = "unlink"]
      OBVIOUS
    <3>2. o \in OpRecords /\ SameCall(o, op[c]) /\ o.phase = "unlink"
      BY <1>1, <2>0, <3>1 DEF OpRecords, Phases, SameCall
    <3>3. files' = IF files[op[c].src] = Absent THEN files
                   ELSE [files EXCEPT ![op[c].dst] = files[op[c].src], ![op[c].src] = Absent]
      BY <1>9, <2>5 DEF CommitRename
    <3>4. files' \in FileRows /\ \A p \in Paths \ {op[c].src, op[c].dst} : files'[p] = files[p]
      BY <1>1, <1>2, <2>0, <3>3 DEF FileRows
    <3>5. WellFormed(o) /\ PathsOf(o) = PathsOf(op[c]) /\ Fits(o)'
      BY <1>1, <2>0, <3>2, SamePaths DEF WellFormed, SameCall, Fits
    <3>6. ASSUME Fits(op[c]), NEW p \in Paths, Current(p) PROVE Current(p)'
      <4>1. files'[p] = IF p = op[c].src THEN Absent ELSE IF p = op[c].dst THEN op[c].obj ELSE files[p]
        BY <1>1, <2>0, <2>2, <3>3, <3>6 DEF FileRows
      <4> QED
        BY <2>1, <2>2, <3>6, <4>1 DEF Current
    <3>7. op' = [op EXCEPT ![c] = o]
      BY <1>9, <2>5, <3>1 DEF CommitRename, CallGoes
    <3> QED
      BY <1>1, <1>p, <1>q, <2>0, <2>1, <2>3, <3>2, <3>4, <3>5, <3>6, <3>7, CallContinues
  <2> QED
    BY <2>4, <2>5
<1>10. ASSUME CommitCopy(c) PROVE WsInv'
  <2>0. op[c].kind = "copy" /\ op[c].phase = "commit" /\ op[c].dst \in Paths /\ op[c].obj \in Objects
    BY <1>1, <1>10 DEF CommitCopy, WellFormed
  <2>1. CallEnds(c) /\ UNCHANGED <<disk, changes, trusted>> /\ hydrated' = TRUE
    BY <1>10 DEF CommitCopy
  <2>2. files' \in FileRows /\ \A p \in Paths : files'[p] = (IF p = op[c].dst THEN op[c].obj ELSE files[p])
    BY <1>1, <1>10, <2>0 DEF CommitCopy, FileRows
  <2>3. Fits(op[c]) => disk[op[c].dst] = op[c].obj
    BY <2>0 DEF Fits
  <2>4. \A p \in Working(op[c]) : p = op[c].dst
    BY DEF Working
  <2>5. ASSUME Fits(op[c]), NEW p \in Paths, Current(p) \/ p \in Working(op[c]) PROVE Current(p)'
    BY <2>0, <2>1, <2>2, <2>3, <2>4, <2>5 DEF Current
  <2>6. disk' \in FileRows /\ hydrated' \in BOOLEAN
    BY <1>1, <2>1
  <2> QED
    BY <1>1, <1>p, <1>q, <2>0, <2>1, <2>2, <2>5, <2>6, WsEnds
<1>11. ASSUME CommitIngest(c) PROVE WsInv'
  <2>0. op[c].kind = "ingest" /\ op[c].links \in FileRows
    BY <1>1, <1>11 DEF CommitIngest, OpRecords
  <2>1. CallEnds(c) /\ UNCHANGED <<disk, changes, trusted>> /\ hydrated' = TRUE
    BY <1>11 DEF CommitIngest
  <2>2. /\ files' \in FileRows
        /\ \A p \in Paths : files'[p] = (IF op[c].links[p] # Absent THEN op[c].links[p] ELSE files[p])
    BY <1>1, <1>11, <2>0 DEF CommitIngest, FileRows
  <2>3. Fits(op[c]) => \A p \in Paths : op[c].links[p] # Absent => disk[p] = op[c].links[p]
    BY <2>0 DEF Fits
  <2>4. ASSUME Fits(op[c]), NEW p \in Paths, Current(p) PROVE Current(p)'
    BY <2>1, <2>2, <2>3, <2>4 DEF Current
  <2>5. Working(op[c]) = {}
    BY <2>0, <1>w
  <2>6. disk' \in FileRows /\ hydrated' \in BOOLEAN
    BY <1>1, <2>1
  <2> QED
    BY <1>1, <1>p, <1>q, <2>0, <2>1, <2>2, <2>4, <2>5, <2>6, WsEnds
<1>12. ASSUME ClearHydration(c) PROVE WsInv'
  <2>0. op[c].kind = "evict"
    BY <1>12 DEF ClearHydration
  <2>1. CallEnds(c) /\ UNCHANGED <<files, disk, changes>> /\ hydrated' = FALSE /\ trusted' = (trusted \/ apart)
    BY <1>12 DEF ClearHydration
  <2>2. ASSUME Fits(op[c]), NEW p \in Paths PROVE Current(p)'
    BY <2>0, <2>1, <2>2 DEF Fits, Current
  <2>3. hydrated' \in BOOLEAN /\ trusted' \in BOOLEAN /\ PathsOf(op[c]) = Paths
    BY <2>0, <2>1, <1>p
  <2> QED
    BY <1>1, <2>0, <2>1, <2>2, <2>3, WsEnds
<1>13. ASSUME Stat(c) PROVE WsInv'
  <2>0. op[c].kind \in {"materialize", "restore"} /\ op[c].phase = "stat" /\ op[c].todo # {}
    BY <1>1, <1>13, IdleRecord DEF Stat, WellFormed, OpRecords, Kinds
  <2>1. RowInHand(c) \in op[c].todo /\ op[c].todo \subseteq Paths
    BY <1>1, <2>0 DEF RowInHand, OpRecords
  <2>2. PICK o : o = IF Skips(c, RowInHand(c)) THEN [op[c] EXCEPT !.todo = RowsLeft(c)]
                     ELSE [op[c] EXCEPT !.phase = "place"]
    OBVIOUS
  <2>3. /\ o \in OpRecords /\ SameCall(o, op[c]) /\ o.warm = op[c].warm
        /\ \/ o.phase = "stat" /\ o.todo = RowsLeft(c) /\ Skips(c, RowInHand(c))
           \/ o.phase = "place" /\ o.todo = op[c].todo
    BY <1>1, <2>0, <2>1, <2>2 DEF OpRecords, Phases, RowsLeft, SameCall
  <2>4. WellFormed(o) /\ PathsOf(o) = PathsOf(op[c])
    BY <2>0, <2>3, SamePaths DEF WellFormed, SameCall
  <2>5. op' = [op EXCEPT ![c] = o] /\ UNCHANGED <<files, disk, hydrated, changes, trusted, apart>>
    BY <1>13, <2>2 DEF Stat, CallGoes
  <2>6. Fits(op[c]) => Fits(o)'
    BY <2>0, <2>1, <2>3, <2>5 DEF Fits, Skips, RowsLeft, SameCall
  <2>7. \A p \in Paths : Current(p) => Current(p)'
    BY <2>5 DEF Current
  <2>8. Working(op[c]) = {}
    BY <2>0, <1>w
  <2> QED
    BY <1>1, <1>q, <2>0, <2>3, <2>4, <2>5, <2>6, <2>7, <2>8, CallContinues
<1>14. ASSUME CopyListed(c) PROVE WsInv'
  <2>0. op[c].kind \in {"materialize", "restore"} /\ op[c].phase = "place" /\ op[c].todo # {}
    BY <1>1, <1>14 DEF CopyListed, WellFormed
  <2>1. RowInHand(c) \in op[c].todo /\ op[c].todo \subseteq Paths /\ op[c].links \in FileRows
    BY <1>1, <2>0 DEF RowInHand, OpRecords
  <2>2. PICK o : o = [op[c] EXCEPT !.phase = "stat", !.todo = RowsLeft(c), !.copied = TRUE]
    OBVIOUS
  <2>3. /\ o \in OpRecords /\ SameCall(o, op[c]) /\ o.warm = op[c].warm
        /\ o.phase = "stat" /\ o.todo = RowsLeft(c)
    BY <1>1, <2>1, <2>2 DEF OpRecords, Phases, RowsLeft, SameCall
  <2>4. WellFormed(o) /\ PathsOf(o) = PathsOf(op[c])
    BY <2>0, <2>3, SamePaths DEF WellFormed, SameCall
  <2>5. op' = [op EXCEPT ![c] = o] /\ UNCHANGED <<files, hydrated, changes, trusted, apart>>
    BY <1>14, <2>2 DEF CopyListed, CallGoes
  <2>6. /\ disk' \in FileRows
        /\ \A p \in Paths : disk'[p] = (IF p = RowInHand(c) THEN op[c].links[p] ELSE disk[p])
    BY <1>1, <1>14, <2>1 DEF CopyListed, FileRows
  <2>7. Fits(op[c]) => Fits(o)'
    BY <2>0, <2>1, <2>3, <2>5, <2>6 DEF Fits, RowsLeft, SameCall
  <2>8. ASSUME Fits(op[c]), NEW p \in Paths, Current(p) PROVE Current(p)'
    BY <2>0, <2>5, <2>6, <2>8 DEF Current, Fits
  <2>9. Working(op[c]) = {} /\ PathsOf(op[c]) = Paths
    BY <2>0, <1>p, <1>w
  <2> QED
    BY <1>1, <2>0, <2>3, <2>4, <2>5, <2>6, <2>7, <2>8, <2>9, CallContinues
<1>15. ASSUME Hydrate(c) PROVE WsInv'
  <2>0. op[c].kind \in {"materialize", "restore"} /\ op[c].phase = "stat" /\ op[c].todo = {}
    BY <1>1, <1>15, IdleRecord DEF Hydrate, WellFormed, OpRecords, Kinds
  <2>1. CallEnds(c) /\ UNCHANGED <<files, disk, changes>> /\ trusted' = (trusted \/ (apart /\ ~op[c].warm))
    BY <1>15 DEF Hydrate
  <2>2. hydrated' \in BOOLEAN /\ trusted' \in BOOLEAN
    BY <1>1, <1>15, <2>1 DEF Hydrate, OpRecords
  <2>3. Working(op[c]) = {} /\ PathsOf(op[c]) = Paths
    BY <2>0, <1>p, <1>w
  <2>4. ASSUME Fits(op[c]), NEW p \in Paths, Current(p) \/ ~op[c].warm PROVE Current(p)'
    BY <2>0, <2>1, <2>4 DEF Fits, Current
  <2> QED
    BY <1>1, <2>0, <2>1, <2>2, <2>3, <2>4, WsEnds
<1>16. ASSUME Unavailable(c) PROVE WsInv'
  <2>0. op[c].kind \in {"read", "rename", "copy", "materialize", "restore"} /\ op[c].phase = "place"
    BY <1>1, <1>16, IdleRecord DEF Unavailable, WellFormed, OpRecords, Kinds
  <2>1. CallEnds(c) /\ UNCHANGED <<files, disk, hydrated, changes, trusted>>
    BY <1>16 DEF Unavailable
  <2>2. \A p \in Paths : Current(p) => Current(p)'
    BY <2>1 DEF Current
  <2>3. Working(op[c]) = {}
    BY <2>0, <1>w
  <2> QED
    BY <1>1, <1>q, <2>0, <2>1, <2>2, <2>3, WsEnds
<1>17. ASSUME Refill(c) PROVE WsInv'
  <2>0. op[c].kind = "restore" /\ PathsOf(op[c]) = Paths
    BY <1>17, <1>p DEF Refill
  <2>1. PICK o : o = Materializing("restore", hydrated)
    OBVIOUS
  <2>2. /\ o \in OpRecords /\ o.kind = "restore" /\ o.phase = "stat"
        /\ o.links = files /\ o.warm = hydrated /\ o.todo = RowsListed
    <3>1. RowsListed \in SUBSET Paths
      BY DEF RowsListed
    <3> QED
      BY <1>1, <2>1, <3>1 DEF OpRecords, Kinds, Phases, Materializing
  <2>3. WellFormed(o) /\ PathsOf(o) = Paths
    BY <2>2 DEF WellFormed, PathsOf
  <2>4. op' = [op EXCEPT ![c] = o] /\ UNCHANGED <<files, hydrated, changes, trusted, apart>>
        /\ disk' = [p \in Paths |-> Absent]
    BY <1>17, <2>1 DEF Refill, CallGoes
  <2>5. disk' \in FileRows /\ \A p \in Paths : disk'[p] = Absent /\ Current(p)'
    BY <2>4 DEF FileRows, Current
  <2>6. Fits(o)'
    BY <2>2, <2>4 DEF Fits, RowsListed
  <2> QED
    BY <1>1, <2>0, <2>2, <2>3, <2>4, <2>5, <2>6, CallContinues
<1> QED
  BY <1>4, <1>5, <1>6, <1>7, <1>8, <1>9, <1>10, <1>11, <1>12, <1>13, <1>14, <1>15, <1>16, <1>17 DEF Continues

LEMMA WsStep == WsInv /\ [WsNext]_wsVars => WsInv'
<1> SUFFICES ASSUME WsInv, [WsNext]_wsVars PROVE WsInv'
  OBVIOUS
<1>1. ASSUME NEW rows \in FileRows, InvalidateFiles(rows) PROVE WsInv'
  <2>1. /\ changes < MaxChanges /\ changes' = changes + 1 /\ files' = rows /\ hydrated' = FALSE
        /\ apart' = (apart /\ InFlight = {}) /\ trusted' = FALSE /\ disk' = disk /\ op' = op
    BY <1>1 DEF InvalidateFiles, ChangeRows
  <2>2. changes' \in 0..MaxChanges
    BY <2>1, WsAssumption DEF WsInv, WsTypes
  <2>3. hydrated' \in BOOLEAN /\ apart' \in BOOLEAN /\ trusted' \in BOOLEAN
    BY <2>1 DEF WsInv, WsTypes
  <2>4. WsTypes'
    BY <2>1, <2>2, <2>3, Zenon DEF WsInv, WsTypes
  <2>5. ASSUME apart', NEW c \in Callers PROVE Fits(op[c])' /\ c \notin InFlight'
    <3>1. op'[c] = Idling /\ op[c].kind = "idle"
      BY <2>1, <2>5, IdleRecord DEF InFlight, WsInv, WsTypes
    <3> QED
      BY <2>1, <3>1, IdleRecord DEF InFlight
  <2>6. \A c \in Callers : WellFormed(op'[c])
    BY <2>1 DEF WsInv
  <2>7. InFlight' \subseteq Callers
    BY DEF InFlight
  <2> QED
    BY <2>1, <2>4, <2>5, <2>6, <2>7 DEF WsInv
<1>2. ASSUME KillCalls PROVE WsInv'
  <2>1. /\ changes < MaxChanges /\ changes' = changes + 1 /\ op' = [c \in Callers |-> Idling]
        /\ trusted' = FALSE /\ UNCHANGED <<files, disk, hydrated, apart>>
    BY <1>2 DEF KillCalls
  <2>2. changes' \in 0..MaxChanges
    BY <2>1, WsAssumption DEF WsInv, WsTypes
  <2>3. op' \in [Callers -> OpRecords]
    BY <2>1, IdleRecord
  <2>4. trusted' \in BOOLEAN
    BY <2>1
  <2>5. WsTypes'
    BY <2>1, <2>2, <2>3, <2>4, Zenon DEF WsInv, WsTypes
  <2>6. \A c \in Callers : WellFormed(op'[c]) /\ Fits(op[c])' /\ c \notin InFlight'
    BY <2>1, IdleRecord DEF InFlight
  <2>7. InFlight' \subseteq Callers
    BY DEF InFlight
  <2> QED
    BY <2>1, <2>5, <2>6, <2>7 DEF WsInv
<1>3. ASSUME UNCHANGED wsVars PROVE WsInv'
  <2>1. UNCHANGED <<files, disk, hydrated, op, changes, apart, trusted>>
    BY <1>3 DEF wsVars
  <2>2. InFlight' = InFlight /\ (\A p \in Paths : Current(p)' <=> Current(p)) /\ WsTypes'
    BY <2>1 DEF InFlight, Current, WsInv, WsTypes
  <2>3. \A c \in Callers : Fits(op[c]) => Fits(op[c])'
    BY <2>1 DEF Fits
  <2> QED
    BY <2>1, <2>2, <2>3 DEF WsInv
<1> QED
  BY <1>1, <1>2, <1>3, WsBegins, WsContinues DEF WsNext

LEMMA WsInvariant == WsSpec => []WsInv
<1>1. WsInit => WsInv
  <2> SUFFICES ASSUME WsInit PROVE WsInv
    OBVIOUS
  <2>1. files \in FileRows /\ disk \in FileRows /\ op \in [Callers -> OpRecords] /\ hydrated = FALSE
        /\ apart = TRUE /\ trusted = TRUE /\ changes \in 0..MaxChanges
    BY IdleRecord, WsAssumption DEF WsInit, FileRows
  <2>2. InFlight = {} /\ \A c \in Callers : WellFormed(op[c]) /\ op[c].kind = "idle"
    BY IdleRecord DEF WsInit, InFlight
  <2>3. \A c \in Callers : Fits(op[c])
    BY <2>2 DEF Fits
  <2>4. \A p \in Paths : Current(p)
    BY DEF WsInit, Current
  <2> QED
    BY <2>1, <2>2, <2>3, <2>4 DEF WsInv, WsTypes
<1> QED
  BY <1>1, WsStep, PTL DEF WsSpec

(* The types of the catalog rows, the copies and the calls (src/files.ts). *)
THEOREM WorkspaceTypes == WsSpec => []WsTypeOK
<1>1. WsInv => WsTypeOK
  BY DEF WsInv, WsTypes, WsTypeOK, OpRecords
<1> QED
  BY <1>1, WsInvariant, PTL

(* Since the directory was last emptied, or filled by a call that did not  *)
(* rely on the flag (src/files.ts), the copy of a path that no call works  *)
(* on is the file of the catalog, as long as calls on one path follow one  *)
(* another, none is killed and no other part changes the rows: calls on    *)
(* other paths may overlap, fail or be refused.                            *)
THEOREM WorkspaceAgreement == WsSpec => []WorkspacesAgree
<1>1. WsInv => WorkspacesAgree
  <2> SUFFICES ASSUME WsInv, trusted, NEW p \in Paths, ~Current(p)
               PROVE  \E c \in InFlight : p \in PathsOf(op[c])
    BY DEF WorkspacesAgree
  <2>1. PICK c \in Callers : p \in Working(op[c])
    BY DEF WsInv
  <2>2. p \in PathsOf(op[c]) /\ op[c].kind # "idle"
    BY <2>1, WorkIsWithin, IdleRecord DEF WsInv, WsTypes
  <2> QED
    BY <2>2 DEF InFlight
<1> QED
  BY <1>1, WsInvariant, PTL
================================================================================
