------------------------------ MODULE ObjectStore ------------------------------
(***************************************************************************)
(* Content-addressed objects: the bytes (src/src/cas.ts), the object rows  *)
(* that writes link (src/src/files.ts), and the operations of              *)
(* src/src/storage.ts that forget objects and back them up.                *)
(*                                                                         *)
(* A semantic write is one action here: SemanticStore shows that it is     *)
(* atomic and serialized.  Bytes, the remote store and the publication     *)
(* rows are changed outside of it, with an await before each call, and     *)
(* that is what interleaves.  writing and downloading are sets of hashes:  *)
(* a member stands for any number of callers busy with these bytes.        *)
(*                                                                         *)
(* Bounds: one deletion or collection and one backup in flight; a remote   *)
(* store and a catalog backup are configured; a write commits within ten   *)
(* minutes of placing its bytes.                                           *)
(***************************************************************************)
EXTENDS Integers, FiniteSets

CONSTANTS
    Hashes,      \* contents of objects
    Forgets,     \* which of deleteObject and gc are called
    Backups,     \* whether backup is called
    Overlaps,    \* what may be in flight together with deleteObject or gc
    MaxFaults    \* bound on kills and failing calls of deleteObject and gc

ASSUME ObjectAssumption == /\ Forgets \subseteq {"deleteObject", "gc"}
                           /\ Backups \in BOOLEAN
                           /\ Overlaps \subseteq {"write", "backup"}
                           /\ MaxFaults \in Nat

VARIABLES
    row,          \* objects: no row, a live one, or a tombstone (forgotten_at)
    referenced,   \* hashes that rows of HEAD name
    wasForgotten, \* hashes that some revision holds as a tombstone
    local,        \* the file: absent, or its age against the grace window
    remote,       \* the keys of the remote store
    published,    \* runtime_object_publications
    writing,      \* put or import is done, the semantic write to come
    downloading,  \* ensureLocal found no file and fetches it
    fetched,      \* the temporary file of a download is complete
    forget,       \* the deleteObject or gc in flight
    backup,       \* the backup in flight
    pushed,       \* live objects of the catalog last pushed
    headPushed,   \* last_backup_head = head
    backupState,  \* the recorded backup_state
    faults

catalog == <<row, referenced, wasForgotten, headPushed>>
content == <<local, remote, published>>
callers == <<writing, downloading, fetched>>
pushes  == <<pushed, backupState>>
vars == <<row, referenced, wasForgotten, local, remote, published, writing, downloading,
          fetched, forget, backup, pushed, headPushed, backupState, faults>>

ForgetOps == [op : {"none", "deleteObject", "gc"}, force : BOOLEAN, remote : BOOLEAN,
              step : {"idle", "asked", "work", "delete", "clear", "remove"},
              bytes : SUBSET Hashes, keys : SUBSET Hashes, strays : SUBSET Hashes,
              current : SUBSET Hashes, promised : SUBSET Hashes]
BackupOps == [step : {"idle", "next", "upload", "verify", "mark"},
              pending : SUBSET Hashes, current : SUBSET Hashes]

TypeOK ==
    /\ row \in [Hashes -> {"none", "live", "forgotten"}]
    /\ referenced \subseteq {h \in Hashes : row[h] # "none"}
    /\ wasForgotten \subseteq Hashes
    /\ local \in [Hashes -> {"absent", "fresh", "aged"}]
    /\ remote \subseteq Hashes /\ published \subseteq Hashes
    /\ writing \subseteq Hashes /\ downloading \subseteq Hashes /\ fetched \subseteq Hashes
    /\ forget \in ForgetOps /\ backup \in BackupOps
    /\ pushed \subseteq Hashes /\ headPushed \in BOOLEAN
    /\ backupState \in {"none", "pending", "offline", "backed_up"}
    /\ faults \in 0..MaxFaults

NoForget == [op |-> "none", force |-> FALSE, remote |-> FALSE, step |-> "idle",
             bytes |-> {}, keys |-> {}, strays |-> {}, current |-> {}, promised |-> {}]
NoBackup == [step |-> "idle", pending |-> {}, current |-> {}]

Present   == {h \in Hashes : local[h] # "absent"}
Known     == {h \in Hashes : row[h] # "none"}
Live      == {h \in Hashes : row[h] = "live"}
Forgotten == {h \in Hashes : row[h] = "forgotten"}

(* A new catalog, or one restored from a backup: its bytes are remote.     *)
Init ==
    /\ \E live \in SUBSET Hashes :
          /\ row = [h \in Hashes |-> IF h \in live THEN "live" ELSE "none"]
          /\ referenced = live /\ remote = live
    /\ wasForgotten = {} /\ published = {} /\ pushed = {}
    /\ local = [h \in Hashes |-> "absent"]
    /\ writing = {} /\ downloading = {} /\ fetched = {}
    /\ forget = NoForget /\ backup = NoBackup
    /\ headPushed = FALSE /\ backupState = "none" /\ faults = 0

MayOverlap(what, idle) == what \in Overlaps \/ idle

--------------------------------------------------------------------------------
(* Writes                                                                  *)

(* put replaces the file; import keeps one that exists, with its old mtime. *)
Place(h, byImport) ==
    /\ MayOverlap("write", forget.step = "idle")
    /\ local' = [local EXCEPT ![h] = IF byImport /\ @ # "absent" THEN @ ELSE "fresh"]
    /\ writing' = writing \cup {h}
    /\ UNCHANGED <<catalog, remote, published, downloading, fetched, forget, backup, pushes, faults>>

(* A semantic write that changes a versioned row makes a new head; one that*)
(* rewrites the rows it finds need not.                                    *)
Recorded(changes) == headPushed' \in IF changes THEN {FALSE} ELSE {FALSE, headPushed}

(* linkObject: the row is live again and named, perhaps in place of another.*)
MutantLinksNoRow(h) == row[h]
Linked(h) == "live"

Link(h) ==
    /\ h \in writing
    /\ writing' \in {writing, writing \ {h}}
    /\ row' = [row EXCEPT ![h] = Linked(h)]
    /\ \E replaced \in {{}} \cup {{g} : g \in referenced \ {h}} :
          referenced' = (referenced \cup {h}) \ replaced
    /\ Recorded(row' # row \/ referenced' # referenced)
    /\ UNCHANGED <<wasForgotten, content, downloading, fetched, forget, backup, pushes, faults>>

(* A write whose mutation throws leaves its bytes behind.                  *)
WriteFails(h) ==
    /\ h \in writing
    /\ writing' = writing \ {h}
    /\ UNCHANGED <<catalog, content, downloading, fetched, forget, backup, pushes, faults>>

(* Other writes name an object that has a row, and drop references.        *)
Reference(h) ==
    /\ row[h] # "none" /\ h \notin referenced
    /\ referenced' = referenced \cup {h}
    /\ Recorded(TRUE)
    /\ UNCHANGED <<row, wasForgotten, content, callers, forget, backup, pushes, faults>>

Unreference(h) ==
    /\ h \in referenced
    /\ referenced' = referenced \ {h}
    /\ Recorded(TRUE)
    /\ UNCHANGED <<row, wasForgotten, content, callers, forget, backup, pushes, faults>>

(* restoreBook: the revision names any objects; object rows are merged, and *)
(* a tombstone on either side stays one.                                   *)
Restore(names, tombstones) ==
    /\ referenced' = names
    /\ row' = [h \in Hashes |-> IF h \in tombstones THEN "forgotten" ELSE row[h]]
    /\ Recorded(row' # row \/ referenced' # referenced)
    /\ UNCHANGED <<wasForgotten, content, callers, forget, backup, pushes, faults>>

--------------------------------------------------------------------------------
(* Reads                                                                   *)

(* ensureLocal: a tombstone or a file on disk ends it at once.             *)
ReadMissing(h) ==
    /\ h \notin Forgotten \cup Present
    /\ downloading' = downloading \cup {h}
    /\ UNCHANGED <<catalog, content, writing, fetched, forget, backup, pushes, faults>>

(* The bytes arrive, and their checksum is right, or the read fails.       *)
Fetch(h) ==
    /\ h \in downloading
    /\ downloading' = downloading \ {h}
    /\ fetched' \in {fetched, fetched \cup ({h} \cap remote)}
    /\ UNCHANGED <<catalog, content, writing, forget, backup, pushes, faults>>

(* The second look at the tombstone and the rename are synchronous.        *)
MutantChecksOnce(h) == TRUE
MayKeep(h) == h \notin Forgotten

Download(h) ==
    /\ h \in fetched
    /\ fetched' = fetched \ {h}
    /\ local' = IF MayKeep(h) THEN [local EXCEPT ![h] = "fresh"] ELSE local
    /\ UNCHANGED <<catalog, remote, published, writing, downloading, forget, backup, pushes, faults>>

--------------------------------------------------------------------------------
(* deleteObject and collectGarbage                                         *)

MayForget ==
    /\ forget.step = "idle"
    /\ MayOverlap("write", writing = {})
    /\ MayOverlap("backup", backup.step = "idle")

(* The row is read first; that of a forgotten object skips the commit.     *)
MutantOnceForgotten(h) == h \in wasForgotten
AlreadyForgotten(h) == h \in Forgotten

DeleteObject(h, force, unpublishes) ==
    /\ MayForget /\ "deleteObject" \in Forgets /\ row[h] # "none"
    /\ LET keys == IF unpublishes THEN {h} ELSE {} IN
       forget' = [NoForget EXCEPT !.op = "deleteObject", !.force = force, !.remote = unpublishes,
                     !.step = IF AlreadyForgotten(h) THEN "work" ELSE "asked",
                     !.bytes = {h}, !.keys = keys, !.promised = keys]
    /\ UNCHANGED <<catalog, content, callers, backup, pushes, faults>>

(* The scan for references and the tombstone are one semantic write.       *)
InUse(h) == h \in referenced /\ ~forget.force

DeleteRefused ==
    /\ forget.op = "deleteObject" /\ forget.step = "asked"
    /\ \E h \in forget.bytes : InUse(h)
    /\ forget' = NoForget
    /\ UNCHANGED <<catalog, content, callers, backup, pushes, faults>>

Tombstone(hashes) ==
    /\ row' = [h \in Hashes |-> IF h \in hashes THEN "forgotten" ELSE row[h]]
    /\ wasForgotten' = wasForgotten \cup hashes
    /\ Recorded(row' # row)

DeleteCommit ==
    /\ forget.op = "deleteObject" /\ forget.step = "asked"
    /\ \A h \in forget.bytes : ~InUse(h)
    /\ Tombstone(forget.bytes)
    /\ forget' = [forget EXCEPT !.step = "work"]
    /\ UNCHANGED <<referenced, content, callers, backup, pushes, faults>>

(* The local files are listed outside of the serialized section.           *)
CollectGarbage(unpublishes) ==
    /\ MayForget /\ "gc" \in Forgets
    /\ forget' = [NoForget EXCEPT !.op = "gc", !.remote = unpublishes, !.step = "asked",
                                  !.bytes = Present]
    /\ UNCHANGED <<catalog, content, callers, backup, pushes, faults>>

MutantIgnoresReferences == Live
Collectable == Live \ referenced

BytesToDelete(listed) == Collectable \cup (Forgotten \cap listed)

CollectCommit ==
    /\ forget.op = "gc" /\ forget.step = "asked"
    /\ Tombstone(Collectable)
    /\ LET keys == IF forget.remote THEN Collectable \cup Forgotten ELSE {} IN
       forget' = [forget EXCEPT !.step = "work",
                     !.bytes = BytesToDelete(forget.bytes), !.keys = keys, !.promised = keys,
                     !.strays = forget.bytes \ (Known \cup BytesToDelete(forget.bytes))]
    /\ UNCHANGED <<referenced, content, callers, backup, pushes, faults>>

DeleteLocal ==
    /\ forget.step = "work"
    /\ \E h \in forget.bytes :
          /\ local' = [local EXCEPT ![h] = "absent"]
          /\ forget' = [forget EXCEPT !.bytes = @ \ {h}]
    /\ UNCHANGED <<catalog, remote, published, callers, backup, pushes, faults>>

(* unpublish: a head request, the delete, and then the publication row.    *)
UnpublishHead ==
    /\ forget.step = "work" /\ forget.bytes = {}
    /\ \E h \in forget.keys :
          forget' = IF h \in remote
                    THEN [forget EXCEPT !.step = "delete", !.current = {h}]
                    ELSE [forget EXCEPT !.keys = @ \ {h}]
    /\ UNCHANGED <<catalog, content, callers, backup, pushes, faults>>

UnpublishDelete ==
    /\ forget.step = "delete"
    /\ remote' = remote \ forget.current
    /\ forget' = [forget EXCEPT !.step = "clear"]
    /\ UNCHANGED <<catalog, local, published, callers, backup, pushes, faults>>

MutantKeepsPublication == published
WithoutPublication == published \ forget.current

ClearPublication ==
    /\ forget.step = "clear"
    /\ published' = WithoutPublication
    /\ forget' = [forget EXCEPT !.step = "work", !.keys = @ \ forget.current, !.current = {}]
    /\ UNCHANGED <<catalog, local, remote, callers, backup, pushes, faults>>

(* A stray file is removed when its mtime is out of the grace window.      *)
StatStray ==
    /\ forget.step = "work" /\ forget.bytes = {} /\ forget.keys = {}
    /\ \E h \in forget.strays :
          forget' = IF local[h] = "aged"
                    THEN [forget EXCEPT !.step = "remove", !.current = {h}]
                    ELSE [forget EXCEPT !.strays = @ \ {h}]
    /\ UNCHANGED <<catalog, content, callers, backup, pushes, faults>>

RemoveStray ==
    /\ forget.step = "remove"
    /\ local' = [h \in Hashes |-> IF h \in forget.current THEN "absent" ELSE local[h]]
    /\ forget' = [forget EXCEPT !.step = "work", !.strays = @ \ forget.current, !.current = {}]
    /\ UNCHANGED <<catalog, remote, published, callers, backup, pushes, faults>>

ForgetReturns ==
    /\ forget.step = "work" /\ forget.bytes \cup forget.keys \cup forget.strays = {}
    /\ forget' = NoForget
    /\ UNCHANGED <<catalog, content, callers, backup, pushes, faults>>

(* A call in the middle throws, and the operation ends with an error.      *)
ForgetFails ==
    /\ forget.step \notin {"idle"} /\ faults < MaxFaults
    /\ faults' = faults + 1
    /\ forget' = NoForget
    /\ UNCHANGED <<catalog, content, callers, backup, pushes>>

--------------------------------------------------------------------------------
(* backup                                                                  *)

PendingObjects == Live \ published

(* The push, last_backup_head and the state are written without an await.  *)
Push ==
    /\ backup' = NoBackup
    /\ pushed' = Live /\ headPushed' = TRUE /\ backupState' = "backed_up"

(* Offline, or diverged, which storageStatus treats alike.                 *)
PushRejected ==
    /\ backup' = NoBackup
    /\ backupState' = "offline"
    /\ UNCHANGED <<pushed, headPushed>>

(* The pending objects are listed once; without any the push comes at once.*)
Backup ==
    /\ Backups /\ backup.step = "idle"
    /\ MayOverlap("backup", forget.step = "idle")
    /\ \/ /\ PendingObjects # {}
          /\ backup' = [step |-> "next", pending |-> PendingObjects, current |-> {}]
          /\ backupState' = "pending"
          /\ UNCHANGED <<pushed, headPushed>>
       \/ PendingObjects = {} /\ (Push \/ PushRejected)
    /\ UNCHANGED <<row, referenced, wasForgotten, content, callers, forget, faults>>

(* publish: an upload only if the head request finds no object.            *)
PublishHead ==
    /\ backup.step = "next"
    /\ \E h \in backup.pending :
          backup' = [backup EXCEPT !.step = IF h \in remote THEN "verify" ELSE "upload",
                                   !.current = {h}]
    /\ UNCHANGED <<catalog, content, callers, forget, pushes, faults>>

Upload ==
    /\ backup.step = "upload" /\ backup.current \subseteq Present
    /\ remote' = remote \cup backup.current
    /\ backup' = [backup EXCEPT !.step = "verify"]
    /\ UNCHANGED <<catalog, local, published, callers, forget, pushes, faults>>

(* A second head request verifies the upload before the row is written.    *)
VerifyHead ==
    /\ backup.step = "verify" /\ backup.current \subseteq remote
    /\ backup' = [backup EXCEPT !.step = "mark"]
    /\ UNCHANGED <<catalog, content, callers, forget, pushes, faults>>

(* The row of the last object and the push are one synchronous step.       *)
Published ==
    /\ backup.step = "mark"
    /\ published' = published \cup backup.current
    /\ LET rest == backup.pending \ backup.current IN
       \/ /\ rest # {}
          /\ backup' = [step |-> "next", pending |-> rest, current |-> {}]
          /\ UNCHANGED <<pushes, headPushed>>
       \/ rest = {} /\ (Push \/ PushRejected)
    /\ UNCHANGED <<row, referenced, wasForgotten, local, remote, callers, forget, faults>>

(* A call to the remote store throws, or the file of an upload is missing. *)
BackupFails ==
    /\ backup.step # "idle"
    /\ backupState' = "offline"
    /\ backup' = NoBackup
    /\ UNCHANGED <<catalog, content, callers, forget, pushed, faults>>

--------------------------------------------------------------------------------
(* Ten minutes pass since the file was written.                            *)
Age(h) ==
    /\ local[h] = "fresh" /\ h \notin writing
    /\ local' = [local EXCEPT ![h] = "aged"]
    /\ UNCHANGED <<catalog, remote, published, callers, forget, backup, pushes, faults>>

(* The process is killed and started again.                                *)
Crash ==
    /\ faults < MaxFaults
    /\ faults' = faults + 1
    /\ writing' = {} /\ downloading' = {} /\ fetched' = {} /\ forget' = NoForget /\ backup' = NoBackup
    /\ UNCHANGED <<catalog, content, pushes>>

WriteStep ==
    \/ \E h \in Hashes :
          \/ \E byImport \in BOOLEAN : Place(h, byImport)
          \/ Link(h) \/ WriteFails(h) \/ Reference(h) \/ Unreference(h)
    \/ \E names \in SUBSET Known, tombstones \in SUBSET wasForgotten : Restore(names, tombstones)

ReadStep == \E h \in Hashes : ReadMissing(h) \/ Fetch(h) \/ Download(h)

ForgetStep ==
    \/ \E h \in Hashes, force \in BOOLEAN, r \in BOOLEAN : DeleteObject(h, force, r)
    \/ \E r \in BOOLEAN : CollectGarbage(r)
    \/ DeleteRefused \/ DeleteCommit \/ CollectCommit \/ DeleteLocal
    \/ UnpublishHead \/ UnpublishDelete \/ ClearPublication
    \/ StatStray \/ RemoveStray \/ ForgetReturns \/ ForgetFails

BackupStep == Backup \/ PublishHead \/ Upload \/ VerifyHead \/ Published \/ BackupFails

Next == WriteStep \/ ReadStep \/ ForgetStep \/ BackupStep \/ Crash \/ \E h \in Hashes : Age(h)

Spec == Init /\ [][Next]_vars

--------------------------------------------------------------------------------
(* Properties                                                              *)

(* The bytes of an object that is not forgotten are somewhere: no deletion,*)
(* collection, crash or failure in the middle loses them, if imports and   *)
(* forgetting keep apart as deleteObject's comment asks.                   *)
LiveHasBytes == Live \subseteq Present \cup remote

(* Forgotten bytes come back only by a new write of the same content: a    *)
(* read that was fetching them when they were forgotten does not keep them.*)
NoResurrection ==
    [][\A h \in Forgotten \ Present : local'[h] # "absent" => h \in writing']_vars

(* Of the two operations only a forced deleteObject forgets what HEAD names,*)
(* whatever was written between its call and its commit.                   *)
SeveredByForce ==
    [][forget' # forget /\ ~forget.force => Live \cap referenced \subseteq Live']_vars

(* storageStatus says "backed_up" only when the remote store has every live*)
(* object and the pushed catalog is HEAD.                                  *)
BackedUp == /\ backupState \notin {"offline", "diverged"}
            /\ PendingObjects = {} /\ headPushed
StatusIsTruthful == BackedUp => Live \subseteq remote /\ pushed = Live

--------------------------------------------------------------------------------
(* What the source says of itself and the code does not do                 *)

(* collectGarbage is safe to run alongside normal engine writes.           *)
GcSafeBesideWrites == Live \cap referenced \subseteq Present \cup remote

(* A restored catalog never points to objects that were not uploaded.      *)
RestorableWhenPushed == [][pushed' # pushed => pushed' \subseteq remote]_vars

(* A deletion that returns has cleared the publication rows, so that a     *)
(* later import is published again.                                        *)
DeletionClearsMarker == [][ForgetReturns => forget.promised \cap published = {}]_vars

================================================================================
