--------------------------- MODULE ObjectStoreProofs ---------------------------
(***************************************************************************)
(* Proofs about ObjectStore, for any set of contents and any number of     *)
(* callers.                                                                *)
(***************************************************************************)
EXTENDS ObjectStore, TLAPS

(* A new or restored catalog has the types of the variables.               *)
LEMMA InitTyped == Init => TypeOK
  <1> SUFFICES ASSUME Init PROVE TypeOK
    OBVIOUS
  <1>1. PICK live \in SUBSET Hashes :
           /\ row = [h \in Hashes |-> IF h \in live THEN "live" ELSE "none"]
           /\ referenced = live /\ remote = live
    BY DEF Init
  <1>2. forget \in ForgetOps /\ backup \in BackupOps
    BY DEF Init, NoForget, NoBackup, ForgetOps, BackupOps
  <1>3. row \in [Hashes -> {"none", "live", "forgotten"}] /\ referenced \subseteq {h \in Hashes : row[h] # "none"}
    BY <1>1
  <1>4. faults \in 0..MaxFaults
    BY ObjectAssumption DEF Init
  <1> QED
    BY <1>1, <1>2, <1>3, <1>4 DEF Init, TypeOK

(* Writes and reads keep every variable in its type.                       *)
LEMMA CallersTyped == TypeOK /\ (WriteStep \/ ReadStep) => TypeOK'
  <1> SUFFICES ASSUME TypeOK, WriteStep \/ ReadStep PROVE TypeOK'
    OBVIOUS
  <1> USE DEF TypeOK, catalog, content, callers, pushes
  <1>1. ASSUME NEW h \in Hashes, NEW byImport \in BOOLEAN, Place(h, byImport) PROVE TypeOK'
    BY <1>1 DEF Place
  <1>2. ASSUME NEW h \in Hashes, Link(h) PROVE TypeOK'
    <2>1. row' \in [Hashes -> {"none", "live", "forgotten"}]
      BY <1>2 DEF Link, Linked
    <2>2. referenced' \subseteq {g \in Hashes : row'[g] # "none"}
      BY <1>2 DEF Link, Linked
    <2>3. writing' \in SUBSET Hashes
      BY <1>2 DEF Link
    <2>4. headPushed' \in BOOLEAN
      BY <1>2 DEF Link, Recorded
    <2> QED BY <1>2, <2>1, <2>2, <2>3, <2>4 DEF Link
  <1>3. ASSUME NEW h \in Hashes, WriteFails(h) PROVE TypeOK'
    BY <1>3 DEF WriteFails
  <1>4. ASSUME NEW h \in Hashes, Reference(h) PROVE TypeOK'
    BY <1>4 DEF Reference, Recorded
  <1>5. ASSUME NEW h \in Hashes, Unreference(h) PROVE TypeOK'
    BY <1>5 DEF Unreference, Recorded
  <1>6. ASSUME NEW names \in SUBSET Known, NEW tombstones \in SUBSET wasForgotten,
               Restore(names, tombstones) PROVE TypeOK'
    <2>1. row' \in [Hashes -> {"none", "live", "forgotten"}]
      BY <1>6 DEF Restore
    <2>2. referenced' \subseteq {g \in Hashes : row'[g] # "none"}
      BY <1>6 DEF Restore, Known
    <2>3. headPushed' \in BOOLEAN
      BY <1>6 DEF Restore, Recorded
    <2> QED BY <1>6, <2>1, <2>2, <2>3 DEF Restore
  <1>7. ASSUME NEW h \in Hashes, ReadMissing(h) PROVE TypeOK'
    BY <1>7 DEF ReadMissing
  <1>8. ASSUME NEW h \in Hashes, Download(h) PROVE TypeOK'
    BY <1>8 DEF Download
  <1>9. ASSUME NEW h \in Hashes, Fetch(h) PROVE TypeOK'
    BY <1>9 DEF Fetch
  <1> HIDE DEF TypeOK, catalog, content, callers, pushes
  <1> QED
    BY <1>1, <1>2, <1>3, <1>4, <1>5, <1>6, <1>7, <1>8, <1>9 DEF WriteStep, ReadStep

(* Forgetting keeps every variable in its type.                            *)
LEMMA ForgetTyped == TypeOK /\ ForgetStep => TypeOK'
  <1> SUFFICES ASSUME TypeOK, ForgetStep PROVE TypeOK'
    OBVIOUS
  <1> USE DEF TypeOK, catalog, content, callers, pushes, ForgetOps, NoForget
  <1>1. ASSUME NEW h \in Hashes, NEW force \in BOOLEAN, NEW r \in BOOLEAN,
               DeleteObject(h, force, r) PROVE TypeOK'
    <2>1. forget' \in ForgetOps
      BY <1>1, ZenonT(40) DEF DeleteObject
    <2> HIDE DEF ForgetOps, NoForget
    <2> QED BY <1>1, <2>1 DEF DeleteObject
  <1>2. ASSUME NEW r \in BOOLEAN, CollectGarbage(r) PROVE TypeOK'
    BY <1>2 DEF CollectGarbage, Present
  <1>3. CASE DeleteRefused
    BY <1>3 DEF DeleteRefused
  <1>4. CASE DeleteCommit
    BY <1>4 DEF DeleteCommit, Tombstone, Recorded
  <1>5. CASE CollectCommit
    BY <1>5 DEF CollectCommit, Tombstone, Recorded, Collectable, Live, Forgotten, Known, BytesToDelete
  <1>6. CASE DeleteLocal
    BY <1>6 DEF DeleteLocal
  <1>7. CASE UnpublishHead
    <2>1. PICK h \in forget.keys :
             forget' = IF h \in remote THEN [forget EXCEPT !.step = "delete", !.current = {h}]
                                       ELSE [forget EXCEPT !.keys = @ \ {h}]
      BY <1>7 DEF UnpublishHead
    <2>2. h \in Hashes
      OBVIOUS
    <2>3. forget' \in ForgetOps
      BY <2>1, <2>2
    <2> QED
      BY <1>7, <2>3 DEF UnpublishHead
  <1>8. CASE UnpublishDelete
    BY <1>8 DEF UnpublishDelete
  <1>9. CASE ClearPublication
    BY <1>9 DEF ClearPublication, WithoutPublication
  <1>10. CASE StatStray
    <2>1. PICK h \in forget.strays :
             forget' = IF local[h] = "aged" THEN [forget EXCEPT !.step = "remove", !.current = {h}]
                                            ELSE [forget EXCEPT !.strays = @ \ {h}]
      BY <1>10 DEF StatStray
    <2>2. h \in Hashes
      OBVIOUS
    <2>3. forget' \in ForgetOps
      BY <2>1, <2>2
    <2> QED
      BY <1>10, <2>3 DEF StatStray
  <1>11. CASE RemoveStray
    BY <1>11 DEF RemoveStray
  <1>12. CASE ForgetReturns
    BY <1>12 DEF ForgetReturns
  <1>13. CASE ForgetFails
    BY <1>13, ObjectAssumption DEF ForgetFails
  <1> QED
    BY <1>1, <1>2, <1>3, <1>4, <1>5, <1>6, <1>7, <1>8, <1>9, <1>10, <1>11, <1>12, <1>13
    DEF ForgetStep

(* So do a backup, time and a kill.                                        *)
LEMMA BackupTyped == TypeOK /\ (BackupStep \/ Crash \/ \E h \in Hashes : Age(h)) => TypeOK'
  <1> SUFFICES ASSUME TypeOK, BackupStep \/ Crash \/ \E h \in Hashes : Age(h) PROVE TypeOK'
    OBVIOUS
  <1> USE DEF TypeOK, catalog, content, callers, pushes, BackupOps, NoBackup
  <1> DEFINE Reports == /\ backup' \in BackupOps /\ pushed' \subseteq Hashes
                        /\ headPushed' \in BOOLEAN
                        /\ backupState' \in {"none", "pending", "offline", "backed_up"}
  <1>0. Push \/ PushRejected => Reports
    <2>1. NoBackup \in BackupOps /\ Live \subseteq Hashes
      BY DEF Live
    <2> HIDE DEF BackupOps, NoBackup
    <2>2. CASE Push
      BY <2>1, <2>2 DEF Push
    <2>3. CASE PushRejected
      BY <2>1, <2>3 DEF PushRejected
    <2> QED
      BY <2>2, <2>3
  <1>1. CASE Backup
    <2>1. Reports
      <3>1. CASE Push \/ PushRejected
        BY <3>1, <1>0
      <3>2. CASE /\ backup' = [step |-> "next", pending |-> PendingObjects, current |-> {}]
                 /\ backupState' = "pending"
                 /\ UNCHANGED <<pushed, headPushed>>
        BY <3>2 DEF PendingObjects, Live
      <3> QED
        BY <1>1, <3>1, <3>2 DEF Backup
    <2>2. UNCHANGED <<row, referenced, wasForgotten, content, callers, forget, faults>>
      BY <1>1 DEF Backup
    <2> HIDE DEF BackupOps, NoBackup
    <2> QED
      BY <2>1, <2>2
  <1>2. CASE PublishHead
    <2>1. PICK h \in backup.pending :
             backup' = [backup EXCEPT !.step = IF h \in remote THEN "verify" ELSE "upload",
                                      !.current = {h}]
      BY <1>2 DEF PublishHead
    <2>2. h \in Hashes
      OBVIOUS
    <2>3. backup' \in BackupOps
      BY <2>1, <2>2
    <2> QED
      BY <1>2, <2>3 DEF PublishHead
  <1>3. CASE Upload
    BY <1>3 DEF Upload
  <1>4. CASE VerifyHead
    BY <1>4 DEF VerifyHead
  <1>5. CASE Published
    <2>1. Reports
      <3>1. CASE Push \/ PushRejected
        BY <3>1, <1>0
      <3>2. CASE /\ backup' = [step |-> "next", pending |-> backup.pending \ backup.current,
                                current |-> {}]
                 /\ UNCHANGED <<pushes, headPushed>>
        BY <3>2
      <3> QED
        BY <1>5, <3>1, <3>2 DEF Published
    <2>2. /\ published' \subseteq Hashes
          /\ UNCHANGED <<row, referenced, wasForgotten, local, remote, callers, forget, faults>>
      BY <1>5 DEF Published
    <2> HIDE DEF BackupOps, NoBackup
    <2> QED
      BY <2>1, <2>2
  <1>6. CASE BackupFails
    BY <1>6 DEF BackupFails
  <1>7. CASE Crash
    BY <1>7, ObjectAssumption DEF Crash, NoForget, ForgetOps
  <1>8. ASSUME NEW h \in Hashes, Age(h) PROVE TypeOK'
    BY <1>8 DEF Age
  <1> QED
    BY <1>1, <1>2, <1>3, <1>4, <1>5, <1>6, <1>7, <1>8 DEF BackupStep

(* Every variable keeps its type; a reference always names an object row,  *)
(* as the foreign keys of the schema demand.                               *)
THEOREM TypeCorrect == Spec => []TypeOK
  <1>1. TypeOK /\ [Next]_vars => TypeOK'
    <2>1. CASE UNCHANGED vars
      BY <2>1 DEF vars, TypeOK
    <2> QED
      BY <2>1, CallersTyped, ForgetTyped, BackupTyped DEF Next
  <1> QED
    BY InitTyped, <1>1, PTL DEF Spec

--------------------------------------------------------------------------------
(* Forgotten bytes stay away                                               *)

(* No step but a write brings a forgotten object's file back.              *)
LEMMA OnlyWritesBringBack ==
    TypeOK /\ [Next]_vars => \A h \in Forgotten \ Present : local'[h] # "absent" => h \in writing'
  <1> SUFFICES ASSUME TypeOK, [Next]_vars, NEW g \in Forgotten \ Present, local'[g] # "absent"
               PROVE g \in writing'
    OBVIOUS
  <1> USE DEF TypeOK, Forgotten, Present, catalog, content, callers, pushes
  <1>1. local' # local
    OBVIOUS
  <1>2. ASSUME NEW h \in Hashes, NEW byImport \in BOOLEAN, Place(h, byImport) PROVE g \in writing'
    BY <1>2 DEF Place
  <1>3. ASSUME NEW h \in Hashes, Download(h) PROVE FALSE
    BY <1>3 DEF Download, MayKeep
  <1>4. CASE DeleteLocal
    BY <1>4 DEF DeleteLocal
  <1>5. CASE RemoveStray
    BY <1>5 DEF RemoveStray
  <1>6. ASSUME NEW h \in Hashes, Age(h) PROVE FALSE
    BY <1>6 DEF Age
  <1>7. CASE WriteStep
    BY <1>1, <1>2, <1>7 DEF WriteStep, Link, WriteFails, Reference, Unreference, Restore
  <1>8. CASE ReadStep
    BY <1>1, <1>3, <1>8 DEF ReadStep, ReadMissing, Fetch
  <1>9. CASE ForgetStep
    BY <1>1, <1>4, <1>5, <1>9 DEF ForgetStep, DeleteObject, CollectGarbage, DeleteRefused,
       DeleteCommit, CollectCommit, UnpublishHead, UnpublishDelete, ClearPublication, StatStray,
       ForgetReturns, ForgetFails
  <1>10. CASE BackupStep
    BY <1>1, <1>10 DEF BackupStep, Backup, PublishHead, Upload, VerifyHead, Published, Push, PushRejected, BackupFails
  <1>11. CASE Crash
    BY <1>1, <1>11 DEF Crash
  <1>12. CASE UNCHANGED vars
    BY <1>1, <1>12 DEF vars
  <1> QED
    BY <1>6, <1>7, <1>8, <1>9, <1>10, <1>11, <1>12 DEF Next

(* Whatever runs at the same time, a read that was fetching the bytes when *)
(* they were forgotten does not keep them (ensureLocal's second look).     *)
THEOREM ForgottenStaysForgotten == Spec => NoResurrection
  BY TypeCorrect, OnlyWritesBringBack, PTL DEF Spec, NoResurrection

--------------------------------------------------------------------------------
(* Forgetting what HEAD names                                              *)

(* Without force no step of a deletion or a collection touches the row of  *)
(* an object that HEAD references.                                         *)
LEMMA ReferencedKept ==
    TypeOK /\ [Next]_vars =>
       (forget' # forget /\ ~forget.force => Live \cap referenced \subseteq Live')
  <1> SUFFICES ASSUME TypeOK, [Next]_vars, forget' # forget, ~forget.force
               PROVE Live \cap referenced \subseteq Live'
    OBVIOUS
  <1> USE DEF TypeOK, Live, catalog, content, callers, pushes
  <1>1. CASE DeleteCommit
    BY <1>1 DEF DeleteCommit, InUse, Tombstone
  <1>2. CASE CollectCommit
    BY <1>2 DEF CollectCommit, Collectable, Tombstone
  <1>3. CASE ForgetStep
    BY <1>1, <1>2, <1>3 DEF ForgetStep, DeleteObject, CollectGarbage, DeleteRefused, DeleteLocal,
       UnpublishHead, UnpublishDelete, ClearPublication, StatStray, RemoveStray, ForgetReturns,
       ForgetFails
  <1>4. CASE Crash
    BY <1>4 DEF Crash
  <1>5. ~WriteStep /\ ~ReadStep
    BY DEF WriteStep, ReadStep, Place, Link, WriteFails, Reference, Unreference, Restore, ReadMissing,
       Fetch, Download
  <1>6. ~BackupStep /\ ~\E h \in Hashes : Age(h)
    BY DEF BackupStep, Backup, PublishHead, Upload, VerifyHead, Published, Push, PushRejected, BackupFails, Age
  <1> QED
    BY <1>3, <1>4, <1>5, <1>6 DEF Next, vars

(* deleteObject and gc forget a referenced object only when forced, however*)
(* many writes add references between the call and its commit.             *)
THEOREM OnlyForceSevers == Spec => SeveredByForce
  BY TypeCorrect, ReferencedKept, PTL DEF Spec, SeveredByForce

--------------------------------------------------------------------------------
(* The bytes of live objects                                               *)

(* While an operation forgets, no write is in flight, what it still has to *)
(* delete is forgotten for good or has no row, and what a write has placed *)
(* stays.                                                                  *)
ForgetInv ==
    /\ forget.step # "idle" => writing = {}
    /\ forget.step \in {"work", "delete", "clear", "remove"} =>
          /\ forget.bytes \cup forget.keys \subseteq Forgotten
          /\ forget.strays \cap Known = {}
    /\ forget.step = "asked" /\ forget.op = "deleteObject" =>
          forget.keys \subseteq forget.bytes /\ forget.strays = {} /\ forget.bytes \subseteq Known
    /\ forget.step \in {"delete", "clear"} => forget.current \subseteq forget.keys
    /\ forget.step = "remove" => forget.current \subseteq forget.strays
    /\ writing \subseteq Present /\ wasForgotten \subseteq Known

BytesInv == TypeOK /\ ForgetInv /\ LiveHasBytes

(* The first catalog.                                                      *)
LEMMA InitBytes == Init => ForgetInv /\ LiveHasBytes
  BY DEF Init, ForgetInv, LiveHasBytes, NoForget, Live, Present

(* Writes, if none starts while something is being forgotten, and reads.   *)
LEMMA CallersKeepBytes ==
  ASSUME "write" \notin Overlaps
  PROVE  BytesInv /\ (WriteStep \/ ReadStep) => ForgetInv' /\ LiveHasBytes'
  <1> SUFFICES ASSUME BytesInv, WriteStep \/ ReadStep PROVE ForgetInv' /\ LiveHasBytes'
    OBVIOUS
  <1> USE DEF BytesInv, TypeOK, ForgetInv, LiveHasBytes, Live, Present, Forgotten, Known,
              catalog, content, callers, pushes
  <1>1. ASSUME NEW h \in Hashes, NEW byImport \in BOOLEAN, Place(h, byImport)
        PROVE ForgetInv' /\ LiveHasBytes'
    BY <1>1 DEF Place, MayOverlap
  <1>2. ASSUME NEW h \in Hashes, Link(h) PROVE ForgetInv' /\ LiveHasBytes'
    BY <1>2 DEF Link, Linked
  <1>3. ASSUME NEW h \in Hashes, WriteFails(h) PROVE ForgetInv' /\ LiveHasBytes'
    BY <1>3 DEF WriteFails
  <1>4. ASSUME NEW h \in Hashes, Reference(h) PROVE ForgetInv' /\ LiveHasBytes'
    BY <1>4 DEF Reference
  <1>5. ASSUME NEW h \in Hashes, Unreference(h) PROVE ForgetInv' /\ LiveHasBytes'
    BY <1>5 DEF Unreference
  <1>6. ASSUME NEW names \in SUBSET Known, NEW tombstones \in SUBSET wasForgotten,
               Restore(names, tombstones)
        PROVE ForgetInv' /\ LiveHasBytes'
    BY <1>6 DEF Restore
  <1>7. ASSUME NEW h \in Hashes, ReadMissing(h) PROVE ForgetInv' /\ LiveHasBytes'
    BY <1>7 DEF ReadMissing
  <1>8. ASSUME NEW h \in Hashes, Download(h) PROVE ForgetInv' /\ LiveHasBytes'
    BY <1>8 DEF Download, MayKeep
  <1>9. ASSUME NEW h \in Hashes, Fetch(h) PROVE ForgetInv' /\ LiveHasBytes'
    BY <1>9 DEF Fetch
  <1> HIDE DEF BytesInv, TypeOK, ForgetInv, LiveHasBytes, Known
  <1> HIDE DEF TypeOK, catalog, content, callers, pushes
  <1> QED
    BY <1>1, <1>2, <1>3, <1>4, <1>5, <1>6, <1>7, <1>8, <1>9 DEF WriteStep, ReadStep

(* The steps of deleteObject and gc.                                       *)
LEMMA ForgetKeepsBytes ==
  ASSUME "write" \notin Overlaps
  PROVE  BytesInv /\ ForgetStep => ForgetInv' /\ LiveHasBytes'
  <1> SUFFICES ASSUME BytesInv, ForgetStep PROVE ForgetInv' /\ LiveHasBytes'
    OBVIOUS
  <1> USE DEF BytesInv, TypeOK, ForgetInv, LiveHasBytes, Live, Present, Forgotten, Known,
              catalog, content, callers, pushes, ForgetOps, NoForget
  <1>1. ASSUME NEW h \in Hashes, NEW force \in BOOLEAN, NEW r \in BOOLEAN, DeleteObject(h, force, r)
        PROVE ForgetInv' /\ LiveHasBytes'
    BY <1>1 DEF DeleteObject, MayForget, MayOverlap, AlreadyForgotten
  <1>2. ASSUME NEW r \in BOOLEAN, CollectGarbage(r) PROVE ForgetInv' /\ LiveHasBytes'
    BY <1>2 DEF CollectGarbage, MayForget, MayOverlap
  <1>3. CASE DeleteRefused
    BY <1>3 DEF DeleteRefused
  <1>4. CASE DeleteCommit
    <2>1. /\ row' = [h \in Hashes |-> IF h \in forget.bytes THEN "forgotten" ELSE row[h]]
          /\ forget' = [forget EXCEPT !.step = "work"]
          /\ forget.op = "deleteObject" /\ forget.step = "asked"
          /\ UNCHANGED <<local, remote, writing>>
          /\ wasForgotten' = wasForgotten \cup forget.bytes
      BY <1>4 DEF DeleteCommit, Tombstone
    <2>2. forget.keys \subseteq forget.bytes /\ forget.strays = {} /\ forget.bytes \subseteq Known
      BY <2>1
    <2> QED
      BY <2>1, <2>2
  <1>5. CASE CollectCommit
    BY <1>5 DEF CollectCommit, Tombstone, Collectable, BytesToDelete
  <1>6. CASE DeleteLocal
    BY <1>6 DEF DeleteLocal
  <1>7. CASE UnpublishHead
    BY <1>7 DEF UnpublishHead
  <1>8. CASE UnpublishDelete
    BY <1>8 DEF UnpublishDelete
  <1>9. CASE ClearPublication
    BY <1>9 DEF ClearPublication
  <1>10. CASE StatStray
    BY <1>10 DEF StatStray
  <1>11. CASE RemoveStray
    BY <1>11 DEF RemoveStray
  <1>12. CASE ForgetReturns \/ ForgetFails
    BY <1>12 DEF ForgetReturns, ForgetFails
  <1> QED
    BY <1>1, <1>2, <1>3, <1>4, <1>5, <1>6, <1>7, <1>8, <1>9, <1>10, <1>11, <1>12 DEF ForgetStep

(* A backup adds remote bytes; time and a kill remove none.                *)
LEMMA BackupKeepsBytes ==
    BytesInv /\ (BackupStep \/ Crash \/ \E h \in Hashes : Age(h)) => ForgetInv' /\ LiveHasBytes'
  <1> SUFFICES ASSUME BytesInv, BackupStep \/ Crash \/ \E h \in Hashes : Age(h)
               PROVE ForgetInv' /\ LiveHasBytes'
    OBVIOUS
  <1> USE DEF BytesInv, TypeOK, ForgetInv, LiveHasBytes, Live, Present, Forgotten, Known,
              catalog, content, callers, pushes
  <1>1. CASE BackupStep
    <2>1. remote \subseteq remote'
      BY <1>1 DEF BackupStep, Backup, PublishHead, Upload, VerifyHead, Published, Push, PushRejected, BackupFails
    <2>2. UNCHANGED <<row, wasForgotten, local, writing, forget>>
      BY <1>1 DEF BackupStep, Backup, PublishHead, Upload, VerifyHead, Published, Push, PushRejected, BackupFails
    <2> QED
      BY <2>1, <2>2
  <1>2. CASE Crash
    BY <1>2 DEF Crash, NoForget
  <1>3. ASSUME NEW h \in Hashes, Age(h) PROVE ForgetInv' /\ LiveHasBytes'
    BY <1>3 DEF Age
  <1> QED
    BY <1>1, <1>2, <1>3

(* The strengthened invariant is inductive.                                *)
LEMMA BytesInvariant ==
  ASSUME "write" \notin Overlaps
  PROVE  Spec => []BytesInv
  <1>1. Init => BytesInv
    BY InitTyped, InitBytes DEF BytesInv
  <1>2. BytesInv /\ [Next]_vars => BytesInv'
    <2>1. CASE UNCHANGED vars
      BY <2>1 DEF vars, BytesInv, TypeOK, ForgetInv, LiveHasBytes, Live, Present, Forgotten, Known
    <2>2. BytesInv /\ Next => TypeOK'
      BY CallersTyped, ForgetTyped, BackupTyped DEF Next, BytesInv
    <2>3. BytesInv /\ Next => ForgetInv' /\ LiveHasBytes'
      BY CallersKeepBytes, ForgetKeepsBytes, BackupKeepsBytes DEF Next
    <2> QED
      BY <2>1, <2>2, <2>3 DEF BytesInv
  <1> QED
    BY <1>1, <1>2, PTL DEF Spec

(* The bytes of an object that is not forgotten are kept, here or remotely, *)
(* if no import runs beside deleteObject and gc (the discipline that       *)
(* deleteObject's comment asks for): across kills, failing calls, retries, *)
(* restored revisions and concurrent backups.                              *)
THEOREM BytesAreKept ==
  ASSUME "write" \notin Overlaps
  PROVE  Spec => []LiveHasBytes
  <1>1. BytesInv => LiveHasBytes
    BY DEF BytesInv
  <1> QED
    BY <1>1, BytesInvariant, PTL

--------------------------------------------------------------------------------
(* What storageStatus says                                                 *)

(* Between the remote delete and clearPublication a publication row lies.  *)
BeingCleared == IF forget.step = "clear" THEN forget.current ELSE {}

StatusInv ==
    /\ backup.step # "idle" => forget.step = "idle"
    /\ published \ BeingCleared \subseteq remote
    /\ backup.step = "mark" => backup.current \subseteq remote
    /\ headPushed => pushed = Live

(* A step of anything but a backup or an operation that forgets.           *)
LEMMA OthersKeepStatus ==
    TypeOK /\ StatusInv /\ (WriteStep \/ ReadStep \/ \E h \in Hashes : Age(h)) => StatusInv'
  <1> SUFFICES ASSUME TypeOK, StatusInv, WriteStep \/ ReadStep \/ \E h \in Hashes : Age(h)
               PROVE StatusInv'
    OBVIOUS
  <1>1. UNCHANGED <<forget, backup, published, remote, pushed>>
    BY DEF WriteStep, ReadStep, Place, Link, WriteFails, Reference, Unreference, Restore, ReadMissing,
       Fetch, Download, Age, catalog, content, callers, pushes
  <1>2. row' = row \/ headPushed' = FALSE
    BY DEF WriteStep, ReadStep, Place, Link, WriteFails, Reference, Unreference, Restore, ReadMissing,
       Fetch, Download, Age, catalog, content, callers, pushes, Recorded
  <1>3. headPushed' => headPushed
    BY DEF WriteStep, ReadStep, Place, Link, WriteFails, Reference, Unreference, Restore, ReadMissing,
       Fetch, Download, Age, catalog, content, callers, pushes, Recorded, TypeOK
  <1> QED
    BY <1>1, <1>2, <1>3 DEF StatusInv, BeingCleared, Live

(* deleteObject and gc, which keep apart from backups and do not fail.     *)
LEMMA ForgetKeepsStatus ==
  ASSUME Overlaps = {}, MaxFaults = 0
  PROVE  TypeOK /\ ForgetInv /\ StatusInv /\ ForgetStep => StatusInv'
  <1> SUFFICES ASSUME TypeOK, ForgetInv, StatusInv, ForgetStep PROVE StatusInv'
    OBVIOUS
  <1> USE DEF StatusInv, BeingCleared, catalog, content, callers, pushes
  <1>1. ASSUME NEW h \in Hashes, NEW force \in BOOLEAN, NEW r \in BOOLEAN, DeleteObject(h, force, r)
        PROVE StatusInv'
    BY <1>1 DEF DeleteObject, MayForget, MayOverlap, NoForget, Live
  <1>2. ASSUME NEW r \in BOOLEAN, CollectGarbage(r) PROVE StatusInv'
    BY <1>2 DEF CollectGarbage, MayForget, MayOverlap, NoForget, Live
  <1>3. CASE DeleteRefused \/ ForgetReturns
    BY <1>3 DEF DeleteRefused, ForgetReturns, NoForget, Live
  <1>4. CASE DeleteCommit \/ CollectCommit
    <2>1. backup.step = "idle" /\ UNCHANGED <<backup, published, remote, pushed>>
      BY <1>4 DEF DeleteCommit, CollectCommit
    <2>2. forget.step # "clear" /\ forget'.step # "clear"
      BY <1>4 DEF DeleteCommit, CollectCommit, TypeOK, ForgetOps
    <2>3. row' = row \/ headPushed' = FALSE
      BY <1>4 DEF DeleteCommit, CollectCommit, Tombstone, Recorded
    <2>4. headPushed' => headPushed
      BY <1>4 DEF DeleteCommit, CollectCommit, Tombstone, Recorded, TypeOK
    <2> QED
      BY <2>1, <2>2, <2>3, <2>4 DEF Live
  <1>5. CASE DeleteLocal
    BY <1>5 DEF DeleteLocal, TypeOK, ForgetOps, Live
  <1>6. CASE UnpublishHead
    BY <1>6 DEF UnpublishHead, TypeOK, ForgetOps, Live
  <1>7. CASE UnpublishDelete
    BY <1>7 DEF UnpublishDelete, TypeOK, ForgetOps, Live
  <1>8. CASE ClearPublication
    BY <1>8 DEF ClearPublication, WithoutPublication, TypeOK, ForgetOps, Live
  <1>9. CASE StatStray
    BY <1>9 DEF StatStray, TypeOK, ForgetOps, Live
  <1>10. CASE RemoveStray
    BY <1>10 DEF RemoveStray, TypeOK, ForgetOps, Live
  <1>11. ~ForgetFails
    BY DEF ForgetFails, TypeOK
  <1> QED
    BY <1>1, <1>2, <1>3, <1>4, <1>5, <1>6, <1>7, <1>8, <1>9, <1>10, <1>11 DEF ForgetStep

(* A backup writes a publication row for what it found in the remote store.*)
LEMMA BackupKeepsStatus ==
  ASSUME Overlaps = {}
  PROVE  TypeOK /\ StatusInv /\ BackupStep => StatusInv'
  <1> SUFFICES ASSUME TypeOK, StatusInv, BackupStep PROVE StatusInv'
    OBVIOUS
  <1> USE DEF StatusInv, BeingCleared, catalog, content, callers, pushes, TypeOK, BackupOps, NoBackup, Live
  <1>1. CASE Backup
    BY <1>1 DEF Backup, MayOverlap, Push, PushRejected
  <1>2. CASE PublishHead
    BY <1>2 DEF PublishHead
  <1>3. CASE Upload
    BY <1>3 DEF Upload
  <1>4. CASE VerifyHead
    BY <1>4 DEF VerifyHead
  <1>5. CASE Published
    BY <1>5 DEF Published, Push, PushRejected
  <1>6. CASE BackupFails
    BY <1>6 DEF BackupFails
  <1> QED
    BY <1>1, <1>2, <1>3, <1>4, <1>5, <1>6 DEF BackupStep

(* "backed_up" means that the remote store has every live object and that  *)
(* HEAD is the pushed catalog, if deletions and collections run by         *)
(* themselves and none is interrupted (see the run ObjectStoreMarker).     *)
THEOREM StatusTellsTheTruth ==
  ASSUME Overlaps = {}, MaxFaults = 0
  PROVE  Spec => []StatusIsTruthful
  <1>1. Init => StatusInv
    BY DEF Init, StatusInv, BeingCleared, NoBackup, NoForget
  <1>2. BytesInv /\ StatusInv /\ [Next]_vars => StatusInv'
    <2> SUFFICES ASSUME TypeOK, ForgetInv, StatusInv, [Next]_vars PROVE StatusInv'
      BY DEF BytesInv
    <2>1. CASE UNCHANGED vars
      BY <2>1 DEF vars, StatusInv, BeingCleared, Live
    <2>2. ~Crash
      BY DEF Crash, TypeOK
    <2> QED
      BY <2>1, <2>2, OthersKeepStatus, ForgetKeepsStatus, BackupKeepsStatus DEF Next
  <1>3. BytesInv /\ StatusInv => StatusIsTruthful
    BY DEF BytesInv, TypeOK, ForgetInv, StatusInv, BeingCleared, StatusIsTruthful, BackedUp,
       PendingObjects, Live, Forgotten
  <1>4. "write" \notin Overlaps
    OBVIOUS
  <1>5. Spec => []BytesInv
    BY <1>4, BytesInvariant
  <1> QED
    BY <1>1, <1>2, <1>3, <1>5, PTL DEF Spec

================================================================================
