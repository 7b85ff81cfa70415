-------------------------------- MODULE History ---------------------------------
(* Revisions and restore (src/history.ts, deleteArtifact of src/artifacts.ts):  *)
(* every mutation of the semantic rows is a revision, and a restore writes the  *)
(* rows of an earlier one, with the object rows merged and running work ended.  *)
(* Mutations run one at a time; the workspace side is the module Workspaces.    *)
EXTENDS Naturals, Sequences, FiniteSets

CONSTANTS HistArtifacts, HistObjects,
          HistJobs,          \* jobs of artifacts
          MaxRevs            \* bound on revisions

ASSUME HistoryAssumption == MaxRevs \in Nat \ {0} /\ {"gone", "bare", "none"} \cap HistObjects = {}

VARIABLES book,      \* the semantic rows
          revs,      \* the rows at each revision
          work,      \* runtime_jobs: state of each job, with how often it was enqueued
          ended      \* jobs that were active when the book was restored

historyVars == <<book, revs, work, ended>>

(* An artifact is gone, has no original, or has one; a stream describes the    *)
(* original it was probed from.                                                *)
EmptyBook == [objects |-> [o \in HistObjects |-> "absent"],
              file |-> [a \in HistArtifacts |-> "gone"], stream |-> [a \in HistArtifacts |-> "none"]]
ActiveWork == {"queued", "running", "completing"}

HistoryInit ==
  /\ book = EmptyBook /\ revs = <<EmptyBook>>
  /\ work = [j \in HistJobs |-> "none"] /\ ended = {}

(* semantic: the mutation and the revision that records it.                    *)
Mutated(b) ==
  /\ Len(revs) < MaxRevs
  /\ book' = b /\ revs' = Append(revs, b)

CreateArtifact(a) ==
  /\ book.file[a] = "gone" /\ Mutated([book EXCEPT !.file[a] = "bare"])
  /\ UNCHANGED <<work, ended>>

PutFile(a, o) ==
  /\ book.file[a] \notin {"gone", o}
  /\ Mutated([book EXCEPT !.file[a] = o, !.objects[o] = "live"])
  /\ UNCHANGED <<work, ended>>

AddStream(a) ==
  /\ book.file[a] \in HistObjects /\ book.stream[a] = "none"
  /\ Mutated([book EXCEPT !.stream[a] = book.file[a]])
  /\ UNCHANGED <<work, ended>>

(* The key of the streams table refuses to lose the file.                      *)
RemoveFile(a) ==
  /\ book.file[a] \in HistObjects /\ book.stream[a] = "none"
  /\ Mutated([book EXCEPT !.file[a] = "bare"])
  /\ UNCHANGED <<work, ended>>

ForgetObject(o) ==
  /\ book.objects[o] = "live" /\ Mutated([book EXCEPT !.objects[o] = "forgotten"])
  /\ UNCHANGED <<work, ended>>

(* deleteArtifact, its streams with it where the caller asks for that.         *)
DeleteArtifactRow(a, owned) ==
  /\ book.file[a] # "gone" /\ (owned \/ book.stream[a] = "none")
  /\ Mutated([book EXCEPT !.file[a] = "gone", !.stream[a] = "none"])
  /\ UNCHANGED <<work, ended>>

(* recordOperation: a revision of its own without a change of rows.            *)
RecordOperation == Mutated(book) /\ UNCHANGED <<work, ended>>

--------------------------------------------------------------------------------
(* restoreArtifact: refused where a stream would lose its file. The streams    *)
(* are not restored.                                                           *)
MutantStreamLosesFile(a, target) == FALSE
StreamInUse(a, target) == target.file[a] = "bare" /\ book.stream[a] # "none"
RestoreArtifact(a, r) ==
  LET target == revs[r] IN
  /\ target.file[a] # "gone" /\ ~StreamInUse(a, target)
  /\ Mutated([book EXCEPT !.file[a] = target.file[a]])
  /\ UNCHANGED <<work, ended>>

(* restoreObjectRows: rows are never deleted and a tombstone never rewinds.    *)
RestoredObjects(target) ==
  [o \in HistObjects |-> IF target[o] = "absent" \/ book.objects[o] = "forgotten"
                         THEN book.objects[o] ELSE target[o]]

AbortedJobs == {j \in HistJobs : work[j] \in ActiveWork}

RestoreBook(r) ==
  /\ Mutated([revs[r] EXCEPT !.objects = RestoredObjects(revs[r].objects)])
  /\ ended' = ended \cup {j \in HistJobs : work[j] \in ActiveWork}
  /\ work' = [j \in HistJobs |-> IF j \in AbortedJobs THEN "aborted" ELSE work[j]]

(* The queue, of which only what a restore meets is here.                      *)
Enqueue(j) ==
  /\ work[j] \in {"none", "done"} /\ work' = [work EXCEPT ![j] = "queued"]
  /\ UNCHANGED <<book, revs, ended>>
Advance(j) ==
  /\ work[j] \in ActiveWork
  /\ work' = [work EXCEPT ![j] = CASE @ = "queued" -> "running" [] @ = "running" -> "completing"
                                   [] OTHER -> "done"]
  /\ UNCHANGED <<book, revs, ended>>

HistoryNext ==
  \/ \E a \in HistArtifacts :
       \/ CreateArtifact(a) \/ AddStream(a) \/ RemoveFile(a)
       \/ \E o \in HistObjects : PutFile(a, o)
       \/ \E owned \in BOOLEAN : DeleteArtifactRow(a, owned)
       \/ \E r \in 1..Len(revs) : RestoreArtifact(a, r)
  \/ \E o \in HistObjects : ForgetObject(o)
  \/ RecordOperation \/ \E r \in 1..Len(revs) : RestoreBook(r)
  \/ \E j \in HistJobs : Enqueue(j) \/ Advance(j)
HistorySpec == HistoryInit /\ [][HistoryNext]_historyVars

--------------------------------------------------------------------------------
(* Types.                                                                      *)
HistoryTypeOK ==
  /\ book \in [objects : [HistObjects -> {"absent", "live", "forgotten"}],
               file : [HistArtifacts -> {"gone", "bare"} \cup HistObjects],
               stream : [HistArtifacts -> {"none"} \cup HistObjects]]
  /\ \A a \in HistArtifacts : book.file[a] \in HistObjects => book.objects[book.file[a]] # "absent"

(* history.ts:487: bytes that were deleted do not come back because history is *)
(* restored; only a write of the same bytes makes the object live again.       *)
TombstonesStay ==
  [][\A o \in HistObjects : book.objects[o] = "forgotten" /\ book'.objects[o] # "forgotten" =>
       \E a \in HistArtifacts : PutFile(a, o)]_historyVars

(* history.ts:430: a row of objects is the tombstone of every reference to it, *)
(* so each revision of the history can be read against the present rows.       *)
HistoryResolves ==
  \A r \in 1..Len(revs) : \A a \in HistArtifacts :
    /\ revs[r].file[a] \in HistObjects => book.objects[revs[r].file[a]] # "absent"
    /\ revs[r].stream[a] \in HistObjects => book.objects[revs[r].stream[a]] # "absent"

(* history.ts:666: no history of deletions and restores leaves a stream of a   *)
(* file that is not there.                                                     *)
StreamsHaveFiles == \A a \in HistArtifacts : book.stream[a] # "none" => book.file[a] \in HistObjects

(* history.ts:592: work that was active when the book was restored never       *)
(* completes into the restored book.                                           *)
RestoreEndsWork == \A j \in ended : work[j] \notin {"completing", "done"}

(* The past stays readable, and a restore brings back neither deleted bytes    *)
(* nor work that it ended.                                                     *)
HistoryKeeps == [](HistoryResolves /\ StreamsHaveFiles /\ RestoreEndsWork) /\ TombstonesStay
================================================================================
