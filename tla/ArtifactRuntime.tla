--------------------------- MODULE ArtifactRuntime ----------------------------
(* The runtime rows of an artifact (src/runtime-services.ts): its views, with *)
(* the owner and the deadline of the work in progress, its pending task and  *)
(* its last failure.  Row updates are atomic; the record of a failure is a   *)
(* semantic mutation, which waits for its turn in the chain of the store     *)
(* while the rows go on changing.                                            *)
EXTENDS Naturals, Sequences, FiniteSets

CONSTANTS Artifacts, TaskIds,
          MaxWork,     \* bound: owners handed out
          MaxWrites    \* bound: semantic mutations that wait

ASSUME ArtAssumption == MaxWork \in Nat /\ MaxWrites \in Nat

VARIABLES exists,      \* artifacts: the artifacts of the catalog
          views,       \* runtime_artifact_views
          task,        \* runtime_pending_tasks
          failed,      \* runtime_generation_errors: artifacts with a row
          lastOwner,   \* owners handed out so far; an owner is a fresh UUID
          writes,      \* the semantic mutations that wait, in order
          unwinding,   \* failures recorded whose task is still to be deleted
          ended        \* history: owners whose work has ended

artVars == <<exists, views, task, failed, lastOwner, writes, unwinding, ended>>

NoView == [status |-> "none", owner |-> 0, lapsed |-> FALSE]
Free(s) == [NoView EXCEPT !.status = s]
NoTask == [id |-> "none", owner |-> 0, completing |-> FALSE]
Owners == 1..MaxWork
Writes == [kind : {"fail", "clear", "delete"}, art : Artifacts, drops : BOOLEAN]

ArtInit ==
  /\ exists = Artifacts
  /\ views = [a \in Artifacts |-> Free("pending")]     \* createArtifact
  /\ task = [a \in Artifacts |-> NoTask]
  /\ failed = {} /\ lastOwner = 0 /\ writes = <<>> /\ unwinding = {} /\ ended = {}

(* Every change of views: an owner that is no longer in one has ended.       *)
SetViews(v) ==
  /\ views' = v
  /\ ended' = ended \cup {views[a].owner : a \in {b \in Artifacts : views[b].owner # v[b].owner}}
SetView(a, v) == SetViews([views EXCEPT ![a] = v])

Submit(kind, a, drops) ==
  /\ Len(writes) < MaxWrites
  /\ writes' = Append(writes, [kind |-> kind, art |-> a, drops |-> drops])

--------------------------------------------------------------------------------
(* artifactWork: begin, complete, renew and fail.                            *)
FreshOwner == lastOwner + 1

Busy(a) == views[a].owner # 0 \/ views[a].status \in {"working", "error"}

Begin(a) ==
  /\ a \in exists /\ ~Busy(a) /\ lastOwner < MaxWork
  /\ lastOwner' = lastOwner + 1
  /\ SetView(a, [status |-> "working", owner |-> FreshOwner, lapsed |-> FALSE])
  /\ UNCHANGED <<exists, task, failed, writes, unwinding>>

CompleteWork(a, o) ==
  /\ a \in exists /\ views[a].owner = o
  /\ SetView(a, Free("ready"))
  /\ UNCHANGED <<exists, task, failed, lastOwner, writes, unwinding>>

(* The deadline moves to the later one; a lapse that no reaper saw is undone.*)
RenewWork(a, o) ==
  /\ a \in exists /\ views[a].owner = o /\ views[a].status = "working"
  /\ SetView(a, [views[a] EXCEPT !.lapsed = FALSE])
  /\ UNCHANGED <<exists, task, failed, lastOwner, writes, unwinding>>

(* failArtifactWork: the owner is checked, then the failure waits its turn.  *)
FailWork(a, o) ==
  /\ a \in exists /\ views[a].owner = o
  /\ Submit("fail", a, FALSE)
  /\ UNCHANGED <<exists, views, task, failed, lastOwner, unwinding, ended>>

--------------------------------------------------------------------------------
(* pending: a task is written by its owner, or where no owner is known; the  *)
(* index on task_id refuses a task that another artifact has.                *)
MutantOtherOwner(a, o) == TRUE
MayWrite(a, o) == task[a] = NoTask \/ task[a].owner \in {0, o}
Taken(a, t) == \E b \in Artifacts \ {a} : task[b] # NoTask /\ task[b].id = t

WriteTask(a, t, o) ==
  /\ a \in exists /\ MayWrite(a, o) /\ ~Taken(a, t)
  /\ task' = [task EXCEPT ![a] = [id |-> t, owner |-> o, completing |-> FALSE]]
  /\ UNCHANGED <<exists, views, failed, lastOwner, writes, unwinding, ended>>

DeleteTask(a, expected) ==
  /\ a \in exists /\ task[a] # NoTask /\ task[a].id \in expected
  /\ task' = [task EXCEPT ![a] = NoTask]
  /\ UNCHANGED <<exists, views, failed, lastOwner, writes, unwinding, ended>>

UpdateCompleting(a, completing) ==
  /\ a \in exists /\ task[a] # NoTask
  /\ task' = [task EXCEPT ![a].completing = completing]
  /\ UNCHANGED <<exists, views, failed, lastOwner, writes, unwinding, ended>>

(* failPending: the task is checked now and deleted, whatever it is then,    *)
(* after the failure has been recorded.                                      *)
FailPending(a, expected, force) ==
  /\ a \in exists
  /\ force \/ (task[a] # NoTask /\ task[a].id \in expected)
  /\ Submit("fail", a, TRUE)
  /\ UNCHANGED <<exists, views, task, failed, lastOwner, unwinding, ended>>

DropTask(a) ==
  /\ a \in unwinding
  /\ unwinding' = unwinding \ {a}
  /\ task' = [task EXCEPT ![a] = NoTask]
  /\ UNCHANGED <<exists, views, failed, lastOwner, writes, ended>>

--------------------------------------------------------------------------------
(* failures: write and clear; clear does nothing where there is no row.      *)
WriteFailure(a) ==
  /\ a \in exists
  /\ Submit("fail", a, FALSE)
  /\ UNCHANGED <<exists, views, task, failed, lastOwner, unwinding, ended>>

ClearFailure(a) ==
  /\ a \in exists /\ a \in failed
  /\ Submit("clear", a, FALSE)
  /\ UNCHANGED <<exists, views, task, failed, lastOwner, unwinding, ended>>

DeleteArtifact(a) ==
  /\ a \in exists
  /\ Submit("delete", a, FALSE)
  /\ UNCHANGED <<exists, views, task, failed, lastOwner, unwinding, ended>>

(* The mutation whose turn it is.  An update finds no row after a deletion;  *)
(* the upsert of a failure makes a new one.                                  *)
Updated(a, v) == IF views[a].status = "none" THEN views[a] ELSE v

RunFail(w) ==
  /\ w.kind = "fail"
  /\ SetView(w.art, Free("error"))
  /\ failed' = failed \cup {w.art}
  /\ unwinding' = IF w.drops THEN unwinding \cup {w.art} ELSE unwinding
  /\ UNCHANGED <<exists, task>>

RunClear(w) ==
  /\ w.kind = "clear"
  /\ SetView(w.art, Updated(w.art, Free("ready")))
  /\ failed' = failed \ {w.art}
  /\ UNCHANGED <<exists, task, unwinding>>

RunDelete(w) ==
  /\ w.kind = "delete"
  /\ exists' = exists \ {w.art}
  /\ SetView(w.art, NoView)
  /\ task' = [task EXCEPT ![w.art] = NoTask]
  /\ failed' = failed \ {w.art}
  /\ UNCHANGED unwinding

RunWrite ==
  /\ writes # <<>>
  /\ writes' = Tail(writes)
  /\ RunFail(Head(writes)) \/ RunClear(Head(writes)) \/ RunDelete(Head(writes))
  /\ UNCHANGED lastOwner

--------------------------------------------------------------------------------
(* Other writers of the views: the queue (pending, ready or error, without an *)
(* owner), a write of a file, and the restore of an artifact.                *)
EnqueuedView(a) ==
  /\ a \in exists /\ SetView(a, Free("pending"))
  /\ UNCHANGED <<exists, task, failed, lastOwner, writes, unwinding>>

SettledView(a, s) ==
  /\ SetView(a, Updated(a, Free(s)))
  /\ UNCHANGED <<exists, task, failed, lastOwner, writes, unwinding>>

MarkWorkspaceReady(a) ==
  /\ a \in exists /\ SetView(a, Free("ready"))
  /\ UNCHANGED <<exists, task, failed, lastOwner, writes, unwinding>>

ResetArtifactRuntime(a) ==
  /\ a \in exists /\ SetView(a, Free("ready"))
  /\ task' = [task EXCEPT ![a] = NoTask]
  /\ failed' = failed \ {a}
  /\ UNCHANGED <<exists, lastOwner, writes, unwinding>>

(* recoverArtifact and recoverAll insert the row that is missing.            *)
Recover(S) ==
  /\ \E a \in S : views[a].status = "none"
  /\ SetViews([a \in Artifacts |-> IF a \in S /\ views[a].status = "none"
                                     THEN Free("ready") ELSE views[a]])
  /\ UNCHANGED <<exists, task, failed, lastOwner, writes, unwinding>>

(* startReaper; time passes the deadline of a views.                          *)
Reaped(v) == Free("error")

Reapable(a) == views[a].status = "working" /\ views[a].lapsed

ReapViews ==
  /\ \E a \in Artifacts : Reapable(a)
  /\ SetViews([a \in Artifacts |-> IF Reapable(a) THEN Reaped(views[a]) ELSE views[a]])
  /\ UNCHANGED <<exists, task, failed, lastOwner, writes, unwinding>>

LapseView(a) ==
  /\ views[a].status = "working" /\ ~views[a].lapsed
  /\ views' = [views EXCEPT ![a].lapsed = TRUE]
  /\ UNCHANGED <<exists, task, failed, lastOwner, writes, unwinding, ended>>

OwnerStep(a, o) == CompleteWork(a, o) \/ RenewWork(a, o) \/ FailWork(a, o)
TaskStep(a) ==
  \/ \E t \in TaskIds : \/ \E o \in Owners : WriteTask(a, t, o)
                        \/ DeleteTask(a, {t}) \/ FailPending(a, {t}, FALSE)
  \/ DeleteTask(a, TaskIds) \/ FailPending(a, TaskIds, FALSE) \/ FailPending(a, {}, TRUE)
  \/ \E b \in BOOLEAN : UpdateCompleting(a, b)
  \/ DropTask(a)

ArtStep(a) ==
  \/ Begin(a) \/ (\E o \in Owners : OwnerStep(a, o)) \/ TaskStep(a)
  \/ WriteFailure(a) \/ ClearFailure(a) \/ DeleteArtifact(a)
  \/ EnqueuedView(a) \/ SettledView(a, "ready") \/ SettledView(a, "error")
  \/ MarkWorkspaceReady(a) \/ ResetArtifactRuntime(a) \/ Recover({a} \cap exists)
  \/ LapseView(a)

ArtNext == (\E a \in Artifacts : ArtStep(a)) \/ Recover(exists) \/ ReapViews \/ RunWrite

ArtSpec == ArtInit /\ [][ArtNext]_artVars

(* The interval of the reaper and the deadlines; a semantic mutation and its *)
(* continuation run in turn.                                                 *)
ArtFairness ==
  /\ WF_artVars(ReapViews) /\ WF_artVars(RunWrite)
  /\ \A a \in Artifacts : WF_artVars(LapseView(a)) /\ WF_artVars(DropTask(a))

--------------------------------------------------------------------------------
(* Rows are well formed: exactly a working views has an owner, and a task     *)
(* belongs to one artifact.                                                  *)
ArtTypeOK ==
  /\ exists \subseteq Artifacts /\ failed \subseteq Artifacts /\ unwinding \subseteq Artifacts
  /\ views \in [Artifacts -> [status : {"none", "pending", "working", "ready", "error"},
                             owner : {0} \cup Owners, lapsed : BOOLEAN]]
  /\ task \in [Artifacts -> {NoTask} \cup [id : TaskIds, owner : Owners, completing : BOOLEAN]]
  /\ lastOwner \in 0..MaxWork /\ writes \in Seq(Writes) /\ Len(writes) <= MaxWrites
  /\ \A a \in Artifacts : (views[a].owner # 0) <=> (views[a].status = "working")
  /\ \A a, b \in Artifacts : a # b /\ task[a] # NoTask /\ task[b] # NoTask =>
       task[a].id # task[b].id

(* An owner whose work has ended, by its own call, by the reaper or by any   *)
(* other writer, never gets it back: its late complete or renew finds no row.*)
EndedStayOut == \A a \in Artifacts : views[a].owner \notin ended \ {0}

(* A task changes hands only after it was deleted.                           *)
TaskKeepsOwner ==
  [][\A a \in Artifacts : task[a] # NoTask /\ task'[a] # NoTask => task'[a].owner = task[a].owner]_artVars

(* A dead owner blocks nobody for ever: work past its deadline is renewed,   *)
(* ended or reaped.                                                          *)
LapsedIsReaped == \A a \in Artifacts : views[a].lapsed ~> ~views[a].lapsed

(* Work and tasks belong to their owners, and to nobody for ever.            *)
WorkIsOwned == []EndedStayOut /\ TaskKeepsOwner /\ LapsedIsReaped
================================================================================
