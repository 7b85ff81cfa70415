-------------------------------- MODULE JobQueue --------------------------------
(***************************************************************************)
(* The retryable work queue (src/src/job-queue.ts) with its runner, the    *)
(* terminal-job audit of engine.ts, and the two operations that abort jobs *)
(* by their own SQL: deleteArtifact and restoreBook.                       *)
(*                                                                         *)
(* Every SQL transaction of the queue is synchronous, so it is one action. *)
(* What interleaves is everything behind an await: handlers, heartbeats,   *)
(* the reaper, the deletion of an artifact, and a kill of the process.     *)
(* A lease is live until time passes it by: expiry is an action.           *)
(***************************************************************************)
EXTENDS Integers, FiniteSets

CONSTANTS
  MaxJobs,      \* bound: rows of runtime_jobs; job IDs are 1..MaxJobs
  Keys,         \* dedupe keys
  ExternalIDs,  \* external task IDs
  NoValue,      \* SQL NULL
  AttemptLimits,\* values of maxAttempts
  Concurrency,  \* RunnerConfig.concurrency
  OutsideCalls, \* TRUE: others than the runner also start, complete and fail jobs
  Deletes,      \* TRUE: the artifact can be deleted and the book restored
  MaxCrashes    \* bound: kills of the process

ASSUME QueueAssumption ==
  /\ MaxJobs \in Nat
  /\ NoValue \notin {"done", "failed", "aborted"}
  /\ AttemptLimits \subseteq Nat \ {0}      \* Math.max(1, maxAttempts)
  /\ Concurrency \in Nat
  /\ OutsideCalls \in BOOLEAN /\ Deletes \in BOOLEAN
  /\ MaxCrashes \in Nat

VARIABLES
  job,         \* runtime_jobs, by ID
  executions,  \* handlers running in this process: <<job, fence>> pairs
  settling,    \* those that have reported a terminal outcome: awaiting its audit
  active,      \* job IDs in QueueRunner.active
  signalled,   \* executions whose AbortSignal was raised by a heartbeat
  present,     \* the jobs' artifact exists
  view,        \* its row of runtime_artifact_views
  deleting,    \* deleteArtifact in flight: the job IDs it has read
  audit,       \* job_runs under the job's operation ID
  extraRuns,   \* job_runs under IDs of their own: <<job, state>> pairs
  toRecord,    \* terminal jobs whose audit is not written yet: <<job, state>>
  enqueueThrew,\* an enqueue ended in "insert was ignored without a duplicate"
  up, crashes

vars == <<job, executions, settling, active, signalled, present, view, deleting, audit,
          extraRuns, toRecord, enqueueThrew, up, crashes>>
runner == <<executions, settling, active, signalled>>
artifact == <<present, view>>
audits == <<audit, extraRuns>>

Jobs == 1..MaxJobs
ActiveStates   == {"queued", "running", "completing"}
TerminalStates == {"done", "failed", "aborted"}

JobRows == [state : {"absent"} \cup ActiveStates \cup TerminalStates,
            attempts : Nat, maxAttempts : Nat, fence : Nat,
            lease : {"none", "live", "expired"},
            key : Keys \cup {NoValue}, externalId : ExternalIDs \cup {NoValue}]

TypeOK ==
  /\ job \in [Jobs -> JobRows]
  /\ executions \in SUBSET (Jobs \X Nat)
  /\ settling \in SUBSET executions
  /\ active \in SUBSET Jobs
  /\ signalled \in SUBSET (Jobs \X Nat)
  /\ present \in BOOLEAN
  /\ view \in {"none", "pending", "ready", "error"}
  /\ deleting \in SUBSET (SUBSET Jobs)
  /\ audit \in [Jobs -> TerminalStates \cup {NoValue}]
  /\ extraRuns \in SUBSET (Jobs \X TerminalStates)
  /\ toRecord \in SUBSET (Jobs \X TerminalStates)
  /\ enqueueThrew \in BOOLEAN
  /\ up \in BOOLEAN
  /\ crashes \in Nat

Active(j)   == job[j].state \in ActiveStates
Terminal(j) == job[j].state \in TerminalStates
Leased(j)   == job[j].state \in {"running", "completing"}

Init ==
  /\ job = [j \in Jobs |-> [state |-> "absent", attempts |-> 0, maxAttempts |-> 1, fence |-> 0,
                            lease |-> "none", key |-> NoValue, externalId |-> NoValue]]
  /\ executions = {} /\ settling = {} /\ active = {} /\ signalled = {}
  /\ present = TRUE /\ view = "none"
  /\ deleting = {}
  /\ audit = [j \in Jobs |-> NoValue]
  /\ extraRuns = {} /\ toRecord = {}
  /\ enqueueThrew = FALSE
  /\ up = TRUE /\ crashes = 0

--------------------------------------------------------------------------------
(* enqueue                                                                 *)

(* The unique indexes runtime_jobs_dedupe and runtime_jobs_external.       *)
MutantDedupeWindow(k) == {j \in Jobs : k # NoValue /\ job[j].key = k /\ job[j].state = "queued"}
SameKey(k)      == {j \in Jobs : k # NoValue /\ job[j].key = k /\ Active(j)}
SameExternal(x) == {j \in Jobs : x # NoValue /\ job[j].externalId = x /\ job[j].state # "absent"}

(* INSERT OR IGNORE took the row: the next free ID.                        *)
Insert(k, x, limit, initial) ==
  \E j \in Jobs :
    /\ job[j].state = "absent"
    /\ \A i \in Jobs : i < j => job[i].state # "absent"
    /\ job' = [job EXCEPT ![j] =
         [state |-> initial, attempts |-> IF initial = "running" THEN 1 ELSE 0,
          maxAttempts |-> limit, fence |-> 0, lease |-> "none", key |-> k, externalId |-> x]]

(* findDuplicateRow looks by external ID alone when there is one.          *)
FindsDuplicate(k, x) == IF x # NoValue THEN SameExternal(x) # {} ELSE SameKey(k) # {}

(* A duplicate, too, puts the artifact's view back to pending.  The work of *)
(* an artifact that is gone is refused by resolveArtifactId.               *)
Enqueue(k, x, limit, initial, showsWork) ==
  /\ up /\ present
  /\ initial = "running" => OutsideCalls
  /\ IF SameKey(k) \cup SameExternal(x) = {}
       THEN /\ Insert(k, x, limit, initial)
            /\ view' = IF showsWork THEN "pending" ELSE view
            /\ UNCHANGED enqueueThrew
       ELSE /\ view' = IF showsWork /\ FindsDuplicate(k, x) THEN "pending" ELSE view
            /\ enqueueThrew' = (enqueueThrew \/ ~FindsDuplicate(k, x))
            /\ UNCHANGED job
  /\ UNCHANGED <<runner, present, deleting, audits, toRecord, up, crashes>>

--------------------------------------------------------------------------------
(* Leases and fences                                                       *)

MutantFenceDown(f) == f - 1
NextFence(f) == f + 1

(* Which queued job comes next depends on the types the runner prefers and *)
(* on wall clock times; it can be any of them.                             *)
MutantTakesLeased == {j \in Jobs : Active(j)}
NextQueued == {j \in Jobs : job[j].state = "queued"}

(* QueueRunner.pump: take a job while the active map has room.             *)
HasRoom == Cardinality(active) < Concurrency

Dequeue ==
  /\ up
  /\ HasRoom
  /\ \E j \in NextQueued :
       /\ job' = [job EXCEPT ![j].state = "running", ![j].lease = "live",
                             ![j].attempts = @ + 1, ![j].fence = NextFence(@)]
       /\ executions' = executions \cup {<<j, job'[j].fence>>}
       /\ active' = active \cup {j}
  /\ UNCHANGED <<settling, signalled, artifact, deleting, audits, toRecord, enqueueThrew, up, crashes>>

Holds(e) == job[e[1]].state = "running" /\ job[e[1]].fence = e[2]

(* The runner's interval timer; a refused heartbeat aborts the handler.    *)
Heartbeat(e) ==
  /\ e \in executions
  /\ IF Holds(e)
       THEN job' = [job EXCEPT ![e[1]].lease = "live"] /\ UNCHANGED signalled
       ELSE signalled' = signalled \cup {e} /\ UNCHANGED job
  /\ UNCHANGED <<executions, settling, active, artifact, deleting, audits, toRecord, enqueueThrew, up, crashes>>

(* Time passes a lease by, also that of a handler whose timers are late.   *)
Expire(j) ==
  /\ job[j].lease = "live"
  /\ job' = [job EXCEPT ![j].lease = "expired"]
  /\ UNCHANGED <<runner, artifact, deleting, audits, toRecord, enqueueThrew, up, crashes>>

MutantRetriesForever(j) == TRUE
MayRetry(j) == job[j].attempts < job[j].maxAttempts

(* reap: one transaction for all expired leases.  It leaves the view alone.*)
Expired == {j \in Jobs : Leased(j) /\ job[j].lease = "expired"}

Reap ==
  /\ up
  /\ Expired # {}
  /\ job' = [j \in Jobs |->
       IF j \notin Expired THEN job[j]
       ELSE [job[j] EXCEPT !.state = IF MayRetry(j) THEN "queued" ELSE "failed",
                           !.lease = "none", !.fence = NextFence(@)]]
  /\ toRecord' = toRecord \cup {<<j, "failed">> : j \in {i \in Expired : ~MayRetry(i)}}
  /\ UNCHANGED <<runner, artifact, deleting, audits, enqueueThrew, up, crashes>>

--------------------------------------------------------------------------------
(* Outcomes.  A runner passes its fence; other callers pass the current one*)

MutantUnfenced(j, f) == Leased(j)
MutantAnyState(j, f) == job[j].fence = f
Accepts(j, f) == Leased(j) /\ job[j].fence = f

Complete(j, f) ==
  IF Accepts(j, f)
    THEN /\ job' = [job EXCEPT ![j].state = "done", ![j].lease = "none"]
         /\ view' = IF view = "none" THEN view ELSE "ready"
         /\ toRecord' = toRecord \cup {<<j, "done">>}
    ELSE UNCHANGED <<job, view, toRecord>>

(* fail does not bump the fence of a job it requeues.                      *)
Fail(j, f, allowRetry, preserve) ==
  IF Accepts(j, f)
    THEN LET retry == allowRetry /\ MayRetry(j) IN
         /\ job' = [job EXCEPT ![j].state = IF retry THEN "queued" ELSE "failed",
                               ![j].lease = "none"]
         /\ view' = IF retry \/ preserve \/ view = "none" THEN view ELSE "error"
         /\ toRecord' = IF retry THEN toRecord ELSE toRecord \cup {<<j, "failed">>}
    ELSE UNCHANGED <<job, view, toRecord>>

(* QueueRunner.run ends: the handler resolved or rejected.  A terminal     *)
(* outcome is followed by its audit; the task's finally then deletes the   *)
(* map entry of its job ID, whoever put it there.                          *)
Retire(e) ==
  /\ executions' = executions \ {e}
  /\ settling' = settling \ {e}
  /\ signalled' = signalled \ {e}
  /\ active' = active \ {e[1]}

Settle(e) ==
  /\ e \in executions \ settling
  /\ \/ Complete(e[1], e[2])
     \/ \E preserve \in BOOLEAN : Fail(e[1], e[2], TRUE, preserve)
  /\ IF toRecord' # toRecord
       THEN settling' = settling \cup {e} /\ UNCHANGED <<executions, active, signalled>>
       ELSE Retire(e)
  /\ UNCHANGED <<present, deleting, audits, enqueueThrew, up, crashes>>

Release(e) ==
  /\ e \in settling
  /\ \A r \in toRecord : r[1] # e[1]
  /\ Retire(e)
  /\ UNCHANGED <<job, artifact, deleting, audits, toRecord, enqueueThrew, up, crashes>>

(* complete and fail called from outside, without a fence.                 *)
External(j) ==
  /\ up /\ OutsideCalls
  /\ Leased(j)
  /\ \/ Complete(j, job[j].fence)
     \/ \E allowRetry \in BOOLEAN : Fail(j, job[j].fence, allowRetry, FALSE)
  /\ UNCHANGED <<runner, present, deleting, audits, enqueueThrew, up, crashes>>

(* A completing job is leased, and its heartbeats are refused.             *)
MarkCompleting(j) ==
  /\ up
  /\ job[j].state = "running"
  /\ job' = [job EXCEPT ![j].state = "completing"]
  /\ UNCHANGED <<runner, artifact, deleting, audits, toRecord, enqueueThrew, up, crashes>>

(* abort raises the handlers' signals at once; abortArtifact is one such   *)
(* transaction per job.                                                    *)
Abort(j) ==
  /\ up
  /\ Active(j)
  /\ job' = [job EXCEPT ![j].state = "aborted", ![j].lease = "none", ![j].fence = NextFence(@)]
  /\ toRecord' = toRecord \cup {<<j, "aborted">>}
  /\ signalled' \in {signalled, signalled \cup {e \in executions : e[1] = j}}
  /\ UNCHANGED <<executions, settling, active, artifact, deleting, audits, enqueueThrew, up, crashes>>

--------------------------------------------------------------------------------
(* deleteArtifact and restoreBook.  Bound: one deletion in flight.         *)

(* deleteArtifact reads the active jobs, then waits for the write chain.   *)
DeleteBegin ==
  /\ up /\ Deletes /\ present
  /\ deleting = {}
  /\ deleting' = {{j \in Jobs : Active(j)}}
  /\ UNCHANGED <<job, runner, artifact, audits, toRecord, enqueueThrew, up, crashes>>

(* An UPDATE by job ID and a job_runs row under an ID of its own.          *)
MutantNoRuns(ids) == {}
RunsOf(ids) == ids \X {"aborted"}

AbortAll(ids) ==
  /\ job' = [j \in Jobs |-> IF j \notin ids THEN job[j]
       ELSE [job[j] EXCEPT !.state = "aborted", !.lease = "none", !.fence = NextFence(@)]]
  /\ extraRuns' = extraRuns \cup RunsOf(ids)

DeleteCommit ==
  /\ up
  /\ \E read \in deleting : AbortAll(read)
  /\ deleting' = {}
  /\ present' = FALSE /\ view' = "none"
  /\ UNCHANGED <<runner, audit, toRecord, enqueueThrew, up, crashes>>

(* restoreBook reads and aborts inside its transaction; the restored       *)
(* revision has the artifact or not.                                       *)
RestoreBook ==
  /\ up /\ Deletes
  /\ AbortAll({j \in Jobs : Active(j)})
  /\ present' \in BOOLEAN
  /\ view' = IF present' THEN "ready" ELSE "none"
  /\ UNCHANGED <<runner, deleting, audit, toRecord, enqueueThrew, up, crashes>>

--------------------------------------------------------------------------------
(* The audit: recordTerminalJob inserts or ignores; opening reconciles.  It *)
(* is a transaction of its own after the outcome.  Only reap and            *)
(* abortArtifact give way between two of them; that any caller may come     *)
(* before it is more than the code allows.                                  *)
RecordTerminal(r) ==
  /\ up
  /\ r \in toRecord
  /\ audit' = IF audit[r[1]] = NoValue THEN [audit EXCEPT ![r[1]] = r[2]] ELSE audit
  /\ toRecord' = toRecord \ {r}
  /\ UNCHANGED <<job, runner, artifact, deleting, extraRuns, enqueueThrew, up, crashes>>

Crash ==
  /\ up
  /\ crashes < MaxCrashes
  /\ up' = FALSE /\ crashes' = crashes + 1
  /\ executions' = {} /\ settling' = {} /\ active' = {} /\ signalled' = {}
  /\ deleting' = {} /\ toRecord' = {}
  /\ UNCHANGED <<job, artifact, audits, enqueueThrew>>

MutantNoReconcile == {}
Unaudited == {<<j, job[j].state>> : j \in {i \in Jobs : Terminal(i) /\ audit[i] = NoValue}}

Open ==
  /\ ~up
  /\ up' = TRUE
  /\ toRecord' = Unaudited
  /\ UNCHANGED <<job, runner, artifact, deleting, audits, enqueueThrew, crashes>>

--------------------------------------------------------------------------------
EnqueueSome ==
  \E k \in Keys \cup {NoValue}, x \in ExternalIDs \cup {NoValue}, limit \in AttemptLimits,
     initial \in {"queued", "running"}, showsWork \in BOOLEAN :
       Enqueue(k, x, limit, initial, showsWork)

(* Timers and handlers of a live process, which run by themselves.         *)
Progress ==
  \/ Dequeue \/ Reap \/ Open
  \/ \E j \in Jobs : Expire(j)
  \/ \E r \in toRecord : RecordTerminal(r)

Next ==
  \/ EnqueueSome \/ Progress \/ DeleteBegin \/ DeleteCommit \/ RestoreBook \/ Crash
  \/ \E e \in executions : Heartbeat(e) \/ Settle(e) \/ Release(e)
  \/ \E j \in Jobs : External(j) \/ MarkCompleting(j) \/ Abort(j)

Spec == Init /\ [][Next]_vars

(* The pump and the reaper are interval timers, a process is started again,*)
(* time passes, and a handler settles.                                     *)
MaxAttempts == CHOOSE n \in AttemptLimits : \A m \in AttemptLimits : m <= n
Executions == Jobs \X (1..(2 * MaxAttempts))

QueueFairness ==
  /\ WF_vars(Dequeue) /\ WF_vars(Reap) /\ WF_vars(Open)
  /\ \A j \in Jobs : WF_vars(Expire(j))
  /\ \A e \in Executions : WF_vars(Settle(e)) /\ WF_vars(Release(e))
  /\ WF_vars(\E r \in toRecord : RecordTerminal(r))

FairSpec == Spec /\ QueueFairness

--------------------------------------------------------------------------------
(* Properties                                                              *)

(* A job never runs more often than its maxAttempts, whatever mixture of   *)
(* failures, reaped leases and crashes brought it back to the queue: dequeue*)
(* counts without looking at the limit, and only reap and fail compare.    *)
AttemptsBounded ==
  \A j \in Jobs : job[j].attempts <= job[j].maxAttempts
                  /\ (job[j].state = "queued" => job[j].attempts < job[j].maxAttempts)

(* At most one active job per dedupe key, retries included: a job that goes*)
(* back to the queue still holds the key the index forbids to others.      *)
DedupeHolds ==
  \A i, j \in Jobs : i # j /\ Active(i) /\ Active(j) => job[i].key # job[j].key \/ job[i].key = NoValue

(* The fence of a dequeued job is new to every handler that still runs, and*)
(* no handler is ahead of the row: what the fence comparisons rest on.     *)
FreshFence ==
  [][/\ \A e \in executions' : e[2] <= job'[e[1]].fence
     /\ \A j \in Jobs :
          job[j].state = "queued" /\ job'[j].state = "running" => <<j, job'[j].fence>> \notin executions]_vars

(* Only the newest handler of a job may decide its outcome: the answer of  *)
(* one whose lease was reaped meanwhile leaves the row as it is.           *)
NewestDecides ==
  [][\A e \in executions :
       Settle(e) /\ job' # job => \A o \in executions : o[1] = e[1] => o[2] <= e[2]]_vars

(* Fences settle who decides: the newest handler, and no earlier one.      *)
FencesDecide == FreshFence /\ NewestDecides

(* A terminal job stays as it is, whoever answers, aborts or reaps later.  *)
TerminalIsFinal == [][\A j \in Jobs : Terminal(j) => job'[j].state = job[j].state]_vars

(* The job_runs row of a job says what its queue row says.                 *)
AuditMatches == \A j \in Jobs : audit[j] # NoValue => audit[j] = job[j].state

(* No terminal job is without an audit, or the intent to write one, while  *)
(* the engine is up: reconcileTerminalJobs makes good what a crash lost.   *)
TerminalIsAudited ==
  up => \A j \in Jobs : Terminal(j) =>
          audit[j] # NoValue \/ (\E s \in TerminalStates : <<j, s>> \in toRecord \cup extraRuns)

(* Every job of the runner ends: crashes and lost leases cost attempts.    *)
JobsEnd == \A j \in Jobs : job[j].state # "absent" ~> Terminal(j)

(* A terminal job gets its job_runs row, across crashes before the write.  *)
AuditsWritten == \A j \in Jobs : Terminal(j) ~> audit[j] # NoValue

(* No job is left behind: each ends, and its end is recorded.              *)
JobsEndAudited == JobsEnd /\ AuditsWritten

--------------------------------------------------------------------------------
(* What the source says of itself and the code does not do                 *)

(* findDuplicateRow: an insert that was ignored has a duplicate.           *)
IgnoredInsertHasDuplicate == ~enqueueThrew

================================================================================
