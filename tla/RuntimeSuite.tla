------------------------------ MODULE RuntimeSuite -------------------------------
(* The work of an engine side by side for TLC: the job queue, the pool of model *)
(* processes and the work on artifacts.  One part runs in a behaviour, the      *)
(* others stay as they start; no part writes the tables of another.  The queue  *)
(* runs twice: with timers that may be late, and with timers that are on time.  *)
EXTENDS JobQueue, ModelWorkerPool, ArtifactRuntime

VARIABLES
  part,      \* the part that runs
  touched    \* history: running jobs that others than the runner have changed

RuntimeInit ==
  /\ part \in {"jobs", "punctual jobs", "pool", "artifacts"} /\ touched = {}
  /\ Init /\ ArtInit
  /\ PoolInit /\ (part = "pool" \/ \A c \in Calls : call[c].key = CHOOSE k \in ModelKeys : TRUE)

(* No lease of a running handler lapses: its heartbeat comes before that.       *)
OnTime == \A e \in executions : Holds(e) => job'[e[1]].lease # "expired"

(* Others than the runner mark a job, complete it or fail it: it is touched as  *)
(* long as a handler of it runs.                                                *)
Touch ==
  touched' = {j \in Jobs : /\ j \in touched \/ MarkCompleting(j) \/ External(j)
                           /\ \E e \in executions' : e[1] = j}

PunctualNext == Next /\ OnTime /\ Touch
PunctualSpec == Init /\ touched = {} /\ [][PunctualNext]_<<touched, vars>>

(* Bound: while timers are on time, TLC's queue is not killed and has no view.  *)
RuntimeNext ==
  \/ part = "jobs" /\ Next /\ UNCHANGED <<part, touched, poolVars, artVars>>
  \/ part = "punctual jobs" /\ PunctualNext /\ UNCHANGED <<crashes, view, part, poolVars, artVars>>
  \/ part = "pool" /\ PoolNext /\ UNCHANGED <<part, touched, vars, artVars>>
  \/ part = "artifacts" /\ ArtNext /\ UNCHANGED <<part, touched, vars, poolVars>>

RuntimeSpec ==
  /\ RuntimeInit /\ [][RuntimeNext]_<<part, touched, vars, poolVars, artVars>>
  /\ QueueFairness /\ PoolFairness /\ ArtFairness

(* Every part keeps the types and the keys of the tables that it models.        *)
RuntimeTypeOK ==
  /\ part \in {"jobs", "punctual jobs"} => TypeOK
  /\ part = "pool" => PoolTypeOK
  /\ part = "artifacts" => ArtTypeOK

(* Among the given jobs: at most config.concurrency handlers, no two of them    *)
(* for one job, and the active map knows exactly the jobs that have one.        *)
OneHandlerPerJob(jobs) ==
  /\ Cardinality({e \in executions : e[1] \in jobs}) <= Concurrency
  /\ \A d, e \in executions : d[1] = e[1] /\ e[1] \in jobs => d = e
  /\ active \cap jobs = {e[1] : e \in executions} \cap jobs

(* While heartbeats are on time, the runner keeps to one handler per job and to *)
(* its concurrency (job-queue.ts, QueueRunner), among the jobs that nobody else *)
(* has changed under a handler that still runs.  The others are excepted: a job *)
(* marked completing is refused the heartbeat that would renew its lease (211)  *)
(* and gets a second handler beside the first, whose end takes the entry of the *)
(* second from the active map; a fail from outside requeues a job under its     *)
(* handler.                                                                     *)
OneHandlerOnTime == part = "punctual jobs" => OneHandlerPerJob(Jobs \ touched)
================================================================================
