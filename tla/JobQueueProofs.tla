----------------------------- MODULE JobQueueProofs -----------------------------
(***************************************************************************)
(* Proofs about JobQueue for any number of jobs, keys, external IDs,       *)
(* attempts, handlers and kills.                                           *)
(***************************************************************************)
EXTENDS JobQueue, TLAPS

(* The three changes of state that also bump the fence give a row again.   *)
LEMMA RowMoves ==
  ASSUME NEW r \in JobRows, NEW s \in ActiveStates \cup TerminalStates
  PROVE  [r EXCEPT !.state = s, !.lease = "none", !.fence = NextFence(@)] \in JobRows
<1>1. r.fence + 1 \in Nat
  BY DEF JobRows
<1> QED
  BY <1>1 DEF JobRows, NextFence

(* What complete and fail leave behind is well typed.                      *)
LEMMA ReportTyped ==
  ASSUME TypeOK, NEW j \in Jobs, NEW f \in Nat,
         Complete(j, f) \/ \E allowRetry, preserve \in BOOLEAN : Fail(j, f, allowRetry, preserve)
  PROVE  /\ job' \in [Jobs -> JobRows]
         /\ view' \in {"none", "pending", "ready", "error"}
         /\ toRecord' \in SUBSET (Jobs \X TerminalStates)
<1>1. ASSUME NEW s \in {"done", "failed", "queued"},
             job' = [job EXCEPT ![j].state = s, ![j].lease = "none"]
      PROVE  job' \in [Jobs -> JobRows]
  <2>1. [job[j] EXCEPT !.state = s, !.lease = "none"] \in JobRows
    <3>1. job[j] \in JobRows
      BY DEF TypeOK
    <3> QED BY <3>1 DEF JobRows, ActiveStates, TerminalStates
  <2>2. job' = [job EXCEPT ![j] = [job[j] EXCEPT !.state = s, !.lease = "none"]]
    BY <1>1 DEF TypeOK, JobRows
  <2> QED BY <2>1, <2>2 DEF TypeOK
<1>2. ASSUME NEW s \in {"done", "failed"}, toRecord' = toRecord \cup {<<j, s>>}
      PROVE  toRecord' \in SUBSET (Jobs \X TerminalStates)
  BY <1>2 DEF TypeOK, TerminalStates
<1>3. CASE Complete(j, f)
  <2>1. job' \in [Jobs -> JobRows] /\ toRecord' \in SUBSET (Jobs \X TerminalStates)
    BY <1>1, <1>2, <1>3 DEF Complete, TypeOK
  <2>2. view' \in {"none", "pending", "ready", "error"}
    BY <1>3 DEF Complete, TypeOK
  <2> QED BY <2>1, <2>2
<1>4. ASSUME NEW allowRetry \in BOOLEAN, NEW preserve \in BOOLEAN, Fail(j, f, allowRetry, preserve)
      PROVE  /\ job' \in [Jobs -> JobRows]
             /\ view' \in {"none", "pending", "ready", "error"}
             /\ toRecord' \in SUBSET (Jobs \X TerminalStates)
  <2>1. job' \in [Jobs -> JobRows]
    BY <1>1, <1>4 DEF Fail, TypeOK
  <2>2. toRecord' \in SUBSET (Jobs \X TerminalStates)
    BY <1>2, <1>4 DEF Fail, TypeOK
  <2>3. view' \in {"none", "pending", "ready", "error"}
    BY <1>4 DEF Fail, TypeOK
  <2> QED BY <2>1, <2>2, <2>3
<1> QED BY <1>3, <1>4

(* Rows, handlers and audits stay well typed.                              *)
THEOREM TypeCorrect == Spec => []TypeOK
<1>1. Init => TypeOK
  <2>1. [state |-> "absent", attempts |-> 0, maxAttempts |-> 1, fence |-> 0, lease |-> "none",
         key |-> NoValue, externalId |-> NoValue] \in JobRows
    BY DEF JobRows
  <2>2. Init => job \in [Jobs -> JobRows] /\ audit \in [Jobs -> TerminalStates \cup {NoValue}]
    BY <2>1 DEF Init
  <2>3. Init => /\ executions \in SUBSET (Jobs \X Nat) /\ settling \in SUBSET executions
                /\ active \in SUBSET Jobs /\ signalled \in SUBSET (Jobs \X Nat)
    BY DEF Init
  <2>4. Init => deleting \in SUBSET (SUBSET Jobs)
    BY DEF Init
  <2>5. Init => /\ extraRuns \in SUBSET (Jobs \X TerminalStates)
                /\ toRecord \in SUBSET (Jobs \X TerminalStates)
    BY DEF Init
  <2>7. Init => /\ enqueueThrew \in BOOLEAN /\ up \in BOOLEAN
    BY DEF Init
  <2>8. Init => crashes \in Nat
    BY DEF Init
  <2>6. Init => present \in BOOLEAN /\ view \in {"none", "pending", "ready", "error"}
    BY DEF Init
  <2> QED BY <2>2, <2>3, <2>4, <2>5, <2>6, <2>7, <2>8 DEF TypeOK
<1>2. TypeOK /\ [Next]_vars => TypeOK'
  <2> SUFFICES ASSUME TypeOK, [Next]_vars
               PROVE  TypeOK'
    OBVIOUS
  <2> USE DEF TypeOK, runner, artifact, audits
  <2>1. CASE EnqueueSome
    <3> SUFFICES ASSUME NEW k \in Keys \cup {NoValue}, NEW x \in ExternalIDs \cup {NoValue},
                        NEW limit \in AttemptLimits, NEW initial \in {"queued", "running"},
                        NEW showsWork \in BOOLEAN, Enqueue(k, x, limit, initial, showsWork)
                 PROVE  TypeOK'
      BY <2>1 DEF EnqueueSome
    <3>1. CASE SameKey(k) \cup SameExternal(x) = {}
      <4>1. PICK j \in Jobs : job' = [job EXCEPT ![j] =
              [state |-> initial, attempts |-> IF initial = "running" THEN 1 ELSE 0,
               maxAttempts |-> limit, fence |-> 0, lease |-> "none", key |-> k, externalId |-> x]]
        BY <3>1 DEF Enqueue, Insert
      <4>2. [state |-> initial, attempts |-> IF initial = "running" THEN 1 ELSE 0,
             maxAttempts |-> limit, fence |-> 0, lease |-> "none", key |-> k, externalId |-> x]
            \in JobRows
        BY QueueAssumption DEF JobRows, ActiveStates
      <4>3. job' \in [Jobs -> JobRows]
        BY <4>1, <4>2
      <4> QED BY <3>1, <4>3 DEF Enqueue
    <3>2. CASE SameKey(k) \cup SameExternal(x) # {}
      BY <3>2 DEF Enqueue, FindsDuplicate
    <3> QED BY <3>1, <3>2
  <2>2. CASE Dequeue
    <3>1. PICK j \in Jobs :
            /\ job' = [job EXCEPT ![j].state = "running", ![j].lease = "live",
                                  ![j].attempts = @ + 1, ![j].fence = NextFence(@)]
            /\ executions' = executions \cup {<<j, job'[j].fence>>}
            /\ active' = active \cup {j}
      BY <2>2 DEF Dequeue, NextQueued
    <3>2. job[j].fence + 1 \in Nat /\ job[j].attempts + 1 \in Nat
      BY DEF JobRows
    <3>3. job' \in [Jobs -> JobRows] /\ job'[j].fence \in Nat
      BY <3>1, <3>2 DEF JobRows, ActiveStates, NextFence
    <3> QED BY <2>2, <3>1, <3>3 DEF Dequeue
  <2>3. CASE Reap
    <3>1. ASSUME NEW j \in Jobs
          PROVE  [job[j] EXCEPT !.state = IF MayRetry(j) THEN "queued" ELSE "failed",
                                !.lease = "none", !.fence = NextFence(@)] \in JobRows
      BY RowMoves DEF ActiveStates, TerminalStates
    <3>2. job' \in [Jobs -> JobRows]
      BY <2>3, <3>1 DEF Reap
    <3>3. toRecord' \in SUBSET (Jobs \X TerminalStates)
      <4>1. \A i \in Jobs : <<i, "failed">> \in Jobs \X TerminalStates
        BY DEF TerminalStates
      <4>2. {<<j, "failed">> : j \in {i \in Expired : ~MayRetry(i)}} \subseteq Jobs \X TerminalStates
        BY <4>1 DEF Expired
      <4> QED BY <2>3, <4>2 DEF Reap
    <3> QED BY <2>3, <3>2, <3>3 DEF Reap
  <2>4. CASE Open BY <2>4 DEF Open, Unaudited, Terminal, JobRows
  <2>5. ASSUME NEW j \in Jobs, Expire(j) PROVE TypeOK' BY <2>5 DEF Expire, JobRows
  <2>6. ASSUME NEW r \in toRecord, RecordTerminal(r) PROVE TypeOK' BY <2>6 DEF RecordTerminal
  <2>7. CASE DeleteBegin
    <3>1. {j \in Jobs : Active(j)} \in SUBSET Jobs
      OBVIOUS
    <3>2. deleting' \in SUBSET (SUBSET Jobs)
      BY <2>7, <3>1 DEF DeleteBegin
    <3> QED BY <2>7, <3>2 DEF DeleteBegin
  <2>8. ASSUME NEW ids \in SUBSET Jobs, AbortAll(ids)
        PROVE  job' \in [Jobs -> JobRows] /\ extraRuns' \in SUBSET (Jobs \X TerminalStates)
    <3>1. ASSUME NEW j \in Jobs
          PROVE  [job[j] EXCEPT !.state = "aborted", !.lease = "none", !.fence = NextFence(@)]
                 \in JobRows
      BY RowMoves DEF TerminalStates
    <3>2. job' \in [Jobs -> JobRows]
      BY <2>8, <3>1 DEF AbortAll
    <3> QED BY <2>8, <3>2 DEF AbortAll, RunsOf, TerminalStates
  <2>9. CASE DeleteCommit
    <3>1. PICK read \in deleting : AbortAll(read)
      BY <2>9 DEF DeleteCommit
    <3>2. job' \in [Jobs -> JobRows] /\ extraRuns' \in SUBSET (Jobs \X TerminalStates)
      BY <2>8, <3>1
    <3> QED BY <2>9, <3>2 DEF DeleteCommit
  <2>18. CASE RestoreBook
    <3>1. {j \in Jobs : Active(j)} \in SUBSET Jobs
      OBVIOUS
    <3>2. job' \in [Jobs -> JobRows] /\ extraRuns' \in SUBSET (Jobs \X TerminalStates)
      BY <2>8, <2>18, <3>1 DEF RestoreBook
    <3> QED BY <2>18, <3>2 DEF RestoreBook
  <2>10. CASE Crash
    <3>1. /\ UNCHANGED <<job, artifact, audits, enqueueThrew>>
          /\ executions' = {} /\ settling' = {} /\ active' = {} /\ signalled' = {}
          /\ deleting' = {} /\ toRecord' = {}
      BY <2>10 DEF Crash
    <3>2. crashes' \in Nat
      BY <2>10 DEF Crash
    <3>3. up' \in BOOLEAN
      BY <2>10 DEF Crash
    <3> QED BY <3>1, <3>2, <3>3
  <2>11. ASSUME NEW e \in executions, Heartbeat(e) PROVE TypeOK'
    <3>1. e[1] \in Jobs
      OBVIOUS
    <3>2. job' \in [Jobs -> JobRows]
      BY <2>11, <3>1 DEF Heartbeat, JobRows
    <3>3. signalled' \in SUBSET (Jobs \X Nat)
      BY <2>11 DEF Heartbeat
    <3> QED BY <2>11, <3>2, <3>3 DEF Heartbeat
  <2>12. ASSUME NEW e \in executions, Settle(e) PROVE TypeOK'
    <3>1. UNCHANGED <<present, deleting, audits, enqueueThrew, up, crashes>>
          /\ job' \in [Jobs -> JobRows] /\ view' \in {"none", "pending", "ready", "error"}
          /\ toRecord' \in SUBSET (Jobs \X TerminalStates)
      <4>1. e = <<e[1], e[2]>> /\ e[1] \in Jobs /\ e[2] \in Nat
        OBVIOUS
      <4>2. Complete(e[1], e[2]) \/ \E preserve \in BOOLEAN : Fail(e[1], e[2], TRUE, preserve)
        <5> HIDE DEF TypeOK, runner, artifact, audits
        <5> QED BY <2>12 DEF Settle
      <4>3. UNCHANGED <<present, deleting, audits, enqueueThrew, up, crashes>>
        BY <2>12 DEF Settle
      <4> HIDE DEF audits
      <4> QED BY <4>1, <4>2, <4>3, ReportTyped
    <3>2. executions' \in SUBSET (Jobs \X Nat) /\ settling' \in SUBSET executions'
          /\ active' \in SUBSET Jobs /\ signalled' \in SUBSET (Jobs \X Nat)
      BY <2>12 DEF Settle, Retire
    <3> QED BY <3>1, <3>2
  <2>13. ASSUME NEW e \in executions, Release(e) PROVE TypeOK' BY <2>13 DEF Release, Retire
  <2>14. ASSUME NEW j \in Jobs, External(j) PROVE TypeOK'
    <3>1. job' \in [Jobs -> JobRows] /\ view' \in {"none", "pending", "ready", "error"}
          /\ toRecord' \in SUBSET (Jobs \X TerminalStates)
      <4>1. job[j].fence \in Nat
        BY DEF JobRows
      <4>2. \/ Complete(j, job[j].fence)
            \/ \E allowRetry \in BOOLEAN : Fail(j, job[j].fence, allowRetry, FALSE)
        BY <2>14 DEF External
      <4>3. \/ Complete(j, job[j].fence)
            \/ \E allowRetry, preserve \in BOOLEAN : Fail(j, job[j].fence, allowRetry, preserve)
        BY <4>2, Zenon
      <4> QED BY <4>1, <4>3, ReportTyped
    <3> QED BY <2>14, <3>1 DEF External
  <2>15. ASSUME NEW j \in Jobs, MarkCompleting(j) PROVE TypeOK' BY <2>15 DEF MarkCompleting, JobRows, ActiveStates
  <2>16. ASSUME NEW j \in Jobs, Abort(j) PROVE TypeOK'
    <3>1. [job[j] EXCEPT !.state = "aborted", !.lease = "none", !.fence = NextFence(@)] \in JobRows
      BY RowMoves DEF TerminalStates
    <3>2. job' = [job EXCEPT ![j] =
             [job[j] EXCEPT !.state = "aborted", !.lease = "none", !.fence = NextFence(@)]]
      BY <2>16 DEF Abort, JobRows
    <3>4. job' \in [Jobs -> JobRows]
      BY <3>1, <3>2
    <3>3. toRecord' \in SUBSET (Jobs \X TerminalStates) /\ signalled' \in SUBSET (Jobs \X Nat)
      BY <2>16 DEF Abort, TerminalStates
    <3> QED BY <2>16, <3>3, <3>4 DEF Abort
  <2>17. CASE UNCHANGED vars BY <2>17 DEF vars
  <2> QED
    BY <2>1, <2>2, <2>3, <2>4, <2>5, <2>6, <2>7, <2>8, <2>9, <2>10, <2>11, <2>12, <2>13, <2>14,
       <2>15, <2>16, <2>17, <2>18 DEF Next, Progress
<1> QED BY <1>1, <1>2, PTL DEF Spec

--------------------------------------------------------------------------------
(* How a step may change a row.                                            *)

Kept(j) ==
  /\ job'[j].attempts = job[j].attempts
  /\ job'[j].maxAttempts = job[j].maxAttempts
  /\ job'[j].key = job[j].key

Stays(j) ==
  /\ job'[j].state = job[j].state \/ (job[j].state = "running" /\ job'[j].state = "completing")
  /\ job'[j].fence = job[j].fence
  /\ Kept(j)

Starts(j) ==
  /\ job[j].state = "absent"
  /\ \/ job'[j].state = "queued" /\ job'[j].attempts = 0
     \/ job'[j].state = "running" /\ job'[j].attempts = 1
  /\ job'[j].maxAttempts \in AttemptLimits
  /\ job'[j].fence = 0
  /\ \A i \in Jobs : i # j => job'[i] = job[i]
  /\ job'[j].key # NoValue => \A i \in Jobs : Active(i) => job[i].key # job'[j].key

Dequeued(j) ==
  /\ job[j].state = "queued" /\ job'[j].state = "running"
  /\ job'[j].attempts = job[j].attempts + 1
  /\ job'[j].fence = job[j].fence + 1
  /\ job'[j].maxAttempts = job[j].maxAttempts
  /\ job'[j].key = job[j].key

Requeued(j) ==
  /\ Leased(j) /\ job'[j].state = "queued"
  /\ job[j].attempts < job[j].maxAttempts
  /\ job'[j].fence \in {job[j].fence, job[j].fence + 1}
  /\ Kept(j)

(* Only a deletion ends a job that has already ended.                      *)
Ends(j) ==
  /\ Active(j) \/ (Deletes /\ Terminal(j))
  /\ job'[j].state \in TerminalStates
  /\ job'[j].fence \in {job[j].fence, job[j].fence + 1}
  /\ Kept(j)

RowStep(j) == Stays(j) \/ Starts(j) \/ Dequeued(j) \/ Requeued(j) \/ Ends(j)

(* What a deletion has read exists, and nothing is read without deletions. *)
ReadsExist == \A read \in deleting : Deletes /\ \A j \in read : job[j].state # "absent"

RowInv == TypeOK /\ ReadsExist

(* An answer of a handler, or of a caller outside, ends its job or puts it *)
(* back to the queue, and leaves every other row alone.                    *)
LEMMA ReportSteps ==
  ASSUME TypeOK, NEW j \in Jobs, NEW f \in Nat,
         Complete(j, f) \/ \E allowRetry, preserve \in BOOLEAN : Fail(j, f, allowRetry, preserve)
  PROVE  \A i \in Jobs : RowStep(i)
<1>1. ASSUME NEW s \in {"done", "failed"}, Leased(j),
             job' = [job EXCEPT ![j].state = s, ![j].lease = "none"]
      PROVE  \A i \in Jobs : RowStep(i)
  BY <1>1 DEF TypeOK, JobRows, Leased, Active, ActiveStates, TerminalStates, RowStep, Ends, Stays, Kept
<1>2. ASSUME Leased(j), MayRetry(j), job' = [job EXCEPT ![j].state = "queued", ![j].lease = "none"]
      PROVE  \A i \in Jobs : RowStep(i)
  BY <1>2 DEF TypeOK, JobRows, RowStep, Requeued, Stays, Kept, MayRetry
<1>3. ASSUME job' = job PROVE \A i \in Jobs : RowStep(i)
  BY <1>3 DEF RowStep, Stays, Kept
<1>4. CASE Complete(j, f)
  BY <1>1, <1>3, <1>4 DEF Complete, Accepts
<1>5. ASSUME NEW allowRetry \in BOOLEAN, NEW preserve \in BOOLEAN, Fail(j, f, allowRetry, preserve)
      PROVE  \A i \in Jobs : RowStep(i)
  BY <1>1, <1>2, <1>3, <1>5 DEF Fail, Accepts
<1> QED BY <1>4, <1>5

(* Whatever runs, a row changes in one of the five ways of RowStep.        *)
LEMMA RowSteps == ASSUME RowInv, [Next]_vars PROVE \A j \in Jobs : RowStep(j)
<1> USE DEF RowInv, TypeOK, artifact
<1>0. ASSUME job' = job PROVE \A j \in Jobs : RowStep(j)
  BY <1>0 DEF RowStep, Stays, Kept
<1>1. CASE EnqueueSome
  <2> SUFFICES ASSUME NEW k \in Keys \cup {NoValue}, NEW x \in ExternalIDs \cup {NoValue},
                      NEW limit \in AttemptLimits, NEW initial \in {"queued", "running"},
                      NEW showsWork \in BOOLEAN, Enqueue(k, x, limit, initial, showsWork)
               PROVE  \A j \in Jobs : RowStep(j)
    BY <1>1 DEF EnqueueSome
  <2>1. CASE SameKey(k) \cup SameExternal(x) = {}
    <3>1. PICK j \in Jobs : /\ job[j].state = "absent"
                           /\ job' = [job EXCEPT ![j] =
            [state |-> initial, attempts |-> IF initial = "running" THEN 1 ELSE 0,
             maxAttempts |-> limit, fence |-> 0, lease |-> "none", key |-> k, externalId |-> x]]
      BY <2>1 DEF Enqueue, Insert
    <3>2. k # NoValue => \A i \in Jobs : Active(i) => job[i].key # k
      BY <2>1 DEF SameKey
    <3>3. Starts(j)
      BY <3>1, <3>2 DEF Starts
    <3>4. \A i \in Jobs : i # j => Stays(i)
      BY <3>1 DEF Stays, Kept
    <3> QED BY <3>3, <3>4 DEF RowStep
  <2>2. CASE SameKey(k) \cup SameExternal(x) # {}
    BY <1>0, <2>2 DEF Enqueue
  <2> QED BY <2>1, <2>2
<1>2. CASE Dequeue
  <2>1. PICK j \in Jobs :
          /\ job[j].state = "queued"
          /\ job' = [job EXCEPT ![j].state = "running", ![j].lease = "live",
                                ![j].attempts = @ + 1, ![j].fence = NextFence(@)]
    BY <1>2 DEF Dequeue, NextQueued
  <2>2. Dequeued(j)
    BY <2>1 DEF Dequeued, NextFence, JobRows
  <2>3. \A i \in Jobs : i # j => Stays(i)
    BY <2>1 DEF Stays, Kept
  <2> QED BY <2>2, <2>3 DEF RowStep
<1>3. CASE Reap
  <2> SUFFICES ASSUME NEW j \in Jobs PROVE RowStep(j)
    OBVIOUS
  <2>1. CASE j \notin Expired
    BY <1>3, <2>1 DEF Reap, RowStep, Stays, Kept
  <2>2. CASE j \in Expired
    <3>1. job'[j] = [job[j] EXCEPT !.state = IF MayRetry(j) THEN "queued" ELSE "failed",
                                   !.lease = "none", !.fence = NextFence(@)]
      BY <1>3, <2>2 DEF Reap
    <3>2. Leased(j)
      BY <2>2 DEF Expired
    <3>3. job[j] \in JobRows
      OBVIOUS
    <3>4. job'[j].fence = job[j].fence + 1 /\ Kept(j)
      BY <3>1, <3>3 DEF Kept, JobRows, NextFence
    <3>5. job'[j].state = IF MayRetry(j) THEN "queued" ELSE "failed"
      BY <3>1, <3>3 DEF JobRows
    <3> QED
      BY <3>2, <3>4, <3>5 DEF RowStep, Requeued, Ends, MayRetry, Leased, Active, ActiveStates,
         TerminalStates
  <2> QED BY <2>1, <2>2
<1>4. ASSUME NEW j \in Jobs, Expire(j) PROVE \A i \in Jobs : RowStep(i)
  BY <1>4 DEF Expire, RowStep, Stays, Kept, JobRows
<1>5. ASSUME NEW e \in executions, Heartbeat(e) PROVE \A i \in Jobs : RowStep(i)
  <2>1. e[1] \in Jobs
    OBVIOUS
  <2> QED BY <1>5, <2>1 DEF Heartbeat, RowStep, Stays, Kept, JobRows
<1>6. ASSUME NEW e \in executions, Settle(e) PROVE \A i \in Jobs : RowStep(i)
  <2>1. e[1] \in Jobs /\ e[2] \in Nat
    OBVIOUS
  <2>2. \/ Complete(e[1], e[2])
        \/ \E allowRetry, preserve \in BOOLEAN : Fail(e[1], e[2], allowRetry, preserve)
    BY <1>6, Zenon DEF Settle
  <2> QED BY <2>1, <2>2, ReportSteps
<1>7. ASSUME NEW j \in Jobs, External(j) PROVE \A i \in Jobs : RowStep(i)
  <2>1. job[j].fence \in Nat
    BY DEF JobRows
  <2>2. \/ Complete(j, job[j].fence)
        \/ \E allowRetry, preserve \in BOOLEAN : Fail(j, job[j].fence, allowRetry, preserve)
    BY <1>7, Zenon DEF External
  <2> QED BY <2>1, <2>2, ReportSteps
<1>8. ASSUME NEW j \in Jobs, MarkCompleting(j) PROVE \A i \in Jobs : RowStep(i)
  BY <1>8 DEF MarkCompleting, RowStep, Stays, Kept, JobRows
<1>9. ASSUME NEW ids \in SUBSET Jobs, AbortAll(ids),
             \A j \in ids : Active(j) \/ (Deletes /\ Terminal(j))
      PROVE  \A i \in Jobs : RowStep(i)
  <2> SUFFICES ASSUME NEW i \in Jobs PROVE RowStep(i)
    OBVIOUS
  <2>1. CASE i \notin ids
    BY <1>9, <2>1 DEF AbortAll, RowStep, Stays, Kept
  <2>2. CASE i \in ids
    <3>1. job'[i] = [job[i] EXCEPT !.state = "aborted", !.lease = "none", !.fence = NextFence(@)]
      BY <1>9, <2>2 DEF AbortAll
    <3>2. job[i] \in JobRows
      OBVIOUS
    <3>3. job'[i].fence = job[i].fence + 1 /\ Kept(i) /\ job'[i].state = "aborted"
      BY <3>1, <3>2 DEF Kept, JobRows, NextFence
    <3> QED BY <1>9, <2>2, <3>3 DEF RowStep, Ends, TerminalStates
  <2> QED BY <2>1, <2>2
<1>10. CASE DeleteCommit
  <2>1. PICK read \in deleting : AbortAll(read)
    BY <1>10 DEF DeleteCommit
  <2>2. \A j \in read : Active(j) \/ (Deletes /\ Terminal(j))
    BY DEF ReadsExist, Active, Terminal, JobRows
  <2> QED BY <1>9, <2>1, <2>2
<1>11. CASE RestoreBook
  <2>1. {j \in Jobs : Active(j)} \in SUBSET Jobs
    OBVIOUS
  <2> QED BY <1>9, <1>11, <2>1 DEF RestoreBook
<1>12. ASSUME NEW j \in Jobs, Abort(j) PROVE \A i \in Jobs : RowStep(i)
  <2>1. Active(j) /\ job' = [job EXCEPT ![j].state = "aborted", ![j].lease = "none",
                                        ![j].fence = NextFence(@)]
    BY <1>12 DEF Abort
  <2>2. job[j] \in JobRows
    OBVIOUS
  <2>3. job'[j].fence = job[j].fence + 1 /\ Kept(j) /\ job'[j].state = "aborted"
    BY <2>1, <2>2 DEF Kept, JobRows, NextFence
  <2>4. \A i \in Jobs : i # j => Stays(i)
    BY <2>1 DEF Stays, Kept
  <2> QED BY <2>1, <2>3, <2>4 DEF RowStep, Ends, TerminalStates
<1>13. ASSUME Open \/ DeleteBegin \/ Crash \/ (\E r \in toRecord : RecordTerminal(r))
              \/ (\E e \in executions : Release(e)) \/ UNCHANGED vars
       PROVE  job' = job
  BY <1>13 DEF Open, DeleteBegin, Crash, RecordTerminal, Release, vars
<1> QED
  BY <1>0, <1>1, <1>2, <1>3, <1>4, <1>5, <1>6, <1>7, <1>8, <1>10, <1>11, <1>12, <1>13
     DEF Next, Progress

(* What has been read stays in existence.                                  *)
LEMMA RowInvariant == Spec => []RowInv
<1>1. Init => ReadsExist
  BY DEF Init, ReadsExist
<1>2. RowInv /\ [Next]_vars => ReadsExist'
  <2> SUFFICES ASSUME RowInv, [Next]_vars PROVE ReadsExist'
    OBVIOUS
  <2>1. \A j \in Jobs : job[j].state # "absent" => job'[j].state # "absent"
    BY RowSteps DEF RowStep, Stays, Starts, Dequeued, Requeued, Ends, TerminalStates
  <2>2. CASE deleting' \subseteq deleting
    BY <2>1, <2>2 DEF RowInv, TypeOK, ReadsExist
  <2>3. CASE DeleteBegin
    <3>1. deleting' = {{j \in Jobs : Active(j)}} /\ Deletes /\ job' = job
      BY <2>3 DEF DeleteBegin
    <3> QED BY <3>1 DEF ReadsExist, Active, ActiveStates
  <2>4. deleting' \subseteq deleting \/ DeleteBegin
    BY DEF Next, Progress, EnqueueSome, Enqueue, Dequeue, Reap, Open, Expire, RecordTerminal,
           DeleteCommit, RestoreBook, Crash, Heartbeat, Settle, Release, External, MarkCompleting,
           Abort, vars
  <2> QED BY <2>2, <2>3, <2>4
<1> QED BY <1>1, <1>2, TypeCorrect, PTL DEF Spec, RowInv

--------------------------------------------------------------------------------
(* Attempts                                                                *)

(* No job runs more often than its maxAttempts, for any limits and any mix *)
(* of failures, expired leases and kills.                                  *)
THEOREM AttemptsAreBounded == Spec => []AttemptsBounded
<1>1. Init => AttemptsBounded
  BY DEF Init, AttemptsBounded
<1>2. RowInv /\ AttemptsBounded /\ [Next]_vars => AttemptsBounded'
  <2> SUFFICES ASSUME RowInv, AttemptsBounded, [Next]_vars, NEW j \in Jobs
               PROVE  /\ job'[j].attempts <= job'[j].maxAttempts
                      /\ job'[j].state = "queued" => job'[j].attempts < job'[j].maxAttempts
    BY DEF AttemptsBounded
  <2>1. job[j] \in JobRows
    BY DEF RowInv, TypeOK
  <2>2. job[j].attempts \in Nat /\ job[j].maxAttempts \in Nat
    BY <2>1 DEF JobRows
  <2>3. AttemptLimits \subseteq Nat \ {0}
    BY QueueAssumption
  <2>4. RowStep(j)
    BY RowSteps
  <2>5. /\ job[j].attempts <= job[j].maxAttempts
        /\ job[j].state = "queued" => job[j].attempts < job[j].maxAttempts
    BY DEF AttemptsBounded
  <2>6. CASE Starts(j)
    <3>1. job'[j].maxAttempts \in Nat /\ job'[j].maxAttempts # 0
      BY <2>3, <2>6 DEF Starts
    <3> DEFINE limit == job'[j].maxAttempts
               count == job'[j].attempts
    <3>2. (job'[j].state = "queued" /\ count = 0) \/ (job'[j].state = "running" /\ count = 1)
      BY <2>6 DEF Starts
    <3> HIDE DEF limit, count
    <3>3. limit \in Nat /\ limit # 0
      BY <3>1 DEF limit
    <3>4. count <= limit /\ (job'[j].state = "queued" => count < limit)
      BY <3>2, <3>3
    <3> QED BY <3>4 DEF limit, count
  <2>7. CASE Dequeued(j)
    BY <2>2, <2>5, <2>7 DEF Dequeued
  <2>8. CASE Stays(j) \/ Requeued(j) \/ Ends(j)
    BY <2>5, <2>8 DEF Stays, Requeued, Ends, Kept, TerminalStates
  <2> QED BY <2>4, <2>6, <2>7, <2>8 DEF RowStep
<1> QED BY <1>1, <1>2, RowInvariant, PTL DEF Spec

--------------------------------------------------------------------------------
(* Dedupe keys                                                             *)

(* No two active jobs share a dedupe key: enqueue asks the index, and a job*)
(* never becomes active again once it has ended.                           *)
THEOREM DedupeIsKept == Spec => []DedupeHolds
<1>1. Init => DedupeHolds
  BY DEF Init, DedupeHolds, Active, ActiveStates
<1>2. RowInv /\ DedupeHolds /\ [Next]_vars => DedupeHolds'
  <2> SUFFICES ASSUME RowInv, DedupeHolds, [Next]_vars, NEW i \in Jobs, NEW j \in Jobs, i # j,
                      Active(i)', Active(j)', job'[i].key = job'[j].key, job'[i].key # NoValue
               PROVE  FALSE
    BY DEF DedupeHolds
  <2>1. \A n \in Jobs : RowStep(n)
    BY RowSteps
  <2>2. ASSUME NEW n \in {i, j}, ~Starts(n) PROVE Active(n) /\ job'[n].key = job[n].key
    BY <2>1, <2>2 DEF RowStep, Stays, Dequeued, Requeued, Ends, Kept, Active, Leased, ActiveStates,
                      TerminalStates
  <2>3. CASE Starts(i)
    <3>1. job'[j] = job[j]
      BY <2>3 DEF Starts
    <3>2. Active(j)
      BY <3>1 DEF Active
    <3> QED BY <2>3, <3>1, <3>2 DEF Starts
  <2>4. CASE Starts(j)
    <3>1. job'[i] = job[i]
      BY <2>4 DEF Starts
    <3>2. Active(i)
      BY <3>1 DEF Active
    <3> QED BY <2>4, <3>1, <3>2 DEF Starts
  <2>5. CASE ~Starts(i) /\ ~Starts(j)
    BY <2>2, <2>5 DEF DedupeHolds
  <2> QED BY <2>3, <2>4, <2>5
<1> QED BY <1>1, <1>2, RowInvariant, PTL DEF Spec

--------------------------------------------------------------------------------
(* Fences                                                                  *)

(* A row that does not exist has no fence yet, and no handler is ahead of  *)
(* its row.                                                                *)
FenceInv ==
  /\ \A j \in Jobs : job[j].state = "absent" => job[j].fence = 0
  /\ \A e \in executions : e[2] <= job[e[1]].fence

(* The fence of a row never goes back: no statement of the queue lowers it.*)
LEMMA FencesGrow ==
  ASSUME RowInv, FenceInv, [Next]_vars
  PROVE  \A j \in Jobs : job'[j].fence \in Nat /\ job[j].fence \in Nat /\ job[j].fence <= job'[j].fence
<1> SUFFICES ASSUME NEW j \in Jobs
             PROVE  job'[j].fence \in Nat /\ job[j].fence \in Nat /\ job[j].fence <= job'[j].fence
  OBVIOUS
<1>1. job[j].fence \in Nat
  BY DEF RowInv, TypeOK, JobRows
<1>2. RowStep(j)
  BY RowSteps
<1> QED BY <1>1, <1>2 DEF FenceInv, RowStep, Stays, Starts, Dequeued, Requeued, Ends

(* Only Dequeue adds a handler, with the fence it has just written.        *)
LEMMA HandlersCome ==
  ASSUME RowInv, [Next]_vars
  PROVE  \A e \in executions' \ executions : e[1] \in Jobs /\ e[2] = job'[e[1]].fence
<1>1. CASE Dequeue
  <2>1. PICK j \in Jobs : executions' = executions \cup {<<j, job'[j].fence>>}
    BY <1>1 DEF Dequeue, NextQueued
  <2>2. \A e \in executions' \ executions : e = <<j, job'[j].fence>>
    BY <2>1
  <2> QED BY <2>2
<1>2. executions' \subseteq executions \/ Dequeue
  BY DEF Next, Progress, EnqueueSome, Enqueue, Reap, Open, Expire, RecordTerminal, DeleteBegin,
         DeleteCommit, RestoreBook, Crash, Heartbeat, Settle, Retire, Release, External,
         MarkCompleting, Abort, runner, vars
<1> QED BY <1>1, <1>2

(* FenceInv is inductive: a handler is never ahead of the row it works for.*)
LEMMA FenceStep == RowInv /\ FenceInv /\ [Next]_vars => FenceInv'
<1> SUFFICES ASSUME RowInv, FenceInv, [Next]_vars PROVE FenceInv'
  OBVIOUS
<1>1. ASSUME NEW j \in Jobs, job'[j].state = "absent" PROVE job'[j].fence = 0
  <2>1. RowStep(j)
    BY RowSteps
  <2>2. Stays(j) /\ job[j].state = "absent"
    BY <1>1, <2>1 DEF RowStep, Stays, Starts, Dequeued, Requeued, Ends, TerminalStates
  <2> QED BY <2>2 DEF Stays, FenceInv
<1>2. ASSUME NEW e \in executions' PROVE e[2] <= job'[e[1]].fence
  <2>1. CASE e \in executions
    <3>1. e[1] \in Jobs /\ e[2] \in Nat /\ e[2] <= job[e[1]].fence
      BY <2>1 DEF RowInv, TypeOK, FenceInv
    <3> QED BY <3>1, FencesGrow
  <2>2. CASE e \notin executions
    BY <2>2, HandlersCome, FencesGrow
  <2> QED BY <2>1, <2>2
<1> QED BY <1>1, <1>2 DEF FenceInv

(* The rows and their fences, in every reachable state.                    *)
LEMMA FenceInvariant == Spec => [](RowInv /\ FenceInv)
<1>1. Init => FenceInv
  BY DEF Init, FenceInv
<1> QED BY <1>1, FenceStep, RowInvariant, PTL DEF Spec

(* A dequeued job's fence is new to every running handler of the process,  *)
(* and no handler's fence is ahead of its row.                             *)
THEOREM FencesAreFresh == Spec => FreshFence
<1> DEFINE Step ==
      /\ \A e \in executions' : e[2] <= job'[e[1]].fence
      /\ \A j \in Jobs :
           job[j].state = "queued" /\ job'[j].state = "running" => <<j, job'[j].fence>> \notin executions
<1>1. RowInv /\ FenceInv /\ [Next]_vars => Step
  <2> SUFFICES ASSUME RowInv, FenceInv, [Next]_vars PROVE Step
    OBVIOUS
  <2>1. \A e \in executions' : e[2] <= job'[e[1]].fence
    BY FenceStep DEF FenceInv
  <2>2. ASSUME NEW j \in Jobs, job[j].state = "queued", job'[j].state = "running",
               <<j, job'[j].fence>> \in executions
        PROVE  FALSE
    <3>1. RowStep(j)
      BY RowSteps
    <3>2. job'[j].fence = job[j].fence + 1
      BY <2>2, <3>1 DEF RowStep, Stays, Starts, Dequeued, Requeued, Ends, TerminalStates
    <3>3. job'[j].fence <= job[j].fence
      BY <2>2 DEF FenceInv
    <3>4. job[j].fence \in Nat
      BY FencesGrow
    <3> QED BY <3>2, <3>3, <3>4
  <2> QED BY <2>1, <2>2
<1> QED BY <1>1, FenceInvariant, PTL DEF Spec, FreshFence

(* The outcome of a job is decided by its newest handler only.             *)
THEOREM NewestHandlerDecides == Spec => NewestDecides
<1> DEFINE Step ==
      \A e \in executions :
        Settle(e) /\ job' # job => \A o \in executions : o[1] = e[1] => o[2] <= e[2]
<1>1. FenceInv => Step
  <2> SUFFICES ASSUME FenceInv, NEW e \in executions, Settle(e), job' # job,
                      NEW o \in executions, o[1] = e[1]
               PROVE  o[2] <= e[2]
    OBVIOUS
  <2>1. job[e[1]].fence = e[2]
    BY DEF Settle, Complete, Fail, Accepts
  <2> QED BY <2>1 DEF FenceInv
<1> QED BY <1>1, FenceInvariant, PTL DEF Spec, NewestDecides

(* Fences decide between the handlers of a job (job-queue.ts, dequeue,     *)
(* complete and fail).                                                     *)
THEOREM FencesDecideOutcomes == Spec => FencesDecide
<1> QED BY FencesAreFresh, NewestHandlerDecides, PTL DEF FencesDecide

--------------------------------------------------------------------------------
(* Terminal jobs and their audits                                          *)

(* Without deletions a job that has ended keeps its outcome.               *)
THEOREM OutcomeIsFinal == ASSUME Deletes = FALSE PROVE Spec => TerminalIsFinal
<1>1. RowInv /\ [Next]_vars => \A j \in Jobs : Terminal(j) => job'[j].state = job[j].state
  BY RowSteps DEF RowStep, Stays, Starts, Dequeued, Requeued, Ends, Terminal, TerminalStates, Active,
                  Leased, ActiveStates
<1> QED BY <1>1, RowInvariant, PTL DEF Spec, TerminalIsFinal

(* What a step adds to the audits to be written, and what it owes.         *)
AddsTrue == \A r \in toRecord' \ toRecord : job'[r[1]].state = r[2]
Owed(j) == \E s \in TerminalStates : <<j, s>> \in toRecord \cup extraRuns
PaysNew == \A j \in Jobs : ~Terminal(j) /\ Terminal(j)' => Owed(j)'

(* An answer that ends a job leaves the intent to write its audit.         *)
LEMMA ReportPays ==
  ASSUME TypeOK, NEW j \in Jobs, NEW f \in Nat,
         Complete(j, f) \/ \E allowRetry, preserve \in BOOLEAN : Fail(j, f, allowRetry, preserve)
  PROVE  AddsTrue /\ PaysNew
<1>1. ASSUME NEW s \in {"done", "failed"}, job' = [job EXCEPT ![j].state = s, ![j].lease = "none"],
             toRecord' = toRecord \cup {<<j, s>>}
      PROVE  AddsTrue /\ PaysNew
  <2>1. job'[j].state = s /\ \A i \in Jobs : i # j => job'[i] = job[i]
    BY <1>1 DEF TypeOK, JobRows
  <2>2. <<j, s>> \in toRecord' /\ s \in TerminalStates
    BY <1>1 DEF TerminalStates
  <2>3. AddsTrue
    <3>1. \A r \in toRecord' \ toRecord : r = <<j, s>>
      BY <1>1
    <3> QED BY <2>1, <3>1 DEF AddsTrue
  <2>4. PaysNew
    BY <2>1, <2>2 DEF PaysNew, Owed, Terminal
  <2> QED BY <2>3, <2>4
<1>2. ASSUME job' = [job EXCEPT ![j].state = "queued", ![j].lease = "none"], toRecord' = toRecord
      PROVE  AddsTrue /\ PaysNew
  <2>1. \A i \in Jobs : job'[i] = job[i] \/ job'[i].state = "queued"
    BY <1>2 DEF TypeOK, JobRows
  <2> QED BY <1>2, <2>1 DEF AddsTrue, PaysNew, Terminal, TerminalStates
<1>3. ASSUME UNCHANGED <<job, view, toRecord>> PROVE AddsTrue /\ PaysNew
  BY <1>3 DEF AddsTrue, PaysNew, Terminal
<1>4. CASE Complete(j, f)
  BY <1>1, <1>3, <1>4 DEF Complete
<1>5. ASSUME NEW allowRetry \in BOOLEAN, NEW preserve \in BOOLEAN, Fail(j, f, allowRetry, preserve)
      PROVE  AddsTrue /\ PaysNew
  BY <1>1, <1>2, <1>3, <1>5 DEF Fail
<1> QED BY <1>4, <1>5

(* Every step that ends a job owes an audit for it, and only true audits are*)
(* owed; opening the engine adds the audits a kill has lost.               *)
LEMMA StepPays == ASSUME TypeOK, [Next]_vars PROVE (AddsTrue \/ Open) /\ PaysNew
<1> USE DEF TypeOK, artifact
<1>1. ASSUME job' = job, toRecord' \subseteq toRecord PROVE AddsTrue /\ PaysNew
  BY <1>1 DEF AddsTrue, PaysNew, Terminal
<1>2. ASSUME toRecord' = toRecord, \A j \in Jobs : job'[j] = job[j] \/ job'[j].state \in ActiveStates
      PROVE  AddsTrue /\ PaysNew
  BY <1>2 DEF AddsTrue, PaysNew, Terminal, TerminalStates, ActiveStates
<1>3. CASE EnqueueSome
  <2> SUFFICES ASSUME NEW k \in Keys \cup {NoValue}, NEW x \in ExternalIDs \cup {NoValue},
                      NEW limit \in AttemptLimits, NEW initial \in {"queued", "running"},
                      NEW showsWork \in BOOLEAN, Enqueue(k, x, limit, initial, showsWork)
               PROVE  AddsTrue /\ PaysNew
    BY <1>3 DEF EnqueueSome
  <2>1. toRecord' = toRecord
    BY DEF Enqueue
  <2>2. \A j \in Jobs : job'[j] = job[j] \/ job'[j].state \in ActiveStates
    BY DEF Enqueue, Insert, ActiveStates
  <2> QED BY <1>2, <2>1, <2>2
<1>4. CASE Dequeue
  <2>1. \A j \in Jobs : job'[j] = job[j] \/ job'[j].state = "running"
    BY <1>4 DEF Dequeue, NextQueued, JobRows
  <2>2. toRecord' = toRecord
    BY <1>4 DEF Dequeue
  <2> QED BY <1>2, <2>1, <2>2 DEF ActiveStates
<1>5. CASE Reap
  <2>1. \A j \in Jobs : job'[j] = IF j \notin Expired THEN job[j]
          ELSE [job[j] EXCEPT !.state = IF MayRetry(j) THEN "queued" ELSE "failed",
                              !.lease = "none", !.fence = NextFence(@)]
    BY <1>5 DEF Reap
  <2>2. \A j \in Jobs : job[j] \in JobRows
    OBVIOUS
  <2>3. \A j \in Jobs : job'[j].state = IF j \notin Expired THEN job[j].state
                                       ELSE IF MayRetry(j) THEN "queued" ELSE "failed"
    BY <2>1, <2>2 DEF JobRows
  <2>4. toRecord' = toRecord \cup {<<j, "failed">> : j \in {i \in Expired : ~MayRetry(i)}}
    BY <1>5 DEF Reap
  <2>5. AddsTrue
    <3> SUFFICES ASSUME NEW r \in toRecord' \ toRecord PROVE job'[r[1]].state = r[2]
      BY DEF AddsTrue
    <3>1. PICK j \in Expired : ~MayRetry(j) /\ r = <<j, "failed">>
      BY <2>4
    <3> QED BY <2>3, <3>1 DEF Expired
  <2>6. PaysNew
    <3> SUFFICES ASSUME NEW j \in Jobs, ~Terminal(j), Terminal(j)' PROVE Owed(j)'
      BY DEF PaysNew
    <3>1. j \in Expired /\ ~MayRetry(j)
      BY <2>3 DEF Terminal, TerminalStates
    <3>2. <<j, "failed">> \in toRecord'
      BY <2>4, <3>1
    <3> QED BY <3>2 DEF Owed, TerminalStates
  <2> QED BY <2>5, <2>6
<1>6. ASSUME NEW j \in Jobs, Expire(j) \/ MarkCompleting(j) PROVE AddsTrue /\ PaysNew
  <2>1. \A i \in Jobs : job'[i].state = job[i].state \/ job'[i].state = "completing"
    BY <1>6 DEF Expire, MarkCompleting, JobRows
  <2>2. toRecord' = toRecord
    BY <1>6 DEF Expire, MarkCompleting
  <2> QED BY <2>1, <2>2 DEF AddsTrue, PaysNew, Terminal, TerminalStates
<1>7. ASSUME NEW e \in executions, Heartbeat(e) PROVE AddsTrue /\ PaysNew
  <2>1. \A i \in Jobs : job'[i].state = job[i].state
    BY <1>7 DEF Heartbeat, JobRows
  <2>2. toRecord' = toRecord
    BY <1>7 DEF Heartbeat
  <2> QED BY <2>1, <2>2 DEF AddsTrue, PaysNew, Terminal
<1>8. ASSUME NEW e \in executions, Settle(e) PROVE AddsTrue /\ PaysNew
  <2>1. e[1] \in Jobs /\ e[2] \in Nat
    OBVIOUS
  <2>2. \/ Complete(e[1], e[2])
        \/ \E allowRetry, preserve \in BOOLEAN : Fail(e[1], e[2], allowRetry, preserve)
    BY <1>8, Zenon DEF Settle
  <2> QED BY <2>1, <2>2, ReportPays
<1>9. ASSUME NEW j \in Jobs, External(j) PROVE AddsTrue /\ PaysNew
  <2>1. job[j].fence \in Nat
    BY DEF JobRows
  <2>2. \/ Complete(j, job[j].fence)
        \/ \E allowRetry, preserve \in BOOLEAN : Fail(j, job[j].fence, allowRetry, preserve)
    BY <1>9, Zenon DEF External
  <2> QED BY <2>1, <2>2, ReportPays
<1>10. ASSUME NEW j \in Jobs, Abort(j) PROVE AddsTrue /\ PaysNew
  <2>1. /\ job' = [job EXCEPT ![j].state = "aborted", ![j].lease = "none", ![j].fence = NextFence(@)]
        /\ toRecord' = toRecord \cup {<<j, "aborted">>}
    BY <1>10 DEF Abort
  <2>2. job'[j].state = "aborted" /\ \A i \in Jobs : i # j => job'[i] = job[i]
    BY <2>1 DEF JobRows
  <2>3. AddsTrue
    BY <2>1, <2>2 DEF AddsTrue
  <2>4. PaysNew
    BY <2>1, <2>2 DEF PaysNew, Owed, Terminal, TerminalStates
  <2> QED BY <2>3, <2>4
<1>11. ASSUME NEW ids \in SUBSET Jobs, AbortAll(ids), toRecord' = toRecord
       PROVE  AddsTrue /\ PaysNew
  <2>1. \A j \in Jobs : j \notin ids => job'[j] = job[j]
    BY <1>11 DEF AbortAll
  <2>2. \A j \in ids : <<j, "aborted">> \in extraRuns'
    BY <1>11 DEF AbortAll, RunsOf
  <2> QED BY <1>11, <2>1, <2>2 DEF AddsTrue, PaysNew, Owed, Terminal, TerminalStates
<1>12. CASE DeleteCommit
  BY <1>11, <1>12 DEF DeleteCommit
<1>13. CASE RestoreBook
  <2>1. {j \in Jobs : Active(j)} \in SUBSET Jobs
    OBVIOUS
  <2> QED BY <1>11, <1>13, <2>1 DEF RestoreBook
<1>14. ASSUME DeleteBegin \/ Crash \/ (\E r \in toRecord : RecordTerminal(r))
               \/ (\E e \in executions : Release(e)) \/ UNCHANGED vars
       PROVE  AddsTrue /\ PaysNew
  <2>1. job' = job /\ toRecord' \subseteq toRecord
    BY <1>14 DEF DeleteBegin, Crash, RecordTerminal, Release, vars
  <2> QED BY <1>1, <2>1
<1>15. CASE Open
  BY <1>15 DEF Open, PaysNew, Terminal
<1> QED
  BY <1>3, <1>4, <1>5, <1>6, <1>7, <1>8, <1>9, <1>10, <1>12, <1>13, <1>14, <1>15 DEF Next, Progress

(* Without deletions, what is or will be in job_runs is the job's state.   *)
AuditInv ==
  /\ AuditMatches
  /\ \A r \in toRecord : job[r[1]].state = r[2]

(* AuditInv is inductive while nothing rewrites the jobs behind the queue. *)
LEMMA AuditStep == ASSUME Deletes = FALSE PROVE RowInv /\ AuditInv /\ [Next]_vars => AuditInv'
<1> SUFFICES ASSUME RowInv, AuditInv, [Next]_vars PROVE AuditInv'
  OBVIOUS
<1>1. \A j \in Jobs : Terminal(j) => job'[j].state = job[j].state
  BY RowSteps DEF RowStep, Stays, Starts, Dequeued, Requeued, Ends, Terminal, TerminalStates, Active,
                  Leased, ActiveStates
<1>2. \A r \in toRecord : r[1] \in Jobs /\ r[2] \in TerminalStates
  BY DEF RowInv, TypeOK
<1>3. \A r \in toRecord : job'[r[1]].state = r[2]
  BY <1>1, <1>2 DEF AuditInv, Terminal
<1>4. \A r \in toRecord' : job'[r[1]].state = r[2]
  <2>1. CASE AddsTrue
    BY <1>3, <2>1 DEF AddsTrue
  <2>2. CASE Open
    <3>1. toRecord' = Unaudited /\ job' = job
      BY <2>2 DEF Open
    <3> QED BY <3>1 DEF Unaudited
  <2> QED BY <2>1, <2>2, StepPays DEF RowInv
<1>5. ASSUME NEW j \in Jobs, audit[j] # NoValue PROVE job'[j].state = audit[j]
  <2>1. audit[j] \in TerminalStates /\ job[j].state = audit[j]
    BY <1>5 DEF RowInv, TypeOK, AuditInv, AuditMatches
  <2> QED BY <1>1, <2>1 DEF Terminal
<1>6. AuditMatches'
  <2>1. CASE audit' = audit
    BY <1>5, <2>1 DEF AuditMatches
  <2>2. ASSUME NEW r \in toRecord, RecordTerminal(r) PROVE AuditMatches'
    <3>1. audit' = audit \/ audit' = [audit EXCEPT ![r[1]] = r[2]]
      BY <2>2 DEF RecordTerminal
    <3> QED BY <1>2, <1>3, <1>5, <2>1, <3>1 DEF AuditMatches, RowInv, TypeOK
  <2>3. audit' = audit \/ \E r \in toRecord : RecordTerminal(r)
    BY DEF Next, Progress, EnqueueSome, Enqueue, Dequeue, Reap, Open, Expire, DeleteBegin,
           DeleteCommit, RestoreBook, Crash, Heartbeat, Settle, Release, External, MarkCompleting,
           Abort, audits, vars
  <2> QED BY <2>1, <2>2, <2>3
<1> QED BY <1>4, <1>6 DEF AuditInv

(* The job_runs row of a job says what its runtime_jobs row says.          *)
THEOREM AuditsAgree == ASSUME Deletes = FALSE PROVE Spec => []AuditMatches
<1>1. Init => AuditInv
  BY DEF Init, AuditInv, AuditMatches
<1>2. RowInv /\ AuditInv /\ [Next]_vars => AuditInv'
  BY AuditStep
<1>3. AuditInv => AuditMatches
  BY DEF AuditInv
<1> QED BY <1>1, <1>2, <1>3, RowInvariant, PTL DEF Spec

(* Whatever kills and deletions happen, a terminal job of an open engine   *)
(* has its audit or one that is about to be written.                       *)
THEOREM NoAuditIsLost == Spec => []TerminalIsAudited
<1>1. Init => TerminalIsAudited
  BY DEF Init, TerminalIsAudited, Terminal, TerminalStates
<1>2. TypeOK /\ TerminalIsAudited /\ [Next]_vars => TerminalIsAudited'
  <2> SUFFICES ASSUME TypeOK, TerminalIsAudited, [Next]_vars, up', NEW j \in Jobs, Terminal(j)'
               PROVE  audit'[j] # NoValue \/ Owed(j)'
    BY DEF TerminalIsAudited, Owed
  <2>1. CASE ~Terminal(j)
    BY <2>1, StepPays DEF PaysNew
  <2>2. CASE Open
    <3>1. /\ toRecord' = Unaudited /\ job' = job /\ audit' = audit
      BY <2>2 DEF Open, audits
    <3>2. job[j].state \in TerminalStates
      BY <3>1 DEF Terminal
    <3>3. audit[j] = NoValue => <<j, job[j].state>> \in toRecord'
      BY <3>1, <3>2 DEF Unaudited, Terminal
    <3> QED BY <3>1, <3>2, <3>3 DEF Owed
  <2>3. CASE Terminal(j) /\ ~Open
    <3>1. up /\ ~Crash
      BY <2>3 DEF Next, Progress, EnqueueSome, Enqueue, Dequeue, Reap, Expire, RecordTerminal,
                  DeleteBegin, DeleteCommit, RestoreBook, Crash, Heartbeat, Settle, Release,
                  External, MarkCompleting, Abort, vars
    <3>2. audit[j] # NoValue \/ Owed(j)
      BY <2>3, <3>1 DEF TerminalIsAudited, Owed
    <3>3. ASSUME NEW r \in toRecord, RecordTerminal(r) PROVE audit'[j] # NoValue \/ Owed(j)'
      <4>1. /\ audit' = IF audit[r[1]] = NoValue THEN [audit EXCEPT ![r[1]] = r[2]] ELSE audit
            /\ toRecord' = toRecord \ {r} /\ extraRuns' = extraRuns
        BY <3>3 DEF RecordTerminal
      <4>2. r[1] \in Jobs /\ r[2] \in TerminalStates
        BY DEF TypeOK
      <4>3. NoValue \notin TerminalStates
        BY QueueAssumption DEF TerminalStates
      <4>4. CASE r[1] = j
        BY <4>1, <4>2, <4>3, <4>4 DEF TypeOK
      <4>5. CASE r[1] # j
        <5>1. audit'[j] = audit[j]
          BY <4>1, <4>5 DEF TypeOK
        <5>2. Owed(j) => Owed(j)'
          BY <4>1, <4>5 DEF Owed
        <5> QED BY <3>2, <5>1, <5>2
      <4> QED BY <4>4, <4>5
    <3>4. CASE audit' = audit /\ toRecord \subseteq toRecord' /\ extraRuns \subseteq extraRuns'
      BY <3>2, <3>4 DEF Owed
    <3>5. \/ \E r \in toRecord : RecordTerminal(r)
          \/ audit' = audit /\ toRecord \subseteq toRecord' /\ extraRuns \subseteq extraRuns'
      BY <2>3, <3>1 DEF Next, Progress, EnqueueSome, Enqueue, Dequeue, Reap, Expire, DeleteBegin,
                  DeleteCommit, RestoreBook, AbortAll, Heartbeat, Settle, Release, External,
                  Complete, Fail, MarkCompleting, Abort, audits, vars
    <3> QED BY <3>3, <3>4, <3>5
  <2> QED BY <2>1, <2>2, <2>3
<1> QED BY <1>1, <1>2, TypeCorrect, PTL DEF Spec

================================================================================
