-------------------------- MODULE SemanticStoreProofs --------------------------
(***************************************************************************)
(* Proofs about SemanticStore for every set of operations and tables, any  *)
(* number of kills and exceptions, and any number of migration steps.      *)
(***************************************************************************)
EXTENDS SemanticStore, TLAPS

(* A migration is under way only below the target version.                 *)
MigratesBelowTarget ==
  pc \in {"begin", "tx"} /\ mode = "migrate" => version < TargetVersion

TypeInv == TypeOK /\ MigratesBelowTarget

(* The catalog's state stays well typed; the version never passes          *)
(* SCHEMA_VERSION, because each migration step is begun below it.          *)
THEOREM TypeInvariance == Spec => []TypeInv
<1>1. Init => TypeInv
  <2> SUFFICES ASSUME Init PROVE TypeInv
    OBVIOUS
  <2>1. log \in Seq(Entries) /\ effects \in Seq(Effects)
    BY DEF Init
  <2>2. answer \in [Ops -> {"none", "running", "ok", "failed"}]
    BY DEF Init
  <2>3. MigratesBelowTarget
    BY DEF Init, MigratesBelowTarget
  <2> QED
    BY <2>1, <2>2, <2>3, StoreAssumption DEF Init, TypeInv, TypeOK, Steps, Modes
<1>2. TypeInv /\ [Next]_vars => TypeInv'
  <2> SUFFICES ASSUME TypeInv, [Next]_vars
               PROVE  TypeInv'
    OBVIOUS
  <2> USE StoreAssumption DEF TypeInv, TypeOK, MigratesBelowTarget, Steps, Modes,
          durable, local, reports
  <2>1. CASE Open BY <2>1 DEF Open
  <2>2. CASE Close BY <2>2 DEF Close
  <2>3. CASE Call BY <2>3 DEF Call
  <2>4. CASE RecoverRow BY <2>4 DEF RecoverRow
  <2>5. CASE Recovered BY <2>5 DEF Recovered
  <2>6. CASE SweepDirty BY <2>6 DEF SweepDirty
  <2>7. CASE SweepMigrate BY <2>7 DEF SweepMigrate, NeedsMigration
  <2>8. CASE Expose BY <2>8 DEF Expose
  <2>9. CASE NoOp BY <2>9 DEF NoOp
  <2>10. ASSUME NEW o \in Ops, NEW tables \in SUBSET Tables, NEW touched \in SUBSET Tables,
                NEW e \in BOOLEAN, NEW s \in BOOLEAN, Mutate(o, tables, touched, e, s)
         PROVE  TypeInv'
    BY <2>10 DEF Mutate, Rows, Changes
  <2>11. CASE SqlCommit
    <3>1. PICK r \in cur : effects' = Append(effects, [op |-> r.op, rows |-> mutation,
            commits |-> mutation # {} \/ ForcesCommit(r)]) /\ outbox' = outbox \cup {r}
      BY <2>11 DEF SqlCommit
    <3>2. [op |-> r.op, rows |-> mutation, commits |-> mutation # {} \/ ForcesCommit(r)] \in Effects
      BY DEF Rows, Effects, ForcesCommit
    <3>3. effects' \in Seq(Effects)
      BY <3>1, <3>2
    <3>4. version' \in 0..TargetVersion
      BY <2>11 DEF SqlCommit
    <3> QED BY <2>11, <3>1, <3>3, <3>4 DEF SqlCommit
  <2>12. CASE ProbeClears BY <2>12 DEF ProbeClears
  <2>13. CASE ProbeStages BY <2>13 DEF ProbeStages, Unstaged, ToStage, Rows
  <2>14. ASSUME NEW t \in Tables, StageTable(t)
         PROVE  TypeInv'
    BY <2>14 DEF StageTable
  <2>15. CASE DoltCommit
    <3>1. PICK r \in cur : log' = Append(log, [op |-> r.op, rows |-> staged \ head])
      BY <2>15 DEF DoltCommit
    <3>2. [op |-> r.op, rows |-> staged \ head] \in Entries
      BY DEF Rows, Entries
    <3> QED BY <2>15, <3>1, <3>2 DEF DoltCommit
  <2>16. CASE ClearRow BY <2>16 DEF ClearRow, WithoutCurrentRow
  <2>17. CASE Return
    <3>1. /\ pc' \in Steps /\ mode' \in Modes
          /\ pc' = "begin" /\ mode' = "migrate" => version < TargetVersion
          /\ pc' # "tx"
      BY <2>17 DEF Return, NeedsMigration, Recovering
    <3>2. answer' \in [Ops -> {"none", "running", "ok", "failed"}]
      BY <2>17 DEF Return
    <3>3. pendingSemanticCommit' \in BOOLEAN
      BY <2>17 DEF Return
    <3> QED BY <2>17, <3>1, <3>2, <3>3 DEF Return
  <2>18. CASE Throw BY <2>18 DEF Throw
  <2>19. CASE Crash BY <2>19 DEF Crash, IndexAfterKill
  <2>20. CASE UNCHANGED vars BY <2>20 DEF vars
  <2> QED
    BY <2>1, <2>2, <2>3, <2>4, <2>5, <2>6, <2>7, <2>8, <2>9, <2>10, <2>11, <2>12, <2>13,
       <2>14, <2>15, <2>16, <2>17, <2>18, <2>19, <2>20 DEF Next, EngineStep
<1> QED BY <1>1, <1>2, PTL DEF Spec

(* The state of the catalog stays well typed, recovery and migrations      *)
(* included: the version never passes SCHEMA_VERSION.                      *)
THEOREM TypeCorrect == Spec => []TypeOK
<1>1. TypeInv => TypeOK
  BY DEF TypeInv
<1> QED BY <1>1, TypeInvariance, PTL

--------------------------------------------------------------------------------
(***************************************************************************)
(* The inductive invariant behind the durability properties.  It is about  *)
(* catalogs whose operations declare every table they change.              *)
(***************************************************************************)

(* What Dolt holds is in the database.                                     *)
Contained == head \subseteq working /\ staged \subseteq working

(* At most one operation waits in the outbox.                              *)
SingleRow == \A r, s \in outbox : r = s

(* Every uncommitted row belongs to the operation in the outbox.           *)
OwnedRows == \A c \in working \ head : \E r \in outbox : c[1] = r.op /\ c[2] \in r.tables

(* Once an operation is in the log nothing uncommitted is left of it.      *)
RecordedIsClean == \A r \in outbox : r.op \in LoggedOps => working = head

HeadIsLogged == \A c \in head : c[1] \in LoggedOps

(* An ID that was never handed out has left no trace.                      *)
UnusedIDs == \A o \in Ops : answer[o] = "none" =>
  /\ o \notin LoggedOps
  /\ \A r \in outbox : r.op # o
  /\ \A k \in DOMAIN effects : effects[k].op # o

(* What the process knows at each of its steps.                            *)
PendingKnown ==
  /\ ~pendingSemanticCommit /\ mode # "open" => outbox = {}
  /\ pc = "idle" => mode = "write"
  /\ pc = "tx" => pendingSemanticCommit

OutboxAtStep ==
  /\ pc \in {"sweep", "begin", "tx", "cleared"} => outbox = {}
  /\ pc \in {"probe", "stage", "clear"} => \E r \in Rows : cur = {r} /\ outbox = {r}
  /\ pc = "scan" => Recovering(mode)

TransactionAtStep == pc = "tx" => \E r \in Rows :
  /\ cur = {r}
  /\ r.op \notin LoggedOps
  /\ answer[r.op] = "running"
  /\ \A k \in DOMAIN effects : effects[k].op # r.op
  /\ mutation \subseteq {r.op} \X r.tables

CommitAtStep == \A r \in cur :
  /\ pc = "probe" /\ ~Recovering(mode) => r.op \notin LoggedOps
  /\ pc = "stage" => /\ r.op \notin LoggedOps
                     /\ working # head \/ ForcesCommit(r)
                     /\ \A c \in working \ head : c[2] \in todo \/ c \in staged
  /\ pc = "clear" => r.op \in LoggedOps \/ (working = head /\ ~ForcesCommit(r))

(* How the committed transactions relate to outbox, rows and log.          *)
EffectRows == \A k \in DOMAIN effects : \A c \in effects[k].rows :
  c[1] = effects[k].op /\ c \in working

EffectOfRow == \A r \in outbox :
  /\ \E k \in DOMAIN effects : effects[k].op = r.op
  /\ \A k \in DOMAIN effects : effects[k].op = r.op =>
       /\ k = Len(effects)
       /\ effects[k].commits => effects[k].rows # {} \/ ForcesCommit(r)

EffectsAccounted == \A k \in DOMAIN effects : effects[k].commits =>
  effects[k].op \in LoggedOps \/ \E r \in outbox : r.op = effects[k].op

DurableInv == Contained /\ SingleRow /\ OwnedRows /\ RecordedIsClean /\ HeadIsLogged /\ UnusedIDs
StepInv    == PendingKnown /\ OutboxAtStep /\ TransactionAtStep /\ CommitAtStep
EffectInv  == EffectRows /\ EffectOfRow /\ EffectsAccounted
HistoryInv == CommitsOwnRows /\ ExactlyOnce /\ OrderPreserved /\ AcknowledgedIsRecorded
IInv == DurableInv /\ StepInv /\ EffectInv /\ HistoryInv

(* Steps that touch neither rows nor outbox, log or effects keep what is   *)
(* said about them.                                                        *)
LEMMA QuietHistory ==
  ASSUME HistoryInv, EffectInv, UNCHANGED <<working, head, outbox, log, effects, answer>>
  PROVE  HistoryInv' /\ EffectInv'
BY DEF HistoryInv, EffectInv, CommitsOwnRows, ExactlyOnce, OrderPreserved,
       AcknowledgedIsRecorded, EffectRows, EffectOfRow, EffectsAccounted, LoggedOps, ForcesCommit

(* Steps that touch neither rows nor log nor outbox keep the durable part. *)
LEMMA QuietDurable ==
  ASSUME DurableInv, UNCHANGED <<working, head, staged, outbox, log, effects, answer>>
  PROVE  DurableInv'
BY DEF DurableInv, Contained, SingleRow, OwnedRows, RecordedIsClean, HeadIsLogged, UnusedIDs, LoggedOps

(* Appending an entry adds its operation to the log and nothing else.      *)
LEMMA LogAppended ==
  ASSUME NEW e \in Entries, log \in Seq(Entries), log' = Append(log, e)
  PROVE  /\ LoggedOps' = LoggedOps \cup {e.op}
         /\ Len(log') = Len(log) + 1
         /\ DOMAIN log' = DOMAIN log \cup {Len(log')}
         /\ log'[Len(log')] = e
         /\ \A i \in DOMAIN log : i < Len(log') /\ log'[i] = log[i]
<1>1. /\ Len(log') = Len(log) + 1
      /\ DOMAIN log' = DOMAIN log \cup {Len(log')}
      /\ log'[Len(log')] = e
      /\ \A i \in DOMAIN log : i < Len(log') /\ log'[i] = log[i]
  OBVIOUS
<1> QED BY <1>1 DEF LoggedOps

(* A catalog without unfinished writes satisfies the invariant.            *)
LEMMA InitInv == Init => IInv
BY DEF Init, IInv, DurableInv, StepInv, EffectInv, HistoryInv, Contained, SingleRow, OwnedRows,
       RecordedIsClean, HeadIsLogged, UnusedIDs, PendingKnown, OutboxAtStep, TransactionAtStep,
       CommitAtStep, EffectRows, EffectOfRow, EffectsAccounted, CommitsOwnRows, ExactlyOnce,
       OrderPreserved, AcknowledgedIsRecorded, LoggedOps

(* Steps that only move the program counter.                               *)
LEMMA ControlSteps ==
  ASSUME TypeInv, IInv,
         Open \/ Close \/ Call \/ RecoverRow \/ Recovered \/ SweepDirty \/ SweepMigrate \/ Expose
         \/ NoOp \/ ProbeClears \/ ProbeStages
  PROVE  IInv'
<1>1. UNCHANGED <<working, head, staged, outbox, log, effects, answer>>
  BY DEF Open, Close, Call, RecoverRow, Recovered, SweepDirty, SweepMigrate, Expose, NoOp,
         ProbeClears, ProbeStages, durable, local, reports
<1>2. DurableInv' /\ EffectInv' /\ HistoryInv'
  BY <1>1, QuietDurable, QuietHistory DEF IInv
<1>3. StepInv'
  <2> USE DEF IInv, StepInv, DurableInv, TypeInv, TypeOK, durable, local, reports,
          PendingKnown, OutboxAtStep, TransactionAtStep, CommitAtStep, Recovering
  <2>1. LoggedOps' = LoggedOps
    BY <1>1 DEF LoggedOps
  <2>2. CASE Open BY <1>1, <2>1, <2>2 DEF Open
  <2>3. CASE Close BY <1>1, <2>1, <2>3 DEF Close
  <2>4. CASE Call BY <1>1, <2>1, <2>4 DEF Call, NeedsRecovery
  <2>5. CASE RecoverRow BY <1>1, <2>1, <2>5 DEF RecoverRow, SingleRow
  <2>6. CASE Recovered BY <1>1, <2>1, <2>6 DEF Recovered
  <2>7. CASE SweepDirty BY <1>1, <2>1, <2>7 DEF SweepDirty
  <2>8. CASE SweepMigrate BY <1>1, <2>1, <2>8 DEF SweepMigrate
  <2>9. CASE Expose BY <1>1, <2>1, <2>9 DEF Expose
  <2>10. CASE NoOp BY <1>1, <2>1, <2>10 DEF NoOp
  <2>11. CASE ProbeClears
    <3>1. PICK r \in Rows : cur = {r} /\ outbox = {r}
      BY <2>11 DEF ProbeClears
    <3>2. AlreadyRecorded(r) \/ NothingToCommit(r)
      BY <2>11, <3>1 DEF ProbeClears
    <3>3. CASE AlreadyRecorded(r)
      BY <1>1, <2>1, <2>11, <3>1, <3>3 DEF ProbeClears, AlreadyRecorded
    <3>4. CASE NothingToCommit(r)
      <4>1. \A c \in working \ head : c[2] \in r.tables \cap DirtyTables
        BY <3>1 DEF OwnedRows, DirtyTables
      <4>2. working = head
        BY <3>4, <4>1 DEF NothingToCommit, Unstaged, Contained
      <4> QED BY <1>1, <2>1, <2>11, <3>1, <3>4, <4>2 DEF ProbeClears, NothingToCommit
    <3> QED BY <3>2, <3>3, <3>4
  <2>12. CASE ProbeStages
    <3>1. PICK r \in Rows : cur = {r} /\ outbox = {r}
      BY <2>12 DEF ProbeStages
    <3>2. ~AlreadyRecorded(r) /\ ~NothingToCommit(r) /\ todo' = ToStage(r)
      BY <2>12, <3>1 DEF ProbeStages
    <3>3. \A c \in working \ head : c[2] \in ToStage(r)
      BY <3>1 DEF OwnedRows, DirtyTables, ToStage, Unstaged
    <3>4. working # head \/ ForcesCommit(r)
      BY <3>2 DEF NothingToCommit, Unstaged, DirtyTables
    <3>5. r.op \notin LoggedOps
      BY <2>12, <3>1, <3>2, <3>4 DEF ProbeStages, AlreadyRecorded, RecordedIsClean, Unstaged, DirtyTables,
         NothingToCommit
    <3> QED BY <1>1, <2>1, <2>12, <3>1, <3>2, <3>3, <3>4, <3>5 DEF ProbeStages, ForcesCommit
  <2> QED BY <2>2, <2>3, <2>4, <2>5, <2>6, <2>7, <2>8, <2>9, <2>10, <2>11, <2>12
<1> QED BY <1>2, <1>3 DEF IInv

(* Kills and exceptions, in any step.                                      *)
LEMMA FaultSteps ==
  ASSUME TypeInv, IInv, Throw \/ Crash
  PROVE  IInv'
<1>1. UNCHANGED <<working, head, outbox, log, effects>>
  BY DEF Throw, Crash, durable
<1>2. /\ staged' \subseteq staged
      /\ \A o \in Ops : answer'[o] = "none" => answer[o] = "none"
      /\ \A o \in Ops : answer'[o] = "ok" => answer[o] = "ok"
  BY DEF Throw, Crash, durable, IndexAfterKill, TypeInv, TypeOK
<1>3. LoggedOps' = LoggedOps
  BY <1>1 DEF LoggedOps
<1>4. DurableInv'
  BY <1>1, <1>2, <1>3 DEF IInv, DurableInv, Contained, SingleRow, OwnedRows, RecordedIsClean,
     HeadIsLogged, UnusedIDs
<1>5. StepInv'
  BY <1>1, <1>3 DEF IInv, StepInv, PendingKnown, OutboxAtStep, TransactionAtStep, CommitAtStep,
     Throw, Crash, Recovering, TypeInv, TypeOK, Modes
<1>6. EffectInv'
  BY <1>1, <1>3 DEF IInv, EffectInv, EffectRows, EffectOfRow, EffectsAccounted, ForcesCommit
<1>7. \A k \in DOMAIN effects : effects[k].op \in Ops
  <2>1. \A k \in DOMAIN effects : effects[k] \in Effects
    BY DEF TypeInv, TypeOK
  <2> QED BY <2>1 DEF Effects
<1>8. HistoryInv'
  BY <1>1, <1>2, <1>3, <1>7 DEF IInv, HistoryInv, CommitsOwnRows, ExactlyOnce, OrderPreserved,
     AcknowledgedIsRecorded
<1> QED BY <1>4, <1>5, <1>6, <1>8 DEF IInv

(* A write's transaction starts with a fresh ID and an empty outbox.       *)
LEMMA MutateStep ==
  ASSUME StrayTables = {}, TypeInv, IInv,
         NEW o \in Ops, NEW tables \in SUBSET Tables, NEW touched \in SUBSET Tables,
         NEW e \in BOOLEAN, NEW s \in BOOLEAN, Mutate(o, tables, touched, e, s)
  PROVE  IInv'
<1> DEFINE r == [op |-> o, tables |-> tables, allowEmpty |-> e, stageAll |-> s]
<1>1. /\ UNCHANGED <<working, head, staged, outbox, log, effects, mode>>
      /\ answer[o] = "none" /\ answer' = [answer EXCEPT ![o] = "running"]
      /\ cur' = {r} /\ mutation' = {o} \X touched
      /\ touched \subseteq tables
      /\ pc = "begin" /\ pc' = "tx" /\ pendingSemanticCommit'
  BY DEF Mutate, durable
<1>2. r \in Rows /\ r.op = o /\ r.tables = tables
  BY DEF Rows
<1>3. LoggedOps' = LoggedOps
  BY <1>1 DEF LoggedOps
<1>4. /\ answer'[o] = "running"
      /\ \A q \in Ops : answer'[q] \in {"none", "ok"} => answer[q] = answer'[q]
  BY <1>1 DEF TypeInv, TypeOK
<1>5. DurableInv'
  BY <1>1, <1>3, <1>4 DEF IInv, DurableInv, Contained, SingleRow, OwnedRows, RecordedIsClean,
     HeadIsLogged, UnusedIDs
<1>6. StepInv'
  <2>1. TransactionAtStep'
    <3>1. o \notin LoggedOps /\ \A k \in DOMAIN effects : effects[k].op # o
      BY <1>1 DEF IInv, DurableInv, UnusedIDs
    <3>2. mutation' \subseteq {o} \X tables
      BY <1>1
    <3> HIDE DEF r
    <3> QED BY <1>1, <1>2, <1>3, <1>4, <3>1, <3>2 DEF TransactionAtStep
  <2> HIDE DEF r
  <2> QED BY <1>1, <1>3, <2>1 DEF IInv, StepInv, PendingKnown, OutboxAtStep, CommitAtStep
<1>7. EffectInv'
  BY <1>1, <1>3 DEF IInv, EffectInv, EffectRows, EffectOfRow, EffectsAccounted, ForcesCommit
<1>8. HistoryInv'
  <2>1. \A k \in DOMAIN effects : effects[k].op \in Ops
    <3>1. \A k \in DOMAIN effects : effects[k] \in Effects
      BY DEF TypeInv, TypeOK
    <3> QED BY <3>1 DEF Effects
  <2> QED BY <1>1, <1>3, <1>4, <2>1 DEF IInv, HistoryInv, CommitsOwnRows, ExactlyOnce,
         OrderPreserved, AcknowledgedIsRecorded
<1> QED BY <1>5, <1>6, <1>7, <1>8 DEF IInv

(* The SQL commit puts the only row into the outbox.                       *)
LEMMA SqlCommitStep ==
  ASSUME TypeInv, IInv, SqlCommit
  PROVE  IInv'
<1>1. PICK r \in Rows :
        /\ cur = {r}
        /\ r.op \notin LoggedOps
        /\ answer[r.op] = "running"
        /\ \A k \in DOMAIN effects : effects[k].op # r.op
        /\ mutation \subseteq {r.op} \X r.tables
  BY DEF SqlCommit, IInv, StepInv, TransactionAtStep
<1> DEFINE f == [op |-> r.op, rows |-> mutation, commits |-> mutation # {} \/ ForcesCommit(r)]
<1>2. /\ outbox = {} /\ outbox' = {r} /\ cur' = {r}
      /\ working' = working \cup mutation
      /\ UNCHANGED <<head, staged, log, mode, answer, pendingSemanticCommit>>
      /\ pc' = "probe" /\ pc = "tx"
      /\ effects' = Append(effects, f)
  BY <1>1 DEF SqlCommit, IInv, StepInv, OutboxAtStep
<1>3. r.op \in Ops /\ f \in Effects /\ f.op = r.op /\ f.rows = mutation
      /\ (f.commits => mutation # {} \/ ForcesCommit(r))
  BY DEF Rows, Effects, ForcesCommit, TypeInv, TypeOK
<1> HIDE DEF f
<1>4. /\ Len(effects') = Len(effects) + 1
      /\ DOMAIN effects' = DOMAIN effects \cup {Len(effects')}
      /\ effects'[Len(effects')] = f
      /\ \A k \in DOMAIN effects : k < Len(effects') /\ effects'[k] = effects[k]
  BY <1>2, <1>3 DEF TypeInv, TypeOK
<1>5. LoggedOps' = LoggedOps
  BY <1>2 DEF LoggedOps
<1>6. working = head
  BY <1>2 DEF IInv, DurableInv, Contained, OwnedRows
<1>7. DurableInv'
  <2>1. OwnedRows'
    BY <1>1, <1>2, <1>6 DEF OwnedRows
  <2>2. UnusedIDs'
    BY <1>1, <1>2, <1>3, <1>4, <1>5 DEF IInv, DurableInv, UnusedIDs
  <2> QED BY <1>1, <1>2, <1>5, <2>1, <2>2 DEF IInv, DurableInv, Contained, SingleRow,
         RecordedIsClean, HeadIsLogged
<1>8. StepInv'
  <2>2. pendingSemanticCommit
    BY <1>2 DEF IInv, StepInv, PendingKnown
  <2> QED BY <1>1, <1>2, <1>5, <2>2 DEF IInv, StepInv, PendingKnown, OutboxAtStep, TransactionAtStep, CommitAtStep
<1>9. EffectInv'
  BY <1>1, <1>2, <1>3, <1>4, <1>5 DEF IInv, EffectInv, EffectRows, EffectOfRow, EffectsAccounted, ForcesCommit
<1>10. HistoryInv'
  <2>1. OrderPreserved'
    BY <1>1, <1>2, <1>3, <1>4 DEF IInv, HistoryInv, OrderPreserved, LoggedOps
  <2>3. AcknowledgedIsRecorded'
    BY <1>1, <1>2, <1>3, <1>4, <1>5 DEF IInv, HistoryInv, AcknowledgedIsRecorded
  <2> QED BY <1>2, <2>1, <2>3 DEF IInv, HistoryInv, CommitsOwnRows, ExactlyOnce
<1> QED BY <1>7, <1>8, <1>9, <1>10 DEF IInv

(* Staging a table moves its uncommitted rows into the index.              *)
LEMMA StageStep ==
  ASSUME TypeInv, IInv, NEW t \in Tables, StageTable(t)
  PROVE  IInv'
<1>1. /\ UNCHANGED <<working, head, outbox, log, effects, answer, pc, mode, cur, mutation,
                     pendingSemanticCommit>>
      /\ staged' = staged \cup {c \in working : c[2] = t}
      /\ todo' = todo \ {t}
      /\ pc = "stage"
  BY DEF StageTable, reports
<1>2. LoggedOps' = LoggedOps
  BY <1>1 DEF LoggedOps
<1>3. DurableInv'
  BY <1>1, <1>2 DEF IInv, DurableInv, Contained, SingleRow, OwnedRows, RecordedIsClean,
     HeadIsLogged, UnusedIDs
<1>4. StepInv'
  BY <1>1, <1>2 DEF IInv, StepInv, PendingKnown, OutboxAtStep, TransactionAtStep, CommitAtStep, Recovering
<1>5. EffectInv' /\ HistoryInv'
  BY <1>1, QuietHistory DEF IInv
<1> QED BY <1>3, <1>4, <1>5 DEF IInv

(* The Dolt commit takes exactly the rows of the outbox's operation.       *)
LEMMA DoltCommitStep ==
  ASSUME TypeInv, IInv, DoltCommit
  PROVE  IInv'
<1>1. PICK r \in Rows : cur = {r} /\ outbox = {r}
  BY DEF DoltCommit, IInv, StepInv, OutboxAtStep
<1> DEFINE e == [op |-> r.op, rows |-> staged \ head]
<1>2. /\ log' = Append(log, e)
      /\ head' = head \cup staged /\ staged' = {}
      /\ pc = "stage" /\ pc' = "clear" /\ todo = {}
      /\ UNCHANGED <<working, outbox, mode, cur, mutation, pendingSemanticCommit, effects, answer>>
  BY <1>1 DEF DoltCommit, local, reports
<1>3. e \in Entries /\ e.op = r.op /\ e.rows = staged \ head
  BY DEF Rows, Entries, TypeInv, TypeOK
<1> HIDE DEF e
<1>4. /\ r.op \notin LoggedOps
      /\ \A c \in working \ head : c \in staged
  BY <1>1, <1>2 DEF IInv, StepInv, CommitAtStep
<1>5. head' = working
  BY <1>2, <1>4 DEF IInv, DurableInv, Contained
<1>6. \A c \in working \ head : c[1] = r.op
  BY <1>1 DEF IInv, DurableInv, OwnedRows
<1>7. /\ LoggedOps' = LoggedOps \cup {e.op}
      /\ Len(log') = Len(log) + 1
      /\ DOMAIN log' = DOMAIN log \cup {Len(log')}
      /\ log'[Len(log')] = e
      /\ \A i \in DOMAIN log : i < Len(log') /\ log'[i] = log[i]
  BY <1>2, <1>3, LogAppended DEF TypeInv, TypeOK
<1>8. DurableInv'
  <2>1. HeadIsLogged'
    BY <1>2, <1>3, <1>5, <1>6, <1>7 DEF IInv, DurableInv, HeadIsLogged
  <2>2. UnusedIDs'
    BY <1>1, <1>2, <1>3, <1>7 DEF IInv, DurableInv, UnusedIDs
  <2> QED BY <1>1, <1>2, <1>5, <2>1, <2>2 DEF IInv, DurableInv, Contained, SingleRow, OwnedRows,
         RecordedIsClean
<1>9. StepInv'
  BY <1>1, <1>2, <1>3, <1>7 DEF IInv, StepInv, PendingKnown, OutboxAtStep, TransactionAtStep,
     CommitAtStep, Recovering
<1>10. EffectInv'
  BY <1>1, <1>2, <1>3, <1>7 DEF IInv, EffectInv, EffectRows, EffectOfRow, EffectsAccounted, ForcesCommit
<1>11. HistoryInv'
  <2>1. CommitsOwnRows'
    BY <1>3, <1>6, <1>7 DEF IInv, DurableInv, Contained, HistoryInv, CommitsOwnRows
  <2>2. ExactlyOnce'
    BY <1>3, <1>4, <1>7 DEF IInv, HistoryInv, ExactlyOnce, LoggedOps
  <2>3. OrderPreserved'
    <3> SUFFICES ASSUME NEW i \in DOMAIN log', NEW j \in DOMAIN log',
                        NEW k \in DOMAIN effects, NEW l \in DOMAIN effects,
                        i < j, log'[i].op = effects[k].op, log'[j].op = effects[l].op
                 PROVE  k < l
      BY <1>2 DEF OrderPreserved
    <3>1. DOMAIN log = 1..Len(log) /\ DOMAIN effects = 1..Len(effects) /\ Len(log) \in Nat
          /\ Len(effects) \in Nat
      BY DEF TypeInv, TypeOK
    <3>2. i \in DOMAIN log
      BY <3>1, <1>7
    <3>3. CASE j \in DOMAIN log
      BY <3>2, <3>3, <1>7 DEF IInv, HistoryInv, OrderPreserved
    <3>4. CASE j = Len(log')
      <4>1. l = Len(effects)
        BY <3>4, <1>1, <1>3, <1>7 DEF IInv, EffectInv, EffectOfRow
      <4>2. effects[k].op # r.op
        BY <3>2, <1>4, <1>7 DEF LoggedOps
      <4>3. effects[l].op = r.op
        BY <3>4, <1>3, <1>7
      <4> QED BY <3>1, <4>1, <4>2, <4>3
    <3> QED BY <3>3, <3>4, <1>7
  <2>4. AcknowledgedIsRecorded'
    <3>1. \E k \in DOMAIN effects : effects[k].op = r.op
      BY <1>1 DEF IInv, EffectInv, EffectOfRow
    <3> QED BY <1>2, <1>3, <1>7, <3>1 DEF IInv, HistoryInv, AcknowledgedIsRecorded
  <2> QED BY <2>1, <2>2, <2>3, <2>4 DEF HistoryInv
<1> QED BY <1>8, <1>9, <1>10, <1>11 DEF IInv

(* The outbox row goes only when its operation is accounted for.           *)
LEMMA ClearStep ==
  ASSUME TypeInv, IInv, ClearRow
  PROVE  IInv'
<1>1. PICK r \in Rows : cur = {r} /\ outbox = {r}
  BY DEF ClearRow, IInv, StepInv, OutboxAtStep
<1>2. /\ outbox' = {}
      /\ pc = "clear" /\ pc' = "cleared"
      /\ UNCHANGED <<working, head, staged, log, mode, cur, mutation, pendingSemanticCommit, effects, answer>>
  BY <1>1 DEF ClearRow, WithoutCurrentRow, local, reports
<1>3. LoggedOps' = LoggedOps
  BY <1>2 DEF LoggedOps
<1>4. r.op \in LoggedOps \/ (working = head /\ ~ForcesCommit(r))
  BY <1>1, <1>2 DEF IInv, StepInv, CommitAtStep
<1>5. working = head
  BY <1>1, <1>4 DEF IInv, DurableInv, RecordedIsClean
<1>6. DurableInv'
  BY <1>2, <1>3, <1>5 DEF IInv, DurableInv, Contained, SingleRow, OwnedRows, RecordedIsClean,
     HeadIsLogged, UnusedIDs
<1>7. StepInv'
  BY <1>2, <1>3 DEF IInv, StepInv, PendingKnown, OutboxAtStep, TransactionAtStep, CommitAtStep
<1>8. \A k \in DOMAIN effects : effects[k].commits /\ effects[k].op = r.op => r.op \in LoggedOps
  <2> SUFFICES ASSUME NEW k \in DOMAIN effects, effects[k].commits, effects[k].op = r.op,
                      r.op \notin LoggedOps
               PROVE  FALSE
    OBVIOUS
  <2>1. effects[k].rows # {}
    BY <1>1, <1>4 DEF IInv, EffectInv, EffectOfRow
  <2>2. PICK c \in effects[k].rows : c[1] = r.op /\ c \in working
    BY <2>1 DEF IInv, EffectInv, EffectRows
  <2> QED BY <1>5, <2>2 DEF IInv, DurableInv, HeadIsLogged
<1>9. EffectInv'
  BY <1>1, <1>2, <1>3, <1>8 DEF IInv, EffectInv, EffectRows, EffectOfRow, EffectsAccounted
<1>10. HistoryInv'
  BY <1>2, <1>3 DEF IInv, HistoryInv, CommitsOwnRows, ExactlyOnce, OrderPreserved, AcknowledgedIsRecorded
<1> QED BY <1>6, <1>7, <1>9, <1>10 DEF IInv

(* The caller is answered after the outbox is empty.                       *)
LEMMA ReturnStep ==
  ASSUME TypeInv, IInv, Return
  PROVE  IInv'
<1>1. /\ UNCHANGED <<working, head, staged, outbox, log, effects>>
      /\ pc = "cleared" /\ outbox = {} /\ cur' = {}
      /\ pc' \in {"scan", "sweep", "begin", "idle"}
  <2>1. pc' \in {"scan", "sweep", "begin", "idle"}
    BY DEF Return, Recovering, TypeInv, TypeOK, Modes
  <2> QED BY <2>1 DEF Return, durable, IInv, StepInv, OutboxAtStep
<1>2. LoggedOps' = LoggedOps
  BY <1>1 DEF LoggedOps
<1>3. \A o \in Ops : answer'[o] = "none" => answer[o] = "none"
  BY DEF Return, TypeInv, TypeOK
<1>4. DurableInv'
  BY <1>1, <1>2, <1>3 DEF IInv, DurableInv, Contained, SingleRow, OwnedRows, RecordedIsClean,
     HeadIsLogged, UnusedIDs
<1>5. StepInv'
  BY <1>1, <1>2 DEF IInv, StepInv, PendingKnown, OutboxAtStep, TransactionAtStep, CommitAtStep,
     Recovering, Return, TypeInv, TypeOK, Modes
<1>6. EffectInv'
  BY <1>1, <1>2 DEF IInv, EffectInv, EffectRows, EffectOfRow, EffectsAccounted
<1>7. \A k \in DOMAIN effects : effects[k].commits => effects[k].op \in LoggedOps
  BY <1>1 DEF IInv, EffectInv, EffectsAccounted
<1>8. HistoryInv'
  BY <1>1, <1>2, <1>7 DEF IInv, HistoryInv, CommitsOwnRows, ExactlyOnce, OrderPreserved, AcknowledgedIsRecorded
<1> QED BY <1>4, <1>5, <1>6, <1>8 DEF IInv

(* Every step keeps the invariant.                                         *)
LEMMA NextInv ==
  ASSUME StrayTables = {}, TypeInv, IInv, [Next]_vars
  PROVE  IInv'
<1>1. CASE UNCHANGED vars
  BY <1>1, QuietDurable, QuietHistory DEF IInv, vars, StepInv, PendingKnown, OutboxAtStep,
     TransactionAtStep, CommitAtStep, Recovering, LoggedOps, ForcesCommit
<1>2. CASE Open \/ Close \/ Call \/ RecoverRow \/ Recovered \/ SweepDirty \/ SweepMigrate \/ Expose
           \/ NoOp \/ ProbeClears \/ ProbeStages
  BY <1>2, ControlSteps
<1>3. CASE Throw \/ Crash BY <1>3, FaultSteps
<1>4. CASE SqlCommit BY <1>4, SqlCommitStep
<1>5. CASE DoltCommit BY <1>5, DoltCommitStep
<1>6. CASE ClearRow BY <1>6, ClearStep
<1>7. CASE Return BY <1>7, ReturnStep
<1>8. CASE \E t \in Tables : StageTable(t) BY <1>8, StageStep
<1>9. CASE \E o \in Ops, tables, touched \in SUBSET Tables, e, s \in BOOLEAN :
             Mutate(o, tables, touched, e, s)
  BY <1>9, MutateStep
<1> QED BY <1>1, <1>2, <1>3, <1>4, <1>5, <1>6, <1>7, <1>8, <1>9 DEF Next, EngineStep

--------------------------------------------------------------------------------
(* The durability protocol, for every set of operations and tables and any *)
(* number of faults, when operations declare the tables they change.       *)
THEOREM Invariance == ASSUME StrayTables = {} PROVE Spec => [](TypeInv /\ IInv)
<1>1. IInv /\ TypeInv /\ [Next]_vars => IInv'
  BY NextInv
<1> QED BY InitInv, <1>1, TypeInvariance, PTL DEF Spec

(* No history entry holds rows of another operation: recovery never lets a *)
(* later mutation absorb an earlier one's uncommitted rows.                *)
THEOREM NoAbsorption == ASSUME StrayTables = {} PROVE Spec => []CommitsOwnRows
<1>1. IInv => CommitsOwnRows
  BY DEF IInv, HistoryInv
<1> QED BY <1>1, Invariance, PTL

(* No operation is recorded twice, whatever recovery was interrupted.      *)
THEOREM RecordedOnce == ASSUME StrayTables = {} PROVE Spec => []ExactlyOnce
<1>1. IInv => ExactlyOnce
  BY DEF IInv, HistoryInv
<1> QED BY <1>1, Invariance, PTL

(* History entries are in the order of the SQL commits.                    *)
THEOREM HistoryInOrder == ASSUME StrayTables = {} PROVE Spec => []OrderPreserved
<1>1. IInv => OrderPreserved
  BY DEF IInv, HistoryInv
<1> QED BY <1>1, Invariance, PTL

(* The history is exact: entries are own, unique and in order (store.ts,   *)
(* commitSemantic and commitOutbox).                                       *)
THEOREM HistoryExact == ASSUME StrayTables = {} PROVE Spec => []HistoryIsExact
<1> QED BY NoAbsorption, RecordedOnce, HistoryInOrder, PTL DEF HistoryIsExact

(* A write answered "ok" stays in the history.                             *)
THEOREM AcknowledgedStays == ASSUME StrayTables = {} PROVE Spec => []AcknowledgedIsRecorded
<1>1. IInv => AcknowledgedIsRecorded
  BY DEF IInv, HistoryInv
<1> QED BY <1>1, Invariance, PTL

(* A catalog handed out with no recovery owed is complete and clean.       *)
THEOREM ExposedComplete == ASSUME StrayTables = {} PROVE Spec => []ExposedIsComplete
<1>1. TypeInv /\ IInv => ExposedIsComplete
  <2> SUFFICES ASSUME TypeInv, IInv, pc = "idle", ~pendingSemanticCommit
               PROVE  /\ outbox = {} /\ staged \subseteq head /\ working = head
                      /\ \A k \in DOMAIN effects : effects[k].commits => effects[k].op \in LoggedOps
    BY DEF ExposedIsComplete
  <2>1. outbox = {}
    BY DEF IInv, StepInv, PendingKnown
  <2>2. working = head /\ staged \subseteq head
    BY <2>1 DEF IInv, DurableInv, Contained, OwnedRows
  <2> QED BY <2>1, <2>2 DEF IInv, EffectInv, EffectsAccounted
<1> QED BY <1>1, Invariance, PTL

(* Nothing is owed to a caller or by an exposed catalog (store.ts,         *)
(* semanticNow, recoverPendingSemanticCommits).                            *)
THEOREM NothingOwed == ASSUME StrayTables = {} PROVE Spec => []NothingIsOwed
<1> QED BY ExposedComplete, AcknowledgedStays, PTL DEF NothingIsOwed

(* What an open knows of the worktree: a sweep comes after the outbox, and *)
(* the repair's operation carries every table that is dirty up to the check*)
(* that nothing of them is left.                                           *)
RepairSteps == {"begin", "tx", "probe", "stage", "clear", "cleared"}
RepairAtStep ==
  /\ pc \in RepairSteps
  /\ pc \in {"begin", "tx", "cleared"} => outbox = {}
  /\ pc = "tx" => mutation = {} /\ \E r \in Rows : cur = {r} /\ DirtyTables \subseteq r.tables
  /\ pc = "probe" => \E r \in Rows : cur = {r} /\ outbox = {r} /\ DirtyTables \subseteq r.tables
  /\ pc \in {"stage", "clear"} => outbox = cur
  /\ pc \in {"stage", "clear", "cleared"} => DirtyTables \subseteq dirty
OpenInv ==
  /\ Contained
  /\ pc = "sweep" => mode = "open" /\ outbox = {}
  /\ mode = "repair" => RepairAtStep

(* What Dolt holds stays in the database, undeclared tables included.      *)
LEMMA ContainedStep ==
  ASSUME Contained, TypeInv, [Next]_vars
  PROVE  Contained'
<1>6. SqlCommit \/ DoltCommit \/ (\E t \in Tables : StageTable(t)) \/ Crash \/ UNCHANGED <<working, head, staged>>
  <2>1. CASE EngineStep
    <3>1. ASSUME NEW o \in Ops, NEW tables \in SUBSET Tables, NEW touched \in SUBSET Tables,
                 NEW e \in BOOLEAN, NEW s \in BOOLEAN, Mutate(o, tables, touched, e, s)
          PROVE  UNCHANGED <<working, head, staged>>
      BY <3>1 DEF Mutate, durable
    <3>2. CASE \/ RecoverRow \/ Recovered \/ SweepDirty \/ SweepMigrate \/ Expose \/ NoOp
               \/ ProbeClears \/ ProbeStages \/ ClearRow \/ Return
      BY <3>2 DEF durable, RecoverRow, Recovered, SweepDirty, SweepMigrate, Expose, NoOp,
         ProbeClears, ProbeStages, ClearRow, Return
    <3> QED BY <2>1, <3>1, <3>2 DEF EngineStep
  <2>2. CASE Open \/ Close \/ Call \/ Throw \/ UNCHANGED vars
    BY <2>2 DEF vars, durable, Open, Close, Call, Throw
  <2> QED BY <2>1, <2>2 DEF Next
<1> USE DEF Contained, durable, TypeInv, TypeOK
<1>1. CASE SqlCommit BY <1>1 DEF SqlCommit
<1>2. CASE DoltCommit BY <1>2 DEF DoltCommit
<1>3. CASE \E t \in Tables : StageTable(t) BY <1>3 DEF StageTable
<1>4. CASE Crash BY <1>4 DEF Crash, IndexAfterKill
<1>5. CASE UNCHANGED <<working, head, staged>> BY <1>5
<1> QED BY <1>1, <1>2, <1>3, <1>4, <1>5, <1>6

(* Sweeps belong to an open whose outbox is empty.                         *)
LEMMA SweepStep ==
  ASSUME OpenInv, TypeInv, [Next]_vars, pc' = "sweep"
  PROVE  mode' = "open" /\ outbox' = {}
<1>1. CASE Recovered
  BY <1>1 DEF Recovered, durable
<1>2. CASE UNCHANGED vars
  BY <1>2 DEF vars, OpenInv
<1>3. Recovered \/ UNCHANGED vars
  <2>1. ~Return
    BY DEF Return, Recovering, TypeInv, TypeOK, Modes
  <2> QED BY <2>1 DEF Next, EngineStep, Open, Close, Call, RecoverRow, SweepDirty, SweepMigrate, Expose,
       NoOp, Mutate, SqlCommit, ProbeClears, ProbeStages, StageTable, DoltCommit, ClearRow, Throw, Crash
<1> QED BY <1>1, <1>2, <1>3

(* The repair's operation keeps hold of everything that is dirty.          *)
LEMMA RepairStep ==
  ASSUME OpenInv, TypeInv, [Next]_vars, mode' = "repair"
  PROVE  RepairAtStep'
<1> USE DEF RepairAtStep, RepairSteps, DirtyTables
<1>1. CASE SweepDirty
  BY <1>1 DEF SweepDirty, OpenInv, durable
<1>2. ASSUME mode = "repair", NEW o \in Ops, NEW tables \in SUBSET Tables,
             NEW touched \in SUBSET Tables, NEW e \in BOOLEAN, NEW s \in BOOLEAN,
             Mutate(o, tables, touched, e, s)
      PROVE  RepairAtStep'
  <2> DEFINE r == [op |-> o, tables |-> tables, allowEmpty |-> e, stageAll |-> s]
  <2>1. r \in Rows /\ r.tables = tables
    BY DEF Rows
  <2>2. /\ UNCHANGED <<working, head, outbox>> /\ pc = "begin" /\ pc' = "tx"
        /\ cur' = {r} /\ mutation' = {} /\ tables = DirtyTables
    BY <1>2 DEF Mutate, RepairedTables, durable
  <2>3. outbox' = {}
    BY <1>2, <2>2 DEF OpenInv
  <2> HIDE DEF r
  <2> QED BY <2>1, <2>2, <2>3
<1>3. CASE mode = "repair" /\ SqlCommit
  <2>1. PICK r \in Rows : cur = {r} /\ DirtyTables \subseteq r.tables
    BY <1>3 DEF OpenInv, SqlCommit
  <2>2. working' = working /\ head' = head /\ outbox' = {r} /\ cur' = {r} /\ pc' = "probe"
    BY <1>3, <2>1 DEF OpenInv, SqlCommit, TypeInv, TypeOK
  <2> QED BY <2>1, <2>2
<1>4. CASE mode = "repair" /\ ProbeClears
  <2>1. PICK r \in Rows : cur = {r} /\ outbox = {r} /\ DirtyTables \subseteq r.tables
    BY <1>4 DEF OpenInv, ProbeClears
  <2>2. NothingToCommit(r)
    BY <1>4, <2>1 DEF ProbeClears, AlreadyRecorded, Recovering
  <2>3. DirtyTables = {}
    BY <2>1, <2>2 DEF NothingToCommit, Unstaged
  <2> QED BY <1>4, <2>1, <2>3 DEF ProbeClears, durable
<1>5. CASE mode = "repair" /\ ProbeStages
  <2>1. PICK r \in Rows : cur = {r} /\ outbox = {r} /\ DirtyTables \subseteq r.tables
    BY <1>5 DEF OpenInv, ProbeStages
  <2>2. dirty' = Unstaged(r) /\ Unstaged(r) = DirtyTables
    BY <1>5, <2>1 DEF ProbeStages, Unstaged
  <2> QED BY <1>5, <2>1, <2>2 DEF ProbeStages, durable
<1>6. CASE mode = "repair" /\ \E t \in Tables : StageTable(t)
  BY <1>6 DEF OpenInv, StageTable
<1>7. CASE mode = "repair" /\ DoltCommit
  BY <1>7 DEF OpenInv, DoltCommit, local
<1>8. CASE mode = "repair" /\ ClearRow
  BY <1>8 DEF OpenInv, ClearRow, WithoutCurrentRow, local
<1>9. CASE UNCHANGED vars
  BY <1>9 DEF OpenInv, vars
<1>10. mode = "repair" => pc \in RepairSteps
  BY DEF OpenInv
<1>11. \/ SweepDirty \/ UNCHANGED vars
       \/ /\ mode = "repair"
          /\ \/ SqlCommit \/ ProbeClears \/ ProbeStages \/ (\E t \in Tables : StageTable(t))
             \/ DoltCommit \/ ClearRow
             \/ \E o \in Ops, tables, touched \in SUBSET Tables, e, s \in BOOLEAN :
                   Mutate(o, tables, touched, e, s)
  <2>1. CASE Open \/ Close \/ Call \/ Throw \/ Crash \/ RecoverRow \/ Recovered \/ SweepMigrate
             \/ Expose \/ NoOp \/ Return
    BY <2>1, <1>10 DEF Open, Close, Call, Throw, Crash, RecoverRow, Recovered, SweepMigrate, Expose,
       NoOp, Return, Recovering, TypeInv, TypeOK, Modes
  <2>2. CASE SqlCommit \/ ProbeClears \/ ProbeStages \/ (\E t \in Tables : StageTable(t))
             \/ DoltCommit \/ ClearRow
    BY <2>2 DEF SqlCommit, ProbeClears, ProbeStages, StageTable, DoltCommit, ClearRow
  <2>3. CASE \E o \in Ops, tables, touched \in SUBSET Tables, e, s \in BOOLEAN :
               Mutate(o, tables, touched, e, s)
    BY <2>3 DEF Mutate
  <2> QED BY <2>1, <2>2, <2>3 DEF Next, EngineStep
<1> QED BY <1>1, <1>2, <1>3, <1>4, <1>5, <1>6, <1>7, <1>8, <1>9, <1>11

(* Opening hands out a catalog whose worktree and index are committed,     *)
(* whose outbox is empty and whose schema is current, also when operations *)
(* did not declare every table: after a clean sweep by what the sweep read,*)
(* after a repair by what the repair's commit carried.                     *)
THEOREM OpenIsClean == Spec => OpenExposesCleanWorktree
<1>1. Init => OpenInv
  BY DEF Init, OpenInv, Contained
<1>2. OpenInv /\ TypeInv /\ [Next]_vars => OpenInv'
  <2> SUFFICES ASSUME OpenInv, TypeInv, [Next]_vars PROVE OpenInv'
    OBVIOUS
  <2>1. Contained'
    BY ContainedStep DEF OpenInv
  <2> QED BY <2>1, SweepStep, RepairStep DEF OpenInv
<1>3. OpenInv /\ TypeInv /\ [Next]_vars =>
        [Opening /\ pc' = "idle" =>
           /\ working' = head' /\ staged' \subseteq head'
           /\ outbox' = {} /\ version' = TargetVersion]_vars
  <2> SUFFICES ASSUME OpenInv, TypeInv, [Next]_vars, Opening, pc' = "idle", ~UNCHANGED vars
               PROVE  /\ working' = head' /\ staged' \subseteq head'
                      /\ outbox' = {} /\ version' = TargetVersion
    OBVIOUS
  <2>1. Expose \/ (Return /\ mode = "repair" /\ ~NeedsMigration)
    <3>1. CASE Return
      BY <3>1 DEF Return, Recovering, Opening
    <3>2. CASE Expose
      BY <3>2
    <3> QED BY <3>1, <3>2 DEF Next, EngineStep, Opening, Open, Close, Call, RecoverRow, Recovered,
         SweepDirty, SweepMigrate, NoOp, Mutate, SqlCommit, ProbeClears, ProbeStages, StageTable,
         DoltCommit, ClearRow, Throw, Crash
  <2>2. UNCHANGED <<working, head, staged, outbox, version>>
    BY <2>1 DEF Expose, Return, durable
  <2>3. version = TargetVersion
    BY <2>1, StoreAssumption DEF Expose, NeedsMigration, TypeInv, TypeOK
  <2>4. DirtyTables = {} /\ outbox = {}
    <3>1. CASE Expose
      BY <3>1 DEF Expose, SweptTables, OpenInv
    <3>2. CASE Return /\ mode = "repair"
      BY <3>2 DEF Return, OpenInv, RepairAtStep
    <3> QED BY <2>1, <3>1, <3>2
  <2> QED BY <2>2, <2>3, <2>4 DEF DirtyTables, OpenInv, Contained
<1> QED BY <1>1, <1>2, <1>3, TypeInvariance, PTL DEF Spec, OpenExposesCleanWorktree

--------------------------------------------------------------------------------
(* Refinement: the store implements SemanticHistory.                       *)

(* Every step takes effect, records, forgets or stutters in the abstract   *)
(* history.                                                                *)
LEMMA StepSimulation ==
  ASSUME StrayTables = {}, TypeInv, IInv, [Next]_vars
  PROVE  [Abstract!HNext]_(Abstract!hvars)
<1>1. CASE SqlCommit
  <2>1. PICK r \in Rows : cur = {r} /\ r.op \notin LoggedOps
    BY <1>1 DEF SqlCommit, IInv, StepInv, TransactionAtStep
  <2>2. outbox = {} /\ outbox' = {r} /\ log' = log /\ LoggedOps' = LoggedOps
        /\ working' \in SUBSET Changes
    BY <1>1, <2>1 DEF SqlCommit, IInv, StepInv, OutboxAtStep, LoggedOps, TypeInv, TypeOK
  <2>3. UnrecordedRows = {} /\ UnrecordedRows' = {r}
    BY <2>1, <2>2 DEF UnrecordedRows
  <2>4. \A i \in DOMAIN log : log[i].op # r.op
    BY <2>1 DEF LoggedOps
  <2>5. PICK rows \in SUBSET Changes : rows = working' \ head'
    BY <2>2
  <2>6. PICK com \in BOOLEAN : com = (rows # {} \/ ForcesCommit(r))
    BY DEF Rows, ForcesCommit
  <2>7. ForcesCommit(r)' = ForcesCommit(r) /\ r.op \in Ops
    BY DEF ForcesCommit, Rows
  <2>8. Abstract!TakeEffect(r.op, rows, com)
    BY <2>2, <2>3, <2>4, <2>5, <2>6, <2>7 DEF Abstract!TakeEffect
  <2> QED BY <2>5, <2>6, <2>7, <2>8 DEF Abstract!HNext
<1>2. CASE DoltCommit
  <2>1. PICK r \in Rows : cur = {r} /\ outbox = {r} /\ r.op \notin LoggedOps
                          /\ (working # head \/ ForcesCommit(r))
                          /\ \A c \in working \ head : c[2] \in todo \/ c \in staged
    <3>1. PICK r \in Rows : cur = {r} /\ outbox = {r}
      BY <1>2 DEF DoltCommit, IInv, StepInv, OutboxAtStep
    <3> QED BY <1>2, <3>1 DEF DoltCommit, IInv, StepInv, CommitAtStep
  <2>2. working \ head = staged \ head /\ (working \ head # {} \/ ForcesCommit(r))
    BY <1>2, <2>1 DEF DoltCommit, IInv, DurableInv, Contained
  <2> DEFINE e == [op |-> r.op, rows |-> staged \ head]
  <2>3. log' = Append(log, e) /\ outbox' = outbox
    BY <1>2, <2>1 DEF DoltCommit
  <2>4. e \in Entries /\ e.op = r.op
    BY DEF Rows, Entries, TypeInv, TypeOK
  <2>5. r.op \in LoggedOps'
    <3> HIDE DEF e
    <3> QED BY <2>3, <2>4, LogAppended DEF TypeInv, TypeOK
  <2>6. UnrecordedRows = {r} /\ UnrecordedRows' = {}
    BY <2>1, <2>3, <2>5 DEF UnrecordedRows
  <2> DEFINE u == [op |-> r.op, rows |-> working \ head,
                   commits |-> (working \ head) # {} \/ ForcesCommit(r)]
  <2>7. u.op = r.op /\ u.rows = staged \ head /\ u.commits
    BY <2>2
  <2>8. log' = Append(log, [op |-> u.op, rows |-> u.rows])
    BY <2>3, <2>7
  <2>9. Abstract!Record
    <3>1. {[op |-> q.op, rows |-> working \ head,
            commits |-> (working \ head) # {} \/ ForcesCommit(q)] : q \in UnrecordedRows} = {u}
      BY <2>6
    <3>2. {[op |-> q.op, rows |-> working \ head,
            commits |-> (working \ head) # {} \/ ForcesCommit(q)] : q \in UnrecordedRows}' = {}
      BY <2>6
    <3> HIDE DEF u
    <3> QED BY <2>7, <2>8, <3>1, <3>2 DEF Abstract!Record
  <2> QED BY <2>9 DEF Abstract!HNext
<1>3. CASE ClearRow
  <2>1. PICK r \in Rows : cur = {r} /\ outbox = {r} /\ outbox' = {}
                          /\ (r.op \in LoggedOps \/ (working = head /\ ~ForcesCommit(r)))
    <3>1. PICK r \in Rows : cur = {r} /\ outbox = {r}
      BY <1>3 DEF ClearRow, IInv, StepInv, OutboxAtStep
    <3> QED BY <1>3, <3>1 DEF ClearRow, WithoutCurrentRow, IInv, StepInv, CommitAtStep
  <2>2. log' = log /\ UnrecordedRows' = {}
    BY <1>3, <2>1 DEF ClearRow, UnrecordedRows
  <2>3. CASE r.op \in LoggedOps
    <3>1. UnrecordedRows = {}
      BY <2>1, <2>3 DEF UnrecordedRows
    <3> QED BY <2>2, <3>1 DEF Abstract!hvars
  <2>4. CASE r.op \notin LoggedOps
    <3>1. UnrecordedRows = {r} /\ working \ head = {} /\ ~ForcesCommit(r)
      BY <2>1, <2>4 DEF UnrecordedRows
    <3> DEFINE u == [op |-> r.op, rows |-> working \ head,
                     commits |-> (working \ head) # {} \/ ForcesCommit(r)]
    <3>2. Abstract!Forget
      <4>1. ~u.commits
        BY <3>1
      <4>2. {[op |-> q.op, rows |-> working \ head,
              commits |-> (working \ head) # {} \/ ForcesCommit(q)] : q \in UnrecordedRows} = {u}
        BY <3>1
      <4>3. {[op |-> q.op, rows |-> working \ head,
              commits |-> (working \ head) # {} \/ ForcesCommit(q)] : q \in UnrecordedRows}' = {}
        BY <2>2
      <4> HIDE DEF u
      <4> QED BY <2>2, <4>1, <4>2, <4>3 DEF Abstract!Forget
    <3> QED BY <3>2 DEF Abstract!HNext
  <2> QED BY <2>3, <2>4
<1>4. CASE UNCHANGED <<working, head, outbox, log>>
  <2>1. UnrecordedRows' = UnrecordedRows
    BY <1>4 DEF UnrecordedRows, LoggedOps
  <2>2. {[op |-> q.op, rows |-> working \ head,
          commits |-> (working \ head) # {} \/ ForcesCommit(q)] : q \in UnrecordedRows}'
        = {[op |-> q.op, rows |-> working \ head,
            commits |-> (working \ head) # {} \/ ForcesCommit(q)] : q \in UnrecordedRows}
    BY <1>4, <2>1 DEF ForcesCommit
  <2> QED BY <1>4, <2>2 DEF Abstract!hvars
<1>5. SqlCommit \/ DoltCommit \/ ClearRow \/ UNCHANGED <<working, head, outbox, log>>
  <2> USE DEF durable
  <2>1. CASE UNCHANGED vars BY <2>1 DEF vars
  <2>2. CASE Open \/ Close \/ Call \/ Throw \/ Crash BY <2>2 DEF Open, Close, Call, Throw, Crash
  <2>3. CASE RecoverRow \/ Recovered \/ SweepDirty \/ SweepMigrate \/ Expose \/ NoOp
    BY <2>3 DEF RecoverRow, Recovered, SweepDirty, SweepMigrate, Expose, NoOp
  <2>4. CASE ProbeClears \/ ProbeStages \/ Return
    BY <2>4 DEF ProbeClears, ProbeStages, Return
  <2>5. CASE \E t \in Tables : StageTable(t)
    BY <2>5 DEF StageTable
  <2>6. CASE \E o \in Ops, tables, touched \in SUBSET Tables, e, s \in BOOLEAN :
               Mutate(o, tables, touched, e, s)
    BY <2>6 DEF Mutate
  <2> QED BY <2>1, <2>2, <2>3, <2>4, <2>5, <2>6 DEF Next, EngineStep
<1> QED BY <1>1, <1>2, <1>3, <1>4, <1>5

(* The two-step commit with its recovery is a history in which each        *)
(* operation takes effect atomically and is recorded at most once, in      *)
(* order, by an entry of exactly its rows.                                 *)
THEOREM Refinement == ASSUME StrayTables = {} PROVE Spec => ImplementsHistory
<1>1. Init => Abstract!HInit
  BY DEF Init, Abstract!HInit, UnrecordedRows
<1>2. TypeInv /\ IInv /\ [Next]_vars => [Abstract!HNext]_(Abstract!hvars)
  BY StepSimulation
<1> QED BY <1>1, <1>2, Invariance, PTL DEF Spec, ImplementsHistory, Abstract!HSpec
================================================================================
