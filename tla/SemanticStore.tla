----------------------------- MODULE SemanticStore -----------------------------
(***************************************************************************)
(* The two-step semantic commit of DoltStore (src/src/store.ts).           *)
(*                                                                         *)
(* A semantic write runs one SQL transaction that changes rows and inserts *)
(* an outbox row, then commitOutbox stages the changed tables, makes the   *)
(* Dolt commit and deletes the outbox row in a second transaction.  The    *)
(* process can be killed, and any native call can throw, between two       *)
(* steps.  The outbox is recovered when the catalog is opened and before   *)
(* the next write after a failed one.                                      *)
(*                                                                         *)
(* One process owns the catalog, and serial() runs one write at a time, so *)
(* there is one program counter.  A row change is a pair <<o, t>>: what    *)
(* operation o did to table t.                                             *)
(***************************************************************************)
EXTENDS Integers, Sequences, FiniteSets

CONSTANTS
  Ops,           \* operation IDs (uuidv7): each is used once
  Tables,        \* SEMANTIC_TABLES
  TagTables,     \* ASSET_TAG_TABLES, which an older engine left dirty
  StrayTables,   \* tables an operation may change without declaring them
  TargetVersion, \* SCHEMA_VERSION, as the number of migration steps
  SpareOps,      \* bound: IDs that writes leave to migrations and repairs
  MaxFaults      \* bound: kills and exceptions in a behaviour

ASSUME StoreAssumption ==
  /\ TagTables \subseteq Tables
  /\ StrayTables \subseteq Tables
  /\ TargetVersion \in Nat
  /\ SpareOps \in Nat
  /\ MaxFaults \in Nat

VARIABLES
  working,   \* rows in the SQL database
  head,      \* rows in the last Dolt commit
  staged,    \* rows in Dolt's index
  outbox,    \* runtime_commit_outbox
  log,       \* the Dolt log, oldest first
  version,   \* migration steps done
  pc, mode,  \* the step of the process and what it is doing it for
  cur,       \* the outbox row being committed (at most one)
  mutation,  \* rows changed by the open SQL transaction
  dirty,     \* `dirty` of commitOutbox
  todo,      \* tables still to stage
  pendingSemanticCommit,
  effects,   \* what each committed SQL transaction did, in commit order
  answer,    \* what the caller of each operation has been told
  faults     \* kills and exceptions so far

durable  == <<working, head, staged, outbox, log, version>>
local    == <<cur, mutation, dirty, todo>>
reports  == <<effects, answer, faults>>
vars == <<working, head, staged, outbox, log, version, pc, mode, cur, mutation,
          dirty, todo, pendingSemanticCommit, effects, answer, faults>>

Changes == Ops \X Tables
Rows    == [op : Ops, tables : SUBSET Tables, allowEmpty : BOOLEAN, stageAll : BOOLEAN]
Effects == [op : Ops, rows : SUBSET Changes, commits : BOOLEAN]
Entries == [op : Ops, rows : SUBSET Changes]

Steps == {"closed", "scan", "sweep", "idle", "begin", "tx", "probe", "stage", "clear", "cleared"}
Modes == {"open", "migrate", "repair", "retry", "write"}

TypeOK ==
  /\ working \in SUBSET Changes
  /\ head \in SUBSET Changes
  /\ staged \in SUBSET Changes
  /\ outbox \in SUBSET Rows
  /\ log \in Seq(Entries)
  /\ version \in 0..TargetVersion
  /\ pc \in Steps
  /\ mode \in Modes
  /\ cur \in SUBSET Rows
  /\ mutation \in SUBSET Changes
  /\ dirty \in SUBSET Tables
  /\ todo \in SUBSET Tables
  /\ pendingSemanticCommit \in BOOLEAN
  /\ effects \in Seq(Effects)
  /\ answer \in [Ops -> {"none", "running", "ok", "failed"}]
  /\ faults \in Nat

--------------------------------------------------------------------------------

LoggedOps   == {log[i].op : i \in DOMAIN log}
DirtyTables == {c[2] : c \in working \ head}          \* hasWorkingDiff
Recovering(m) == m \in {"open", "retry"}
ForcesCommit(r) == r.allowEmpty \/ r.stageAll

(* After a kill the index may or may not survive; an exception keeps it.   *)
IndexAfterKill == {staged, {}}

(* A catalog without unfinished writes, at any supported schema version.   *)
Init ==
  /\ working = {} /\ head = {} /\ staged = {} /\ outbox = {} /\ log = <<>>
  /\ version \in 0..TargetVersion
  /\ pc = "closed" /\ mode = "open"
  /\ cur = {} /\ mutation = {} /\ dirty = {} /\ todo = {}
  /\ pendingSemanticCommit = FALSE
  /\ effects = <<>>
  /\ answer = [o \in Ops |-> "none"]
  /\ faults = 0

(* The sweep before the migrations and at the end of an open reads the     *)
(* whole worktree.                                                         *)
MutantSweepSkipsTags == DirtyTables \ TagTables
SweptTables == DirtyTables

MutantAlwaysMigrates == TRUE
NeedsMigration == version < TargetVersion

(* The constructor: a new connection knows nothing of earlier failures.    *)
Open ==
  /\ pc = "closed"
  /\ pc' = "scan" /\ mode' = "open"
  /\ pendingSemanticCommit' = FALSE
  /\ UNCHANGED <<durable, local, reports>>

Close ==
  /\ pc = "idle"
  /\ pc' = "closed" /\ mode' = "open"
  /\ UNCHANGED <<durable, local, pendingSemanticCommit, reports>>

(* recoverOutbox takes the next row.  Rows are ordered by wall clock time, *)
(* which may go back, so any of them can be the next.                      *)
RecoverRow ==
  /\ pc = "scan"
  /\ \E r \in outbox : cur' = {r}
  /\ pc' = "probe"
  /\ UNCHANGED <<durable, mode, mutation, dirty, todo, pendingSemanticCommit, reports>>

Recovered ==
  /\ pc = "scan"
  /\ outbox = {}
  /\ IF mode = "open" THEN pc' = "sweep" /\ mode' = mode
                      ELSE pc' = "begin" /\ mode' = "write"
  /\ UNCHANGED <<durable, local, pendingSemanticCommit, reports>>

(* verifyCleanSemanticWorktree finds rows no operation declared.  Left-over*)
(* deletions of tags (one outcome of reading the rows) are committed by an *)
(* operation of their own; anything else makes the open fail.              *)
SweepDirty ==
  /\ pc = "sweep"
  /\ SweptTables # {}
  /\ \/ pc' = "closed" /\ mode' = "open"
     \/ /\ SweptTables \subseteq TagTables
        /\ staged \subseteq head
        /\ pc' = "begin" /\ mode' = "repair"
  /\ UNCHANGED <<durable, local, pendingSemanticCommit, reports>>

(* A clean sweep is followed by the migrations, or by the open's return.   *)
SweepMigrate ==
  /\ pc = "sweep"
  /\ SweptTables = {}
  /\ NeedsMigration
  /\ pc' = "begin" /\ mode' = "migrate"
  /\ UNCHANGED <<durable, local, pendingSemanticCommit, reports>>

Expose ==
  /\ pc = "sweep"
  /\ SweptTables = {}
  /\ ~NeedsMigration
  /\ pc' = "idle" /\ mode' = "write"
  /\ UNCHANGED <<durable, local, pendingSemanticCommit, reports>>

(* semanticNow: after a failed write the outbox is recovered first.        *)
MutantNeverRecovers == FALSE
NeedsRecovery == pendingSemanticCommit

Call ==
  /\ pc = "idle"
  /\ Cardinality({o \in Ops : answer[o] = "none"}) > SpareOps
  /\ IF NeedsRecovery THEN pc' = "scan" /\ mode' = "retry"
                              ELSE pc' = "begin" /\ mode' = "write"
  /\ UNCHANGED <<durable, local, pendingSemanticCommit, reports>>

(* The work of a write decides, under the writer lock, to change nothing   *)
(* or to refuse.                                                           *)
NoOp ==
  /\ pc = "begin" /\ mode = "write"
  /\ pc' = "idle"
  /\ UNCHANGED <<durable, mode, local, pendingSemanticCommit, reports>>

(* recoverDeletedArtifactTags declares the tables it found dirty under the *)
(* writer lock, so that committing the operation cleans all of them.       *)
MutantRepairsNothing == {}
RepairedTables == DirtyTables

(* commitSemantic up to its COMMIT: rows and outbox row in one transaction.*)
Mutate(o, tables, touched, allowEmpty, stageAll) ==
  /\ pc = "begin"
  /\ answer[o] = "none"
  /\ touched \subseteq tables \cup StrayTables
  /\ CASE mode = "migrate" -> ~allowEmpty /\ (stageAll \/ touched \cap tables # {})
       [] mode = "repair"  -> tables = RepairedTables /\ touched = {} /\ ~allowEmpty /\ ~stageAll
       [] OTHER            -> ~stageAll
  /\ cur' = {[op |-> o, tables |-> tables, allowEmpty |-> allowEmpty, stageAll |-> stageAll]}
  /\ mutation' = {o} \X touched
  /\ answer' = [answer EXCEPT ![o] = "running"]
  /\ pendingSemanticCommit' = TRUE
  /\ pc' = "tx"
  /\ UNCHANGED <<durable, mode, dirty, todo, effects, faults>>

SqlCommit ==
  /\ pc = "tx"
  /\ \E r \in cur :
       /\ outbox' = outbox \cup {r}
       /\ effects' = Append(effects, [op |-> r.op, rows |-> mutation,
            commits |-> mutation # {} \/ ForcesCommit(r)])
  /\ working' = working \cup mutation
  /\ mutation' = {}
  /\ version' = IF mode = "migrate" THEN version + 1 ELSE version
  /\ pc' = "probe"
  /\ UNCHANGED <<head, staged, log, mode, cur, dirty, todo, pendingSemanticCommit, answer, faults>>

--------------------------------------------------------------------------------
(* commitOutbox                                                            *)

Unstaged(r) == r.tables \cap DirtyTables
ToStage(r)  == IF r.stageAll THEN r.tables ELSE Unstaged(r)

(* Recovery finds the operation in the log: only its row is left to clear. *)
MutantLogNotSearched(r) == FALSE
AlreadyRecorded(r) ==
  Recovering(mode) /\ ForcesCommit(r) /\ Unstaged(r) = {} /\ r.op \in LoggedOps

(* No versioned row left to commit and no empty commit wanted.             *)
MutantDropsProvenance(r) == Unstaged(r) = {}
NothingToCommit(r) == Unstaged(r) = {} /\ ~ForcesCommit(r)

ProbeClears ==
  /\ pc = "probe"
  /\ \E r \in cur : AlreadyRecorded(r) \/ NothingToCommit(r)
  /\ dirty' = {}
  /\ pc' = "clear"
  /\ UNCHANGED <<durable, mode, cur, mutation, todo, pendingSemanticCommit, reports>>

ProbeStages ==
  /\ pc = "probe"
  /\ \E r \in cur :
       /\ ~AlreadyRecorded(r)
       /\ ~NothingToCommit(r)
       /\ dirty' = Unstaged(r)
       /\ todo' = ToStage(r)
  /\ pc' = "stage"
  /\ UNCHANGED <<durable, mode, cur, mutation, pendingSemanticCommit, reports>>

StageTable(t) ==
  /\ pc = "stage"
  /\ t \in todo
  /\ staged' = staged \cup {c \in working : c[2] = t}
  /\ todo' = todo \ {t}
  /\ UNCHANGED <<working, head, outbox, log, version, pc, mode, cur, mutation, dirty,
                 pendingSemanticCommit, reports>>

(* dolt_commit, with --allow-empty when no declared table was dirty; it    *)
(* refuses an empty commit otherwise.                                      *)
DoltCommit ==
  /\ pc = "stage"
  /\ todo = {}
  /\ dirty = {} \/ staged \ head # {}
  /\ \E r \in cur : log' = Append(log, [op |-> r.op, rows |-> staged \ head])
  /\ head' = head \cup staged
  /\ staged' = {}
  /\ pc' = "clear"
  /\ UNCHANGED <<working, outbox, version, mode, local, pendingSemanticCommit, reports>>

MutantKeepsRow == outbox
WithoutCurrentRow == outbox \ cur

ClearRow ==
  /\ pc = "clear"
  /\ outbox' = WithoutCurrentRow
  /\ pc' = "cleared"
  /\ UNCHANGED <<working, head, staged, log, version, mode, local, pendingSemanticCommit, reports>>

(* assertCommittedTablesClean, then the end of commitOutbox's caller.  One *)
(* migration follows another without a sweep between them, and the last one*)
(* is followed by the end of initialize: the outbox once more, a sweep.    *)
(* After a repair the open goes on without looking at the worktree again.  *)
Return ==
  /\ pc = "cleared"
  /\ dirty \cap DirtyTables = {}
  /\ CASE Recovering(mode)                             -> pc' = "scan" /\ mode' = mode
       [] mode \in {"migrate", "repair"} /\ NeedsMigration -> pc' = "begin" /\ mode' = "migrate"
       [] mode = "migrate" /\ ~NeedsMigration          -> pc' = "scan" /\ mode' = "open"
       [] mode = "repair" /\ ~NeedsMigration           -> pc' = "idle" /\ mode' = "write"
       [] mode = "write"                               -> pc' = "idle" /\ mode' = mode
  /\ pendingSemanticCommit' = IF Recovering(mode) THEN pendingSemanticCommit ELSE FALSE
  /\ answer' = IF Recovering(mode) THEN answer
                                   ELSE [o \in Ops |-> IF \E r \in cur : r.op = o THEN "ok" ELSE answer[o]]
  /\ cur' = {} /\ dirty' = {}
  /\ UNCHANGED <<durable, mutation, todo, effects, faults>>

--------------------------------------------------------------------------------

(* A step throws: an open transaction is rolled back, a failed open closes *)
(* the connection, and any other caller gets the error.                    *)
Throw ==
  /\ faults < MaxFaults
  /\ pc \notin {"closed", "idle"}
  /\ faults' = faults + 1
  /\ IF mode \in {"open", "migrate", "repair"} THEN pc' = "closed" /\ mode' = "open"
                                               ELSE pc' = "idle" /\ mode' = "write"
  /\ answer' = [o \in Ops |-> IF ~Recovering(mode) /\ \E r \in cur : r.op = o
                              THEN "failed" ELSE answer[o]]
  /\ cur' = {} /\ mutation' = {} /\ dirty' = {} /\ todo' = {}
  /\ UNCHANGED <<durable, pendingSemanticCommit, effects>>

(* The process is killed: nobody is answered.                              *)
Crash ==
  /\ faults < MaxFaults
  /\ pc # "closed"
  /\ faults' = faults + 1
  /\ pc' = "closed" /\ mode' = "open"
  /\ staged' \in IndexAfterKill
  /\ cur' = {} /\ mutation' = {} /\ dirty' = {} /\ todo' = {}
  /\ UNCHANGED <<working, head, outbox, log, version, pendingSemanticCommit, effects, answer>>

EngineStep ==
  \/ RecoverRow \/ Recovered \/ SweepDirty \/ SweepMigrate \/ Expose \/ NoOp
  \/ \E o \in Ops, tables, touched \in SUBSET Tables, e, s \in BOOLEAN :
        Mutate(o, tables, touched, e, s)
  \/ SqlCommit \/ ProbeClears \/ ProbeStages
  \/ \E t \in Tables : StageTable(t)
  \/ DoltCommit \/ ClearRow \/ Return

Next == Open \/ Close \/ Call \/ EngineStep \/ Throw \/ Crash

Spec == Init /\ [][Next]_vars

(* A closed catalog is opened again, and synchronous code runs on.         *)
FairSpec == Spec /\ WF_vars(Open) /\ WF_vars(EngineStep)

--------------------------------------------------------------------------------
(* Properties                                                              *)

(* A history entry holds rows of its own operation only: commitOutbox never*)
(* lets a later mutation absorb the uncommitted rows of an earlier one,    *)
(* whatever was killed or thrown between the two commits.                  *)
CommitsOwnRows ==
  \A i \in DOMAIN log : \A c \in log[i].rows : c[1] = log[i].op

(* An operation has at most one history entry, recovered or not.           *)
ExactlyOnce ==
  \A i, j \in DOMAIN log : log[i].op = log[j].op => i = j

(* Entries follow the order in which the SQL transactions committed.       *)
OrderPreserved ==
  \A i, j \in DOMAIN log : \A k, l \in DOMAIN effects :
    i < j /\ log[i].op = effects[k].op /\ log[j].op = effects[l].op => k < l

(* The history tells what was done: each operation once, alone and in order.*)
HistoryIsExact == CommitsOwnRows /\ ExactlyOnce /\ OrderPreserved

(* An exposed catalog that owes no recovery has every SQL-committed effect *)
(* in its history and its worktree, index and outbox clean.                *)
ExposedIsComplete ==
  pc = "idle" /\ ~pendingSemanticCommit =>
    /\ outbox = {} /\ staged \subseteq head /\ working = head
    /\ \A k \in DOMAIN effects : effects[k].commits => effects[k].op \in LoggedOps

(* A write that was answered "ok" is in the history for good, and one whose*)
(* transaction never committed leaves no entry.                            *)
AcknowledgedIsRecorded ==
  /\ \A k \in DOMAIN effects :
       effects[k].commits /\ answer[effects[k].op] = "ok" => effects[k].op \in LoggedOps
  /\ \A i \in DOMAIN log : \E k \in DOMAIN effects : effects[k].op = log[i].op

(* Nothing is owed: neither to who opens the catalog nor to who was told   *)
(* that a write is done.                                                   *)
NothingIsOwed == ExposedIsComplete /\ AcknowledgedIsRecorded

(* However an open came to hand out the catalog (a clean sweep, or a repair*)
(* after which nothing is looked at again), every row in the worktree and  *)
(* in the index belongs to a commit, no operation waits in the outbox and  *)
(* no migration is left: rows that some operation, a migration among them, *)
(* changed in a table it did not declare are repaired or refuse the open.  *)
Opening == mode \in {"open", "migrate", "repair"}
OpenExposesCleanWorktree ==
  [][Opening /\ pc' = "idle" =>
       /\ working' = head' /\ staged' \subseteq head'
       /\ outbox' = {} /\ version' = TargetVersion]_vars

(* Recovery at open finishes: a durable operation left in the outbox of a  *)
(* killed process is cleared by reopening.                                 *)
RecoveryFinishes == pc = "closed" /\ outbox # {} ~> outbox = {}

(* The store implements the abstract history: an operation is unrecorded   *)
(* from its SQL commit to its Dolt commit.                                 *)
UnrecordedRows == {r \in outbox : r.op \notin LoggedOps}
Abstract == INSTANCE SemanticHistory WITH
  history    <- log,
  unrecorded <- {[op |-> r.op, rows |-> working \ head,
                  commits |-> (working \ head) # {} \/ ForcesCommit(r)] : r \in UnrecordedRows}
ImplementsHistory == Abstract!HSpec
================================================================================
