-------------------------------- MODULE ForkMerge -------------------------------
(* Forks and merge-back (src/fork.ts, src/merge-policy.ts): a fork is cloned   *)
(* from the upstream catalog and publishes its commits; mergeBack copies the   *)
(* closed upstream catalog, merges the fork's rows into the copy against the   *)
(* clone point, uploads the fork's objects and pushes one integration commit.  *)
(* A commit of the fork stands for the commit and its backup.                  *)
EXTENDS Naturals, FiniteSets, RowMerge

CONSTANTS FkObjects, FkArtifacts, FkClips,
          FkTranscripts,  \* IDs of transcripts of one source
          MaxStamps       \* bound: commits, which are also the clock

ASSUME FkAssumption ==
  FkTranscripts \subseteq Nat /\ MaxStamps \in Nat /\ "gone" \notin FkObjects \cup FkArtifacts

VARIABLES up,         \* the upstream catalog: [rev, past, cat]
          main,       \* main on the upstream remote: the same
          store,      \* hashes in the upstream object store
          base,       \* the catalog the fork was cloned from, or Unforked
          fork,       \* the fork's catalog, or Unforked
          forkStore,  \* hashes in the fork's object store
          merge,      \* the merge-back under way, or NoMerge
          kept,       \* the workspace of the last integration: [rev, past, cat, theirs]
          stamp       \* commits so far

fkVars == <<up, main, store, base, fork, forkStore, merge, kept, stamp>>

(* Rows: an object is live (0) or forgotten at a time, and was born in one     *)
(* moment or another, which two lineages may share; an artifact names an       *)
(* object, a clip an artifact, a transcript has its state and creation time.   *)
Moments    == {1, 2}
GoneObject == MaxStamps + 1
GoneRow    == "gone"
GoneTranscript == [state |-> "gone", at |-> 0]
Unforked == [objects |-> "unforked"]
NoMerge  == [phase |-> "none"]
Empty == [objects |-> [x \in FkObjects |-> GoneObject], born |-> [x \in FkObjects |-> 0],
          artifacts |-> [a \in FkArtifacts |-> GoneRow],
          clips |-> [k \in FkClips |-> GoneRow],
          transcripts |-> [t \in FkTranscripts |-> GoneTranscript]]
Catalogs == [objects : [FkObjects -> 0..GoneObject], born : [FkObjects -> {0} \cup Moments],
             artifacts : [FkArtifacts -> FkObjects \cup {GoneRow}],
             clips : [FkClips -> FkArtifacts \cup {GoneRow}],
             transcripts : [FkTranscripts -> [state : {"gone", "current", "derived"}, at : 0..MaxStamps]]]
Revision(r, p, c) == [rev |-> r, past |-> p, cat |-> c]
FkInit ==
  /\ up = Revision(0, {0}, Empty) /\ main = up
  /\ store = {} /\ forkStore = {} /\ base = Unforked /\ fork = Unforked
  /\ merge = NoMerge /\ kept = NoMerge /\ stamp = 0

Live(c) == {x \in FkObjects : c.objects[x] = 0}
ForgottenIn(c) == {x \in FkObjects : c.objects[x] \notin {0, GoneObject}}
Current(c) == {t \in FkTranscripts : c.transcripts[t].state = "current"}

--------------------------------------------------------------------------------
(* What the calls of an engine do to its catalog: writing a file links its     *)
(* object (and revives a forgotten one), a takedown forgets it, an artifact    *)
(* that a clip shows is not deleted, a new transcript is the current one.      *)
Linked(c, a, x, m) ==
  [c EXCEPT !.artifacts[a] = x, !.objects[x] = 0,
            !.born[x] = IF c.objects[x] = GoneObject THEN m ELSE @]
Shown(c, k, a)    == [c EXCEPT !.clips[k] = a]
Dropped(c, a)     == [c EXCEPT !.artifacts[a] = GoneRow]
Forgotten(c, x, n) == [c EXCEPT !.objects[x] = n]
Transcribed(c, t, n) ==
  [c EXCEPT !.transcripts =
     [u \in FkTranscripts |-> IF u = t THEN [state |-> "current", at |-> n]
                              ELSE IF c.transcripts[u].state = "current"
                                   THEN [c.transcripts[u] EXCEPT !.state = "derived"]
                                   ELSE c.transcripts[u]]]
Changes(c, n) ==
  {Linked(c, a, x, m) : a \in FkArtifacts, x \in FkObjects, m \in Moments}
    \cup {Shown(c, k, a) : k \in FkClips, a \in {b \in FkArtifacts : c.artifacts[b] # GoneRow}}
    \cup {Dropped(c, a) : a \in {b \in FkArtifacts : \A k \in FkClips : c.clips[k] # b}}
    \cup {Forgotten(c, x, n) : x \in Live(c)}
    \cup {Transcribed(c, t, n) : t \in {u \in FkTranscripts : c.transcripts[u] = GoneTranscript}}
Ticks == stamp < MaxStamps /\ stamp' = stamp + 1

UpstreamCommits ==
  /\ Ticks
  /\ \E c \in Changes(up.cat, stamp') \ {up.cat} :
       /\ up' = Revision(stamp', up.past \cup {stamp'}, c)
       /\ store' = store \ (Live(up.cat) \ Live(c))       \* a takedown removes the bytes
  /\ UNCHANGED <<main, base, fork, forkStore, merge, kept>>

(* engine.storage.backup: objects, then the push of the catalog.               *)
UpstreamBackup ==
  /\ main.rev \in up.past
  /\ main' = up /\ store' = store \cup Live(up.cat)
  /\ UNCHANGED <<up, base, fork, forkStore, merge, kept, stamp>>

BootstrapFork ==
  /\ fork = Unforked
  /\ base' = up.cat /\ fork' = up.cat /\ forkStore' = store
  /\ UNCHANGED <<up, main, store, merge, kept, stamp>>

ForkCommits ==
  /\ fork # Unforked /\ Ticks
  /\ \E c \in Changes(fork, stamp') \ {fork} :
       /\ fork' = c
       /\ forkStore' = (forkStore \ (Live(fork) \ Live(c))) \cup (Live(c) \ Live(fork))
  /\ UNCHANGED <<up, main, store, base, merge, kept>>

--------------------------------------------------------------------------------
(* Object rows that differ merge if they differ in nothing but when they were  *)
(* forgotten: forgotten on either side wins, at the earlier of two times.      *)
ObjectRow(c, x)   == [born |-> c.born[x], at |-> c.objects[x]]
LesserStamp(m, n) == IF m < n THEN m ELSE n
MutantLiveWins(o, t) == IF 0 \in {o, t} THEN 0 ELSE LesserStamp(o, t)
ForgetMerged(o, t) == IF o = 0 THEN t ELSE IF t = 0 THEN o ELSE LesserStamp(o, t)
ObjectClash(b, o, t) ==
  RowClash(b, o, t) /\ (o.born # t.born \/ GoneObject \in {o.at, t.at})
ObjectMerged(b, o, t) ==
  IF RowClash(b, o, t) THEN [o EXCEPT !.at = ForgetMerged(o.at, t.at)] ELSE RowMerged(b, o, t)

(* mergeRefs: the merged rows, and whether any row clashes.                    *)
Clash(b, o, t) ==
  \/ \E x \in FkObjects : ObjectClash(ObjectRow(b, x), ObjectRow(o, x), ObjectRow(t, x))
  \/ TableClashes(b.artifacts, o.artifacts, t.artifacts) # {}
  \/ TableClashes(b.clips, o.clips, t.clips) # {}
  \/ TableClashes(b.transcripts, o.transcripts, t.transcripts) # {}
Combined(b, o, t) ==
  LET row(x) == ObjectMerged(ObjectRow(b, x), ObjectRow(o, x), ObjectRow(t, x)) IN
  [objects     |-> [x \in FkObjects |-> row(x).at],
   born        |-> [x \in FkObjects |-> row(x).born],
   artifacts   |-> TableMerged(b.artifacts, o.artifacts, t.artifacts),
   clips       |-> TableMerged(b.clips, o.clips, t.clips),
   transcripts |-> TableMerged(b.transcripts, o.transcripts, t.transcripts)]

(* reconcileSingletonFlags: one current transcript, the latest.                *)
Winner(c, t) ==
  \A u \in Current(c) \ {t} : c.transcripts[t].at > c.transcripts[u].at
    \/ (c.transcripts[t].at = c.transcripts[u].at /\ t < u)
Reconciled(c) ==
  [c EXCEPT !.transcripts =
     [t \in FkTranscripts |-> IF t \in Current(c) /\ ~Winner(c, t)
                              THEN [c.transcripts[t] EXCEPT !.state = "derived"]
                              ELSE c.transcripts[t]]]

(* verifyConstraintHealth: references hold and singletons are single.          *)
Healthy(c) ==
  /\ \A a \in FkArtifacts : c.artifacts[a] # GoneRow => c.objects[c.artifacts[a]] # GoneObject
  /\ \A k \in FkClips : c.clips[k] # GoneRow => c.artifacts[c.clips[k]] # GoneRow
  /\ Cardinality(Current(c)) <= 1
Integrable(b, o, t) == ~Clash(b, o, t) /\ Healthy(Reconciled(Combined(b, o, t)))
Changed(b, o, t)    == Combined(b, o, t) # o

(* objectsAddedByFork: live on the fork, without a row on main.                *)
Added(o, t) == {x \in Live(t) : o.objects[x] = GoneObject}

(* mergeBack: the closed catalog is copied, the fork fetched and its rows      *)
(* merged into the copy; nothing is committed when they change nothing.        *)
StartMerge ==
  /\ fork # Unforked /\ merge = NoMerge
  /\ Integrable(base, up.cat, fork)
  /\ IF Changed(base, up.cat, fork)
     THEN /\ Ticks
          /\ merge' = [phase |-> "upload", todo |-> Added(up.cat, fork), ours |-> up, theirs |-> fork,
                       result |-> Revision(stamp', up.past \cup {stamp'},
                                           Reconciled(Combined(base, up.cat, fork)))]
     ELSE /\ merge' = [phase |-> "upload", todo |-> Added(up.cat, fork), ours |-> up, theirs |-> fork,
                       result |-> up]
          /\ UNCHANGED stamp
  /\ UNCHANGED <<up, main, store, base, fork, forkStore, kept>>

UploadOne ==
  /\ merge.phase = "upload"
  /\ \E x \in merge.todo \cap forkStore :
       /\ store' = store \cup {x}
       /\ merge' = [merge EXCEPT !.todo = @ \ {x}]
  /\ UNCHANGED <<up, main, base, fork, forkStore, kept, stamp>>

(* The push is refused as DIVERGED when upstream has moved.                    *)
Uploaded == merge.phase = "upload" /\ merge.todo = {}
PushMerge ==
  /\ Uploaded /\ main.rev \in merge.result.past
  /\ main' = merge.result
  /\ kept' = [rev |-> merge.result.rev, result |-> merge.result, theirs |-> merge.theirs]
  /\ merge' = NoMerge
  /\ UNCHANGED <<up, store, base, fork, forkStore, stamp>>

(* The flow fails or its process ends: the workspace is thrown away.           *)
AbandonMerge ==
  /\ merge # NoMerge /\ merge' = NoMerge
  /\ UNCHANGED <<up, main, store, base, fork, forkStore, kept, stamp>>

(* Upstream goes on from the integrated catalog, if it has not moved.          *)
AdoptMerge ==
  /\ kept # NoMerge /\ up.rev \in kept.result.past /\ up # kept.result
  /\ up' = kept.result
  /\ UNCHANGED <<main, store, base, fork, forkStore, merge, kept, stamp>>

FkNext == UpstreamCommits \/ UpstreamBackup \/ BootstrapFork \/ ForkCommits \/ StartMerge
            \/ UploadOne \/ PushMerge \/ AbandonMerge \/ AdoptMerge
FkSpec == FkInit /\ [][FkNext]_fkVars

--------------------------------------------------------------------------------
(* Types, and the constraints of the schema on every catalog.                  *)
FkTypeOK ==
  /\ \A c \in {up.cat, main.cat} : c \in Catalogs /\ Healthy(c)
  /\ fork # Unforked => fork \in Catalogs /\ Healthy(fork)
  /\ main.rev \in main.past /\ up.rev \in up.past /\ store \subseteq FkObjects

(* docs/engine-layout.md:349: deleted bytes stay deleted on both lineages: an  *)
(* object that was forgotten on either side since they parted, or written and  *)
(* forgotten there, is not live on main after an integration.                  *)
ForgetWins ==
  [][main' # main /\ merge # NoMerge /\ merge' = NoMerge =>
       \A x \in (ForgottenIn(merge.ours.cat) \cup ForgottenIn(merge.theirs)) \ ForgottenIn(base) :
         x \notin Live(main'.cat)]_fkVars

(* fork.ts:745: objects move before the catalog does: an object that main has  *)
(* by an integration, and that upstream has no row of, is in its store.        *)
AddedIsServable ==
  [][main' # main /\ merge # NoMerge /\ merge' = NoMerge =>
       \A x \in Live(main'.cat) :
         up.cat.objects[x] = GoneObject => x \in store']_fkVars

(* docs/engine-layout.md:338: two transcripts crowned apart leave one current  *)
(* transcript, the latest of both sides.                                       *)
LatestIsCurrent ==
  [][main' # main /\ merge # NoMerge /\ merge' = NoMerge =>
       \A t \in Current(main'.cat), u \in Current(merge.ours.cat) \cup Current(merge.theirs) :
         main'.cat.transcripts[u].at <= main'.cat.transcripts[t].at]_fkVars

(* What an integration may rely on: bytes stay deleted, objects precede their  *)
(* catalog, and one transcript is current.                                     *)
MergesKeepPromises == ForgetWins /\ AddedIsServable /\ LatestIsCurrent

(* docs/engine-layout.md:418: running the flow again, over the integrated      *)
(* catalog and the same fork, is a no-op.                                      *)
RerunIsNoOp ==
  kept # NoMerge /\ up = kept.result /\ fork = kept.theirs =>
    Integrable(base, up.cat, fork) /\ ~Changed(base, up.cat, fork)

(* fork.ts:745: the catalog never points at objects upstream cannot serve.     *)
MainIsServable == \A x \in Live(main.cat) : x \in store
================================================================================
