---------------------------------- MODULE Tags ----------------------------------
(* The tags of an artifact (src/tags.ts, src/tag-transfer.ts, src/tag-merge.ts, *)
(* src/tag-queries.ts) in two catalogs, the main one and its fork: manual tags, *)
(* dismissals, and the tags and the snapshot of the last automatic analysis.    *)
(* Each write is atomic: its reads happen inside the chain of its store.        *)
EXTENDS Naturals, FiniteSets, RowMerge

CONSTANTS TagIds,            \* identities: a facet and a canonical key
          TagBytes,          \* contents that the file of the artifact may have
          Analyzers,
          MaxManual, MaxDismissed,  \* MANUAL_TAGS_PER_ARTIFACT_MAX and its peer
          MaxTagWrites, MaxTagClock \* bounds: committed writes, wall clock

ASSUME TagsAssumption ==
  /\ {MaxManual, MaxDismissed, MaxTagWrites, MaxTagClock} \subseteq Nat /\ MaxTagClock > 0
  /\ IsFiniteSet(TagIds)

VARIABLES tagged,     \* [main, fork, base: the rows of the artifact, Unshared before the fork]
          analyses,   \* what each analyzer has read, or Resting
          exported,   \* the last portable copy, or NoCopy
          tagClock, tagWrites

tagVars == <<tagged, analyses, exported, tagClock, tagWrites>>

(* Rows have the time they were written at; 0 is an absent row.                *)
NoSnapshot == [source |-> "none", gen |-> 0, count |-> 0, at |-> 0]
Untagged(b) == [file |-> b, manual |-> [x \in TagIds |-> 0], dismissed |-> [x \in TagIds |-> 0],
                auto |-> [x \in TagIds |-> 0], snap |-> NoSnapshot]
Unshared == [file |-> "unshared"]
Resting  == [side |-> "none"]
NoCopy   == [from |-> "none"]
Present(rows) == {x \in TagIds : rows[x] # 0}
Sides == {s \in {"main", "fork"} : tagged[s] # Unshared}

TagsInit ==
  /\ \E b \in TagBytes : tagged = [main |-> Untagged(b), fork |-> Unshared, base |-> Unshared]
  /\ analyses = [n \in Analyzers |-> Resting]
  /\ exported = NoCopy /\ tagClock = 1 /\ tagWrites = 0

Commit(s, row) ==
  /\ tagWrites < MaxTagWrites
  /\ tagged' = [tagged EXCEPT ![s] = row] /\ tagWrites' = tagWrites + 1
  /\ UNCHANGED tagClock

(* Two commits may happen in one millisecond.                                  *)
TagTick ==
  /\ tagClock < MaxTagClock /\ tagClock' = tagClock + 1
  /\ UNCHANGED <<tagged, analyses, exported, tagWrites>>

--------------------------------------------------------------------------------
(* addManualTags: an explicit add clears the dismissal of the identity.        *)
Stamped(rows, new) ==
  [x \in TagIds |-> IF x \in new /\ rows[x] = 0 THEN tagClock ELSE rows[x]]
Cleared(rows, gone) == [x \in TagIds |-> IF x \in gone THEN 0 ELSE rows[x]]

AddManualTags(s, tags) ==
  LET row == tagged[s]
      news == {x \in tags : row.manual[x] = 0 \/ row.dismissed[x] # 0} IN
  /\ Cardinality(Present(row.manual) \cup tags) <= MaxManual
  /\ news # {}
  /\ Commit(s, [row EXCEPT !.manual = Stamped(row.manual, news),
                           !.dismissed = Cleared(row.dismissed, news)])
  /\ UNCHANGED <<analyses, exported>>

(* removeTag: durable even where no manual row was there.                      *)
RemoveTag(s, x) ==
  LET row == tagged[s] IN
  /\ row.manual[x] # 0 \/ row.dismissed[x] = 0
  /\ row.dismissed[x] # 0 \/ Cardinality(Present(row.dismissed)) < MaxDismissed
  /\ Commit(s, [row EXCEPT !.manual[x] = 0, !.dismissed = Stamped(row.dismissed, {x})])
  /\ UNCHANGED <<analyses, exported>>

RestoreTag(s, x) ==
  /\ tagged[s].dismissed[x] # 0
  /\ Commit(s, [tagged[s] EXCEPT !.dismissed[x] = 0])
  /\ UNCHANGED <<analyses, exported>>

(* The original is replaced: the snapshot of the old bytes becomes stale.      *)
ReplaceOriginal(s, b) ==
  /\ tagged[s].file # b
  /\ Commit(s, [tagged[s] EXCEPT !.file = b])
  /\ UNCHANGED <<analyses, exported>>

--------------------------------------------------------------------------------
(* An analyzer reads the bytes and the generation, and answers later, fenced   *)
(* by the generation or not.                                                   *)
StartAnalysis(n, s, fenced) ==
  /\ analyses[n] = Resting
  /\ analyses' = [analyses EXCEPT ![n] = [side |-> s, fenced |-> fenced, source |-> tagged[s].file,
                                          seen |-> tagged[s].snap, rewound |-> FALSE]]
  /\ UNCHANGED <<tagged, exported, tagClock, tagWrites>>

Analyzed(row, source, tags) ==
  [row EXCEPT !.auto = Stamped(Cleared(row.auto, TagIds), tags),
              !.snap = [source |-> source, gen |-> row.snap.gen + 1, count |-> Cardinality(tags), at |-> tagClock]]
SameAnalysis(row, source, tags) == row.snap.source = source /\ Present(row.auto) = tags

FenceMatches(row, a) == a.fenced => row.snap.gen = a.seen.gen

(* replaceAutomaticTags; the same answer over the same bytes is no commit.     *)
ReplaceAutomatic(n, tags) ==
  LET a == analyses[n] IN
  /\ a # Resting
  /\ analyses' = [analyses EXCEPT ![n] = Resting]
  /\ IF FenceMatches(tagged[a.side], a) /\ ~SameAnalysis(tagged[a.side], a.source, tags)
     THEN Commit(a.side, Analyzed(tagged[a.side], a.source, tags))
     ELSE UNCHANGED <<tagged, tagClock, tagWrites>>        \* STALE_REVISION, or nothing to do
  /\ UNCHANGED exported

--------------------------------------------------------------------------------
(* exportTags: automatic evidence only while it is valid for its source.       *)
Stale(row) == row.snap.gen # 0 /\ row.snap.source # row.file
ExportTags(s) ==
  /\ exported' = [from |-> s, manual |-> Present(tagged[s].manual), dismissed |-> Present(tagged[s].dismissed),
                  auto |-> Present(tagged[s].auto),
                  snap |-> IF Stale(tagged[s]) THEN NoSnapshot ELSE tagged[s].snap]
  /\ UNCHANGED <<tagged, analyses, tagClock, tagWrites>>

(* importTags: tags and dismissals are only added; the evidence replaces the   *)
(* destination's where the destination has the bytes that were analyzed.       *)
Importable(row, copy) ==
  copy.snap # NoSnapshot /\ copy.snap.source = row.file /\ ~SameAnalysis(row, copy.snap.source, copy.auto)
Imported(row, copy) ==
  LET added == [row EXCEPT !.manual = Stamped(row.manual, copy.manual),
                           !.dismissed = Stamped(row.dismissed, copy.dismissed)] IN
  IF Importable(row, copy)
  THEN [added EXCEPT !.auto = Stamped(Cleared(row.auto, TagIds), copy.auto),
                     !.snap = [copy.snap EXCEPT !.gen = row.snap.gen + 1]]
  ELSE added
ImportTags(s) ==
  /\ exported # NoCopy /\ Imported(tagged[s], exported) # tagged[s]
  /\ Cardinality(Present(tagged[s].manual) \cup exported.manual) <= MaxManual
  /\ Cardinality(Present(tagged[s].dismissed) \cup exported.dismissed) <= MaxDismissed
  /\ Commit(s, Imported(tagged[s], exported))
  /\ UNCHANGED <<analyses, exported>>

--------------------------------------------------------------------------------
(* The fork, the integration of its tags, and the restore of the clone point.  *)
ShareTags ==
  /\ tagged.fork = Unshared
  /\ tagged' = [tagged EXCEPT !.fork = tagged.main, !.base = tagged.main]
  /\ UNCHANGED <<analyses, exported, tagClock, tagWrites>>

Bundle(row) == <<row.auto, row.snap>>
MutantCombinesBundles(b, o, t) == FALSE
BundlesClash(b, o, t) == RowClash(Bundle(b), Bundle(o), Bundle(t))
TagsClash(b, o, t) ==
  \/ RowClash(b.file, o.file, t.file) \/ RowClash(b.snap, o.snap, t.snap)
  \/ \E f \in {"manual", "dismissed", "auto"} : TableClashes(b[f], o[f], t[f]) # {}
TagsMerged(b, o, t) ==
  [file |-> RowMerged(b.file, o.file, t.file), snap |-> RowMerged(b.snap, o.snap, t.snap),
   manual |-> TableMerged(b.manual, o.manual, t.manual),
   dismissed |-> TableMerged(b.dismissed, o.dismissed, t.dismissed),
   auto |-> TableMerged(b.auto, o.auto, t.auto)]

(* checkCapacity: on the membership that the merge would leave.                *)
MergeFits(b, o, t, limit) == Cardinality(SetMerged(Present(b), Present(o), Present(t))) <= limit
MergeTags ==
  LET b == tagged.base   o == tagged.main   t == tagged.fork IN
  /\ t # Unshared /\ ~BundlesClash(b, o, t) /\ ~TagsClash(b, o, t)
  /\ MergeFits(b.manual, o.manual, t.manual, MaxManual)
  /\ MergeFits(b.dismissed, o.dismissed, t.dismissed, MaxDismissed)
  /\ TagsMerged(b, o, t) # o
  /\ Commit("main", TagsMerged(b, o, t))
  /\ UNCHANGED <<analyses, exported>>

RestoreTags ==
  /\ tagged.base # Unshared /\ tagged.base # tagged.main
  /\ Commit("main", tagged.base)
  /\ analyses' = [n \in Analyzers |-> IF analyses[n].side = "main"
                                      THEN [analyses[n] EXCEPT !.rewound = TRUE] ELSE analyses[n]]
  /\ UNCHANGED exported

TagsNext ==
  \/ TagTick \/ ShareTags \/ MergeTags \/ RestoreTags
  \/ \E s \in Sides :
       \/ \E tags \in SUBSET TagIds : AddManualTags(s, tags)
       \/ \E x \in TagIds : RemoveTag(s, x) \/ RestoreTag(s, x)
       \/ \E b \in TagBytes : ReplaceOriginal(s, b)
       \/ \E n \in Analyzers, fenced \in BOOLEAN : StartAnalysis(n, s, fenced)
       \/ ExportTags(s) \/ ImportTags(s)
  \/ \E n \in Analyzers, tags \in SUBSET TagIds : ReplaceAutomatic(n, tags)
TagsSpec == TagsInit /\ [][TagsNext]_tagVars

--------------------------------------------------------------------------------
(* What a reader sees: assembleState, and the projection in SQL of the queries.*)
EffectiveTags(row) ==
  Present(row.manual) \cup IF Stale(row) THEN {} ELSE Present(row.auto) \ Present(row.dismissed)
ProjectedTags(row) ==
  Present(row.manual)
    \cup {x \in Present(row.auto) \ Present(row.dismissed) : row.snap.gen # 0 /\ row.snap.source = row.file}

(* Types, and the limits on the rows of one artifact in every catalog.         *)
TagRow == [file : TagBytes, manual : [TagIds -> 0..MaxTagClock], dismissed : [TagIds -> 0..MaxTagClock],
           auto : [TagIds -> 0..MaxTagClock],
           snap : [source : TagBytes \cup {"none"}, gen : 0..MaxTagWrites,
                   count : 0..Cardinality(TagIds), at : 0..MaxTagClock]]
TagsTypeOK ==
  \A s \in Sides : /\ tagged[s] \in TagRow
                   /\ Cardinality(Present(tagged[s].manual)) <= MaxManual
                   /\ Cardinality(Present(tagged[s].dismissed)) <= MaxDismissed

(* docs/engine-layout.md:211: the automatic tags of a catalog are the whole of *)
(* one analysis; a merge never makes one up from two.                          *)
AnalysisIsWhole ==
  \A s \in Sides : tagged[s].snap.count = Cardinality(Present(tagged[s].auto))

(* tags.ts:586: a fenced answer replaces the snapshot its analyzer read, and   *)
(* no other, unless a restore rewound the generations in between.              *)
FencedReplacesSeen ==
  [][\A n \in Analyzers :
       LET a == analyses[n] IN
       a # Resting /\ analyses'[n] = Resting /\ a.fenced /\ ~a.rewound /\ tagged' # tagged =>
         tagged[a.side].snap = a.seen]_tagVars

(* tags.ts:445: a dismissal of main goes only with consent: an explicit add or *)
(* restore, on main or on the fork before it is integrated, or a rewind.       *)
DismissalsNeedConsent ==
  [][\A x \in TagIds :
       tagged.main.dismissed[x] # 0 /\ tagged'.main.dismissed[x] = 0 =>
         \/ RestoreTag("main", x) \/ \E tags \in SUBSET TagIds : x \in tags /\ AddManualTags("main", tags)
         \/ RestoreTags
         \/ MergeTags /\ tagged.base.dismissed[x] # 0 /\ tagged.fork.dismissed[x] = 0]_tagVars

(* tag-queries.ts:45: the tags that queries, candidates and facets count are   *)
(* those that a read reports.                                                  *)
QueriesAgree == \A s \in Sides : ProjectedTags(tagged[s]) = EffectiveTags(tagged[s])

(* Analyses are stored whole and over what they saw, reads and queries agree,  *)
(* and nothing that was dismissed comes back unasked.                          *)
TagsKeepConsent ==
  [](AnalysisIsWhole /\ QueriesAgree) /\ FencedReplacesSeen /\ DismissalsNeedConsent
================================================================================
