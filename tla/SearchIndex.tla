------------------------------ MODULE SearchIndex ------------------------------
(* The temporal search index (src/temporal-search.ts): generations of segment   *)
(* rows per embedding space, batches, coverage, and the retrieval state that    *)
(* one process caches for its queries.  A segment is one position of an         *)
(* artifact; its text and vector are told apart by the content they came from.  *)
EXTENDS Naturals, FiniteSets

CONSTANTS Manifests, SpaceOf,      \* an index manifest and its embedding space
          GenNames, NamedBy,       \* generation names, and the manifests that use each
          Sources, Contents,       \* artifacts with one segment; contents of their file
          Searchers,               \* calls of query and prepare
          MaxIndexWrites           \* bound on committed writes

ASSUME SearchAssumption == /\ NamedBy \in [GenNames -> SUBSET Manifests]
                           /\ DOMAIN SpaceOf = Manifests /\ MaxIndexWrites \in Nat
                           /\ "none" \notin Manifests /\ "gone" \notin Contents

VARIABLES manifests,   \* registered manifests
          gens,        \* [space, name -> manifest and state]
          rows,        \* [name, artifact -> the segment row, its text and its vector]
          coverage, batches,  \* by <<manifest, name, artifact, content>>
          media,       \* [artifact -> content of its file, or "gone"]
          retrieval,   \* the cached retrieval state, or NoState
          searches,    \* calls that await a provider or an index
          indexWrites

searchVars == <<manifests, gens, rows, coverage, batches, media, retrieval, searches, indexWrites>>

Spaces == {SpaceOf[m] : m \in Manifests}
Unbuilt == [manifest |-> "none", state |-> "none"]
NoRow == [manifest |-> "none", object |-> "none", read |-> "none", space |-> "none"]
NoState == [key |-> {<<"none", "none", "none">>}]
NotSearching == [kind |-> "none"]
Units == GenNames \X Sources
BatchKeys == {b \in Manifests \X GenNames \X Sources \X Contents : b[1] \in NamedBy[b[2]]}

SearchInit ==
  /\ manifests = {} /\ gens = [k \in Spaces \X GenNames |-> Unbuilt]
  /\ rows = [u \in Units |-> NoRow]
  /\ coverage = [k \in BatchKeys |-> "none"] /\ batches = {}
  /\ media \in [Sources -> Contents]
  /\ retrieval = NoState /\ searches = [c \in Searchers |-> NotSearching] /\ indexWrites = 0

Stored == /\ indexWrites < MaxIndexWrites /\ indexWrites' = indexWrites + 1
Active == {k \in DOMAIN gens : gens[k].state = "active"}
ActiveKey == {<<k[1], k[2], gens[k].manifest>> : k \in Active}
NamesOf(key) == {k[2] : k \in key}

--------------------------------------------------------------------------------
RegisterManifest(m) ==
  /\ m \notin manifests /\ manifests' = manifests \cup {m} /\ Stored
  /\ UNCHANGED <<gens, rows, coverage, batches, media, retrieval, searches>>

(* The upsert keeps the manifest and the object of the row it meets; texts and *)
(* vectors are replaced.                                                       *)
Upserted(row, m, o) ==
  IF row = NoRow THEN [manifest |-> m, object |-> o, read |-> o, space |-> SpaceOf[m]]
                 ELSE [row EXCEPT !.read = o, !.space = SpaceOf[m]]
MutantForgetsPending(g, a) == retrieval
Noted(g, a) ==
  IF retrieval # NoState /\ g \in NamesOf(retrieval.key)
  THEN [retrieval EXCEPT !.pending = @ \cup {<<g, a>>}] ELSE retrieval

(* commitIndexBatch; a batch that was committed before is answered and no more.*)
CommitBatch(m, g, a, complete) ==
  LET o == media[a]   k == <<SpaceOf[m], g>> IN
  /\ m \in manifests /\ m \in NamedBy[g] /\ o # "gone"
  /\ <<m, g, a, o>> \notin batches
  /\ gens[k] = Unbuilt \/ gens[k].manifest = m
  /\ gens' = IF gens[k] = Unbuilt THEN [gens EXCEPT ![k] = [manifest |-> m, state |-> "building"]] ELSE gens
  /\ rows' = [rows EXCEPT ![<<g, a>>] = Upserted(@, m, o)]
  /\ coverage' = [coverage EXCEPT ![<<m, g, a, o>>] = IF complete THEN "ready" ELSE "partial"]
  /\ batches' = batches \cup {<<m, g, a, o>>}
  /\ retrieval' = Noted(g, a)
  /\ Stored /\ UNCHANGED <<manifests, media, searches>>

Superseded(m, g) == {k \in Active : k[1] = SpaceOf[m] /\ k[2] # g}

Activate(m, g) ==
  LET k == <<SpaceOf[m], g>> IN
  /\ gens[k].manifest = m
  /\ \E b \in BatchKeys : b[1] = m /\ b[2] = g /\ coverage[b] \in {"ready", "partial"}
  /\ gens' = [h \in DOMAIN gens |->
                IF h = k THEN [gens[h] EXCEPT !.state = "active"]
                ELSE IF h \in Superseded(m, g) THEN [gens[h] EXCEPT !.state = "retired"] ELSE gens[h]]
  /\ gens' # gens
  /\ Stored /\ UNCHANGED <<manifests, rows, coverage, batches, media, retrieval, searches>>

Invalidate(a) ==
  /\ coverage' = [k \in BatchKeys |-> IF k[3] = a /\ coverage[k] # "none" THEN "stale" ELSE coverage[k]]
  /\ coverage' # coverage
  /\ Stored /\ UNCHANGED <<manifests, gens, rows, batches, media, retrieval, searches>>

(* cleanupRetired sweeps by the names of retired generations.                  *)
RetiredNames == {k[2] : k \in {h \in DOMAIN gens : gens[h].state = "retired"}}
BatchesLeft(names) == {b \in batches : b[2] \notin names}
CleanupRetired ==
  /\ RetiredNames # {}
  /\ gens' = [k \in DOMAIN gens |-> IF k[2] \in RetiredNames THEN Unbuilt ELSE gens[k]]
  /\ rows' = [u \in Units |-> IF u[1] \in RetiredNames THEN NoRow ELSE rows[u]]
  /\ coverage' = [k \in BatchKeys |-> IF k[2] \in RetiredNames THEN "none" ELSE coverage[k]]
  /\ batches' = BatchesLeft(RetiredNames)
  /\ Stored /\ UNCHANGED <<manifests, media, retrieval, searches>>

--------------------------------------------------------------------------------
(* Semantic writes: the file of an artifact is replaced, or the artifact goes  *)
(* with its rows; the cached metadata is outdated from then on.                *)
Outdated == IF retrieval = NoState THEN NoState ELSE [retrieval EXCEPT !.fresh = FALSE]

ReplaceMedia(a, o) ==
  /\ media[a] \notin {o, "gone"} /\ media' = [media EXCEPT ![a] = o]
  /\ retrieval' = Outdated
  /\ Stored /\ UNCHANGED <<manifests, gens, rows, coverage, batches, searches>>

DeleteMedia(a) ==
  /\ media[a] # "gone" /\ media' = [media EXCEPT ![a] = "gone"]
  /\ rows' = [u \in Units |-> IF u[2] = a THEN NoRow ELSE rows[u]]
  /\ coverage' = [k \in BatchKeys |-> IF k[3] = a THEN "none" ELSE coverage[k]]
  /\ batches' = {b \in batches : b[3] # a}
  /\ retrieval' = Outdated
  /\ Stored /\ UNCHANGED <<manifests, gens, searches>>

--------------------------------------------------------------------------------
(* retrievalState: rebuilt for another set of active generations, refreshed    *)
(* after a semantic write, and brought up to date with the pending segments.   *)
SegmentsOf(names) == {u \in Units : u[1] \in names /\ rows[u] # NoRow}
TextsOf(units) == {<<u[1], u[2], rows[u].read>> : u \in {v \in units : rows[v] # NoRow}}
VectorsOf(k, units) ==
  {<<u[1], u[2], rows[u].read>> : u \in {v \in units : v[1] = k[2] /\ rows[v] # NoRow /\ rows[v].space = k[1]}}
NoTexts == {<<"none", "none", "none">>}
NoIndex == {<<"none", "none", "none">>}
In(units, entries) == {e \in entries : <<e[1], e[2]>> \in units}

Rebuilt(c) ==
  LET segs == SegmentsOf(NamesOf(ActiveKey)) IN
  [key |-> ActiveKey, segs |-> segs, texts |-> NoTexts, fresh |-> TRUE,
   pending |-> IF c = NoState THEN {} ELSE c.pending,
   vectors |-> [k \in DOMAIN gens |-> IF c = NoState \/ k \notin Active THEN NoIndex
                                      ELSE IF c.vectors[k] = NoIndex THEN NoIndex ELSE In(segs, c.vectors[k])]]

Refreshed(c) ==
  LET segs == SegmentsOf(NamesOf(c.key)) IN
  [c EXCEPT !.segs = segs, !.texts = NoTexts, !.fresh = TRUE,
            !.vectors = [k \in DOMAIN gens |-> IF c.vectors[k] = NoIndex \/ In(segs, c.vectors[k]) = {}
                                               THEN NoIndex ELSE In(segs, c.vectors[k])]]

Drained(c) ==
  LET segs == (c.segs \ c.pending) \cup (SegmentsOf(NamesOf(c.key)) \cap c.pending)
      kept(entries) == {e \in entries : <<e[1], e[2]>> \notin c.pending} IN
  [c EXCEPT !.segs = segs, !.pending = {},
            !.texts = IF @ = NoTexts THEN NoTexts ELSE kept(@) \cup TextsOf(c.pending),
            !.vectors = [k \in DOMAIN gens |-> IF c.vectors[k] = NoIndex THEN NoIndex
                                               ELSE kept(c.vectors[k]) \cup VectorsOf(k, c.pending \cap segs)]]

Rekeyed(c) == IF c = NoState THEN Rebuilt(c) ELSE IF c.key # ActiveKey THEN Rebuilt(c) ELSE c
Retrieved(metadata) ==
  LET c == Rekeyed(retrieval)
      d == IF metadata /\ ~c.fresh THEN Refreshed(c) ELSE c IN
  IF d.pending = {} THEN d ELSE Drained(d)

(* A prepare holds the state object it began with: once that is replaced, the  *)
(* call still reads the segments it had.                                       *)
Detached(c) ==
  [s \in Searchers |-> IF searches[s].kind = "prepare" /\ searches[s].held = "cached" /\ c.key # retrieval.key
                       THEN [searches[s] EXCEPT !.held = retrieval.segs] ELSE searches[s]]

(* vectorIndex: built once from the rows whose segments the state has.         *)
WithIndexes(c, ks, segs) ==
  [c EXCEPT !.vectors = [k \in DOMAIN gens |-> IF k \in ks /\ c.vectors[k] = NoIndex
                                               THEN VectorsOf(k, segs) ELSE c.vectors[k]]]
WithTexts(c) == [c EXCEPT !.texts = IF @ = NoTexts THEN TextsOf(SegmentsOf(NamesOf(c.key))) ELSE @]

(* queryTemporalIndex: the candidates and the lexical signals, then the answer *)
(* of the provider, then the vectors of the generations seen at the start.     *)
StartQuery(s) ==
  /\ searches[s] = NotSearching /\ Active # {}
  /\ LET c == WithTexts(Retrieved(TRUE)) IN
       /\ retrieval' = c
       /\ searches' = [Detached(c) EXCEPT ![s] = [kind |-> "query", gens |-> Active]]
  /\ UNCHANGED <<manifests, gens, rows, coverage, batches, media, indexWrites>>

FinishQuery(s) ==
  /\ searches[s].kind = "query"
  /\ LET c == Retrieved(TRUE) IN
       /\ retrieval' = WithIndexes(c, searches[s].gens, c.segs)
       /\ searches' = [Detached(c) EXCEPT ![s] = NotSearching]
  /\ UNCHANGED <<manifests, gens, rows, coverage, batches, media, indexWrites>>

(* prepareTemporalIndexes, over the generations that were active.              *)
StartPrepare(s) ==
  /\ searches[s] = NotSearching /\ Active # {}
  /\ LET c == Retrieved(FALSE) IN
       /\ retrieval' = c
       /\ searches' = [Detached(c) EXCEPT ![s] = [kind |-> "prepare", todo |-> Active, held |-> "cached"]]
  /\ UNCHANGED <<manifests, gens, rows, coverage, batches, media, indexWrites>>

PrepareNext(s, k) ==
  /\ searches[s].kind = "prepare" /\ k \in searches[s].todo
  /\ LET call == searches[s]   left == call.todo \ {k} IN
       /\ retrieval' = WithIndexes(retrieval, {k}, IF call.held = "cached" THEN retrieval.segs ELSE call.held)
       /\ searches' = [searches EXCEPT ![s] = IF left = {} THEN NotSearching ELSE [call EXCEPT !.todo = left]]
  /\ UNCHANGED <<manifests, gens, rows, coverage, batches, media, indexWrites>>

SearchNext ==
  \/ \E m \in Manifests : RegisterManifest(m)
  \/ \E m \in Manifests, g \in GenNames :
       \/ Activate(m, g)
       \/ \E a \in Sources, complete \in BOOLEAN : CommitBatch(m, g, a, complete)
  \/ \E a \in Sources : Invalidate(a) \/ DeleteMedia(a) \/ \E o \in Contents : ReplaceMedia(a, o)
  \/ CleanupRetired
  \/ \E s \in Searchers : \/ StartQuery(s) \/ FinishQuery(s) \/ StartPrepare(s)
                          \/ \E k \in DOMAIN gens : PrepareNext(s, k)
SearchSpec == SearchInit /\ [][SearchNext]_searchVars

--------------------------------------------------------------------------------
(* Types, and schema.ts:968: one active generation per embedding space.        *)
SearchTypeOK ==
  /\ gens \in [Spaces \X GenNames -> [manifest : Manifests \cup {"none"},
                                      state : {"none", "building", "active", "retired"}]]
  /\ rows \in [Units -> {NoRow} \cup [manifest : Manifests, object : Contents, read : Contents, space : Spaces]]
  /\ \A k, h \in Active : k[1] = h[1] => k = h

(* temporal-search.ts:442: the record that answers a repeated batch stands for *)
(* a segment that is there; otherwise the segment could never be written again.*)
BatchesAreStored == \A b \in batches : rows[<<b[2], b[3]>>] # NoRow

(* temporal-search.ts:556: what queries read from the cache, once it is brought*)
(* up to date, has every segment of the active generations, with its text of   *)
(* now, and nothing of an artifact that is gone.                               *)
MetadataComplete ==
  LET c == Retrieved(TRUE)   now == SegmentsOf(NamesOf(ActiveKey)) IN
  /\ now \subseteq c.segs
  /\ c.texts # NoTexts => In(now, c.texts) = TextsOf(now)
  /\ \A u \in c.segs : media[u[2]] # "gone"

(* temporal-search.ts:871: an active generation ends only as another one of    *)
(* its own space is activated (mvp-prd.md:615).                                *)
ActiveStays ==
  [][\A k \in Active :
       gens'[k].state # "active" => \E m \in Manifests, g \in GenNames : SpaceOf[m] = k[1] /\ Activate(m, g)]_searchVars

(* What queries find of the active generations is what was committed to them.  *)
SearchIsCurrent == [](BatchesAreStored /\ MetadataComplete) /\ ActiveStays

(* docs/temporal-search-performance.md:103: generation changes discard the     *)
(* in-memory state, so that the vectors a query would search are all those of  *)
(* the active generation.                                                      *)
VectorsComplete ==
  LET c == Retrieved(TRUE) IN
  \A k \in Active : c.vectors[k] # NoIndex => c.vectors[k] = VectorsOf(k, c.segs)
================================================================================
