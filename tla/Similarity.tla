------------------------------- MODULE Similarity -------------------------------
(* The similarity index (src/similarity.ts): one embedding row per artifact and *)
(* the nearest-neighbour index of each kind that one process caches.  A vector  *)
(* is told apart by the bytes it was made from.  Indexing reads the source and  *)
(* the row, awaits the text or the model, and writes.                           *)
EXTENDS Naturals, FiniteSets

CONSTANTS Media, Documents,   \* artifacts by what is embedded of them
          Originals,          \* bytes of an original file
          Indexers,           \* calls of index
          MaxEmbedIds, MaxOriginals   \* bounds: row ids given, replaced files

ASSUME SimilarityAssumption == {MaxEmbedIds, MaxOriginals} \subseteq Nat

VARIABLES originals,   \* [artifact -> bytes of its original, or "gone"]
          embedded,    \* [artifact -> its row, or NotEmbedded]
          embedId,     \* AUTOINCREMENT: ids are not used again
          neighbours,  \* [kind -> cached index: <<id, vector>> pairs, or NotCached]
          indexing,    \* calls of index
          replaced

similarityVars == <<originals, embedded, embedId, neighbours, indexing, replaced>>

Items == Media \cup Documents
KindOf(i) == IF i \in Media THEN "media" ELSE "text"
NotEmbedded == [id |-> 0, entry |-> 0, object |-> "none", vector |-> "none"]
NotCached == {<<0, "none">>}
NotIndexing == [phase |-> "none"]

SimilarityInit ==
  /\ originals \in [Items -> Originals]
  /\ embedded = [i \in Items |-> NotEmbedded] /\ embedId = 0
  /\ neighbours = [k \in {"media", "text"} |-> NotCached]
  /\ indexing = [c \in Indexers |-> NotIndexing] /\ replaced = 0

--------------------------------------------------------------------------------
(* addToCachedIndex for media; the index of the texts is dropped at each write.*)
MutantKeepsIndex(kind, row) == neighbours[kind]
Recached(kind, row) ==
  IF neighbours[kind] = NotCached \/ kind = "text" THEN NotCached
  ELSE {e \in neighbours[kind] : e[1] # row.entry} \cup {<<row.entry, row.vector>>}

(* The row that a write leaves: an update of the row that was read, or a new   *)
(* one. The chunks of a text have new ids each time.                           *)
WrittenObject(call) == call.source
RowFor(call, vector) ==
  [id |-> IF call.row = 0 THEN embedId + 1 ELSE call.row,
   entry |-> IF call.row = 0 \/ KindOf(call.item) = "text" THEN embedId + 1 ELSE call.row,
   object |-> WrittenObject(call), vector |-> vector]

(* The update of a row that is gone and a second insert are errors.            *)
WriteEmbedding(call, vector) ==
  LET i == call.item   row == RowFor(call, vector) IN
  IF embedded[i].id = call.row
  THEN /\ embedId < MaxEmbedIds
       /\ embedded' = [embedded EXCEPT ![i] = row]
       /\ embedId' = IF row.entry > embedId THEN row.entry ELSE embedId
       /\ neighbours' = [neighbours EXCEPT ![KindOf(i)] = Recached(KindOf(i), row)]
  ELSE /\ neighbours' = IF KindOf(i) = "text" THEN [neighbours EXCEPT !["text"] = NotCached] ELSE neighbours
       /\ UNCHANGED <<embedded, embedId>>

(* indexMedia, and indexText once it has the text: the row is there already,   *)
(* or another row has the vector, or the model is asked.                       *)
Reusable(call) == ~call.force /\ \E j \in Items : KindOf(j) = KindOf(call.item) /\ embedded[j].object = call.source
Continue(c, call) ==
  IF call.row # 0 /\ embedded[call.item].object = call.source /\ ~call.force
  THEN /\ neighbours' = IF KindOf(call.item) = "media"
                        THEN [neighbours EXCEPT !["media"] = Recached("media", embedded[call.item])] ELSE neighbours
       /\ indexing' = [indexing EXCEPT ![c] = NotIndexing] /\ UNCHANGED <<embedded, embedId>>
  ELSE IF Reusable(call)
  THEN /\ WriteEmbedding(call, call.source)
       /\ indexing' = [indexing EXCEPT ![c] = NotIndexing]
  ELSE /\ indexing' = [indexing EXCEPT ![c] = [call EXCEPT !.phase = "embed"]]
       /\ UNCHANGED <<embedded, embedId, neighbours>>

StartIndex(c, i, force) ==
  LET call == [phase |-> "read", item |-> i, source |-> originals[i], row |-> embedded[i].id, force |-> force] IN
  /\ indexing[c] = NotIndexing /\ originals[i] # "gone"
  /\ IF KindOf(i) = "media" THEN Continue(c, call)
     ELSE indexing' = [indexing EXCEPT ![c] = call] /\ UNCHANGED <<embedded, embedId, neighbours>>
  /\ UNCHANGED <<originals, replaced>>

TextIsRead(c) ==
  /\ indexing[c].phase = "read"
  /\ Continue(c, [indexing[c] EXCEPT !.row = embedded[indexing[c].item].id])
  /\ UNCHANGED <<originals, replaced>>

ModelAnswers(c) ==
  /\ indexing[c].phase = "embed"
  /\ WriteEmbedding(indexing[c], indexing[c].source)
  /\ indexing' = [indexing EXCEPT ![c] = NotIndexing]
  /\ UNCHANGED <<originals, replaced>>

IndexingFails(c) ==
  /\ indexing[c] # NotIndexing /\ indexing' = [indexing EXCEPT ![c] = NotIndexing]
  /\ UNCHANGED <<originals, embedded, embedId, neighbours, replaced>>

--------------------------------------------------------------------------------
(* indexFor, textIndexFor: built by the first search from the rows of          *)
(* artifacts that are there.                                                   *)
Listed(kind) == {i \in Items : KindOf(i) = kind /\ originals[i] # "gone" /\ embedded[i] # NotEmbedded}
BuildNeighbours(kind) ==
  /\ neighbours[kind] = NotCached /\ Listed(kind) # {}
  /\ neighbours' = [neighbours EXCEPT ![kind] = {<<embedded[i].entry, embedded[i].vector>> : i \in Listed(kind)}]
  /\ UNCHANGED <<originals, embedded, embedId, indexing, replaced>>

ReplaceOriginalOf(i, o) ==
  /\ originals[i] \notin {o, "gone"} /\ replaced < MaxOriginals
  /\ originals' = [originals EXCEPT ![i] = o] /\ replaced' = replaced + 1
  /\ UNCHANGED <<embedded, embedId, neighbours, indexing>>

DeleteItem(i) ==
  /\ originals[i] # "gone" /\ originals' = [originals EXCEPT ![i] = "gone"]
  /\ embedded' = [embedded EXCEPT ![i] = NotEmbedded]
  /\ UNCHANGED <<embedId, neighbours, indexing, replaced>>

SimilarityNext ==
  \/ \E c \in Indexers : \/ TextIsRead(c) \/ ModelAnswers(c) \/ IndexingFails(c)
                         \/ \E i \in Items, force \in BOOLEAN : StartIndex(c, i, force)
  \/ \E kind \in {"media", "text"} : BuildNeighbours(kind)
  \/ \E i \in Items : DeleteItem(i) \/ \E o \in Originals : ReplaceOriginalOf(i, o)
SimilaritySpec == SimilarityInit /\ [][SimilarityNext]_similarityVars

--------------------------------------------------------------------------------
(* findSimilarMedia, searchText: some of the nearest entries, and every row    *)
(* with the same bytes; rows of artifacts that are gone are dropped.           *)
Matches(i, nearest) ==
  {j \in Listed(KindOf(i)) \ {i} : \/ \E e \in nearest : e[1] = embedded[j].entry
                                   \/ embedded[j].object = embedded[i].object}

(* Types.                                                                      *)
SimilarityTypeOK ==
  /\ embedded \in [Items -> [id : 0..MaxEmbedIds, entry : 0..MaxEmbedIds, object : Originals \cup {"none"},
                             vector : Originals \cup {"none"}]]
  /\ embedId \in 0..MaxEmbedIds

(* similarity.ts:535: a row never pairs the hash of one object with the vector *)
(* of another, although the file may be replaced while the model works.        *)
VectorOfObject == \A i \in Items : embedded[i].vector = embedded[i].object

(* similarity.ts:1288: the cached index of a kind has the current vector of    *)
(* every artifact that is indexed.                                             *)
CacheFindsAll ==
  \A i \in Items : i \in Listed(KindOf(i)) /\ neighbours[KindOf(i)] # NotCached =>
    <<embedded[i].entry, embedded[i].vector>> \in neighbours[KindOf(i)]

(* similarity.ts:765: a duplicate is found whatever the graph answers.         *)
DuplicatesAreFound ==
  \A i, j \in Items :
    /\ i # j /\ KindOf(i) = KindOf(j) /\ {i, j} \subseteq Listed(KindOf(i))
    /\ embedded[i].object = embedded[j].object
    => \A near \in SUBSET neighbours[KindOf(i)] : j \in Matches(i, near)

(* Rows, cache and answers belong to the bytes that artifacts have.            *)
SimilarityIsExact == VectorOfObject /\ CacheFindsAll /\ DuplicatesAreFound
================================================================================
