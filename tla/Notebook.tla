-------------------------------- MODULE Notebook --------------------------------
(* The notebook board (src/domain.ts, src/notebook-grid.ts, src/generations.ts,*)
(* the notebook tables of src/schema.ts): cells on a grid, edges between them, *)
(* the rows that hang off a cell, and the entities cells give as output.  Every*)
(* call validates what it read, awaits its turn at the write chain and then    *)
(* runs one transaction over whatever the catalog holds by then; a constraint  *)
(* of the schema that fails rolls the transaction back.                        *)
EXTENDS Integers, Sequences, FiniteSets, FiniteSetsExt, Functions

CONSTANTS NbCallers,
          Drafts,          \* cells callers write: [id, type, row, column, entity, cites]
          Links,           \* edges callers write: [id, source, target, input]
          Gens,            \* generation IDs
          Rows, Columns,   \* bound: the board is Rows x Columns (64 x 8 in the code)
          MaxAsked         \* bound: calls of a behaviour

CellIds   == {d.id : d \in Drafts}
EdgeIds   == {l.id : l \in Links}
NoEntity  == "no entity"
EntityIds == {d.entity : d \in Drafts} \ {NoEntity}

CellRows  == [id : CellIds, type : {d.type : d \in Drafts}, row : 0..(Rows - 1),
              column : 0..(Columns - 1), entity : {d.entity : d \in Drafts}, cites : Nat]

ASSUME NbAssumption ==
  /\ Rows \in Nat \ {0} /\ Columns \in Nat \ {0} /\ MaxAsked \in Nat
  /\ CellIds \subseteq Nat \ {0} /\ Drafts \subseteq CellRows
  /\ \A d \in Drafts : d.type = "timeline" => d.column = 0 /\ d.entity = NoEntity

VARIABLES board,      \* "unborn", "live", "deleted"
          cells,      \* cells: ID -> draft fields, for the cells of the notebook
          edges,      \* edges: ID -> link
          executions, \* notebook_cell_executions, notebook_generation_plans: by cell
          generations,       \* generations: ID -> [cell, status]
          runs,       \* some run of the notebook is recorded
          entities,   \* entities
          asked,      \* the call each caller awaits
          askedSoFar  \* calls made

nbVars == <<board, cells, edges, executions, generations, runs, entities, asked, askedSoFar>>
tables == <<board, cells, edges, executions, generations, runs, entities>>

NoCall == [kind |-> "none"]
NoFunction == <<>>
NbInit ==
  /\ board = "unborn" /\ cells = NoFunction /\ edges = NoFunction
  /\ executions = {} /\ generations = NoFunction /\ runs = FALSE
  /\ entities = EntityIds
  /\ asked = [c \in NbCallers |-> NoCall] /\ askedSoFar = 0

Ask(c, call) ==
  /\ asked[c] = NoCall /\ askedSoFar < MaxAsked
  /\ asked' = [asked EXCEPT ![c] = call] /\ askedSoFar' = askedSoFar + 1
Answered(c)  == asked' = [asked EXCEPT ![c] = NoCall] /\ UNCHANGED askedSoFar
NbRefuse(c)  == Answered(c) /\ UNCHANGED tables
Calls(c, k)  == asked[c].kind = k

--------------------------------------------------------------------------------
(* The grid.                                                                   *)
Slots(c) == IF c.type = "timeline" THEN {<<c.row, k>> : k \in 0..(Columns - 1)}
            ELSE {<<c.row, c.column>>}
Occupied(cs) == UNION {Slots(cs[i]) : i \in DOMAIN cs}
Earlier(a, b) == a[1] < b[1] \/ (a[1] = b[1] /\ a[2] < b[2])
Board == (0..(Rows - 1)) \X (0..(Columns - 1))
FirstOf(slots) == CHOOSE s \in slots : \A o \in slots \ {s} : Earlier(s, o)
EmptySlots(cs) == Board \ Occupied(cs)
EmptyRows(cs)  == {s \in Board : s[2] = 0 /\ \A k \in 0..(Columns - 1) :
                                                <<s[1], k>> \in EmptySlots(cs)}

(* The order in which cells keep their slots: the cell just written, then a    *)
(* timeline, then the board from its top left.                                 *)
MutantRanks(cs, kept, i, j) ==
  \/ (cs[i].type = "timeline") /\ (cs[j].type # "timeline")
  \/ (cs[i].type = "timeline") = (cs[j].type = "timeline") /\
     (Earlier(<<cs[i].row, cs[i].column>>, <<cs[j].row, cs[j].column>>)
        \/ (<<cs[i].row, cs[i].column>> = <<cs[j].row, cs[j].column>> /\ i < j))
Ranks(cs, kept, i, j) ==
  \/ i = kept
  \/ j # kept /\ (cs[i].type = "timeline") /\ (cs[j].type # "timeline")
  \/ j # kept /\ (cs[i].type = "timeline") = (cs[j].type = "timeline") /\
     (Earlier(<<cs[i].row, cs[i].column>>, <<cs[j].row, cs[j].column>>)
        \/ (<<cs[i].row, cs[i].column>> = <<cs[j].row, cs[j].column>> /\ i < j))

(* The cells that keep their slots: going by rank, each that stands on no slot *)
(* of one before it.                                                           *)
InTheWay(cs, kept, stay, i) ==
  \E j \in stay : j # i /\ Ranks(cs, kept, j, i) /\ Slots(cs[j]) \cap Slots(cs[i]) # {}
Settled(cs, kept) ==
  CHOOSE stay \in SUBSET DOMAIN cs :
    \A i \in DOMAIN cs : i \in stay <=> ~InTheWay(cs, kept, stay, i)

Full == [i \in {0} |-> "full"]
IsFull(cs) == 0 \in DOMAIN cs
Displace(cs, i, c) ==
  LET free == IF c.type = "timeline" THEN EmptyRows(cs) ELSE EmptySlots(cs) IN
  IF free = {} THEN Full
  ELSE [k \in DOMAIN cs \cup {i} |->
          IF k = i THEN [c EXCEPT !.row = FirstOf(free)[1], !.column = FirstOf(free)[2]]
          ELSE cs[k]]

(* repairCellSlots, with kept the protected cell or none: the others take the  *)
(* first free slot, one after the other; Full when the board has no slot left, *)
(* which throws.                                                               *)
NextUp(cs, kept, left) == CHOOSE i \in left : \A j \in left \ {i} : Ranks(cs, kept, i, j)
Placed(cs, kept) ==
  LET stay == Settled(cs, kept)
      gone == DOMAIN cs \ stay
      placed[n \in 0..Cardinality(gone)] ==
        IF n = 0 THEN Restrict(cs, stay)
        ELSE LET i == NextUp(cs, kept, gone \ DOMAIN placed[n - 1]) IN
             IF IsFull(placed[n - 1]) THEN Full ELSE Displace(placed[n - 1], i, cs[i])
  IN placed
Repaired(cs, kept) == Placed(cs, kept)[Cardinality(DOMAIN cs \ Settled(cs, kept))]

--------------------------------------------------------------------------------
(* Validation of a document: its cells and edges, against the catalog.         *)
DocOf == [cells |-> cells, edges |-> edges, executions |-> executions]
CellValid(doc, d) ==
  /\ d.type = "timeline" =>
       /\ \A i \in DOMAIN doc.cells \ {d.id} : doc.cells[i].type # "timeline"
       /\ \A e \in DOMAIN doc.edges : d.id \notin {doc.edges[e].source, doc.edges[e].target}
  /\ d.entity # NoEntity => d.entity \in entities
  /\ d.cites # 0 => d.cites \in DOMAIN doc.cells
DocValid(doc) ==
  /\ \A i, j \in DOMAIN doc.cells : i # j => Slots(doc.cells[i]) \cap Slots(doc.cells[j]) = {}
  /\ \A i \in DOMAIN doc.cells : CellValid(doc, doc.cells[i])
  /\ \A e \in DOMAIN doc.edges :
       {doc.edges[e].source, doc.edges[e].target} \subseteq DOMAIN doc.cells
  /\ \A e, f \in DOMAIN doc.edges : e # f =>
       <<doc.edges[e].target, doc.edges[e].input>> # <<doc.edges[f].target, doc.edges[f].input>>
SlotFree(d) == Slots(d) \cap Occupied(Restrict(cells, DOMAIN cells \ {d.id})) = {}
With(f, k, v) == [i \in DOMAIN f \cup {k} |-> IF i = k THEN v ELSE f[i]]

(* Rows that hang off cells go with them: ON DELETE CASCADE.                   *)
MutantKeepsGenerations(gone) == generations
GensWithout(gone) == Restrict(generations, {g \in DOMAIN generations : generations[g].cell \notin gone})
EdgesWithout(gone) ==
  Restrict(edges, {e \in DOMAIN edges : {edges[e].source, edges[e].target} \cap gone = {}})

--------------------------------------------------------------------------------
(* createNotebook, deleteNotebook.                                             *)
CreateNotebook(c) ==
  /\ board = "unborn" /\ asked[c] = NoCall
  /\ board' = "live"
  /\ UNCHANGED <<cells, edges, executions, generations, runs, entities, asked, askedSoFar>>

AskDeleteNotebook(c) ==
  /\ board = "live" /\ Ask(c, [kind |-> "delete notebook"])
  /\ UNCHANGED tables
DeleteNotebook(c) ==
  /\ Calls(c, "delete notebook") /\ Answered(c)
  /\ board' = "deleted"
  /\ cells' = NoFunction /\ edges' = NoFunction /\ generations' = NoFunction
  /\ executions' = {} /\ runs' = FALSE
  /\ UNCHANGED entities

(* insertNotebookCell, updateNotebookCell: one upsert of the whole row.        *)
AskWriteCell(c, d) ==
  /\ board = "live"
  /\ CellValid([DocOf EXCEPT !.cells = With(cells, d.id, d)], d)
  /\ SlotFree(d)
  /\ Ask(c, [kind |-> "write cell", cell |-> d])
  /\ UNCHANGED tables

(* moveNotebookCell: the row as read, at another slot.                         *)
AskMoveCell(c, i, s) ==
  /\ board = "live" /\ i \in DOMAIN cells
  /\ LET d == [cells[i] EXCEPT !.row = s[1], !.column = s[2]] IN
       /\ d.type = "timeline" => s[2] = 0
       /\ CellValid([DocOf EXCEPT !.cells = With(cells, i, d)], d)
       /\ SlotFree(d)
       /\ Ask(c, [kind |-> "write cell", cell |-> d])
  /\ UNCHANGED tables

OutputsHeld(cs) == \A i \in DOMAIN cs : cs[i].entity \in entities \cup {NoEntity}
Writable(c, d) ==
  /\ board = "live" /\ OutputsHeld(With(cells, d.id, d))
  /\ ~IsFull(Repaired(With(cells, d.id, d), d.id))
WriteCell(c) ==
  /\ Calls(c, "write cell") /\ Writable(c, asked[c].cell) /\ Answered(c)
  /\ cells' = Repaired(With(cells, asked[c].cell.id, asked[c].cell), asked[c].cell.id)
  /\ UNCHANGED <<board, edges, executions, generations, runs, entities>>
WriteCellFails(c) ==
  /\ Calls(c, "write cell") /\ ~Writable(c, asked[c].cell) /\ NbRefuse(c)

(* removeNotebookCell.                                                         *)
AskRemoveCell(c, i) ==
  /\ board = "live" /\ i \in DOMAIN cells
  /\ Ask(c, [kind |-> "remove cell", id |-> i])
  /\ UNCHANGED tables
RemoveCell(c) ==
  /\ Calls(c, "remove cell") /\ Answered(c)
  /\ cells' = Repaired(Restrict(cells, DOMAIN cells \ {asked[c].id}), 0)
  /\ edges' = EdgesWithout({asked[c].id})
  /\ generations'  = GensWithout({asked[c].id})
  /\ executions' = executions \ {asked[c].id}
  /\ UNCHANGED <<board, runs, entities>>

(* writeNotebook: the document of the caller, read earlier and edited, takes   *)
(* the place of all cells, edges and executions.                               *)
EditedDocs ==
  {DocOf} \cup {[DocOf EXCEPT !.cells = Restrict(cells, DOMAIN cells \ {i}),
                             !.edges = EdgesWithout({i}), !.executions = @ \ {i}] : i \in DOMAIN cells}
          \cup {[DocOf EXCEPT !.cells = With(cells, d.id, d)] : d \in Drafts}
          \cup {[DocOf EXCEPT !.edges = With(edges, l.id, l)] : l \in Links}
          \cup {[DocOf EXCEPT !.edges = Restrict(edges, DOMAIN edges \ {e})] : e \in DOMAIN edges}
          \cup {[DocOf EXCEPT !.executions = @ \cup {i}] : i \in DOMAIN cells}
AskWriteNotebook(c, doc) ==
  /\ board = "live" /\ DocValid(doc)
  /\ Ask(c, [kind |-> "write notebook", doc |-> doc])
  /\ UNCHANGED tables

(* Edges are written one after the other: an input that an edge of the same    *)
(* document still holds is taken.  The documents above change one edge.        *)
LinksClash(doc) ==
  \E e, f \in DOMAIN doc.edges : e # f /\ f \in DOMAIN edges /\ f \in DOMAIN EdgesWithout(DOMAIN cells \ DOMAIN doc.cells)
    /\ edges[f] # doc.edges[f]
    /\ <<edges[f].target, edges[f].input>> = <<doc.edges[e].target, doc.edges[e].input>>
NotebookWritable(doc) ==
  /\ board = "live" /\ OutputsHeld(doc.cells) /\ ~IsFull(Repaired(doc.cells, 0))
WriteNotebook(c) ==
  /\ Calls(c, "write notebook") /\ NotebookWritable(asked[c].doc) /\ Answered(c)
  /\ cells' = Repaired(asked[c].doc.cells, 0)
  /\ edges' = asked[c].doc.edges
  /\ executions' = asked[c].doc.executions
  /\ generations' = GensWithout(DOMAIN cells \ DOMAIN asked[c].doc.cells)
  /\ UNCHANGED <<board, runs, entities>>
WriteNotebookFails(c) ==
  /\ Calls(c, "write notebook")
  /\ ~NotebookWritable(asked[c].doc) \/ LinksClash(asked[c].doc)
  /\ NbRefuse(c)

(* recordNotebookRun.                                                          *)
AskRecordRun(c) ==
  /\ board = "live" /\ ~runs /\ Ask(c, [kind |-> "record run"]) /\ UNCHANGED tables
RecordRun(c) ==
  /\ Calls(c, "record run") /\ Answered(c)
  /\ runs' = (board = "live")                     \* REFERENCES notebooks
  /\ UNCHANGED <<board, cells, edges, executions, generations, entities>>

--------------------------------------------------------------------------------
(* deleteEntity: what refers to it is looked for before the await, and again   *)
(* by the foreign keys when the row is deleted.                                *)
UsesEntity(e) == \E i \in DOMAIN cells : cells[i].entity = e
AskDeleteEntity(c, e) ==
  /\ e \in entities /\ ~UsesEntity(e)
  /\ Ask(c, [kind |-> "delete entity", entity |-> e])
  /\ UNCHANGED tables

MutantChecksOnce(e) == TRUE
Unreferenced(e) == ~UsesEntity(e)                 \* ON DELETE RESTRICT
DeleteEntity(c) ==
  /\ Calls(c, "delete entity") /\ Answered(c)
  /\ entities' = IF Unreferenced(asked[c].entity) THEN entities \ {asked[c].entity} ELSE entities
  /\ UNCHANGED <<board, cells, edges, executions, generations, runs>>

--------------------------------------------------------------------------------
(* recordGeneration, updateGeneration: the fields of the row are read before   *)
(* the await and written back over what the row holds by then.                 *)
AskRecordGeneration(c, g, i) ==
  /\ g \notin DOMAIN generations /\ i \in DOMAIN cells
  /\ \A o \in NbCallers : "gen" \in DOMAIN asked[o] => asked[o].gen # g   \* a new ID
  /\ Ask(c, [kind |-> "record generation", gen |-> g, cell |-> i])
  /\ UNCHANGED tables

ParentHeld(i) == i \in DOMAIN cells               \* REFERENCES cells
RecordGeneration(c) ==
  /\ Calls(c, "record generation") /\ Answered(c)
  /\ generations' = IF ParentHeld(asked[c].cell)
             THEN With(generations, asked[c].gen, [cell |-> asked[c].cell, status |-> "dispatched"])
             ELSE generations
  /\ UNCHANGED <<board, cells, edges, executions, runs, entities>>

GenStatuses == {"dispatched", "completed", "failed"}
AskUpdateGeneration(c, g, s) ==
  /\ g \in DOMAIN generations
  /\ Ask(c, [kind |-> "update generation", gen |-> g, status |-> s])
  /\ UNCHANGED tables
RowFound(g) == g \in DOMAIN generations
UpdateGeneration(c) ==
  /\ Calls(c, "update generation") /\ Answered(c)
  /\ generations' = IF RowFound(asked[c].gen) THEN [generations EXCEPT ![asked[c].gen].status = asked[c].status]
             ELSE generations
  /\ UNCHANGED <<board, cells, edges, executions, runs, entities>>

NotebookNext ==
  \E c \in NbCallers :
    \/ CreateNotebook(c)
    \/ AskDeleteNotebook(c)
    \/ DeleteNotebook(c)
    \/ \E d \in Drafts : AskWriteCell(c, d)
    \/ \E i \in DOMAIN cells, s \in Board : AskMoveCell(c, i, s)
    \/ WriteCell(c)
    \/ WriteCellFails(c)
    \/ \E i \in DOMAIN cells : AskRemoveCell(c, i)
    \/ RemoveCell(c)
    \/ \E doc \in EditedDocs : AskWriteNotebook(c, doc)
    \/ WriteNotebook(c)
    \/ WriteNotebookFails(c)
    \/ AskRecordRun(c)
    \/ RecordRun(c)
    \/ \E e \in EntityIds : AskDeleteEntity(c, e)
    \/ DeleteEntity(c)
    \/ \E g \in Gens, i \in CellIds : AskRecordGeneration(c, g, i)
    \/ RecordGeneration(c)
    \/ \E g \in Gens, s \in GenStatuses : AskUpdateGeneration(c, g, s)
    \/ UpdateGeneration(c)
NotebookSpec == NbInit /\ [][NotebookNext]_nbVars

--------------------------------------------------------------------------------
(* Types and the constraints of the schema: every row has its parents.         *)
NotebookTypeOK ==
  /\ board \in {"unborn", "live", "deleted"} /\ (board # "live" => cells = NoFunction)
  /\ \A i \in DOMAIN cells : cells[i].id = i /\ Slots(cells[i]) \subseteq Board
  /\ \A e \in DOMAIN edges : {edges[e].source, edges[e].target} \subseteq DOMAIN cells
  /\ executions \subseteq DOMAIN cells
  /\ \A g \in DOMAIN generations : generations[g].cell \in DOMAIN cells /\ generations[g].status \in GenStatuses
  /\ OutputsHeld(cells)

(* domain.ts:810: whatever was checked before the await, and whoever wrote in  *)
(* between, no two cells of a committed board share a slot.                    *)
SlotsDisjoint ==
  \A i, j \in DOMAIN cells : i # j => Slots(cells[i]) \cap Slots(cells[j]) = {}

(* A commit of one cell puts it at the slot its caller asked for, and moves    *)
(* only cells that stood there.                                                *)
OnlyClashesMove ==
  [][\A c \in NbCallers :
       Calls(c, "write cell") /\ cells' # cells /\ asked'[c] # asked[c] =>
         LET d == asked[c].cell IN
         /\ cells'[d.id] = d
         /\ \A i \in DOMAIN cells \ {d.id} :
              Slots(cells[i]) \cap Slots(d) = {} => cells'[i] = cells[i]]_nbVars

(* Cells keep apart, and move only for a cell that was put in their place.     *)
BoardKeepsPlaces == []SlotsDisjoint /\ OnlyClashesMove
================================================================================
