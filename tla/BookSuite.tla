-------------------------------- MODULE BookSuite --------------------------------
(* What a book says, side by side for TLC: its sequence, its notebook, its      *)
(* forks, its tags and its history.  One part runs in a behaviour, the others   *)
(* stay as they start: each module models what it needs of its surroundings.    *)
EXTENDS TimelineMC, TrackOrder, Notebook, ForkMerge, Tags, History, TLC

VARIABLE part        \* the part that runs

(* A board: a cell that names an entity, one that cites it, a timeline.         *)
BoardDraft(id, type, column, entity, cites) ==
  [id |-> id, type |-> type, row |-> 0, column |-> column, entity |-> entity, cites |-> cites]
BoardDrafts == {BoardDraft(1, "plain", 0, "e1", 0), BoardDraft(2, "plain", 1, NoEntity, 1),
                BoardDraft(3, "timeline", 0, NoEntity, 0)}
BoardLinks ==
  {[id |-> e[1], source |-> 1, target |-> 2, input |-> e[2]] :
     e \in {<<"k1", "i">>, <<"k1", "j">>, <<"k2", "i">>}}

BookSymmetry == Permutations(Editors) \cup Permutations(TagIds)

(* A part that does not run starts in one state only.                           *)
BookInit ==
  /\ part \in {"timeline", "order", "notebook", "fork", "tags", "history"}
  /\ TimelineInit /\ OrderInit /\ NbInit /\ FkInit /\ HistoryInit
  /\ TagsInit /\ (part = "tags" \/ tagged.main.file = CHOOSE b \in TagBytes : TRUE)

BookNext ==
  \/ part = "timeline" /\ TimelineNext
     /\ UNCHANGED <<part, orderVars, nbVars, fkVars, tagVars, historyVars>>
  \/ part = "order" /\ OrderNext
     /\ UNCHANGED <<part, tlVars, nbVars, fkVars, tagVars, historyVars>>
  \/ part = "notebook" /\ NotebookNext
     /\ UNCHANGED <<part, tlVars, orderVars, fkVars, tagVars, historyVars>>
  \/ part = "fork" /\ FkNext
     /\ UNCHANGED <<part, tlVars, orderVars, nbVars, tagVars, historyVars>>
  \/ part = "tags" /\ TagsNext
     /\ UNCHANGED <<part, tlVars, orderVars, nbVars, fkVars, historyVars>>
  \/ part = "history" /\ HistoryNext
     /\ UNCHANGED <<part, tlVars, orderVars, nbVars, fkVars, tagVars>>

BookSpec ==
  BookInit /\ [][BookNext]_<<part, tlVars, orderVars, nbVars, fkVars, tagVars,
                             historyVars>>

(* Every part keeps the types and the keys of the tables that it models.        *)
BookTypeOK ==
  /\ part = "timeline" => TimelineTypeOK
  /\ part = "order" => OrderTypeOK
  /\ part = "notebook" => NotebookTypeOK
  /\ part = "fork" => FkTypeOK
  /\ part = "tags" => TagsTypeOK
  /\ part = "history" => HistoryTypeOK

(* A sequence stays whole: tracks can always be moved and go where they were    *)
(* asked to, and an edit shows no tick of a source twice that was shown once.   *)
SequenceStaysWhole == TracksKeepOrder /\ CutsShowOnce
================================================================================
