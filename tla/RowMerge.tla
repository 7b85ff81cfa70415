-------------------------------- MODULE RowMerge --------------------------------
(* The row-level three-way merge of src/fork.ts: tables are functions from     *)
(* their keys to rows, or to an absent row, at the merge base, on main (ours)  *)
(* and on the fork (theirs).                                                   *)
EXTENDS Naturals

(* A row that only theirs changed takes theirs' value, one that only ours      *)
(* changed or that both changed alike takes ours; anything else is a conflict. *)
RowClash(b, o, t) == t # b /\ o # b /\ o # t
RowMerged(b, o, t) == IF t = b THEN o ELSE t

TableClashes(b, o, t) == {k \in DOMAIN o : RowClash(b[k], o[k], t[k])}
TableMerged(b, o, t)  == [k \in DOMAIN o |-> RowMerged(b[k], o[k], t[k])]

(* The same for a table whose rows are all key.                                *)
SetMerged(b, o, t) == (o \ (b \ t)) \cup (t \ b)
================================================================================
