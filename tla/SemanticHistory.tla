---------------------------- MODULE SemanticHistory ----------------------------
(***************************************************************************)
(* What DoltStore promises of a semantic write (docs/semantic-durability): *)
(* an operation takes effect atomically, and an operation that has taken   *)
(* effect is recorded in the book's history exactly once, by an entry that *)
(* holds the rows of that operation and no other, before any later         *)
(* operation takes effect.  Crashes, exceptions and reopening are not      *)
(* visible at this level: they are stuttering steps.                       *)
(***************************************************************************)
EXTENDS Sequences

CONSTANTS Ops,      \* operation IDs
          Changes   \* row changes an operation can make

VARIABLES unrecorded,   \* the operation in effect that history does not hold yet
          history       \* the entries of the book's history, oldest first

hvars == <<unrecorded, history>>

Entries == [op : Ops, rows : SUBSET Changes]

HTypeOK == /\ unrecorded \in SUBSET [op : Ops, rows : SUBSET Changes, commits : BOOLEAN]
           /\ history \in Seq(Entries)

HInit == unrecorded = {} /\ history = <<>>

(* An operation takes effect; no earlier one may still be unrecorded.      *)
TakeEffect(o, rows, commits) ==
  /\ unrecorded = {}
  /\ \A i \in DOMAIN history : history[i].op # o
  /\ unrecorded' = {[op |-> o, rows |-> rows, commits |-> commits]}
  /\ UNCHANGED history

(* The operation in effect gets its one history entry.                     *)
Record == \E e \in unrecorded :
  /\ e.commits
  /\ history' = Append(history, [op |-> e.op, rows |-> e.rows])
  /\ unrecorded' = {}

(* An operation that changed no versioned row mints no entry.              *)
Forget == \E e \in unrecorded :
  /\ ~e.commits
  /\ unrecorded' = {}
  /\ UNCHANGED history

HNext == \/ \E o \in Ops, rows \in SUBSET Changes, c \in BOOLEAN : TakeEffect(o, rows, c)
         \/ Record
         \/ Forget

HSpec == HInit /\ [][HNext]_hvars
================================================================================
