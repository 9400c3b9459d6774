------------------------------ MODULE UndoStack ------------------------------
(***************************************************************************)
(* What chainbase promises of a table with undo sessions: a stack of whole *)
(* copies of the table, one per open revision.  Undo goes back to the last *)
(* copy, squash forgets it, commit forgets the oldest ones.                *)
(***************************************************************************)
EXTENDS Integers, Sequences

CONSTANT Value

VARIABLES
  table,     \* function from the ids in use to their values
  next,      \* the id the next object gets
  copies,    \* the copies of <<table, next>>, oldest first
  revision   \* the number of the newest copy

vars == <<table, next, copies, revision>>

Init == table = <<>> /\ next = 0 /\ copies = <<>> /\ revision = 0

Create ==
  /\ \E v \in Value :
       table' = [id \in DOMAIN table \cup {next} |-> IF id = next THEN v ELSE table[id]]
  /\ next' = next + 1
  /\ UNCHANGED <<copies, revision>>

Modify ==
  /\ \E id \in DOMAIN table, v \in Value : table' = [table EXCEPT ![id] = v]
  /\ UNCHANGED <<next, copies, revision>>

Remove ==
  /\ \E id \in DOMAIN table : table' = [x \in DOMAIN table \ {id} |-> table[x]]
  /\ UNCHANGED <<next, copies, revision>>

Begin ==
  /\ copies' = Append(copies, <<table, next>>)
  /\ revision' = revision + 1
  /\ UNCHANGED <<table, next>>

Front == SubSeq(copies, 1, Len(copies) - 1)

Undo ==
  /\ copies # <<>>
  /\ <<table', next'>> = copies[Len(copies)]
  /\ copies' = Front
  /\ revision' = revision - 1

Squash ==
  /\ copies # <<>>
  /\ copies' = Front
  /\ revision' = revision - 1
  /\ UNCHANGED <<table, next>>

\* Copy k has number revision - Len(copies) + k.
Commit ==
  /\ \E k \in 1..Len(copies) : copies' = SubSeq(copies, k + 1, Len(copies))
  /\ UNCHANGED <<table, next, revision>>

SetRevision ==
  /\ copies = <<>>
  /\ revision' \in Nat
  /\ UNCHANGED <<table, next, copies>>

Next ==
  \/ Create \/ Modify \/ Remove
  \/ Begin \/ Undo \/ Squash \/ Commit \/ SetRevision

Spec == Init /\ [][Next]_vars
=============================================================================
