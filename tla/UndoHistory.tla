----------------------------- MODULE UndoHistory -----------------------------
(***************************************************************************)
(* UndoIndex with a history variable: copies holds the table as it was     *)
(* when each of the open sessions started.  No step depends on it.         *)
(***************************************************************************)
EXTENDS UndoIndex

VARIABLE copies

hvars == <<vars, copies>>

HInit == Init /\ copies = <<>>

HNext ==
  \/ (Change \/ undo_all) /\ UNCHANGED copies
  \/ start_undo_session /\ copies' = Append(copies, <<indices, next_id>>)
  \/ (undo \/ squash) /\ copies' = SubSeq(copies, 1, Len(copies) - 1)
  \/ \E r \in 0..MaxRevision, k \in 0..Len(stack) :
       commit(r, k) /\ copies' = SubSeq(copies, k + 1, Len(copies))
  \/ \E r \in 0..MaxRevision : set_revision(r) /\ UNCHANGED copies

HSpec == HInit /\ [][HNext]_hvars

-----------------------------------------------------------------------------
(* Properties *)

\* The variables have their types; there is one copy per session.
TypeOK ==
  /\ indices \in Tables /\ next_id \in 0..MaxId
  /\ stack \in Seq(undo_state) /\ Len(stack) <= MaxDepth
  /\ revision \in Nat /\ unwinding \in BOOLEAN
  /\ unwinding => stack # <<>>
  /\ copies \in Seq(Tables \X (0..MaxId)) /\ Len(copies) = Len(stack)

\* The table that session i changed: the next copy, or the current table.
After(i) == IF i = Len(stack) THEN indices ELSE copies[i + 1][1]

\* Whatever the sessions above it did, the record of every open session
\* fits the table it will be applied to, so undo finds each object it
\* assigns or erases and none that it inserts again, and it restores
\* exactly the table and the next id of the session's start.
UndoRestores ==
  \A i \in 1..Len(stack) :
    LET u == stack[i] IN
    /\ u.new_ids \cup DOMAIN u.old_values \subseteq DOMAIN After(i)
    /\ DOMAIN u.removed_values \cap DOMAIN After(i) = {}
    /\ <<Restored(u, After(i)), u.old_next_id>> = copies[i]

\* emplace never finds its id in use, although undo hands ids out again.
FreshId == \A id \in DOMAIN indices : id < next_id

\* The cells of squash's table marked N/A, "a serious logic error which
\* should never happen" and in part asserted, do not happen: nothing that a
\* state removed is in the next one, and nothing it has is new in that one.
NoCausalViolation ==
  \A i \in 1..(Len(stack) - 1) :
    LET A == stack[i]  B == stack[i + 1] IN
    /\ DOMAIN A.removed_values \cap
         (B.new_ids \cup DOMAIN B.old_values \cup DOMAIN B.removed_values) = {}
    /\ (A.new_ids \cup DOMAIN A.old_values) \cap B.new_ids = {}

\* The stack covers the revisions up to the current one without a gap, so
\* the range that add_index compares has one state per revision.
RevisionsContiguous ==
  /\ Len(stack) <= revision
  /\ \A i \in 1..Len(stack) : stack[i].revision = revision - Len(stack) + i

Copies == INSTANCE UndoStack WITH table <- indices, next <- next_id

\* The records of changes implement the stack of whole copies: every sequence
\* of calls leaves the table that copying it at each session would leave.
ImplementsCopies == Copies!Spec
=============================================================================
