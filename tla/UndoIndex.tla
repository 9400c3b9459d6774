------------------------------ MODULE UndoIndex ------------------------------
(***************************************************************************)
(* generic_index of indexDb/chainbase/include/chainbase/chainbase.hpp: a   *)
(* table of objects that records, per open undo session, only what the     *)
(* session changed.                                                        *)
(*                                                                         *)
(* An object is its value; its id is the key.  The indices this program    *)
(* declares are unique on the id alone, so that is the one constraint an   *)
(* insertion can break.  A session object calls undo or squash on its      *)
(* index; its push changes nothing.  All calls are made under the write    *)
(* lock of the database; undo_all is taken one undo per step.              *)
(***************************************************************************)
EXTENDS Integers, Sequences

CONSTANTS
  Value,
  MaxId, MaxDepth, MaxRevision   \* bounds on _next_id, _stack and _revision

ASSUME UndoAssumption == MaxId \in Nat /\ MaxDepth \in Nat /\ MaxRevision \in Nat

VARIABLES
  indices,    \* _indices: function from ids to values
  next_id,
  stack,      \* _stack, the newest undo_state last
  revision,
  unwinding   \* the loop of undo_all is running

vars == <<indices, next_id, stack, revision, unwinding>>

Ids == 0..(MaxId - 1)

\* The maps from ids to values.
Tables == UNION {[S -> Value] : S \in SUBSET Ids}

undo_state == [old_values : Tables, removed_values : Tables, new_ids : SUBSET Ids,
               old_next_id : 0..MaxId, revision : Nat]

Bind(f, id, v) == [x \in DOMAIN f \cup {id} |-> IF x = id THEN v ELSE f[x]]
Without(f, S) == [x \in DOMAIN f \ S |-> f[x]]

enabled == stack # <<>>
head == stack[Len(stack)]

\* The stack with its newest state replaced, and without it.
Back(u) == [stack EXCEPT ![Len(stack)] = u]
Popped == SubSeq(stack, 1, Len(stack) - 1)

Init ==
  /\ indices = <<>> /\ next_id = 0
  /\ stack = <<>> /\ revision = 0
  /\ unwinding = FALSE

-----------------------------------------------------------------------------
(* Changes of the table *)

on_create(id) ==
  stack' = IF enabled THEN Back([head EXCEPT !.new_ids = @ \cup {id}]) ELSE stack

\* Mutant: the previous value is recorded again by the second modification.
on_modify_Again(id) ==
  stack' = IF ~enabled \/ id \in head.new_ids THEN stack
           ELSE Back([head EXCEPT !.old_values = Bind(@, id, indices[id])])

on_modify(id) ==
  stack' = IF ~enabled \/ id \in head.new_ids \/ id \in DOMAIN head.old_values THEN stack
           ELSE Back([head EXCEPT !.old_values = Bind(@, id, indices[id])])

on_remove(id) ==
  stack' =
    IF ~enabled THEN stack
    ELSE IF id \in head.new_ids THEN Back([head EXCEPT !.new_ids = @ \ {id}])
    ELSE IF id \in DOMAIN head.old_values
      THEN Back([head EXCEPT
             !.removed_values = IF id \in DOMAIN @ THEN @ ELSE Bind(@, id, head.old_values[id]),
             !.old_values = Without(@, {id})])
    ELSE IF id \in DOMAIN head.removed_values THEN stack
    ELSE Back([head EXCEPT !.removed_values = Bind(@, id, indices[id])])

\* A taken id makes the insertion throw, before anything is changed.
emplace(v) ==
  /\ ~unwinding /\ next_id < MaxId
  /\ next_id \notin DOMAIN indices
  /\ indices' = Bind(indices, next_id, v)
  /\ next_id' = next_id + 1
  /\ on_create(next_id)
  /\ UNCHANGED <<revision, unwinding>>

modify(id, v) ==
  /\ ~unwinding /\ id \in DOMAIN indices
  /\ on_modify(id)
  /\ indices' = [indices EXCEPT ![id] = v]
  /\ UNCHANGED <<next_id, revision, unwinding>>

remove(id) ==
  /\ ~unwinding /\ id \in DOMAIN indices
  /\ on_remove(id)
  /\ indices' = Without(indices, {id})
  /\ UNCHANGED <<next_id, revision, unwinding>>

-----------------------------------------------------------------------------
(* Sessions *)

start_undo_session ==
  /\ ~unwinding /\ Len(stack) < MaxDepth /\ revision < MaxRevision
  /\ stack' = Append(stack, [old_values |-> <<>>, removed_values |-> <<>>, new_ids |-> {},
                             old_next_id |-> next_id, revision |-> revision + 1])
  /\ revision' = revision + 1
  /\ UNCHANGED <<indices, next_id, unwinding>>

\* The table that the three loops of undo leave: old_values are assigned,
\* new_ids erased, removed_values inserted where no object is in the way.
Restored(u, t) ==
  LET kept == DOMAIN t \ u.new_ids IN
  [id \in kept \cup DOMAIN u.removed_values |->
     IF id \notin kept THEN u.removed_values[id]
     ELSE IF id \in DOMAIN u.old_values THEN u.old_values[id] ELSE t[id]]

undo ==
  /\ enabled
  /\ indices' = Restored(head, indices)
  /\ next_id' = head.old_next_id
  /\ stack' = Popped
  /\ revision' = revision - 1
  /\ unwinding' = (unwinding /\ Len(stack) > 1)

undo_all ==
  /\ ~unwinding /\ enabled
  /\ unwinding' = TRUE
  /\ UNCHANGED <<indices, next_id, stack, revision>>

\* Mutant: an object the older state knows as modified is not moved to the
\* removed ones.
Merged_NoMove(prev, s) ==
  LET fresh == DOMAIN s.old_values \ (prev.new_ids \cup DOMAIN prev.old_values)
      new   == prev.new_ids \cup s.new_ids
      gone  == DOMAIN s.removed_values \ new
      added == gone \ DOMAIN prev.removed_values
  IN [prev EXCEPT
        !.old_values = [id \in DOMAIN @ \cup fresh |->
                          IF id \in fresh THEN s.old_values[id] ELSE @[id]],
        !.new_ids = new \ DOMAIN s.removed_values,
        !.removed_values = [id \in DOMAIN @ \cup added |->
                              IF id \in added THEN s.removed_values[id] ELSE @[id]]]

\* prev_state after the three loops of squash over the newest state s.
Merged(prev, s) ==
  LET fresh == DOMAIN s.old_values \ (prev.new_ids \cup DOMAIN prev.old_values)
      old   == [id \in DOMAIN prev.old_values \cup fresh |->
                  IF id \in fresh THEN s.old_values[id] ELSE prev.old_values[id]]
      new   == prev.new_ids \cup s.new_ids
      gone  == DOMAIN s.removed_values \ new
      added == gone \ DOMAIN prev.removed_values
  IN [prev EXCEPT
        !.old_values = Without(old, gone),
        !.new_ids = new \ DOMAIN s.removed_values,
        !.removed_values = [id \in DOMAIN @ \cup added |->
                              IF id \notin added THEN @[id]
                              ELSE IF id \in DOMAIN old THEN old[id]
                              ELSE s.removed_values[id]]]

squash ==
  /\ ~unwinding /\ enabled
  /\ stack' = IF Len(stack) = 1 THEN <<>>
              ELSE [Popped EXCEPT ![Len(stack) - 1] = Merged(@, head)]
  /\ revision' = revision - 1
  /\ UNCHANGED <<indices, next_id, unwinding>>

\* k is the number of rounds of the loop.
commit(r, k) ==
  /\ ~unwinding
  /\ \A i \in 1..k : stack[i].revision <= r
  /\ k < Len(stack) => stack[k + 1].revision > r
  /\ stack' = SubSeq(stack, k + 1, Len(stack))
  /\ UNCHANGED <<indices, next_id, revision, unwinding>>

set_revision(r) ==
  /\ ~unwinding /\ ~enabled
  /\ revision' = r
  /\ UNCHANGED <<indices, next_id, stack, unwinding>>

-----------------------------------------------------------------------------

Change == \/ \E v \in Value : emplace(v)
          \/ \E id \in Ids, v \in Value : modify(id, v)
          \/ \E id \in Ids : remove(id)

Commit == \E r \in 0..MaxRevision, k \in 0..Len(stack) : commit(r, k)

Next ==
  \/ Change
  \/ start_undo_session \/ undo \/ undo_all \/ squash \/ Commit
  \/ \E r \in 0..MaxRevision : set_revision(r)

Spec == Init /\ [][Next]_vars
=============================================================================
