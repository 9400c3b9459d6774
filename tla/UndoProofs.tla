------------------------------ MODULE UndoProofs ------------------------------
(***************************************************************************)
(* The records of changes of UndoIndex implement the stack of copies of    *)
(* UndoStack, for every set of values and all bounds.                      *)
(*                                                                         *)
(* The inductive invariant relates each record to the two tables it lies   *)
(* between: the copy made when its session started and the table the       *)
(* session has changed.  Every operation changes one such triple, except   *)
(* squash, which composes two of them (lemma MergeFits).                   *)
(***************************************************************************)
EXTENDS UndoHistory, TLAPS

-----------------------------------------------------------------------------
(* Sequences: the facts the proofs cite. *)

LEMMA ElementOfSeq == ASSUME NEW S, NEW q \in Seq(S), NEW i \in 1..Len(q) PROVE q[i] \in S
  OBVIOUS

LEMMA EmptySeq ==
  ASSUME NEW S
  PROVE  <<>> \in Seq(S) /\ Len(<<>>) = 0 /\ \A q \in Seq(S) : q # <<>> => Len(q) \in Nat \ {0}
  OBVIOUS

-----------------------------------------------------------------------------
(* Records and copies. *)

\* Record u leads from table t, with next id n, back to copy s.
Fits(u, t, n, s) ==
  /\ u.new_ids \subseteq DOMAIN t /\ DOMAIN u.old_values \subseteq DOMAIN t
  /\ u.new_ids \cap DOMAIN u.old_values = {}
  /\ DOMAIN u.removed_values \cap DOMAIN t = {}
  /\ u.old_next_id = s[2] /\ s[2] <= n
  /\ \A id \in u.new_ids : s[2] <= id
  /\ \A id \in DOMAIN s[1] : id < s[2]
  /\ DOMAIN s[1] = (DOMAIN t \ u.new_ids) \cup DOMAIN u.removed_values
  /\ \A id \in DOMAIN u.removed_values : s[1][id] = u.removed_values[id]
  /\ \A id \in DOMAIN u.old_values : s[1][id] = u.old_values[id]
  /\ \A id \in DOMAIN t \ (u.new_ids \cup DOMAIN u.old_values) : s[1][id] = t[id]

NextAfter(i) == IF i = Len(stack) THEN next_id ELSE copies[i + 1][2]

Fitting == \A i \in 1..Len(stack) : Fits(stack[i], After(i), NextAfter(i), copies[i])

IInv == TypeOK /\ RevisionsContiguous /\ FreshId /\ Fitting

-----------------------------------------------------------------------------
(* Sequences and tables *)

LEMMA PrefixFacts ==
  ASSUME NEW S, NEW s \in Seq(S), NEW n \in 0..Len(s)
  PROVE  LET f == SubSeq(s, 1, n) IN
         f \in Seq(S) /\ Len(f) = n /\ \A i \in 1..n : f[i] = s[i]
  OBVIOUS

LEMMA FrontFacts ==
  ASSUME NEW S, NEW s \in Seq(S), s # <<>>
  PROVE  LET f == SubSeq(s, 1, Len(s) - 1) IN
         /\ f \in Seq(S) /\ Len(f) = Len(s) - 1
         /\ \A i \in 1..(Len(s) - 1) : f[i] = s[i]
  <1>1. Len(s) - 1 \in 0..Len(s) BY EmptySeq
  <1> QED BY <1>1, PrefixFacts, Zenon

LEMMA DropFacts ==
  ASSUME NEW S, NEW s \in Seq(S), NEW k \in 0..Len(s)
  PROVE  LET f == SubSeq(s, k + 1, Len(s)) IN
         /\ f \in Seq(S) /\ Len(f) = Len(s) - k
         /\ \A i \in 1..(Len(s) - k) : f[i] = s[i + k]
  OBVIOUS

LEMMA TableFacts ==
  ASSUME NEW f \in Tables
  PROVE  /\ DOMAIN f \subseteq Ids
         /\ \A id \in DOMAIN f : f[id] \in Value
         /\ f = [id \in DOMAIN f |-> f[id]]
  BY DEF Tables

LEMMA TableIntro ==
  ASSUME NEW f, f = [id \in DOMAIN f |-> f[id]], DOMAIN f \subseteq Ids,
         \A id \in DOMAIN f : f[id] \in Value
  PROVE  f \in Tables
  <1>1. f \in [DOMAIN f -> Value] OBVIOUS
  <1> QED BY <1>1 DEF Tables

LEMMA BindTable ==
  ASSUME NEW f \in Tables, NEW id \in Ids, NEW v \in Value
  PROVE  /\ Bind(f, id, v) \in Tables
         /\ DOMAIN Bind(f, id, v) = DOMAIN f \cup {id}
         /\ Bind(f, id, v)[id] = v
         /\ \A x \in DOMAIN f : x # id => Bind(f, id, v)[x] = f[x]
  <1> DEFINE g == Bind(f, id, v)
  <1>1. /\ DOMAIN g = DOMAIN f \cup {id} /\ g = [x \in DOMAIN g |-> g[x]]
        /\ \A x \in DOMAIN g : g[x] = IF x = id THEN v ELSE f[x]
    BY DEF Bind
  <1>2. g \in Tables BY <1>1, TableFacts, TableIntro
  <1> QED BY <1>1, <1>2

LEMMA WithoutTable ==
  ASSUME NEW f \in Tables, NEW S
  PROVE  /\ Without(f, S) \in Tables
         /\ DOMAIN Without(f, S) = DOMAIN f \ S
         /\ \A x \in DOMAIN f \ S : Without(f, S)[x] = f[x]
  <1> DEFINE g == Without(f, S)
  <1>1. /\ DOMAIN g = DOMAIN f \ S /\ g = [x \in DOMAIN g |-> g[x]]
        /\ \A x \in DOMAIN g : g[x] = f[x]
    BY DEF Without
  <1>2. g \in Tables BY <1>1, TableFacts, TableIntro
  <1> QED BY <1>1, <1>2

LEMMA EmptyTable == <<>> \in Tables /\ DOMAIN <<>> = {}
  <1>1. DOMAIN <<>> = {} OBVIOUS
  <1>2. <<>> = [id \in DOMAIN <<>> |-> <<>>[id]] OBVIOUS
  <1> QED BY <1>1, <1>2, TableIntro, Zenon

-----------------------------------------------------------------------------
(* One record *)

LEMMA RestoredFits ==
  ASSUME NEW u \in undo_state, NEW t \in Tables, NEW n, NEW s \in Tables \X (0..MaxId),
         Fits(u, t, n, s)
  PROVE  Restored(u, t) = s[1]
  <1>1. s[1] \in Tables OBVIOUS
  <1>2. s[1] = [id \in DOMAIN s[1] |-> s[1][id]] BY <1>1, TableFacts
  <1> DEFINE kept == DOMAIN t \ u.new_ids
  <1>3. DOMAIN s[1] = kept \cup DOMAIN u.removed_values BY DEF Fits
  <1>4. ASSUME NEW id \in DOMAIN s[1]
        PROVE  s[1][id] = IF id \notin kept THEN u.removed_values[id]
                          ELSE IF id \in DOMAIN u.old_values THEN u.old_values[id] ELSE t[id]
    BY <1>3, <1>4 DEF Fits
  <1>5. Restored(u, t) =
          [id \in DOMAIN s[1] |-> IF id \notin kept THEN u.removed_values[id]
                          ELSE IF id \in DOMAIN u.old_values THEN u.old_values[id] ELSE t[id]]
    BY <1>3 DEF Restored
  <1> QED BY <1>2, <1>4, <1>5

\* Creating, modifying and removing an object keep the newest record fitting.
LEMMA CreateFits ==
  ASSUME NEW u \in undo_state, NEW t \in Tables, NEW n \in 0..(MaxId - 1), NEW v \in Value,
         NEW s \in Tables \X (0..MaxId), Fits(u, t, n, s), \A id \in DOMAIN t : id < n
  PROVE  LET w == [u EXCEPT !.new_ids = @ \cup {n}] IN
         w \in undo_state /\ Fits(w, Bind(t, n, v), n + 1, s)
  <1> DEFINE w == [u EXCEPT !.new_ids = @ \cup {n}]
             g == Bind(t, n, v)
  <1>1. n \in Ids /\ n \in Int BY UndoAssumption DEF Ids
  <1>2. w \in undo_state BY <1>1 DEF undo_state
  <1>3. /\ w.new_ids = u.new_ids \cup {n} /\ w.old_values = u.old_values
        /\ w.removed_values = u.removed_values /\ w.old_next_id = u.old_next_id
    BY DEF undo_state
  <1>4. DOMAIN g = DOMAIN t \cup {n} /\ \A x \in DOMAIN t : x # n => g[x] = t[x]
    BY <1>1, BindTable, ZenonT(60)
  <1>5. n \notin DOMAIN t BY <1>1
  <1>6. s[2] <= n /\ s[2] \in Nat /\ s[2] <= n + 1 BY <1>1 DEF Fits
  <1>7. n \notin DOMAIN s[1] BY <1>1, <1>6 DEF Fits
  <1> HIDE DEF w, g
  <1>8. Fits(w, g, n + 1, s)
    <2>1. w.new_ids \subseteq DOMAIN g /\ DOMAIN w.old_values \subseteq DOMAIN g
      BY <1>3, <1>4 DEF Fits
    <2>2. w.new_ids \cap DOMAIN w.old_values = {} /\ DOMAIN w.removed_values \cap DOMAIN g = {}
      BY <1>3, <1>4, <1>5, <1>7 DEF Fits
    <2>3. \A id \in w.new_ids : s[2] <= id BY <1>3, <1>6 DEF Fits
    <2>4. DOMAIN s[1] = (DOMAIN g \ w.new_ids) \cup DOMAIN w.removed_values
      BY <1>3, <1>4, <1>5 DEF Fits
    <2>5. \A id \in DOMAIN g \ (w.new_ids \cup DOMAIN w.old_values) : s[1][id] = g[id]
      BY <1>3, <1>4, <1>5 DEF Fits
    <2> QED BY <1>3, <1>6, <2>1, <2>2, <2>3, <2>4, <2>5 DEF Fits
  <1> QED BY <1>2, <1>8 DEF w, g

LEMMA ModifyFits ==
  ASSUME NEW u \in undo_state, NEW t \in Tables, NEW n, NEW id \in DOMAIN t, NEW v \in Value,
         NEW s \in Tables \X (0..MaxId), Fits(u, t, n, s)
  PROVE  LET w == IF id \in u.new_ids \/ id \in DOMAIN u.old_values THEN u
                  ELSE [u EXCEPT !.old_values = Bind(@, id, t[id])] IN
         w \in undo_state /\ Fits(w, [t EXCEPT ![id] = v], n, s)
  <1> DEFINE g == [t EXCEPT ![id] = v]
             w == [u EXCEPT !.old_values = Bind(@, id, t[id])]
  <1>1. id \in Ids /\ t[id] \in Value BY TableFacts
  <1>2. DOMAIN g = DOMAIN t /\ \A x \in DOMAIN t : x # id => g[x] = t[x] BY TableFacts
  <1>3. CASE id \in u.new_ids \/ id \in DOMAIN u.old_values
    <2> HIDE DEF g
    <2>1. Fits(u, g, n, s) BY <1>2, <1>3 DEF Fits
    <2> QED BY <1>3, <2>1 DEF g
  <1>4. CASE ~(id \in u.new_ids \/ id \in DOMAIN u.old_values)
    <2> DEFINE o == u.old_values
               y == t[id]
               b == Bind(o, id, y)
    <2>1. o \in Tables /\ y \in Value BY <1>1 DEF undo_state
    <2> HIDE DEF o, y
    <2>2. /\ b \in Tables /\ DOMAIN b = DOMAIN o \cup {id} /\ b[id] = y
          /\ \A x \in DOMAIN o : x # id => b[x] = o[x]
      <3>1. b \in Tables BY <1>1, <2>1, BindTable, Zenon
      <3> QED BY <3>1 DEF Bind
    <2> HIDE DEF b
    <2>3. w = [u EXCEPT !.old_values = b] BY DEF b, o, y
    <2>4. w \in undo_state BY <2>2, <2>3 DEF undo_state
    <2>5. /\ w.new_ids = u.new_ids /\ w.old_values = b
          /\ w.removed_values = u.removed_values /\ w.old_next_id = u.old_next_id
      BY <2>3 DEF undo_state
    <2> HIDE DEF w, g
    <2>6. s[1][id] = t[id] BY <1>4 DEF Fits
    <2>7. Fits(w, g, n, s) BY <1>2, <1>4, <2>2, <2>5, <2>6 DEF Fits, o, y
    <2> QED BY <1>4, <2>4, <2>7 DEF w, g
  <1> QED BY <1>3, <1>4

\* What on_remove makes of the newest record.
Removed(u, t, id) ==
  IF id \in u.new_ids THEN [u EXCEPT !.new_ids = @ \ {id}]
  ELSE IF id \in DOMAIN u.old_values
    THEN [u EXCEPT
            !.removed_values = IF id \in DOMAIN @ THEN @ ELSE Bind(@, id, u.old_values[id]),
            !.old_values = Without(@, {id})]
  ELSE IF id \in DOMAIN u.removed_values THEN u
  ELSE [u EXCEPT !.removed_values = Bind(@, id, t[id])]

LEMMA RemoveFits ==
  ASSUME NEW u \in undo_state, NEW t \in Tables, NEW n, NEW id \in DOMAIN t,
         NEW s \in Tables \X (0..MaxId), Fits(u, t, n, s)
  PROVE  Removed(u, t, id) \in undo_state /\ Fits(Removed(u, t, id), Without(t, {id}), n, s)
  <1> DEFINE g == Without(t, {id})
             w == Removed(u, t, id)
             r == u.removed_values
             o == u.old_values
             y == IF id \in DOMAIN o THEN o[id] ELSE t[id]
             b == Bind(r, id, y)
             c == Without(o, {id})
  <1>1. id \in Ids /\ t[id] \in Value BY TableFacts
  <1>2. DOMAIN g = DOMAIN t \ {id} /\ \A x \in DOMAIN g : g[x] = t[x] BY DEF Without
  <1>3. r \in Tables /\ o \in Tables BY DEF undo_state
  <1>4. y \in Value BY <1>1, <1>3, TableFacts
  <1>5. id \notin DOMAIN r BY DEF Fits
  <1> HIDE DEF r, o, y
  <1>6. /\ b \in Tables /\ DOMAIN b = DOMAIN r \cup {id} /\ b[id] = y
        /\ \A x \in DOMAIN r : x # id => b[x] = r[x]
    <2>1. b \in Tables BY <1>1, <1>3, <1>4, BindTable, Zenon
    <2> QED BY <2>1 DEF Bind
  <1>7. c \in Tables /\ DOMAIN c = DOMAIN o \ {id} /\ \A x \in DOMAIN c : c[x] = o[x]
    <2>1. c \in Tables BY <1>3, WithoutTable, Zenon
    <2> QED BY <2>1 DEF Without
  <1> HIDE DEF g, b, c
  <1>8. CASE id \in u.new_ids
    <2>1. w = [u EXCEPT !.new_ids = @ \ {id}] BY <1>8 DEF Removed
    <2>2. w \in undo_state BY <2>1 DEF undo_state
    <2>3. /\ w.new_ids = u.new_ids \ {id} /\ w.old_values = u.old_values
          /\ w.removed_values = u.removed_values /\ w.old_next_id = u.old_next_id
      BY <2>1 DEF undo_state
    <2> HIDE DEF w
    <2>4. Fits(w, g, n, s) BY <1>2, <1>8, <2>3 DEF Fits
    <2> QED BY <2>2, <2>4 DEF w, g
  <1>9. CASE id \notin u.new_ids /\ id \in DOMAIN o
    <2>1. w = [u EXCEPT !.removed_values = b, !.old_values = c]
      BY <1>5, <1>9 DEF Removed, b, c, r, o, y
    <2>2. w \in undo_state BY <1>6, <1>7, <2>1, Zenon DEF undo_state
    <2>3. /\ w.new_ids = u.new_ids /\ w.old_values = c
          /\ w.removed_values = b /\ w.old_next_id = u.old_next_id
      BY <2>1 DEF undo_state
    <2>4. y = s[1][id] BY <1>9 DEF Fits, y, o
    <2> HIDE DEF w
    <2>5. Fits(w, g, n, s) BY <1>2, <1>6, <1>7, <1>9, <2>3, <2>4 DEF Fits, r, o
    <2> QED BY <2>2, <2>5 DEF w, g
  <1>10. CASE id \notin u.new_ids /\ id \notin DOMAIN o
    <2>1. w = [u EXCEPT !.removed_values = b]
      BY <1>5, <1>10 DEF Removed, b, r, o, y
    <2>2. w \in undo_state BY <1>6, <2>1 DEF undo_state
    <2>3. /\ w.new_ids = u.new_ids /\ w.old_values = u.old_values
          /\ w.removed_values = b /\ w.old_next_id = u.old_next_id
      BY <2>1 DEF undo_state
    <2>4. y = s[1][id] BY <1>10 DEF Fits, y, o
    <2> HIDE DEF w
    <2>5. Fits(w, g, n, s) BY <1>2, <1>6, <1>10, <2>3, <2>4 DEF Fits, r, o
    <2> QED BY <2>2, <2>5 DEF w, g
  <1> QED BY <1>8, <1>9, <1>10

\* The record of a session and the one above it compose to the record that
\* squash leaves.
LEMMA MergeFits ==
  ASSUME NEW p \in undo_state, NEW q \in undo_state, NEW t \in Tables, NEW n \in Nat,
         NEW s1 \in Tables \X (0..MaxId), NEW s2 \in Tables \X (0..MaxId),
         Fits(p, s2[1], s2[2], s1), Fits(q, t, n, s2)
  PROVE  Merged(p, q) \in undo_state /\ Fits(Merged(p, q), t, n, s1)
  <1> DEFINE po == p.old_values  pr == p.removed_values
             qo == q.old_values  qr == q.removed_values
             fresh == DOMAIN qo \ (p.new_ids \cup DOMAIN po)
             old == [id \in DOMAIN po \cup fresh |-> IF id \in fresh THEN qo[id] ELSE po[id]]
             new == p.new_ids \cup q.new_ids
             gone == DOMAIN qr \ new
             added == gone \ DOMAIN pr
             o == Without(old, gone)
             r == [id \in DOMAIN pr \cup added |->
                     IF id \notin added THEN pr[id]
                     ELSE IF id \in DOMAIN old THEN old[id] ELSE qr[id]]
             k == new \ DOMAIN qr
             m == Merged(p, q)
  <1>1. /\ po \in Tables /\ pr \in Tables /\ qo \in Tables /\ qr \in Tables
        /\ p.new_ids \subseteq Ids /\ q.new_ids \subseteq Ids
    BY DEF undo_state
  <1>2. m = [p EXCEPT !.old_values = o, !.new_ids = k, !.removed_values = r]
    BY DEF Merged
  <1> HIDE DEF m, po, pr, qo, qr
  <1>3. /\ DOMAIN old = DOMAIN po \cup fresh
        /\ \A id \in fresh : old[id] = qo[id]
        /\ \A id \in DOMAIN po : old[id] = po[id]
    OBVIOUS
  <1>4. old = [id \in DOMAIN old |-> old[id]] OBVIOUS
  <1> HIDE DEF old
  <1>5. old \in Tables
    <2>1. DOMAIN old \subseteq Ids BY <1>1, <1>3, TableFacts
    <2>2. \A id \in DOMAIN old : old[id] \in Value BY <1>1, <1>3, TableFacts
    <2> QED BY <1>4, <2>1, <2>2, TableIntro
  <1>6. DOMAIN o = DOMAIN old \ gone /\ (\A id \in DOMAIN o : o[id] = old[id])
    BY DEF Without
  <1>7. o \in Tables BY <1>5, WithoutTable, Zenon
  <1>8. /\ DOMAIN r = DOMAIN pr \cup added
        /\ \A id \in DOMAIN pr : r[id] = pr[id]
        /\ \A id \in added : r[id] = IF id \in DOMAIN old THEN old[id] ELSE qr[id]
    OBVIOUS
  <1>9. r = [id \in DOMAIN r |-> r[id]] OBVIOUS
  <1> HIDE DEF r, o
  <1>10. r \in Tables
    <2>1. DOMAIN r \subseteq Ids BY <1>1, <1>8, TableFacts
    <2>2. \A id \in DOMAIN r : r[id] \in Value BY <1>1, <1>5, <1>8, TableFacts
    <2> QED BY <1>9, <2>1, <2>2, TableIntro
  <1>11. m \in undo_state BY <1>1, <1>2, <1>7, <1>10, Zenon DEF undo_state
  <1>12. /\ m.new_ids = k /\ m.old_values = o /\ m.removed_values = r
         /\ m.old_next_id = p.old_next_id
    BY <1>2 DEF undo_state
  <1>13. Fits(m, t, n, s1)
    <2> DEFINE D == DOMAIN t
               T == DOMAIN s2[1]
               S == DOMAIN s1[1]
    <2>1. s1[2] \in Nat /\ s2[2] \in Nat /\ T \subseteq Int /\ S \subseteq Int
          /\ p.new_ids \subseteq Int /\ q.new_ids \subseteq Int
      BY <1>1, TableFacts, UndoAssumption DEF Ids
    <2>2. /\ p.new_ids \subseteq T /\ DOMAIN po \subseteq T /\ p.new_ids \cap DOMAIN po = {}
          /\ DOMAIN pr \cap T = {} /\ S = (T \ p.new_ids) \cup DOMAIN pr
      BY DEF Fits, po, pr
    <2>3. /\ q.new_ids \subseteq D /\ DOMAIN qo \subseteq D /\ q.new_ids \cap DOMAIN qo = {}
          /\ DOMAIN qr \cap D = {} /\ T = (D \ q.new_ids) \cup DOMAIN qr
      BY DEF Fits, qo, qr
    <2>4. /\ p.old_next_id = s1[2] /\ s1[2] <= s2[2] /\ s2[2] <= n
          /\ \A id \in p.new_ids : s1[2] <= id
          /\ \A id \in q.new_ids : s2[2] <= id
          /\ \A id \in S : id < s1[2]
          /\ \A id \in T : id < s2[2]
      BY DEF Fits
    <2>5. T \cap q.new_ids = {} BY <2>1, <2>4
    <2>6. S \cap q.new_ids = {} /\ S \cap p.new_ids = {} BY <2>1, <2>4
    <2>7. s1[2] <= n /\ (\A id \in k : s1[2] <= id) BY <2>1, <2>4
    <2>8. /\ \A id \in DOMAIN pr : s1[1][id] = pr[id]
          /\ \A id \in DOMAIN po : s1[1][id] = po[id]
          /\ \A id \in T \ (p.new_ids \cup DOMAIN po) : s1[1][id] = s2[1][id]
      BY DEF Fits, po, pr
    <2>9. /\ \A id \in DOMAIN qr : s2[1][id] = qr[id]
          /\ \A id \in DOMAIN qo : s2[1][id] = qo[id]
          /\ \A id \in D \ (q.new_ids \cup DOMAIN qo) : s2[1][id] = t[id]
      BY DEF Fits, qo, qr
    <2>10. \A id \in DOMAIN old : id \in S /\ s1[1][id] = old[id]
      BY <1>3, <2>2, <2>3, <2>5, <2>8, <2>9
    <2> HIDE DEF D, T, S
    <2>11. k \subseteq D /\ DOMAIN o \subseteq D /\ k \cap DOMAIN o = {}
      BY <1>3, <1>6, <2>2, <2>3, <2>5
    <2>12. DOMAIN r \cap D = {}
      BY <1>8, <2>2, <2>3, <2>6
    <2>13. S = (D \ k) \cup DOMAIN r
      BY <1>8, <2>2, <2>3, <2>5, <2>6, SMTT(30)
    <2>14. \A id \in DOMAIN r : s1[1][id] = r[id]
      BY <1>3, <1>8, <2>2, <2>3, <2>8, <2>9, <2>10
    <2>15. \A id \in DOMAIN o : s1[1][id] = o[id] BY <1>6, <2>10
    <2>16. \A id \in D \ (k \cup DOMAIN o) : s1[1][id] = t[id]
      BY <1>3, <1>6, <2>2, <2>3, <2>5, <2>8, <2>9
    <2> HIDE DEF k
    <2> QED BY <1>12, <2>4, <2>7, <2>11, <2>12, <2>13, <2>14, <2>15, <2>16 DEF Fits, D, S
  <1> QED BY <1>11, <1>13 DEF m

-----------------------------------------------------------------------------
(* The invariant is inductive *)

LEMMA HeadFacts ==
  ASSUME IInv, stack # <<>>
  PROVE  /\ Len(stack) \in Nat \ {0} /\ head \in undo_state
         /\ copies[Len(stack)] \in Tables \X (0..MaxId)
         /\ Fits(head, indices, next_id, copies[Len(stack)])
  <1>1. Len(stack) \in Nat \ {0} /\ Len(stack) = Len(copies) BY EmptySeq DEF IInv, TypeOK
  <1>2. head \in undo_state /\ copies[Len(stack)] \in Tables \X (0..MaxId)
    BY <1>1, ElementOfSeq DEF IInv, TypeOK, head
  <1>3. Fits(head, After(Len(stack)), NextAfter(Len(stack)), copies[Len(stack)])
    BY <1>1 DEF IInv, Fitting, head
  <1> QED BY <1>1, <1>2, <1>3 DEF After, NextAfter

\* A change of the table that is recorded in the newest state.
LEMMA RecordedChange ==
  ASSUME IInv, stack # <<>>, NEW w \in undo_state, stack' = Back(w),
         w.revision = head.revision,
         Fits(w, indices', next_id', copies[Len(stack)]),
         indices' \in Tables, next_id' \in 0..MaxId, FreshId',
         UNCHANGED <<copies, revision, unwinding>>
  PROVE  IInv'
  <1>1. Len(stack) \in Nat \ {0} BY HeadFacts
  <1>2. stack \in Seq(undo_state) BY DEF IInv, TypeOK
  <1>3. /\ stack' \in Seq(undo_state) /\ Len(stack') = Len(stack)
        /\ stack'[Len(stack)] = w
        /\ \A i \in 1..Len(stack) : i # Len(stack) => stack'[i] = stack[i]
    BY <1>1, <1>2 DEF Back
  <1>4. TypeOK' BY <1>1, <1>3 DEF IInv, TypeOK
  <1>5. RevisionsContiguous' BY <1>1, <1>3 DEF IInv, RevisionsContiguous, head
  <1>6. ASSUME NEW i \in 1..Len(stack)
        PROVE  Fits(stack'[i], After(i)', NextAfter(i)', copies[i])
    <2>1. CASE i = Len(stack) BY <1>3, <2>1 DEF After, NextAfter
    <2>2. CASE i # Len(stack)
      <3>1. Fits(stack[i], After(i), NextAfter(i), copies[i]) BY DEF IInv, Fitting
      <3>2. After(i)' = After(i) /\ NextAfter(i)' = NextAfter(i)
        BY <1>3, <2>2 DEF After, NextAfter
      <3> QED BY <1>3, <2>2, <3>1, <3>2
    <2> QED BY <2>1, <2>2
  <1>7. Fitting' BY <1>3, <1>6 DEF Fitting
  <1> QED BY <1>4, <1>5, <1>7 DEF IInv

\* A change of the table while no session is open.
LEMMA FreeChange ==
  ASSUME IInv, stack = <<>>, indices' \in Tables, next_id' \in 0..MaxId, FreshId',
         UNCHANGED <<stack, copies, revision, unwinding>>
  PROVE  IInv'
  BY DEF IInv, TypeOK, RevisionsContiguous, Fitting

LEMMA ChangeInv ==
  ASSUME IInv, Change, UNCHANGED copies
  PROVE  IInv'
  <1>1. /\ indices \in Tables /\ next_id \in 0..MaxId /\ DOMAIN indices \subseteq Ids
        /\ \A id \in DOMAIN indices : id < next_id
    BY TableFacts DEF IInv, TypeOK, FreshId
  <1>2. ASSUME NEW v \in Value, emplace(v) PROVE IInv'
    <2>1. /\ next_id \in 0..(MaxId - 1) /\ next_id \in Ids /\ next_id' = next_id + 1
          /\ next_id' \in 0..MaxId
      BY <1>1, <1>2, UndoAssumption DEF emplace, Ids
    <2>2. indices' \in Tables /\ DOMAIN indices' = DOMAIN indices \cup {next_id}
      BY <1>1, <1>2, <2>1, BindTable DEF emplace
    <2>3. FreshId' BY <1>1, <2>1, <2>2 DEF FreshId, Ids
    <2>4. CASE stack = <<>>
      BY <1>2, <2>1, <2>2, <2>3, <2>4, FreeChange, SMTT(30) DEF emplace, on_create, enabled
    <2>5. CASE stack # <<>>
      <3> DEFINE w == [head EXCEPT !.new_ids = @ \cup {next_id}]
      <3>1. w \in undo_state /\ Fits(w, indices', next_id', copies[Len(stack)])
        BY <1>1, <1>2, <2>1, <2>5, HeadFacts, CreateFits DEF emplace
      <3>2. w.revision = head.revision BY <2>5, HeadFacts DEF undo_state
      <3>3. stack' = Back(w) BY <1>2, <2>5 DEF emplace, on_create, enabled
      <3> HIDE DEF w
      <3> QED BY <1>2, <2>1, <2>2, <2>3, <2>5, <3>1, <3>2, <3>3, RecordedChange DEF emplace
    <2> QED BY <2>4, <2>5
  <1>3. ASSUME NEW id \in Ids, NEW v \in Value, modify(id, v) PROVE IInv'
    <2>1. id \in DOMAIN indices /\ next_id' \in 0..MaxId BY <1>1, <1>3 DEF modify
    <2>2. indices' = [indices EXCEPT ![id] = v] BY <1>3 DEF modify
    <2>3. indices' \in Tables /\ DOMAIN indices' = DOMAIN indices
      <3>1. /\ DOMAIN indices' = DOMAIN indices /\ indices' = [x \in DOMAIN indices' |-> indices'[x]]
            /\ \A x \in DOMAIN indices' : indices'[x] \in Value
        BY <1>1, <2>2, TableFacts, ZenonT(60)
      <3> QED BY <1>1, <3>1, TableIntro
    <2>4. FreshId' BY <1>1, <1>3, <2>3 DEF FreshId, modify
    <2>5. CASE stack = <<>>
      BY <1>3, <2>1, <2>3, <2>4, <2>5, FreeChange DEF modify, on_modify, enabled
    <2>6. CASE stack # <<>>
      <3> DEFINE w == IF id \in head.new_ids \/ id \in DOMAIN head.old_values THEN head
                      ELSE [head EXCEPT !.old_values = Bind(@, id, indices[id])]
      <3>1. w \in undo_state /\ Fits(w, indices', next_id, copies[Len(stack)])
        BY <1>1, <1>3, <2>1, <2>2, <2>6, HeadFacts, ModifyFits, Zenon
      <3>2. w.revision = head.revision BY <2>6, HeadFacts DEF undo_state
      <3>3. stack' = Back(w)
        <4>1. stack = Back(head) BY <2>6, HeadFacts DEF Back, head, IInv, TypeOK
        <4> QED BY <1>3, <2>6, <4>1 DEF modify, on_modify, enabled
      <3>4. next_id' = next_id /\ UNCHANGED <<revision, unwinding>> BY <1>3 DEF modify
      <3> HIDE DEF w
      <3> QED BY <2>1, <2>3, <2>4, <2>6, <3>1, <3>2, <3>3, <3>4, RecordedChange
    <2> QED BY <2>5, <2>6
  <1>4. ASSUME NEW id \in Ids, remove(id) PROVE IInv'
    <2>1. id \in DOMAIN indices /\ next_id' \in 0..MaxId BY <1>1, <1>4 DEF remove
    <2>2. indices' \in Tables /\ DOMAIN indices' = DOMAIN indices \ {id}
      BY <1>1, <1>4, WithoutTable, Zenon DEF remove
    <2>3. FreshId' BY <1>1, <1>4, <2>2 DEF FreshId, remove
    <2>4. CASE stack = <<>>
      BY <1>4, <2>1, <2>2, <2>3, <2>4, FreeChange DEF remove, on_remove, enabled
    <2>5. CASE stack # <<>>
      <3> DEFINE w == Removed(head, indices, id)
      <3>1. w \in undo_state /\ Fits(w, indices', next_id, copies[Len(stack)])
        BY <1>1, <1>4, <2>1, <2>5, HeadFacts, RemoveFits DEF remove
      <3>2. w.revision = head.revision BY <2>5, HeadFacts DEF undo_state, Removed
      <3>3. stack' = Back(w)
        <4>1. stack = Back(head) BY <2>5, HeadFacts DEF Back, head, IInv, TypeOK
        <4> QED BY <1>4, <2>5, <4>1 DEF remove, on_remove, enabled, Removed
      <3>4. next_id' = next_id /\ UNCHANGED <<revision, unwinding>> BY <1>4 DEF remove
      <3> HIDE DEF w
      <3> QED BY <2>1, <2>2, <2>3, <2>5, <3>1, <3>2, <3>3, <3>4, RecordedChange
    <2> QED BY <2>4, <2>5
  <1> QED BY <1>2, <1>3, <1>4 DEF Change

LEMMA StartInv ==
  ASSUME IInv, start_undo_session, copies' = Append(copies, <<indices, next_id>>)
  PROVE  IInv'
  <1> DEFINE u == [old_values |-> <<>>, removed_values |-> <<>>, new_ids |-> {},
                   old_next_id |-> next_id, revision |-> revision + 1]
             s == <<indices, next_id>>
             n == Len(stack)
  <1>1. /\ indices \in Tables /\ next_id \in 0..MaxId /\ revision \in Nat /\ n \in Nat
        /\ stack \in Seq(undo_state) /\ copies \in Seq(Tables \X (0..MaxId))
        /\ Len(copies) = n
    BY DEF IInv, TypeOK
  <1>2. u \in undo_state BY <1>1, EmptyTable DEF undo_state
  <1>3. s \in Tables \X (0..MaxId) BY <1>1
  <1>4. Fits(u, indices, next_id, s)
    <2>1. \A id \in DOMAIN indices : id < next_id BY DEF IInv, FreshId
    <2>2. next_id <= next_id BY <1>1
    <2> QED BY <2>1, <2>2, EmptyTable DEF Fits
  <1>5. stack' = Append(stack, u) BY DEF start_undo_session
  <1> HIDE DEF u
  <1>6. /\ stack' \in Seq(undo_state) /\ Len(stack') = n + 1 /\ stack'[n + 1] = u
        /\ \A i \in 1..n : stack'[i] = stack[i]
    BY <1>1, <1>2, <1>5
  <1>7. copies' = Append(copies, s) OBVIOUS
  <1>8. s[1] = indices /\ s[2] = next_id OBVIOUS
  <1> HIDE DEF s
  <1>9. /\ copies' \in Seq(Tables \X (0..MaxId)) /\ Len(copies') = n + 1
        /\ copies'[n + 1] = s /\ \A i \in 1..n : copies'[i] = copies[i]
    BY <1>1, <1>3, <1>7
  <1>10. UNCHANGED <<indices, next_id, unwinding>> /\ revision' = revision + 1 /\ n < MaxDepth
    BY DEF start_undo_session
  <1>11. TypeOK' BY <1>1, <1>6, <1>9, <1>10, UndoAssumption, SMTT(30) DEF IInv, TypeOK
  <1>12. RevisionsContiguous'
    <2>1. u.revision = revision + 1 BY DEF u
    <2>2. n <= revision /\ \A i \in 1..n : stack[i].revision = revision - n + i
      BY DEF IInv, RevisionsContiguous
    <2>3. Len(stack') = n + 1 /\ revision' = revision + 1 BY <1>6, <1>10
    <2>4. ASSUME NEW i \in 1..(n + 1)
          PROVE  stack'[i].revision = revision' - Len(stack') + i
      <3>1. CASE i = n + 1
        <4>1. stack'[i].revision = revision + 1 BY <1>6, <2>1, <3>1
        <4> QED BY <1>1, <2>3, <3>1, <4>1
      <3>2. CASE i # n + 1
        <4>1. i \in 1..n BY <1>1, <3>2
        <4>2. stack'[i].revision = revision - n + i BY <1>6, <2>2, <4>1
        <4> QED BY <1>1, <2>3, <4>1, <4>2
      <3> QED BY <3>1, <3>2
    <2>5. n + 1 <= revision + 1 BY <1>1, <2>2
    <2> QED BY <2>3, <2>4, <2>5 DEF RevisionsContiguous
  <1>13. FreshId' BY <1>10 DEF IInv, FreshId
  <1>14. ASSUME NEW i \in 1..(n + 1)
         PROVE  Fits(stack'[i], After(i)', NextAfter(i)', copies'[i])
    <2>1. CASE i = n + 1
      BY <1>4, <1>6, <1>9, <1>10, <2>1, Zenon DEF After, NextAfter
    <2>2. CASE i # n + 1
      <3>1. i \in 1..n BY <1>1, <2>2
      <3>2. Fits(stack[i], After(i), NextAfter(i), copies[i]) BY <3>1 DEF IInv, Fitting
      <3>3. After(i)' = copies'[i + 1][1] /\ NextAfter(i)' = copies'[i + 1][2]
        BY <1>1, <1>6, <2>2 DEF After, NextAfter
      <3>4. CASE i = n BY <1>6, <1>8, <1>9, <3>1, <3>2, <3>3, <3>4 DEF After, NextAfter
      <3>5. CASE i # n
        <4>1. i + 1 \in 1..n BY <1>1, <3>1, <3>5
        <4> QED BY <1>6, <1>9, <3>1, <3>2, <3>3, <3>5, <4>1, Zenon DEF After, NextAfter
      <3> QED BY <3>4, <3>5, Zenon
    <2> QED BY <2>1, <2>2, Zenon
  <1>15. Fitting' BY <1>6, <1>14, Zenon DEF Fitting
  <1> QED BY <1>11, <1>12, <1>13, <1>15 DEF IInv

\* The step of undo goes back to the newest copy.
LEMMA UndoEffect ==
  ASSUME IInv, undo
  PROVE  /\ Len(stack) \in Nat \ {0} /\ copies[Len(stack)] \in Tables \X (0..MaxId)
         /\ indices' = copies[Len(stack)][1] /\ next_id' = copies[Len(stack)][2]
         /\ \A id \in DOMAIN indices' : id < next_id'
  <1>1. stack # <<>> BY DEF undo, enabled
  <1>2. indices \in Tables BY DEF IInv, TypeOK
  <1>3. Restored(head, indices) = copies[Len(stack)][1]
    BY <1>1, <1>2, HeadFacts, RestoredFits
  <1>4. head.old_next_id = copies[Len(stack)][2] BY <1>1, HeadFacts DEF Fits
  <1>5. \A id \in DOMAIN copies[Len(stack)][1] : id < copies[Len(stack)][2]
    BY <1>1, HeadFacts DEF Fits
  <1>6. indices' = copies[Len(stack)][1] /\ next_id' = copies[Len(stack)][2]
    BY <1>3, <1>4 DEF undo
  <1> QED BY <1>1, <1>5, <1>6, HeadFacts

LEMMA UndoInv ==
  ASSUME IInv, undo, copies' = SubSeq(copies, 1, Len(copies) - 1)
  PROVE  IInv'
  <1> DEFINE n == Len(stack)
  <1>1. /\ n \in Nat \ {0} /\ stack \in Seq(undo_state) /\ stack # <<>>
        /\ copies \in Seq(Tables \X (0..MaxId)) /\ Len(copies) = n /\ copies # <<>>
        /\ n <= MaxDepth /\ revision \in Nat /\ n <= revision
    BY UndoEffect DEF IInv, TypeOK, RevisionsContiguous, undo, enabled
  <1>2. /\ stack' \in Seq(undo_state) /\ Len(stack') = n - 1
        /\ \A i \in 1..(n - 1) : stack'[i] = stack[i]
    BY <1>1, FrontFacts DEF undo, Popped
  <1>3. /\ copies' \in Seq(Tables \X (0..MaxId)) /\ Len(copies') = n - 1
        /\ \A i \in 1..(n - 1) : copies'[i] = copies[i]
    BY <1>1, FrontFacts, Zenon
  <1>4. /\ indices' = copies[n][1] /\ next_id' = copies[n][2]
        /\ indices' \in Tables /\ next_id' \in 0..MaxId /\ FreshId'
    BY UndoEffect DEF FreshId
  <1>5. revision' = revision - 1 /\ unwinding' = (unwinding /\ n > 1) BY DEF undo
  <1>6. TypeOK'
    <2>1. unwinding' \in BOOLEAN /\ (unwinding' => n > 1) BY <1>5, Zenon
    <2>2. unwinding' => stack' # <<>> BY <1>1, <1>2, <2>1
    <2>3. revision' \in Nat /\ Len(stack') <= MaxDepth BY <1>1, <1>2, <1>5, UndoAssumption
    <2> QED BY <1>2, <1>3, <1>4, <2>1, <2>2, <2>3, Zenon DEF TypeOK
  <1>7. RevisionsContiguous'
    <2>1. \A i \in 1..n : stack[i].revision = revision - n + i
      BY DEF IInv, RevisionsContiguous
    <2>2. ASSUME NEW i \in 1..(n - 1) PROVE stack'[i].revision = revision - 1 - (n - 1) + i
      <3>1. i \in 1..n BY <1>1
      <3>2. stack'[i].revision = revision - n + i BY <1>2, <2>1, <3>1
      <3> QED BY <1>1, <3>2
    <2>3. n - 1 <= revision - 1 BY <1>1
    <2> QED BY <1>2, <1>5, <2>2, <2>3 DEF RevisionsContiguous
  <1>8. ASSUME NEW i \in 1..(n - 1)
        PROVE  Fits(stack'[i], After(i)', NextAfter(i)', copies'[i])
    <2>1. Fits(stack[i], copies[i + 1][1], copies[i + 1][2], copies[i])
      <3>1. i \in 1..n /\ i # n BY <1>1
      <3> QED BY <3>1 DEF IInv, Fitting, After, NextAfter
    <2>2. After(i)' = copies[i + 1][1] /\ NextAfter(i)' = copies[i + 1][2]
      <3>1. CASE i = n - 1 BY <1>1, <1>2, <1>4, <3>1 DEF After, NextAfter
      <3>2. CASE i # n - 1
        <4>1. i + 1 \in 1..(n - 1) BY <1>1, <3>2
        <4> QED BY <1>2, <1>3, <3>2, <4>1, Zenon DEF After, NextAfter
      <3> QED BY <3>1, <3>2
    <2> QED BY <1>2, <1>3, <2>1, <2>2, Zenon
  <1>9. Fitting' BY <1>2, <1>8, Zenon DEF Fitting
  <1> QED BY <1>4, <1>6, <1>7, <1>9 DEF IInv

LEMMA SquashInv ==
  ASSUME IInv, squash, copies' = SubSeq(copies, 1, Len(copies) - 1)
  PROVE  IInv'
  <1> DEFINE n == Len(stack)
  <1>1. /\ n \in Nat \ {0} /\ stack \in Seq(undo_state) /\ stack # <<>>
        /\ copies \in Seq(Tables \X (0..MaxId)) /\ Len(copies) = n /\ copies # <<>>
        /\ n <= MaxDepth /\ revision \in Nat /\ n <= revision
        /\ indices \in Tables /\ next_id \in 0..MaxId
    BY HeadFacts DEF IInv, TypeOK, RevisionsContiguous, squash, enabled
  <1>2. /\ Popped \in Seq(undo_state) /\ Len(Popped) = n - 1
        /\ \A i \in 1..(n - 1) : Popped[i] = stack[i]
    BY <1>1, FrontFacts, Zenon DEF Popped
  <1>3. /\ copies' \in Seq(Tables \X (0..MaxId)) /\ Len(copies') = n - 1
        /\ \A i \in 1..(n - 1) : copies'[i] = copies[i]
    BY <1>1, FrontFacts, Zenon
  <1>4. /\ UNCHANGED <<indices, next_id, unwinding>> /\ revision' = revision - 1
        /\ unwinding = FALSE
    BY DEF squash, IInv, TypeOK
  <1>5. FreshId' BY <1>4 DEF IInv, FreshId
  <1>6. CASE n = 1
    <2>1. stack' = <<>> BY <1>6 DEF squash
    <2>2. TypeOK'
      <3>1. revision' \in Nat /\ Len(stack') = 0 /\ 0 <= MaxDepth /\ Len(copies') = 0
        BY <1>1, <1>3, <1>4, <1>6, <2>1, UndoAssumption
      <3>2. stack' \in Seq(undo_state) BY <2>1
      <3>3. unwinding' \in BOOLEAN /\ ~unwinding' BY <1>4, Zenon
      <3> QED BY <1>1, <1>3, <1>4, <3>1, <3>2, <3>3 DEF TypeOK
    <2>3. RevisionsContiguous' BY <1>1, <1>4, <2>1 DEF RevisionsContiguous
    <2>4. Fitting' BY <2>1 DEF Fitting
    <2> QED BY <1>5, <2>2, <2>3, <2>4 DEF IInv
  <1>7. CASE n # 1
    <2> DEFINE p == stack[n - 1]
               m == Merged(p, head)
    <2>1. n - 1 \in 1..n /\ n - 1 \in 1..(n - 1) /\ n \in 1..n BY <1>1, <1>7
    <2>2. /\ p \in undo_state /\ head \in undo_state
          /\ copies[n - 1] \in Tables \X (0..MaxId) /\ copies[n] \in Tables \X (0..MaxId)
      BY <1>1, <2>1, ElementOfSeq DEF head
    <2>3. Fits(head, indices, next_id, copies[n]) BY <1>1, HeadFacts
    <2>4. Fits(p, copies[n][1], copies[n][2], copies[n - 1])
      <3>1. Fits(stack[n - 1], After(n - 1), NextAfter(n - 1), copies[n - 1])
        BY <2>1 DEF IInv, Fitting
      <3>2. n - 1 # n /\ (n - 1) + 1 = n BY <1>1
      <3> QED BY <3>1, <3>2, Zenon DEF After, NextAfter
    <2>5. m \in undo_state /\ Fits(m, indices, next_id, copies[n - 1])
      <3>1. next_id \in Nat BY <1>1, UndoAssumption
      <3> QED BY <1>1, <2>2, <2>3, <2>4, <3>1, MergeFits, Zenon
    <2>6. m.revision = p.revision BY <2>2 DEF Merged, undo_state
    <2>7. stack' = [Popped EXCEPT ![n - 1] = m]
      BY <1>2, <1>7, <2>1, Zenon DEF squash
    <2> HIDE DEF m
    <2>8. /\ stack' \in Seq(undo_state) /\ Len(stack') = n - 1 /\ stack'[n - 1] = m
          /\ \A i \in 1..(n - 1) : i # n - 1 => stack'[i] = stack[i]
      BY <1>1, <1>2, <2>1, <2>5, <2>7, SMTT(30)
    <2>9. TypeOK'
      <3>1. revision' \in Nat /\ Len(stack') <= MaxDepth
        BY <1>1, <1>4, <2>8, UndoAssumption
      <3>2. unwinding' \in BOOLEAN /\ ~unwinding' BY <1>4, Zenon
      <3> QED BY <1>1, <1>3, <1>4, <2>8, <3>1, <3>2, Zenon DEF TypeOK
    <2>10. RevisionsContiguous'
      <3>1. \A i \in 1..n : stack[i].revision = revision - n + i
        BY DEF IInv, RevisionsContiguous
      <3>2. \A i \in 1..(n - 1) : stack'[i].revision = stack[i].revision
        BY <2>6, <2>8, Zenon
      <3>3. ASSUME NEW i \in 1..(n - 1)
            PROVE  stack'[i].revision = revision - 1 - (n - 1) + i
        <4>1. i \in 1..n BY <1>1
        <4>2. stack'[i].revision = revision - n + i BY <3>1, <3>2, <4>1
        <4> QED BY <1>1, <4>2
      <3>4. n - 1 <= revision - 1 BY <1>1
      <3>5. Len(stack') = n - 1 BY <2>8
      <3> QED BY <1>4, <3>3, <3>4, <3>5 DEF RevisionsContiguous
    <2>11. ASSUME NEW i \in 1..(n - 1)
           PROVE  Fits(stack'[i], After(i)', NextAfter(i)', copies'[i])
      <3>1. CASE i = n - 1
        BY <1>3, <1>4, <2>1, <2>5, <2>8, <3>1, Zenon DEF After, NextAfter
      <3>2. CASE i # n - 1
        <4>1. i + 1 \in 1..(n - 1) /\ i \in 1..n /\ i # n BY <1>1, <3>2, SMTT(30)
        <4>2. Fits(stack[i], copies[i + 1][1], copies[i + 1][2], copies[i])
          BY <4>1 DEF IInv, Fitting, After, NextAfter
        <4>3. After(i)' = copies[i + 1][1] /\ NextAfter(i)' = copies[i + 1][2]
          <5>1. Len(stack') = n - 1 /\ copies'[i + 1] = copies[i + 1] BY <1>3, <2>8, <4>1, Zenon
          <5> QED BY <1>3, <3>2, <5>1, Zenon DEF After, NextAfter
        <4> QED BY <1>3, <2>8, <3>2, <4>2, <4>3, Zenon
      <3> QED BY <3>1, <3>2, Zenon
    <2>12. Fitting' BY <2>8, <2>11, Zenon DEF Fitting
    <2> QED BY <1>5, <2>9, <2>10, <2>12 DEF IInv
  <1> QED BY <1>6, <1>7

LEMMA CommitInv ==
  ASSUME IInv, NEW r \in 0..MaxRevision, NEW k \in 0..Len(stack), commit(r, k),
         copies' = SubSeq(copies, k + 1, Len(copies))
  PROVE  IInv'
  <1> DEFINE n == Len(stack)
             l == n - k
  <1>1. /\ n \in Nat /\ stack \in Seq(undo_state)
        /\ copies \in Seq(Tables \X (0..MaxId)) /\ Len(copies) = n
        /\ n <= MaxDepth /\ revision \in Nat /\ n <= revision
        /\ k \in Nat /\ k <= n /\ l \in Nat
    BY DEF IInv, TypeOK, RevisionsContiguous
  <1>2. /\ stack' \in Seq(undo_state) /\ Len(stack') = l
        /\ \A i \in 1..l : stack'[i] = stack[i + k]
    <2>1. stack' = SubSeq(stack, k + 1, Len(stack)) BY DEF commit
    <2> QED BY <1>1, <2>1, DropFacts
  <1>3. /\ copies' \in Seq(Tables \X (0..MaxId)) /\ Len(copies') = l
        /\ \A i \in 1..l : copies'[i] = copies[i + k]
    <2>1. k \in 0..Len(copies) BY <1>1
    <2> QED BY <1>1, <2>1, DropFacts, ZenonT(60)
  <1>4. UNCHANGED <<indices, next_id, revision, unwinding>> /\ ~unwinding BY DEF commit
  <1>5. TypeOK'
    <2>1. Len(stack') <= MaxDepth BY <1>1, <1>2, UndoAssumption
    <2> QED BY <1>1, <1>2, <1>3, <1>4, <2>1 DEF IInv, TypeOK
  <1>6. RevisionsContiguous'
    <2>1. ASSUME NEW i \in 1..l PROVE stack'[i].revision = revision - l + i
      <3>1. i + k \in 1..n BY <1>1
      <3>2. stack'[i].revision = revision - n + (i + k)
        BY <1>2, <3>1, Zenon DEF IInv, RevisionsContiguous
      <3> QED BY <1>1, <3>2, SMTT(30)
    <2>2. l <= revision BY <1>1
    <2> QED BY <1>2, <1>4, <2>1, <2>2 DEF RevisionsContiguous
  <1>7. FreshId' BY <1>4 DEF IInv, FreshId
  <1>8. ASSUME NEW i \in 1..l
        PROVE  Fits(stack'[i], After(i)', NextAfter(i)', copies'[i])
    <2>1. i + k \in 1..n BY <1>1
    <2>2. Fits(stack[i + k], After(i + k), NextAfter(i + k), copies[i + k])
      BY <2>1 DEF IInv, Fitting
    <2>3. After(i)' = After(i + k) /\ NextAfter(i)' = NextAfter(i + k)
      <3>1. CASE i = l
        <4>1. i + k = n BY <1>1, <3>1
        <4> QED BY <1>2, <1>4, <3>1, <4>1 DEF After, NextAfter
      <3>2. CASE i # l
        <4>1. i + k # n /\ i + 1 \in 1..l /\ (i + 1) + k = (i + k) + 1 BY <1>1, <3>2
        <4>2. copies'[i + 1] = copies[(i + k) + 1] BY <1>3, <4>1
        <4> QED BY <1>2, <3>2, <4>1, <4>2, Zenon DEF After, NextAfter
      <3> QED BY <3>1, <3>2
    <2> QED BY <1>2, <1>3, <2>2, <2>3, Zenon
  <1>9. Fitting' BY <1>2, <1>8, Zenon DEF Fitting
  <1> QED BY <1>5, <1>6, <1>7, <1>9 DEF IInv

LEMMA InitInv == HInit => IInv
  <1> SUFFICES ASSUME HInit PROVE IInv OBVIOUS
  <1>1. indices = <<>> /\ stack = <<>> /\ copies = <<>> /\ next_id = 0 /\ revision = 0
    BY DEF HInit, Init
  <1>2. Len(stack) = 0 /\ 0 <= MaxDepth /\ unwinding = FALSE BY <1>1, UndoAssumption DEF HInit, Init
  <1>3. TypeOK
    <2>1. 0 \in 0..MaxId /\ revision \in Nat BY <1>1, UndoAssumption
    <2>2. stack \in Seq(undo_state) /\ copies \in Seq(Tables \X (0..MaxId)) BY <1>1, EmptySeq
    <2>3. Len(stack) <= MaxDepth /\ Len(copies) = Len(stack) BY <1>1, <1>2
    <2>4. unwinding \in BOOLEAN /\ ~unwinding BY <1>2, Zenon
    <2>5. indices \in Tables /\ next_id \in 0..MaxId BY <1>1, <2>1, EmptyTable
    <2> QED BY <2>1, <2>2, <2>3, <2>4, <2>5 DEF TypeOK
  <1> QED BY <1>1, <1>2, <1>3, EmptyTable DEF IInv, RevisionsContiguous, FreshId, Fitting

LEMMA StepInv == IInv /\ [HNext]_hvars => IInv'
  <1> SUFFICES ASSUME IInv, [HNext]_hvars PROVE IInv' OBVIOUS
  <1>1. CASE Change /\ UNCHANGED copies BY <1>1, ChangeInv
  <1>2. CASE undo_all /\ UNCHANGED copies
    <2>1. UNCHANGED <<indices, next_id, stack, revision, copies>> /\ unwinding' = TRUE
          /\ stack # <<>>
      BY <1>2 DEF undo_all, enabled
    <2>2. TypeOK' BY <2>1 DEF IInv, TypeOK
    <2> QED BY <2>1, <2>2 DEF IInv, RevisionsContiguous, FreshId, Fitting, After, NextAfter
  <1>3. CASE start_undo_session /\ copies' = Append(copies, <<indices, next_id>>)
    BY <1>3, StartInv
  <1>4. CASE undo /\ copies' = SubSeq(copies, 1, Len(copies) - 1) BY <1>4, UndoInv
  <1>5. CASE squash /\ copies' = SubSeq(copies, 1, Len(copies) - 1) BY <1>5, SquashInv
  <1>6. CASE \E r \in 0..MaxRevision, k \in 0..Len(stack) :
               commit(r, k) /\ copies' = SubSeq(copies, k + 1, Len(copies))
    BY <1>6, CommitInv
  <1>7. CASE \E r \in 0..MaxRevision : set_revision(r) /\ UNCHANGED copies
    <2>1. /\ UNCHANGED <<indices, next_id, stack, unwinding, copies>> /\ stack = <<>>
          /\ revision' \in Nat
      BY <1>7, UndoAssumption DEF set_revision, enabled
    <2>2. TypeOK' BY <2>1 DEF IInv, TypeOK
    <2>3. RevisionsContiguous' BY <2>1 DEF RevisionsContiguous
    <2> QED BY <2>1, <2>2, <2>3 DEF IInv, FreshId, Fitting
  <1>8. CASE UNCHANGED hvars
    <2>1. UNCHANGED <<indices, next_id, stack, revision, unwinding, copies>>
      BY <1>8 DEF hvars, vars
    <2> QED BY <2>1 DEF IInv, TypeOK, RevisionsContiguous, FreshId, Fitting, After, NextAfter
  <1> QED BY <1>1, <1>2, <1>3, <1>4, <1>5, <1>6, <1>7, <1>8 DEF HNext

LEMMA InvHolds == HSpec => []IInv
  BY InitInv, StepInv, PTL DEF HSpec

-----------------------------------------------------------------------------
(* Theorems *)

LEMMA InvImplies == IInv => UndoRestores /\ FreshId /\ NoCausalViolation
  <1> SUFFICES ASSUME IInv PROVE UndoRestores /\ NoCausalViolation BY DEF IInv
  <1>1. /\ stack \in Seq(undo_state) /\ copies \in Seq(Tables \X (0..MaxId))
        /\ Len(copies) = Len(stack) /\ indices \in Tables /\ Len(stack) \in Nat
    BY DEF IInv, TypeOK
  <1>2. ASSUME NEW i \in 1..Len(stack)
        PROVE  /\ stack[i] \in undo_state /\ copies[i] \in Tables \X (0..MaxId)
               /\ After(i) \in Tables
    <2>1. stack[i] \in undo_state /\ copies[i] \in Tables \X (0..MaxId)
      BY <1>1, ElementOfSeq
    <2>2. CASE i = Len(stack) BY <1>1, <2>1, <2>2 DEF After
    <2>3. CASE i # Len(stack)
      <3>1. i + 1 \in 1..Len(copies) BY <1>1, <2>3
      <3>2. copies[i + 1] \in Tables \X (0..MaxId) BY <1>1, <3>1, ElementOfSeq, SMTT(30)
      <3> QED BY <2>1, <2>3, <3>2 DEF After
    <2> QED BY <2>2, <2>3
  <1>3. UndoRestores
    <2> SUFFICES ASSUME NEW i \in 1..Len(stack)
                 PROVE  /\ stack[i].new_ids \cup DOMAIN stack[i].old_values \subseteq DOMAIN After(i)
                        /\ DOMAIN stack[i].removed_values \cap DOMAIN After(i) = {}
                        /\ <<Restored(stack[i], After(i)), stack[i].old_next_id>> = copies[i]
      BY Zenon DEF UndoRestores
    <2>1. Fits(stack[i], After(i), NextAfter(i), copies[i]) BY DEF IInv, Fitting
    <2>2. Restored(stack[i], After(i)) = copies[i][1] BY <1>2, <2>1, RestoredFits
    <2>3. stack[i].old_next_id = copies[i][2] BY <2>1 DEF Fits
    <2>4. copies[i] = <<copies[i][1], copies[i][2]>> BY <1>2
    <2> QED BY <2>1, <2>2, <2>3, <2>4, SMTT(30) DEF Fits
  <1>4. NoCausalViolation
    <2> SUFFICES ASSUME NEW i \in 1..(Len(stack) - 1)
                 PROVE  /\ DOMAIN stack[i].removed_values \cap
                             (stack[i + 1].new_ids \cup DOMAIN stack[i + 1].old_values
                                \cup DOMAIN stack[i + 1].removed_values) = {}
                        /\ (stack[i].new_ids \cup DOMAIN stack[i].old_values)
                             \cap stack[i + 1].new_ids = {}
      BY DEF NoCausalViolation
    <2>1. i \in 1..Len(stack) /\ i + 1 \in 1..Len(stack) /\ i # Len(stack) BY <1>1
    <2> DEFINE A == stack[i]
               B == stack[i + 1]
               s == copies[i]
               t == copies[i + 1]
               u == After(i + 1)
    <2>2. Fits(A, t[1], t[2], s) BY <2>1 DEF IInv, Fitting, After, NextAfter
    <2>3. Fits(B, u, NextAfter(i + 1), t) BY <2>1 DEF IInv, Fitting
    <2>4. /\ s[1] \in Tables /\ t[1] \in Tables /\ s[2] \in 0..MaxId /\ t[2] \in 0..MaxId
          /\ A \in undo_state /\ B \in undo_state
      BY <1>2, <2>1
    <2> HIDE DEF A, B, s, t, u
    <2>5. /\ s[2] \in Int /\ t[2] \in Int /\ DOMAIN s[1] \subseteq Int
          /\ DOMAIN t[1] \subseteq Int /\ B.new_ids \subseteq Int
      BY <2>4, TableFacts, UndoAssumption, SMTT(30) DEF Ids, undo_state
    <2>6. B.new_ids \cap DOMAIN t[1] = {} BY <2>3, <2>5 DEF Fits
    <2>7. B.new_ids \cap DOMAIN s[1] = {} BY <2>2, <2>3, <2>5, SMTT(30) DEF Fits
    <2>8. /\ DOMAIN A.removed_values \subseteq DOMAIN s[1]
          /\ DOMAIN A.removed_values \cap DOMAIN t[1] = {}
          /\ A.new_ids \cup DOMAIN A.old_values \subseteq DOMAIN t[1]
      BY <2>2 DEF Fits
    <2>9. /\ DOMAIN B.removed_values \subseteq DOMAIN t[1]
          /\ DOMAIN B.old_values \subseteq DOMAIN t[1]
      BY <2>3 DEF Fits
    <2>10. /\ DOMAIN A.removed_values \cap
               (B.new_ids \cup DOMAIN B.old_values \cup DOMAIN B.removed_values) = {}
           /\ (A.new_ids \cup DOMAIN A.old_values) \cap B.new_ids = {}
      BY <2>6, <2>7, <2>8, <2>9
    <2> QED BY <2>10 DEF A, B
  <1> QED BY <1>3, <1>4

\* Type correctness of the index and of the copies it is compared with.
THEOREM TypeCorrect == HSpec => []TypeOK
  <1>1. IInv => TypeOK BY DEF IInv
  <1> QED BY <1>1, InvHolds, PTL

\* Every record of changes restores the table of its session's start.
THEOREM Restores == HSpec => []UndoRestores
  BY InvImplies, InvHolds, PTL

\* An insertion never meets its own id.
THEOREM Fresh == HSpec => []FreshId
  BY InvImplies, InvHolds, PTL

\* The cases that squash leaves out do not arise.
THEOREM Causal == HSpec => []NoCausalViolation
  BY InvImplies, InvHolds, PTL

\* There is one record per open revision.
THEOREM Contiguous == HSpec => []RevisionsContiguous
  <1>1. IInv => RevisionsContiguous BY DEF IInv
  <1> QED BY <1>1, InvHolds, PTL

LEMMA InitRefines == HInit => Copies!Init
  BY DEF HInit, Init, Copies!Init

LEMMA StepRefines == IInv /\ [HNext]_hvars => [Copies!Next]_(Copies!vars)
  <1> SUFFICES ASSUME IInv, [HNext]_hvars, ~(UNCHANGED Copies!vars) PROVE Copies!Next
    OBVIOUS
  <1> USE DEF Copies!Next
  <1>1. CASE Change /\ UNCHANGED copies
    <2>1. CASE \E v \in Value : emplace(v)
      BY <1>1, <2>1 DEF emplace, Bind, Copies!Create
    <2>2. CASE \E id \in Ids, v \in Value : modify(id, v)
      BY <1>1, <2>2, Zenon DEF modify, Copies!Modify
    <2>3. CASE \E id \in Ids : remove(id)
      BY <1>1, <2>3 DEF remove, Without, Copies!Remove
    <2> QED BY <1>1, <2>1, <2>2, <2>3, SMTT(30) DEF Change
  <1>2. CASE undo_all /\ UNCHANGED copies
    BY <1>2 DEF undo_all, Copies!vars
  <1>3. CASE start_undo_session /\ copies' = Append(copies, <<indices, next_id>>)
    BY <1>3 DEF start_undo_session, Copies!Begin
  <1>4. CASE undo /\ copies' = SubSeq(copies, 1, Len(copies) - 1)
    <2>1. /\ Len(copies) = Len(stack) /\ Len(stack) \in Nat \ {0}
          /\ copies[Len(stack)] \in Tables \X (0..MaxId)
          /\ indices' = copies[Len(stack)][1] /\ next_id' = copies[Len(stack)][2]
      BY <1>4, UndoEffect DEF IInv, TypeOK
    <2>2. <<indices', next_id'>> = copies[Len(copies)] BY <2>1
    <2>3. copies # <<>> BY <2>1
    <2>4. revision' = revision - 1 BY <1>4 DEF undo
    <2> QED BY <1>4, <2>2, <2>3, <2>4 DEF Copies!Undo, Copies!Front
  <1>5. CASE squash /\ copies' = SubSeq(copies, 1, Len(copies) - 1)
    <2>1. copies # <<>> BY <1>5, HeadFacts DEF IInv, TypeOK, squash, enabled
    <2> QED BY <1>5, <2>1, SMTT(30) DEF squash, Copies!Squash, Copies!Front
  <1>6. CASE \E r \in 0..MaxRevision, k \in 0..Len(stack) :
               commit(r, k) /\ copies' = SubSeq(copies, k + 1, Len(copies))
    <2> PICK r \in 0..MaxRevision, k \in 0..Len(stack) :
          commit(r, k) /\ copies' = SubSeq(copies, k + 1, Len(copies))
      BY <1>6
    <2>1. UNCHANGED <<indices, next_id, revision>> BY DEF commit
    <2>2. copies \in Seq(Tables \X (0..MaxId)) /\ Len(copies) = Len(stack)
      BY DEF IInv, TypeOK
    <2>3. CASE k = 0
      <3>1. copies' = copies BY <2>2, <2>3
      <3> QED BY <2>1, <3>1 DEF Copies!vars
    <2>4. CASE k # 0
      <3>1. k \in 1..Len(copies) BY <2>2, <2>4
      <3> QED BY <2>1, <3>1 DEF Copies!Commit
    <2> QED BY <2>3, <2>4
  <1>7. CASE \E r \in 0..MaxRevision : set_revision(r) /\ UNCHANGED copies
    <2>1. copies = <<>>
      <3>1. copies \in Seq(Tables \X (0..MaxId)) /\ Len(copies) = Len(stack) /\ stack = <<>>
        BY <1>7 DEF IInv, TypeOK, set_revision, enabled
      <3> QED BY <3>1, EmptySeq
    <2> QED BY <1>7, <2>1, UndoAssumption DEF set_revision, Copies!SetRevision
  <1>8. CASE UNCHANGED hvars BY <1>8 DEF hvars, vars, Copies!vars
  <1> QED BY <1>1, <1>2, <1>3, <1>4, <1>5, <1>6, <1>7, <1>8 DEF HNext

\* The index behaves as a stack of whole copies of its table.
THEOREM IndexRefinesCopies == HSpec => ImplementsCopies
  BY InitRefines, StepRefines, InvHolds, PTL DEF HSpec, ImplementsCopies, Copies!Spec
=============================================================================
