-------------------------- MODULE TransactionQueue --------------------------
(***************************************************************************)
(* The transaction queue of libbrcdchain/TransactionQueue.{h,cpp}.         *)
(*                                                                         *)
(* A transaction is its hash; sender, nonce and gas price are constant     *)
(* functions of it.  Every operation holds m_lock from its first change to *)
(* its last; the loops of import and dropGood are taken one iteration per  *)
(* step, and op says which one is running.  The verifier threads call      *)
(* import and are part of the callers.                                     *)
(***************************************************************************)
EXTENDS Integers, Sequences, FiniteSets, FiniteSetsExt, Functions

CONSTANTS
  Tx,                      \* transactions, by hash
  NoTx,                    \* no transaction
  From, Nonce, GasPrice,   \* their fields
  m_limit, m_futureLimit

ASSUME TxAssumption ==
  /\ IsFiniteSet(Tx) /\ NoTx \notin Tx
  /\ Nonce \in [Tx -> Nat] /\ GasPrice \in [Tx -> Nat] /\ DOMAIN From = Tx

ASSUME LimitAssumption == m_limit \in Nat /\ m_futureLimit \in Nat

VARIABLES
  m_known, m_dropped,          \* sets of hashes
  m_current,                   \* the multiset, in the order of its elements
  m_currentByHash,             \* the hashes that have an entry
  m_currentByAddressAndNonce,  \* function from <<sender, nonce>> to the transaction
  m_future,                    \* function from <<sender, nonce>> to the transaction
  m_futureSize,
  op,      \* the loop that is running, "free" if m_lock is
  adding,  \* it runs for import (TRUE) or dropGood (FALSE)
  tx,      \* the argument of the operation
  nonce    \* the local of makeCurrent_WITH_LOCK

index  == <<m_current, m_currentByHash, m_currentByAddressAndNonce>>
future == <<m_future, m_futureSize>>
call   == <<op, adding, tx, nonce>>
vars   == <<m_known, m_dropped, index, future, call>>

-----------------------------------------------------------------------------
(* Helpers *)

Key(t) == <<From[t], Nonce[t]>>

Keys == {Key(t) : t \in Tx}

\* The maps from sender and nonce to a transaction.
Maps == UNION {[K -> Tx] : K \in SUBSET Keys}

\* Function f with k bound to t, and without the keys in K.
Bind(f, k, t) == [x \in DOMAIN f \cup {k} |-> IF x = k THEN t ELSE f[x]]
Without(f, K) == [x \in DOMAIN f \ K |-> f[x]]

\* The increasing enumerations of a finite set of positions (there is one).
Enumerations(I) ==
  {f \in [1..Cardinality(I) -> I] :
     Range(f) = I /\ \A i, j \in DOMAIN f : i < j => f[i] < f[j]}

\* m_current without the transactions of S.
EraseCurrent(S) ==
  \E f \in Enumerations({i \in DOMAIN m_current : m_current[i] \notin S}) :
     m_current' = [i \in DOMAIN f |-> m_current[f[i]]]

\* Distance to the smallest nonce the sender has in the map.
Height(t, map) == Nonce[t] - Min({k[2] : k \in {j \in DOMAIN map : j[1] = From[t]}})

\* PriorityCompare.
Before(t, u, map) ==
  \/ Height(t, map) < Height(u, map)
  \/ Height(t, map) = Height(u, map) /\ GasPrice[t] > GasPrice[u]

\* Where the search tree of a multiset may put t into q: the neighbours on the path
\* it took compared as a right and a left turn.  There is one such place if q is
\* sorted, and it depends on the shape of the tree otherwise.
Places(t, q, map) ==
  {i \in 0..Len(q) : (i > 0 => ~Before(t, q[i], map))
                       /\ (i < Len(q) => Before(t, q[i + 1], map))}

\* The three lines that enter t: the nonce first, as the comparison looks it up.
EnterCurrent(t) ==
  LET map == Bind(m_currentByAddressAndNonce, Key(t), t)
  IN /\ m_currentByAddressAndNonce' = map
     /\ \E i \in Places(t, m_current, map) :
          m_current' = SubSeq(m_current, 1, i) \o <<t>>
                         \o SubSeq(m_current, i + 1, Len(m_current))
     /\ m_currentByHash' = m_currentByHash \cup {t}

\* Mutant: the entry of the nonce stays.
RemoveHash(t) ==
  IF t \in m_currentByHash
  THEN /\ EraseCurrent({t})
       /\ m_currentByHash' = m_currentByHash \ {t}
       /\ m_known' = m_known \ {t}
       /\ UNCHANGED m_currentByAddressAndNonce
  ELSE UNCHANGED <<index, m_known>>

\* remove_WITH_LOCK: only a current transaction is removed.
Remove(t) ==
  IF t \in m_currentByHash
  THEN /\ m_currentByAddressAndNonce' = Without(m_currentByAddressAndNonce, {Key(t)})
       /\ EraseCurrent({t})
       /\ m_currentByHash' = m_currentByHash \ {t}
       /\ m_known' = m_known \ {t}
  ELSE UNCHANGED <<index, m_known>>

-----------------------------------------------------------------------------
Init ==
  /\ m_known = {} /\ m_dropped = {}
  /\ m_current = <<>> /\ m_currentByHash = {} /\ m_currentByAddressAndNonce = <<>>
  /\ m_future = <<>> /\ m_futureSize = 0
  /\ op = "free" /\ adding = FALSE /\ tx = NoTx /\ nonce = 0

-----------------------------------------------------------------------------
(* import *)

Overbid(t, map) == Key(t) \in DOMAIN map /\ GasPrice[t] < GasPrice[map[Key(t)]]

\* check_WITH_LOCK and the first half of manageImport_WITH_LOCK: a transaction with
\* the same sender and nonce goes, unless it pays more.  The replaced future
\* transaction stays in m_known.
Import(t, retry) ==
  /\ op = "free"
  /\ t \notin m_known /\ (t \in m_dropped => retry)
  /\ ~Overbid(t, m_currentByAddressAndNonce)
  /\ IF Key(t) \in DOMAIN m_currentByAddressAndNonce
     THEN Remove(m_currentByAddressAndNonce[Key(t)])
     ELSE UNCHANGED <<index, m_known>>
  /\ IF Overbid(t, m_future)
     THEN UNCHANGED <<future, call>>
     ELSE /\ IF Key(t) \in DOMAIN m_future
             THEN m_future' = Without(m_future, {Key(t)}) /\ m_futureSize' = m_futureSize - 1
             ELSE UNCHANGED future
          /\ op' = "insertCurrent" /\ adding' = TRUE /\ tx' = t /\ UNCHANGED nonce
  /\ UNCHANGED m_dropped

\* insertCurrent_WITH_LOCK up to its call of makeCurrent_WITH_LOCK.
InsertCurrent ==
  /\ op = "insertCurrent"
  /\ IF tx \in m_currentByHash
     THEN op' = "limit" /\ UNCHANGED <<index, nonce>>
     ELSE EnterCurrent(tx) /\ op' = "makeCurrent" /\ nonce' = Nonce[tx] + 1
  /\ UNCHANGED <<m_known, m_dropped, future, adding, tx>>

\* Mutant: m_futureSize is not decremented.
MakeCurrentUncounted ==
  LET k == <<From[tx], nonce>>
  IN /\ op = "makeCurrent" /\ k \in DOMAIN m_future
     /\ EnterCurrent(m_future[k])
     /\ m_future' = Without(m_future, {k})
     /\ nonce' = nonce + 1
     /\ UNCHANGED <<m_known, m_dropped, m_futureSize, op, adding, tx>>

\* One iteration of the first loop of makeCurrent_WITH_LOCK.
MakeCurrent ==
  LET k == <<From[tx], nonce>>
  IN /\ op = "makeCurrent" /\ k \in DOMAIN m_future
     /\ EnterCurrent(m_future[k])
     /\ m_future' = Without(m_future, {k}) /\ m_futureSize' = m_futureSize - 1
     /\ nonce' = nonce + 1
     /\ UNCHANGED <<m_known, m_dropped, op, adding, tx>>

MakeCurrentEnd ==
  /\ op = "makeCurrent" /\ <<From[tx], nonce>> \notin DOMAIN m_future
  /\ op' = "futureLimit"
  /\ UNCHANGED <<m_known, m_dropped, index, future, adding, tx, nonce>>

\* One iteration of the second one: "just drop random chain end".
DropFuture ==
  /\ op = "futureLimit" /\ m_futureSize > m_futureLimit
  /\ \E k \in DOMAIN m_future :
       /\ \A j \in DOMAIN m_future : j[1] = k[1] => j[2] <= k[2]
       /\ m_future' = Without(m_future, {k})
  /\ m_futureSize' = m_futureSize - 1
  /\ UNCHANGED <<m_known, m_dropped, index, call>>

\* Back in insertCurrent_WITH_LOCK, or in dropGood.
DropFutureEnd ==
  /\ op = "futureLimit" /\ m_futureSize <= m_futureLimit
  /\ IF adding
     THEN m_known' = m_known \cup {tx} /\ op' = "limit" /\ UNCHANGED <<index, adding, tx, nonce>>
     ELSE /\ IF tx \in m_known THEN Remove(tx) ELSE UNCHANGED <<index, m_known>>
          /\ op' = "free" /\ tx' = NoTx /\ adding' = FALSE /\ nonce' = 0
  /\ UNCHANGED <<m_dropped, future>>

\* The end of manageImport_WITH_LOCK: the last transactions go while there are too many.
DropLast ==
  /\ op = "limit" /\ Len(m_current) > m_limit
  /\ Remove(m_current[Len(m_current)])
  /\ UNCHANGED <<m_dropped, future, call>>

ImportEnd ==
  /\ op = "limit" /\ Len(m_current) <= m_limit
  /\ op' = "free" /\ tx' = NoTx /\ adding' = FALSE /\ nonce' = 0
  /\ UNCHANGED <<m_known, m_dropped, index, future>>

-----------------------------------------------------------------------------
(* The other operations *)

\* Mutant: what follows t is erased, not moved.
SetFutureOne(t) ==
  LET K == {k \in DOMAIN m_currentByAddressAndNonce : k[1] = From[t] /\ k[2] >= Nonce[t]}
      moved == {m_currentByAddressAndNonce[k] : k \in K}
  IN /\ op = "free" /\ t \in m_currentByHash
     /\ m_currentByAddressAndNonce' = Without(m_currentByAddressAndNonce, K)
     /\ EraseCurrent(moved)
     /\ m_currentByHash' = m_currentByHash \ moved
     /\ m_future' = Bind(m_future, Key(t), t) /\ m_futureSize' = m_futureSize + 1
     /\ UNCHANGED <<m_known, m_dropped, call>>

\* t and what follows it becomes future.
SetFuture(t) ==
  LET K == {k \in DOMAIN m_currentByAddressAndNonce : k[1] = From[t] /\ k[2] >= Nonce[t]}
      moved == {m_currentByAddressAndNonce[k] : k \in K}
  IN /\ op = "free" /\ t \in m_currentByHash
     /\ m_currentByAddressAndNonce' = Without(m_currentByAddressAndNonce, K)
     /\ EraseCurrent(moved)
     /\ m_currentByHash' = m_currentByHash \ moved
     /\ m_future' = [k \in DOMAIN m_future \cup K |->
                       IF k \in DOMAIN m_future THEN m_future[k]
                       ELSE m_currentByAddressAndNonce[k]]
     /\ m_futureSize' = m_futureSize + Cardinality(K)
     /\ UNCHANGED <<m_known, m_dropped, call>>

Drop(t) ==
  /\ op = "free" /\ t \in m_known
  /\ m_dropped' = m_dropped \cup {t}
  /\ Remove(t)
  /\ UNCHANGED <<future, call>>

\* t is in a block: what follows it becomes current, then t goes.
DropGood(t) ==
  /\ op = "free"
  /\ op' = "makeCurrent" /\ adding' = FALSE /\ tx' = t /\ nonce' = Nonce[t] + 1
  /\ UNCHANGED <<m_known, m_dropped, index, future>>

\* Takes no lock; its one use, in Block.cpp, is commented out.
EraseDropedTx(t) ==
  /\ t \in m_dropped /\ m_dropped' = m_dropped \ {t}
  /\ UNCHANGED <<m_known, index, future, call>>

Clear ==
  /\ op = "free"
  /\ m_known' = {} /\ m_dropped' = {}
  /\ m_current' = <<>> /\ m_currentByHash' = {} /\ m_currentByAddressAndNonce' = <<>>
  /\ m_future' = <<>> /\ m_futureSize' = 0
  /\ UNCHANGED call

-----------------------------------------------------------------------------
Loops == InsertCurrent \/ MakeCurrent \/ MakeCurrentEnd \/ DropFuture \/ DropFutureEnd
           \/ DropLast \/ ImportEnd

Next ==
  \/ \E t \in Tx, retry \in BOOLEAN : Import(t, retry)
  \/ Loops
  \/ \E t \in Tx : SetFuture(t) \/ Drop(t) \/ DropGood(t) \/ EraseDropedTx(t)
  \/ Clear

Spec == Init /\ [][Next]_vars

-----------------------------------------------------------------------------
(* Properties *)

Future == {m_future[k] : k \in DOMAIN m_future}

\* What an import or a dropGood has in hand while it runs.
InHand == IF op \in {"makeCurrent", "futureLimit"} /\ adding THEN {tx} ELSE {}

\* Type invariant of the members of TransactionQueue and the locals of its loops.
TypeOK ==
  /\ m_known \subseteq Tx /\ m_dropped \subseteq Tx
  /\ m_current \in Seq(Tx) /\ m_currentByHash \subseteq Tx
  /\ m_currentByAddressAndNonce \in Maps /\ m_future \in Maps
  /\ m_futureSize \in Nat /\ nonce \in Nat /\ adding \in BOOLEAN
  /\ op \in {"free", "insertCurrent", "makeCurrent", "futureLimit", "limit"}
  /\ tx \in Tx \cup {NoTx} /\ (op # "free" => tx \in Tx)
  /\ op \in {"insertCurrent", "limit"} => adding

\* The three indexes of the current transactions agree, at every step of import,
\* dropGood and setFuture: each hash is in m_current once, and each has the entry
\* of its sender and nonce.  The iterators they hold are those of live elements.
CurrentIndexed ==
  /\ IsInjective(m_current) /\ Range(m_current) = m_currentByHash
  /\ DOMAIN m_currentByAddressAndNonce = {Key(t) : t \in m_currentByHash}
  /\ \A t \in m_currentByHash : m_currentByAddressAndNonce[Key(t)] = t

\* A sender's nonce is taken at most once, by a current or by a future transaction:
\* insertCurrent_WITH_LOCK, makeCurrent_WITH_LOCK and setFuture never meet an entry
\* that is there already.
NonceOnce ==
  /\ \A k \in DOMAIN m_future : Key(m_future[k]) = k
  /\ DOMAIN m_future \cap DOMAIN m_currentByAddressAndNonce = {}
  /\ op = "insertCurrent" =>
       Key(tx) \notin DOMAIN m_future \cup DOMAIN m_currentByAddressAndNonce

\* The counter of future transactions is their number, so that the loop that
\* enforces m_futureLimit never looks into an empty m_future.
FutureCounted == m_futureSize = Cardinality(DOMAIN m_future)

\* Every queued transaction is in m_known, so that import turns it down.
QueuedKnown == m_currentByHash \cup Future \subseteq m_known \cup InHand

\* What may take a transaction out of the queue.
LeavesForReason ==
  \A t \in m_currentByHash \cup Future :
     \/ t \in m_currentByHash' \cup Future'
     \/ op' = "insertCurrent" /\ Key(t) = Key(tx') /\ GasPrice[t] <= GasPrice[tx']
     \/ t \in m_dropped' \/ (op = "futureLimit" /\ tx = t)
     \/ op = "futureLimit" /\ m_futureSize > m_futureLimit
     \/ op = "limit" /\ Len(m_current) > m_limit
     \/ m_known' = {}

\* A transaction leaves the queue only by one of these: import of another with the
\* same sender and nonce that pays no less, drop or dropGood of it, a limit, clear.
\* makeCurrent_WITH_LOCK and setFuture lose none.
NothingLost == [][LeavesForReason]_vars

\* The order of m_current is the one PriorityCompare defines ("Updating it does not
\* affect the order", TransactionQueue.h:159).
OrderKept ==
  op = "free" =>
    \A i, j \in DOMAIN m_current : i < j =>
       ~Before(m_current[j], m_current[i], m_currentByAddressAndNonce)
=============================================================================
