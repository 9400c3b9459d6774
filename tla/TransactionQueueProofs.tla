----------------------- MODULE TransactionQueueProofs -----------------------
(***************************************************************************)
(* The indexes of the transaction queue agree, for any transactions and    *)
(* limits.                                                                 *)
(***************************************************************************)
EXTENDS TransactionQueue, FiniteSetTheorems, TLAPS

-----------------------------------------------------------------------------
(* Sequences: the facts the proofs cite. *)

LEMMA LenProperties ==
  ASSUME NEW S, NEW q \in Seq(S)
  PROVE  Len(q) \in Nat /\ q \in [1..Len(q) -> S] /\ DOMAIN q = 1..Len(q)
  OBVIOUS

LEMMA ElementOfSeq == ASSUME NEW S, NEW q \in Seq(S), NEW i \in 1..Len(q) PROVE q[i] \in S
  OBVIOUS

LEMMA ConcatProperties ==
  ASSUME NEW S, NEW q \in Seq(S), NEW r \in Seq(S)
  PROVE  /\ q \o r \in Seq(S) /\ Len(q \o r) = Len(q) + Len(r)
         /\ \A i \in 1..(Len(q) + Len(r)) :
              (q \o r)[i] = IF i <= Len(q) THEN q[i] ELSE r[i - Len(q)]
  OBVIOUS

-----------------------------------------------------------------------------
(* Facts about the helpers. *)

\* There are finitely many pairs of sender and nonce.
LEMMA KeysFinite == IsFiniteSet(Keys)
<1> DEFINE f == [t \in Tx |-> Key(t)]
<1>1. f \in Surjection(Tx, Keys)
  BY DEF Surjection, Keys
<1>2. QED
  BY <1>1, FS_Surjection, TxAssumption

\* What a map is.
LEMMA MapFacts ==
  ASSUME NEW f \in Maps
  PROVE  /\ DOMAIN f \subseteq Keys /\ IsFiniteSet(DOMAIN f)
         /\ \A k \in DOMAIN f : f[k] \in Tx
<1>1. PICK K \in SUBSET Keys : f \in [K -> Tx]
  BY DEF Maps
<1>2. DOMAIN f \in SUBSET Keys
  BY <1>1
<1>3. IsFiniteSet(DOMAIN f)
  BY <1>2, KeysFinite, FS_Subset
<1>4. QED
  BY <1>1, <1>2, <1>3

LEMMA MapIntro == ASSUME NEW K \in SUBSET Keys, NEW f \in [K -> Tx] PROVE f \in Maps
  BY DEF Maps

\* Binding a key, and removing keys.
LEMMA BindFacts ==
  ASSUME NEW f \in Maps, NEW t \in Tx
  PROVE  /\ Bind(f, Key(t), t) \in Maps
         /\ DOMAIN Bind(f, Key(t), t) = DOMAIN f \cup {Key(t)}
         /\ Bind(f, Key(t), t)[Key(t)] = t
         /\ \A k \in DOMAIN f : k # Key(t) => Bind(f, Key(t), t)[k] = f[k]
<1>1. Key(t) \in Keys
  BY DEF Keys
<1>2. DOMAIN f \cup {Key(t)} \in SUBSET Keys
  BY <1>1, MapFacts
<1>3. Bind(f, Key(t), t) \in [DOMAIN f \cup {Key(t)} -> Tx]
  BY MapFacts DEF Bind
<1>4. Bind(f, Key(t), t) \in Maps
  BY <1>2, <1>3, MapIntro
<1>5. QED
  BY <1>4 DEF Bind

LEMMA WithoutFacts ==
  ASSUME NEW f \in Maps, NEW K
  PROVE  /\ Without(f, K) \in Maps
         /\ DOMAIN Without(f, K) = DOMAIN f \ K
         /\ \A k \in DOMAIN f \ K : Without(f, K)[k] = f[k]
<1>1. DOMAIN f \ K \in SUBSET Keys
  BY MapFacts
<1>2. Without(f, K) \in [DOMAIN f \ K -> Tx]
  BY MapFacts DEF Without
<1>3. Without(f, K) \in Maps
  BY <1>1, <1>2, MapIntro
<1>4. QED
  BY <1>3 DEF Without

\* Erasing transactions from the multiset.
LEMMA EraseFacts ==
  ASSUME m_current \in Seq(Tx), IsInjective(m_current), NEW S, EraseCurrent(S)
  PROVE  m_current' \in Seq(Tx) /\ IsInjective(m_current') /\ Range(m_current') = Range(m_current) \ S
<1> DEFINE I == {i \in DOMAIN m_current : m_current[i] \notin S}
<1>1. PICK f \in Enumerations(I) : m_current' = [i \in DOMAIN f |-> m_current[f[i]]]
  BY Zenon DEF EraseCurrent
<1>2. DOMAIN m_current = 1..Len(m_current) /\ Len(m_current) \in Nat
  BY LenProperties
<1>3. IsFiniteSet(I) /\ Cardinality(I) \in Nat
  <2>1. IsFiniteSet(1..Len(m_current))
    BY <1>2, FS_Interval
  <2>2. I \in SUBSET (1..Len(m_current))
    BY <1>2
  <2>3. QED
    BY <2>1, <2>2, FS_Subset, FS_CardinalityType
<1>4. f \in [1..Cardinality(I) -> I] /\ Range(f) = I
      /\ \A i, j \in 1..Cardinality(I) : i < j => f[i] < f[j]
  BY DEF Enumerations
<1>5. \A i \in 1..Cardinality(I) : f[i] \in DOMAIN m_current /\ m_current[f[i]] \in Tx \ S
  BY <1>2, <1>4, ElementOfSeq
<1>6. m_current' = [i \in 1..Cardinality(I) |-> m_current[f[i]]]
  BY <1>1, <1>4
<1>7. m_current' \in Seq(Tx)
  BY <1>3, <1>5, <1>6
<1>8. IsInjective(m_current')
  <2>1. SUFFICES ASSUME NEW i \in 1..Cardinality(I), NEW j \in 1..Cardinality(I),
                        m_current[f[i]] = m_current[f[j]]
                 PROVE  i = j
    BY <1>6 DEF IsInjective
  <2>2. f[i] = f[j]
    BY <1>5, <2>1 DEF IsInjective
  <2>3. f[i] \in Int /\ f[j] \in Int
    BY <1>2, <1>5
  <2>4. ~(i < j) /\ ~(j < i)
    BY <1>4, <2>2, <2>3
  <2>5. QED
    BY <1>3, <2>4
<1>9. Range(m_current') \subseteq Range(m_current) \ S
  BY <1>5, <1>6 DEF Range
<1>10. Range(m_current) \ S \subseteq Range(m_current')
  <2>1. SUFFICES ASSUME NEW i \in DOMAIN m_current, m_current[i] \notin S
                 PROVE  m_current[i] \in Range(m_current')
    BY DEF Range
  <2>2. i \in Range(f)
    BY <1>4, <2>1
  <2>3. PICK j \in 1..Cardinality(I) : f[j] = i
    BY <1>4, <2>2 DEF Range
  <2>4. QED
    BY <1>6, <2>3, Zenon DEF Range
<1>11. QED
  BY <1>7, <1>8, <1>9, <1>10

\* m_current with t put behind its i-th element.
PlaceAt(q, t, i) == SubSeq(q, 1, i) \o <<t>> \o SubSeq(q, i + 1, Len(q))

\* The elements of r are those of q, with t behind the i-th.
Placed(q, t, i, n, r) ==
  /\ DOMAIN q = 1..n /\ DOMAIN r = 1..(n + 1)
  /\ \A j \in 1..(n + 1) : r[j] = IF j <= i THEN q[j] ELSE IF j = i + 1 THEN t ELSE q[j - 1]

LEMMA FrontFacts ==
  ASSUME NEW q \in Seq(Tx), NEW i \in 0..Len(q)
  PROVE  /\ SubSeq(q, 1, i) \in Seq(Tx) /\ Len(SubSeq(q, 1, i)) = i
         /\ \A j \in 1..i : SubSeq(q, 1, i)[j] = q[j]
  OBVIOUS

LEMMA BackFacts ==
  ASSUME NEW q \in Seq(Tx), NEW i \in 0..Len(q)
  PROVE  /\ SubSeq(q, i + 1, Len(q)) \in Seq(Tx) /\ Len(SubSeq(q, i + 1, Len(q))) = Len(q) - i
         /\ \A j \in 1..(Len(q) - i) : SubSeq(q, i + 1, Len(q))[j] = q[i + j]
  OBVIOUS

\* The elements of the result,
LEMMA PlaceShape ==
  ASSUME NEW q \in Seq(Tx), NEW t \in Tx, NEW i \in 0..Len(q)
  PROVE  PlaceAt(q, t, i) \in Seq(Tx) /\ Placed(q, t, i, Len(q), PlaceAt(q, t, i))
<1> DEFINE a == SubSeq(q, 1, i)
           b == SubSeq(q, i + 1, Len(q))
           c == a \o <<t>>
           r == c \o b
           n == Len(q)
<1>1. n \in Nat /\ i \in 0..n
  BY LenProperties
<1>2. a \in Seq(Tx) /\ Len(a) = i /\ \A j \in 1..i : a[j] = q[j]
  BY FrontFacts
<1>3. b \in Seq(Tx) /\ Len(b) = n - i /\ \A j \in 1..(n - i) : b[j] = q[i + j]
  BY BackFacts
<1>4. <<t>> \in Seq(Tx) /\ Len(<<t>>) = 1 /\ <<t>>[1] = t
  OBVIOUS
<1>5. PlaceAt(q, t, i) = r
  BY DEF PlaceAt
<1> HIDE DEF a, b, n
<1>6. c \in Seq(Tx) /\ Len(c) = i + 1 /\ \A j \in 1..(i + 1) : c[j] = IF j <= i THEN a[j] ELSE <<t>>[j - i]
  BY <1>2, <1>4, ConcatProperties
<1> HIDE DEF c
<1>7. r \in Seq(Tx) /\ Len(r) = Len(c) + Len(b)
      /\ \A j \in 1..(Len(c) + Len(b)) : r[j] = IF j <= Len(c) THEN c[j] ELSE b[j - Len(c)]
  BY <1>3, <1>6, ConcatProperties, ZenonT(60)
<1> HIDE DEF r
<1>8. Len(c) + Len(b) = n + 1
  BY <1>1, <1>3, <1>6
<1>9. DOMAIN r = 1..(n + 1)
  BY <1>7, <1>8, LenProperties
<1>10. ASSUME NEW j \in 1..(n + 1)
       PROVE  r[j] = IF j <= i THEN q[j] ELSE IF j = i + 1 THEN t ELSE q[j - 1]
  <2>1. r[j] = IF j <= i + 1 THEN c[j] ELSE b[j - (i + 1)]
    BY <1>6, <1>7, <1>8, Zenon
  <2>2. CASE j <= i
    BY <1>1, <1>2, <1>6, <2>1, <2>2
  <2>3. CASE j = i + 1
    <3>1. j - i = 1 /\ ~(j <= i) /\ j \in 1..(i + 1) /\ j <= i + 1
      BY <1>1, <2>3
    <3>2. QED
      BY <1>4, <1>6, <2>1, <2>3, <3>1
  <2>4. CASE j > i + 1
    <3>1. j - (i + 1) \in 1..(n - i) /\ i + (j - (i + 1)) = j - 1
          /\ ~(j <= i + 1) /\ ~(j <= i) /\ j # i + 1
      BY <1>1, <2>4
    <3>2. b[j - (i + 1)] = q[i + (j - (i + 1))]
      BY <1>3, <3>1
    <3>3. QED
      BY <2>1, <3>1, <3>2
  <2>5. QED
    BY <1>1, <2>2, <2>3, <2>4
<1>11. DOMAIN q = 1..n
  BY LenProperties DEF n
<1>12. Placed(q, t, i, n, r)
  BY <1>9, <1>10, <1>11 DEF Placed
<1>13. QED
  BY <1>5, <1>7, <1>12 DEF n

\* and that they stay distinct.
LEMMA PlaceDistinct ==
  ASSUME NEW q, NEW r, NEW t, NEW n \in Nat, NEW i \in 0..n, Placed(q, t, i, n, r),
         IsInjective(q), t \notin Range(q)
  PROVE  IsInjective(r) /\ Range(r) = Range(q) \cup {t}
<1> DEFINE Old(m) == IF m <= i THEN m ELSE m - 1
           New(m) == IF m <= i THEN m ELSE m + 1
<1>1. \A m \in 1..(n + 1) : m # i + 1 => Old(m) \in 1..n /\ r[m] = q[Old(m)]
  BY DEF Placed
<1>2. i + 1 \in 1..(n + 1) /\ r[i + 1] = t
  BY DEF Placed
<1>3. \A m \in 1..n : New(m) \in 1..(n + 1) /\ r[New(m)] = q[m]
  <2>1. SUFFICES ASSUME NEW m \in 1..n PROVE New(m) \in 1..(n + 1) /\ r[New(m)] = q[m]
    OBVIOUS
  <2>2. CASE m <= i
    BY <2>2 DEF Placed
  <2>3. CASE ~(m <= i)
    <3>1. New(m) = m + 1 /\ m + 1 \in 1..(n + 1) /\ ~(m + 1 <= i) /\ m + 1 # i + 1 /\ (m + 1) - 1 = m
      BY <2>3
    <3>2. QED
      BY <3>1 DEF Placed
  <2>4. QED
    BY <2>2, <2>3
<1>4. \A j, k \in 1..(n + 1) : j # i + 1 /\ k # i + 1 /\ Old(j) = Old(k) => j = k
  OBVIOUS
<1> HIDE DEF Old, New
<1>5. \A m \in 1..n : q[m] # t
  BY DEF Range, Placed
<1>6. \A j, k \in 1..n : q[j] = q[k] => j = k
  BY DEF Placed, IsInjective
<1>7. \A j, k \in 1..(n + 1) : r[j] = r[k] => j = k
  <2>1. SUFFICES ASSUME NEW j \in 1..(n + 1), NEW k \in 1..(n + 1), r[j] = r[k] PROVE j = k
    OBVIOUS
  <2>2. CASE j = i + 1 \/ k = i + 1
    BY <1>1, <1>2, <1>5, <2>1, <2>2
  <2>3. CASE j # i + 1 /\ k # i + 1
    <3>1. Old(j) \in 1..n /\ Old(k) \in 1..n /\ q[Old(j)] = q[Old(k)]
      BY <1>1, <2>1, <2>3
    <3>2. Old(j) = Old(k)
      BY <1>6, <3>1
    <3>3. QED
      BY <1>4, <2>3, <3>2
  <2>4. QED
    BY <2>2, <2>3
<1>8. IsInjective(r)
  BY <1>7 DEF Placed, IsInjective
<1>9. Range(r) \subseteq Range(q) \cup {t}
  BY <1>1, <1>2 DEF Placed, Range
<1>10. Range(q) \cup {t} \subseteq Range(r)
  BY <1>2, <1>3 DEF Placed, Range
<1>11. QED
  BY <1>8, <1>9, <1>10

LEMMA PlaceFacts ==
  ASSUME NEW q \in Seq(Tx), IsInjective(q), NEW t \in Tx \ Range(q), NEW i \in 0..Len(q)
  PROVE  /\ PlaceAt(q, t, i) \in Seq(Tx) /\ IsInjective(PlaceAt(q, t, i))
         /\ Range(PlaceAt(q, t, i)) = Range(q) \cup {t}
<1>1. Len(q) \in Nat /\ DOMAIN q = 1..Len(q)
  BY LenProperties
<1> DEFINE n == Len(q)
           r == PlaceAt(q, t, i)
<1>2. r \in Seq(Tx) /\ Placed(q, t, i, n, r)
  BY <1>1, PlaceShape
<1>3. n \in Nat /\ i \in 0..n /\ t \notin Range(q)
  BY <1>1
<1> HIDE DEF n, r
<1>4. IsInjective(r) /\ Range(r) = Range(q) \cup {t}
  BY <1>2, <1>3, PlaceDistinct
<1>5. QED
  BY <1>2, <1>4 DEF r

LEMMA EmptyDomain ==
  ASSUME NEW f, DOMAIN f = {}
  PROVE  Range(f) = {} /\ IsInjective(f)
  BY DEF Range, IsInjective

LEMMA EmptyMap == <<>> \in Maps /\ DOMAIN <<>> = {}
<1>1. <<>> \in [{} -> Tx]
  OBVIOUS
<1>2. QED
  BY <1>1, MapIntro, Zenon

-----------------------------------------------------------------------------
(* The indexes of the current transactions, as the operations change them. *)

IndexInv ==
  /\ m_current \in Seq(Tx) /\ m_currentByHash \subseteq Tx
  /\ m_currentByAddressAndNonce \in Maps
  /\ CurrentIndexed

\* Two current transactions differ in sender or nonce, and an entry is the one of a
\* current transaction.
LEMMA EntryFacts ==
  ASSUME IndexInv
  PROVE  /\ \A t, u \in m_currentByHash : Key(t) = Key(u) => t = u
         /\ \A k \in DOMAIN m_currentByAddressAndNonce :
              /\ m_currentByAddressAndNonce[k] \in m_currentByHash
              /\ Key(m_currentByAddressAndNonce[k]) = k
         /\ \A t \in m_currentByHash : Key(t) \in DOMAIN m_currentByAddressAndNonce
  BY DEF IndexInv, CurrentIndexed

\* Erasing a set S of transactions together with their entries, as
\* remove_WITH_LOCK and setFuture do.
LEMMA EraseIndexed ==
  ASSUME IndexInv, NEW S, NEW K, \A u \in m_currentByHash : Key(u) \in K <=> u \in S,
         m_currentByAddressAndNonce' = Without(m_currentByAddressAndNonce, K),
         EraseCurrent(S), m_currentByHash' = m_currentByHash \ S
  PROVE  IndexInv'
<1>1. m_current' \in Seq(Tx) /\ IsInjective(m_current') /\ Range(m_current') = Range(m_current) \ S
  BY EraseFacts DEF IndexInv, CurrentIndexed
<1>2. /\ m_currentByAddressAndNonce' \in Maps
      /\ DOMAIN m_currentByAddressAndNonce' = DOMAIN m_currentByAddressAndNonce \ K
      /\ \A k \in DOMAIN m_currentByAddressAndNonce \ K :
           m_currentByAddressAndNonce'[k] = m_currentByAddressAndNonce[k]
  BY WithoutFacts, Zenon DEF IndexInv
<1>3. Range(m_current') = m_currentByHash'
  BY <1>1 DEF IndexInv, CurrentIndexed
<1>4. DOMAIN m_currentByAddressAndNonce' = {Key(t) : t \in m_currentByHash'}
  BY <1>2 DEF IndexInv, CurrentIndexed
<1>5. \A t \in m_currentByHash' : m_currentByAddressAndNonce'[Key(t)] = t
  BY <1>2 DEF IndexInv, CurrentIndexed
<1>6. m_currentByHash' \subseteq Tx
  BY DEF IndexInv
<1>7. QED
  BY <1>1, <1>2, <1>3, <1>4, <1>5, <1>6 DEF IndexInv, CurrentIndexed

LEMMA RemoveFacts ==
  ASSUME IndexInv, NEW t \in Tx, Remove(t)
  PROVE  /\ IndexInv' /\ m_currentByHash' = m_currentByHash \ {t}
         /\ DOMAIN m_currentByAddressAndNonce' \subseteq DOMAIN m_currentByAddressAndNonce
         /\ t \in m_currentByHash => Key(t) \notin DOMAIN m_currentByAddressAndNonce'
         /\ m_known' = IF t \in m_currentByHash THEN m_known \ {t} ELSE m_known
<1>1. CASE t \in m_currentByHash
  <2>1. /\ m_currentByAddressAndNonce' = Without(m_currentByAddressAndNonce, {Key(t)})
        /\ EraseCurrent({t})
        /\ m_currentByHash' = m_currentByHash \ {t}
        /\ m_known' = m_known \ {t}
    BY <1>1 DEF Remove
  <2>2. \A u \in m_currentByHash : Key(u) \in {Key(t)} <=> u \in {t}
    BY <1>1, EntryFacts
  <2>3. IndexInv'
    BY <2>1, <2>2, EraseIndexed
  <2>4. DOMAIN m_currentByAddressAndNonce' = DOMAIN m_currentByAddressAndNonce \ {Key(t)}
    BY <2>1, WithoutFacts, Zenon DEF IndexInv
  <2>5. QED
    BY <1>1, <2>1, <2>3, <2>4
<1>2. CASE t \notin m_currentByHash
  <2>1. UNCHANGED <<m_current, m_currentByHash, m_currentByAddressAndNonce, m_known>>
    BY <1>2 DEF Remove, index
  <2>2. QED
    BY <1>2, <2>1 DEF IndexInv, CurrentIndexed
<1>3. QED
  BY <1>1, <1>2

LEMMA EnterFacts ==
  ASSUME IndexInv, NEW t \in Tx, Key(t) \notin DOMAIN m_currentByAddressAndNonce, EnterCurrent(t)
  PROVE  /\ IndexInv' /\ m_currentByHash' = m_currentByHash \cup {t}
         /\ DOMAIN m_currentByAddressAndNonce' = DOMAIN m_currentByAddressAndNonce \cup {Key(t)}
<1> DEFINE map == Bind(m_currentByAddressAndNonce, Key(t), t)
<1>1. PICK i \in Places(t, m_current, map) : m_current' = PlaceAt(m_current, t, i)
  BY Zenon DEF EnterCurrent, PlaceAt
<1>2. m_currentByAddressAndNonce' = map /\ m_currentByHash' = m_currentByHash \cup {t}
  BY DEF EnterCurrent
<1>3. i \in 0..Len(m_current)
  BY DEF Places
<1>4. t \notin m_currentByHash
  BY EntryFacts
<1>5. m_current' \in Seq(Tx) /\ IsInjective(m_current') /\ Range(m_current') = m_currentByHash'
  BY <1>1, <1>2, <1>3, <1>4, PlaceFacts DEF IndexInv, CurrentIndexed
<1>6. /\ map \in Maps /\ DOMAIN map = DOMAIN m_currentByAddressAndNonce \cup {Key(t)}
      /\ map[Key(t)] = t
      /\ \A k \in DOMAIN m_currentByAddressAndNonce :
           k # Key(t) => map[k] = m_currentByAddressAndNonce[k]
  BY BindFacts, Zenon DEF IndexInv
<1> HIDE DEF map
<1>7. DOMAIN m_currentByAddressAndNonce' = {Key(u) : u \in m_currentByHash'}
  BY <1>2, <1>6 DEF IndexInv, CurrentIndexed
<1>8. \A u \in m_currentByHash' : m_currentByAddressAndNonce'[Key(u)] = u
  BY <1>2, <1>6, EntryFacts DEF IndexInv, CurrentIndexed
<1>9. m_currentByHash' \subseteq Tx
  BY <1>2 DEF IndexInv
<1>10. QED
  BY <1>2, <1>5, <1>6, <1>7, <1>8, <1>9 DEF IndexInv, CurrentIndexed

\* Taking one entry out of m_future takes one off its size.
LEMMA FutureLess ==
  ASSUME m_future \in Maps, FutureCounted, NEW k \in DOMAIN m_future,
         m_future' = Without(m_future, {k}), m_futureSize' = m_futureSize - 1
  PROVE  m_future' \in Maps /\ FutureCounted' /\ m_futureSize' \in Nat
         /\ DOMAIN m_future' = DOMAIN m_future \ {k}
         /\ \A j \in DOMAIN m_future' : m_future'[j] = m_future[j]
<1>0. /\ Without(m_future, {k}) \in Maps
      /\ DOMAIN Without(m_future, {k}) = DOMAIN m_future \ {k}
      /\ \A j \in DOMAIN m_future \ {k} : Without(m_future, {k})[j] = m_future[j]
  BY WithoutFacts, Zenon
<1>1. m_future' \in Maps /\ DOMAIN m_future' = DOMAIN m_future \ {k}
      /\ \A j \in DOMAIN m_future' : m_future'[j] = m_future[j]
  BY <1>0, Zenon
<1>2. IsFiniteSet(DOMAIN m_future) /\ IsFiniteSet(DOMAIN m_future')
  BY <1>1, MapFacts
<1>3. Cardinality(DOMAIN m_future') = Cardinality(DOMAIN m_future) - 1
  BY <1>1, <1>2, FS_RemoveElement
<1>4. QED
  BY <1>1, <1>2, <1>3, FS_CardinalityType, Zenon DEF FutureCounted

-----------------------------------------------------------------------------
(* The inductive invariant. *)

QueueInv == TypeOK /\ CurrentIndexed /\ NonceOnce /\ FutureCounted /\ QueuedKnown

LEMMA QueueInvIndex == QueueInv => IndexInv
  BY DEF QueueInv, TypeOK, IndexInv

\* A future transaction is not a current one.
LEMMA FutureNotCurrent ==
  ASSUME QueueInv
  PROVE  \A k \in DOMAIN m_future : m_future[k] \notin m_currentByHash
  BY QueueInvIndex, EntryFacts DEF QueueInv, NonceOnce

\* remove_WITH_LOCK leaves what is still queued in m_known.
LEMMA RemoveKnown ==
  ASSUME QueueInv, NEW t \in Tx, Remove(t)
  PROVE  /\ m_known' \subseteq Tx
         /\ m_currentByHash' \cup Future \subseteq m_known' \cup InHand
<1>1. m_currentByHash' = m_currentByHash \ {t}
      /\ m_known' = IF t \in m_currentByHash THEN m_known \ {t} ELSE m_known
  BY QueueInvIndex, RemoveFacts
<1>2. t \in m_currentByHash => t \notin Future
  BY FutureNotCurrent DEF Future
<1>3. QED
  BY <1>1, <1>2 DEF QueueInv, QueuedKnown, TypeOK

LEMMA EmptyIndexed ==
  ASSUME m_current = <<>>, m_currentByHash = {}, m_currentByAddressAndNonce = <<>>
  PROVE  CurrentIndexed
<1>1. DOMAIN m_current = {} /\ DOMAIN m_currentByAddressAndNonce = {}
  BY EmptyMap
<1>2. Range(m_current) = {} /\ IsInjective(m_current)
  BY <1>1, EmptyDomain
<1>3. QED
  BY <1>1, <1>2 DEF CurrentIndexed

LEMMA InitInv == Init => QueueInv
<1> SUFFICES ASSUME Init PROVE QueueInv
  OBVIOUS
<1>1. TypeOK
  <2>1. m_current \in Seq(Tx) /\ m_currentByAddressAndNonce \in Maps /\ m_future \in Maps
    BY EmptyMap DEF Init
  <2>2. QED
    BY <2>1, Zenon DEF Init, TypeOK
<1>2. CurrentIndexed
  BY EmptyIndexed DEF Init
<1>3. NonceOnce
  BY EmptyMap DEF Init, NonceOnce
<1>4. FutureCounted
  BY EmptyMap, FS_EmptySet DEF Init, FutureCounted
<1>5. QueuedKnown
  BY EmptyMap DEF Init, QueuedKnown, Future
<1>6. QED
  BY <1>1, <1>2, <1>3, <1>4, <1>5 DEF QueueInv

\* The current transaction with the nonce of t, if any, is removed.
LEMMA ReplaceFacts ==
  ASSUME QueueInv, op = "free", NEW t \in Tx,
         IF Key(t) \in DOMAIN m_currentByAddressAndNonce
         THEN Remove(m_currentByAddressAndNonce[Key(t)])
         ELSE UNCHANGED <<index, m_known>>
  PROVE  /\ IndexInv' /\ m_known' \subseteq Tx
         /\ DOMAIN m_currentByAddressAndNonce' \subseteq DOMAIN m_currentByAddressAndNonce
         /\ Key(t) \notin DOMAIN m_currentByAddressAndNonce'
         /\ m_currentByHash' \cup Future \subseteq m_known'
<1>1. IndexInv /\ InHand = {}
  BY QueueInvIndex DEF InHand
<1>2. CASE Key(t) \in DOMAIN m_currentByAddressAndNonce
  <2> DEFINE u == m_currentByAddressAndNonce[Key(t)]
  <2>1. u \in m_currentByHash /\ Key(u) = Key(t) /\ u \in Tx
    BY <1>1, <1>2, EntryFacts DEF IndexInv
  <2>2. Remove(u)
    BY <1>2
  <2> HIDE DEF u
  <2>3. QED
    BY <1>1, <2>1, <2>2, RemoveFacts, RemoveKnown
<1>3. CASE Key(t) \notin DOMAIN m_currentByAddressAndNonce
  <2>1. UNCHANGED <<m_current, m_currentByHash, m_currentByAddressAndNonce, m_known>>
    BY <1>3 DEF index
  <2>2. IndexInv'
    BY <1>1, <2>1 DEF IndexInv, CurrentIndexed
  <2>3. QED
    BY <1>1, <1>3, <2>1, <2>2, SMTT(30) DEF QueueInv, QueuedKnown, TypeOK
<1>4. QED
  BY <1>2, <1>3

LEMMA ImportInv ==
  ASSUME QueueInv, NEW t \in Tx, NEW retry \in BOOLEAN, Import(t, retry)
  PROVE  QueueInv'
<1>1. /\ IndexInv' /\ m_known' \subseteq Tx
      /\ DOMAIN m_currentByAddressAndNonce' \subseteq DOMAIN m_currentByAddressAndNonce
      /\ Key(t) \notin DOMAIN m_currentByAddressAndNonce'
      /\ m_currentByHash' \cup Future \subseteq m_known'
  BY ReplaceFacts DEF Import
<1>2. op = "free" /\ m_dropped' = m_dropped
  BY DEF Import
<1>3. CASE Overbid(t, m_future)
  <2>1. UNCHANGED <<m_future, m_futureSize, op, adding, tx, nonce>>
    BY <1>3 DEF Import, future, call
  <2>2. TypeOK'
    BY <1>1, <1>2, <2>1, SMTT(30) DEF QueueInv, TypeOK, IndexInv
  <2>3. NonceOnce' /\ FutureCounted'
    BY <1>1, <1>2, <2>1, SMTT(30) DEF QueueInv, NonceOnce, FutureCounted
  <2>4. QueuedKnown'
    BY <1>1, <2>1, SMTT(30) DEF QueuedKnown, Future
  <2>5. QED
    BY <1>1, <2>2, <2>3, <2>4, SMTT(30) DEF QueueInv, IndexInv
<1>4. CASE ~Overbid(t, m_future)
  <2>1. op' = "insertCurrent" /\ adding' = TRUE /\ tx' = t /\ nonce' = nonce
    BY <1>4 DEF Import
  <2>2. /\ m_future' \in Maps /\ FutureCounted' /\ m_futureSize' \in Nat
        /\ DOMAIN m_future' = DOMAIN m_future \ {Key(t)}
        /\ \A j \in DOMAIN m_future' : m_future'[j] = m_future[j]
    <3>1. m_future \in Maps /\ FutureCounted
      BY DEF QueueInv, TypeOK
    <3>2. CASE Key(t) \in DOMAIN m_future
      <4>1. m_future' = Without(m_future, {Key(t)}) /\ m_futureSize' = m_futureSize - 1
        BY <1>4, <3>2 DEF Import
      <4>2. QED
        BY <3>1, <3>2, <4>1, FutureLess, Zenon
    <3>3. CASE Key(t) \notin DOMAIN m_future
      <4>1. UNCHANGED <<m_future, m_futureSize>>
        BY <1>4, <3>3 DEF Import, future
      <4>2. QED
        BY <3>3, <4>1, ZenonT(60) DEF QueueInv, TypeOK, FutureCounted
    <3>4. QED
      BY <3>2, <3>3
  <2>3. TypeOK'
    BY <1>1, <1>2, <2>1, <2>2 DEF QueueInv, TypeOK, IndexInv
  <2>4. NonceOnce'
    BY <1>1, <2>1, <2>2 DEF QueueInv, NonceOnce
  <2>5. QueuedKnown'
    BY <1>1, <2>2 DEF QueuedKnown, Future
  <2>6. QED
    BY <1>1, <2>2, <2>3, <2>4, <2>5, SMTT(30) DEF QueueInv, IndexInv
<1>5. QED
  BY <1>3, <1>4, SMTT(30)

LEMMA InsertCurrentInv == ASSUME QueueInv, InsertCurrent PROVE QueueInv'
<1>1. op = "insertCurrent" /\ tx \in Tx /\ IndexInv /\ UNCHANGED <<m_known, m_dropped, adding, tx>>
      /\ UNCHANGED <<m_future, m_futureSize>>
  BY QueueInvIndex DEF InsertCurrent, QueueInv, TypeOK, future
<1>2. Key(tx) \notin DOMAIN m_currentByAddressAndNonce /\ Key(tx) \notin DOMAIN m_future
  BY <1>1 DEF QueueInv, NonceOnce
<1>3. tx \notin m_currentByHash
  BY <1>1, <1>2, EntryFacts
<1>4. EnterCurrent(tx) /\ op' = "makeCurrent" /\ nonce' = Nonce[tx] + 1
  BY <1>3 DEF InsertCurrent
<1>5. /\ IndexInv' /\ m_currentByHash' = m_currentByHash \cup {tx}
      /\ DOMAIN m_currentByAddressAndNonce' = DOMAIN m_currentByAddressAndNonce \cup {Key(tx)}
  BY <1>1, <1>2, <1>4, EnterFacts, Zenon
<1>6. nonce' \in Nat
  BY <1>1, <1>4, TxAssumption, SMTT(30)
<1>7. TypeOK'
  BY <1>1, <1>4, <1>5, <1>6, SMTT(30) DEF QueueInv, TypeOK, IndexInv
<1>8. NonceOnce' /\ FutureCounted'
  BY <1>1, <1>2, <1>4, <1>5 DEF QueueInv, NonceOnce, FutureCounted
<1>9. QueuedKnown'
  <2>1. InHand' = {tx} /\ Future' = Future /\ InHand = {}
    BY <1>1, <1>4 DEF QueueInv, TypeOK, InHand, Future
  <2>2. QED
    BY <1>1, <1>5, <2>1 DEF QueueInv, QueuedKnown
<1>10. QED
  BY <1>5, <1>7, <1>8, <1>9, SMTT(30) DEF QueueInv, IndexInv

LEMMA MakeCurrentInv == ASSUME QueueInv, MakeCurrent PROVE QueueInv'
<1> DEFINE k == <<From[tx], nonce>>
           t == m_future[k]
<1>1. k \in DOMAIN m_future /\ EnterCurrent(t) /\ m_future' = Without(m_future, {k})
      /\ m_futureSize' = m_futureSize - 1 /\ op = "makeCurrent" /\ nonce' = nonce + 1
      /\ UNCHANGED <<m_known, m_dropped, op, adding, tx>>
  BY DEF MakeCurrent
<1> HIDE DEF k
<1>2. t \in Tx /\ Key(t) = k /\ k \notin DOMAIN m_currentByAddressAndNonce
  BY <1>1, MapFacts DEF QueueInv, TypeOK, NonceOnce
<1> HIDE DEF t
<1>3. /\ IndexInv' /\ m_currentByHash' = m_currentByHash \cup {t}
      /\ DOMAIN m_currentByAddressAndNonce' = DOMAIN m_currentByAddressAndNonce \cup {k}
  BY <1>1, <1>2, QueueInvIndex, EnterFacts, Zenon
<1>4. /\ m_future' \in Maps /\ FutureCounted' /\ m_futureSize' \in Nat
      /\ DOMAIN m_future' = DOMAIN m_future \ {k}
      /\ \A j \in DOMAIN m_future' : m_future'[j] = m_future[j]
  BY <1>1, FutureLess, Zenon DEF QueueInv, TypeOK
<1>5. TypeOK'
  BY <1>1, <1>3, <1>4 DEF QueueInv, TypeOK, IndexInv
<1>6. NonceOnce'
  BY <1>1, <1>3, <1>4, Zenon DEF QueueInv, NonceOnce
<1>7. QueuedKnown'
  <2>1. InHand' = InHand
    BY <1>1 DEF InHand
  <2>2. t \in Future /\ Future' \subseteq Future
    BY <1>1, <1>4, Zenon DEF Future, t
  <2>3. QED
    BY <1>1, <1>3, <2>1, <2>2 DEF QueueInv, QueuedKnown
<1>8. QED
  BY <1>3, <1>4, <1>5, <1>6, <1>7, SMTT(30) DEF QueueInv, IndexInv

LEMMA DropFutureInv == ASSUME QueueInv, DropFuture PROVE QueueInv'
<1>1. UNCHANGED <<m_known, m_dropped, m_current, m_currentByHash, m_currentByAddressAndNonce,
                  op, adding, tx, nonce>>
  BY DEF DropFuture, index, call
<1>2. PICK k \in DOMAIN m_future : m_future' = Without(m_future, {k})
  BY DEF DropFuture
<1>3. m_futureSize' = m_futureSize - 1
  BY DEF DropFuture
<1>4. /\ m_future' \in Maps /\ FutureCounted' /\ m_futureSize' \in Nat
      /\ DOMAIN m_future' = DOMAIN m_future \ {k}
      /\ \A j \in DOMAIN m_future' : m_future'[j] = m_future[j]
  BY <1>2, <1>3, FutureLess, Zenon DEF QueueInv, TypeOK
<1>5. TypeOK'
  BY <1>1, <1>4 DEF QueueInv, TypeOK
<1>6. NonceOnce' /\ CurrentIndexed'
  BY <1>1, <1>4, Zenon DEF QueueInv, NonceOnce, CurrentIndexed
<1>7. QueuedKnown'
  <2>1. InHand' = InHand /\ Future' \subseteq Future
    BY <1>1, <1>4, Zenon DEF InHand, Future
  <2>2. QED
    BY <1>1, <2>1 DEF QueueInv, QueuedKnown
<1>8. QED
  BY <1>4, <1>5, <1>6, <1>7 DEF QueueInv

\* The steps that only remove a current transaction, and put away what is in hand.
LEMMA RemoveInv ==
  ASSUME QueueInv, NEW t \in Tx, Remove(t), InHand = {}, UNCHANGED future,
         m_dropped' \subseteq Tx, nonce' \in Nat, adding' \in BOOLEAN,
         \/ UNCHANGED <<op, adding, tx>> /\ op # "insertCurrent"
         \/ op' = "free" /\ tx' = NoTx
  PROVE  QueueInv'
<1>1. /\ IndexInv' /\ m_currentByHash' = m_currentByHash \ {t}
      /\ DOMAIN m_currentByAddressAndNonce' \subseteq DOMAIN m_currentByAddressAndNonce
  BY QueueInvIndex, RemoveFacts
<1>2. m_known' \subseteq Tx /\ m_currentByHash' \cup Future \subseteq m_known'
  BY RemoveKnown
<1>3. UNCHANGED <<m_future, m_futureSize>>
  BY DEF future
<1>4. TypeOK'
  BY <1>1, <1>2, <1>3 DEF QueueInv, TypeOK, IndexInv
<1>5. NonceOnce' /\ FutureCounted'
  BY <1>1, <1>3 DEF QueueInv, NonceOnce, FutureCounted
<1>6. QueuedKnown'
  BY <1>2, <1>3 DEF QueuedKnown, Future
<1>7. QED
  BY <1>1, <1>4, <1>5, <1>6 DEF QueueInv, IndexInv

LEMMA DropFutureEndInv == ASSUME QueueInv, DropFutureEnd PROVE QueueInv'
<1>1. op = "futureLimit" /\ tx \in Tx /\ UNCHANGED <<m_dropped, m_future, m_futureSize>>
      /\ adding \in BOOLEAN
  BY DEF DropFutureEnd, future, QueueInv, TypeOK
<1>2. CASE adding
  <2>1. m_known' = m_known \cup {tx} /\ op' = "limit"
        /\ UNCHANGED <<m_current, m_currentByHash, m_currentByAddressAndNonce, adding, tx, nonce>>
    BY <1>2 DEF DropFutureEnd, index
  <2>2. TypeOK'
    BY <1>1, <1>2, <2>1, SMTT(30) DEF QueueInv, TypeOK
  <2>3. NonceOnce' /\ CurrentIndexed' /\ FutureCounted'
    BY <1>1, <2>1, Zenon DEF QueueInv, NonceOnce, CurrentIndexed, FutureCounted
  <2>4. QueuedKnown'
    <3>1. Future' = Future /\ InHand \subseteq {tx}
      BY <1>1 DEF Future, InHand
    <3>2. QED
      BY <2>1, <3>1 DEF QueueInv, QueuedKnown
  <2>5. QED
    BY <2>2, <2>3, <2>4 DEF QueueInv
<1>3. CASE ~adding
  <2>1. op' = "free" /\ tx' = NoTx /\ adding' = FALSE /\ nonce' = 0 /\ InHand = {}
    BY <1>3 DEF DropFutureEnd, InHand
  <2>2. m_dropped' \subseteq Tx /\ nonce' \in Nat /\ adding' \in BOOLEAN /\ UNCHANGED future
    BY <1>1, <2>1, Zenon DEF QueueInv, TypeOK, future
  <2>3. CASE tx \in m_known
    BY <1>1, <1>3, <2>1, <2>2, <2>3, RemoveInv DEF DropFutureEnd
  <2>4. CASE tx \notin m_known
    <3>1. UNCHANGED <<m_known, m_current, m_currentByHash, m_currentByAddressAndNonce>>
      BY <1>3, <2>4 DEF DropFutureEnd, index
    <3>2. TypeOK'
      BY <1>1, <2>1, <3>1, ZenonT(60) DEF QueueInv, TypeOK
    <3>3. NonceOnce' /\ CurrentIndexed' /\ FutureCounted'
      BY <1>1, <2>1, <3>1, Zenon DEF QueueInv, NonceOnce, CurrentIndexed, FutureCounted
    <3>4. QueuedKnown'
      BY <1>1, <2>1, <3>1 DEF QueueInv, QueuedKnown, Future
    <3>5. QED
      BY <3>2, <3>3, <3>4 DEF QueueInv
  <2>5. QED
    BY <2>3, <2>4
<1>4. QED
  BY <1>2, <1>3

\* The steps that change neither the queue nor the indexes.
LEMMA CallInv ==
  ASSUME QueueInv, MakeCurrentEnd \/ ImportEnd \/ (\E t \in Tx : DropGood(t) \/ EraseDropedTx(t))
  PROVE  QueueInv'
<1>1. UNCHANGED <<m_known, m_current, m_currentByHash, m_currentByAddressAndNonce, m_future, m_futureSize>>
  BY Zenon DEF MakeCurrentEnd, ImportEnd, DropGood, EraseDropedTx, index, future
<1>2. FutureCounted' /\ CurrentIndexed' /\ Future' = Future
  BY <1>1, Zenon DEF QueueInv, FutureCounted, CurrentIndexed, Future
<1>3. CASE MakeCurrentEnd
  <2>1. op = "makeCurrent" /\ op' = "futureLimit" /\ UNCHANGED <<m_dropped, adding, tx, nonce>>
    BY <1>3 DEF MakeCurrentEnd
  <2>2. InHand' = InHand
    BY <2>1, SMTT(30) DEF InHand
  <2>3. QED
    BY <1>1, <1>2, <2>1, <2>2, SMTT(30) DEF QueueInv, TypeOK, NonceOnce, QueuedKnown
<1>4. CASE ImportEnd
  <2>1. op = "limit" /\ op' = "free" /\ tx' = NoTx /\ adding' = FALSE /\ nonce' = 0 /\ UNCHANGED m_dropped
    BY <1>4 DEF ImportEnd
  <2>2. InHand' = {} /\ InHand = {}
    BY <2>1 DEF InHand
  <2>3. QED
    BY <1>1, <1>2, <2>1, <2>2, Zenon DEF QueueInv, TypeOK, NonceOnce, QueuedKnown
<1>5. CASE \E t \in Tx : DropGood(t)
  <2>1. PICK t \in Tx : op = "free" /\ op' = "makeCurrent" /\ adding' = FALSE /\ tx' = t
                        /\ nonce' = Nonce[t] + 1 /\ UNCHANGED m_dropped
    BY <1>5 DEF DropGood
  <2>2. InHand' = {} /\ InHand = {} /\ nonce' \in Nat
    BY <2>1, TxAssumption DEF InHand
  <2>3. QED
    BY <1>1, <1>2, <2>1, <2>2, ZenonT(60) DEF QueueInv, TypeOK, NonceOnce, QueuedKnown
<1>6. CASE \E t \in Tx : EraseDropedTx(t)
  <2>1. m_dropped' \subseteq m_dropped /\ UNCHANGED <<op, adding, tx, nonce>>
    BY <1>6 DEF EraseDropedTx, call
  <2>2. InHand' = InHand
    BY <2>1 DEF InHand
  <2>3. QED
    BY <1>1, <1>2, <2>1, <2>2, Zenon DEF QueueInv, TypeOK, NonceOnce, QueuedKnown
<1>7. QED
  BY <1>3, <1>4, <1>5, <1>6

LEMMA DropLastInv == ASSUME QueueInv, DropLast PROVE QueueInv'
<1>1. Len(m_current) \in Nat /\ m_limit \in Nat /\ Len(m_current) > m_limit
  BY LenProperties, LimitAssumption DEF DropLast, QueueInv, TypeOK
<1>2. Len(m_current) \in 1..Len(m_current)
  BY <1>1
<1>3. m_current[Len(m_current)] \in Tx
  BY <1>2, ElementOfSeq, SMTT(30) DEF QueueInv, TypeOK
<1>4. InHand = {} /\ UNCHANGED future /\ m_dropped' \subseteq Tx /\ nonce' \in Nat
      /\ adding' \in BOOLEAN /\ UNCHANGED <<op, adding, tx>> /\ op # "insertCurrent"
  BY DEF DropLast, InHand, QueueInv, TypeOK, call
<1>5. Remove(m_current[Len(m_current)])
  BY DEF DropLast
<1>6. QED
  BY <1>3, <1>4, <1>5, RemoveInv, SMTT(30)

LEMMA DropInv == ASSUME QueueInv, NEW t \in Tx, Drop(t) PROVE QueueInv'
<1>1. InHand = {} /\ UNCHANGED future /\ m_dropped' \subseteq Tx /\ nonce' \in Nat
      /\ adding' \in BOOLEAN /\ UNCHANGED <<op, adding, tx>> /\ op # "insertCurrent"
  BY DEF Drop, InHand, QueueInv, TypeOK, call
<1>2. QED
  BY <1>1, RemoveInv, SMTT(30) DEF Drop

LEMMA SetFutureInv == ASSUME QueueInv, NEW t \in Tx, SetFuture(t) PROVE QueueInv'
<1> DEFINE K == {k \in DOMAIN m_currentByAddressAndNonce : k[1] = From[t] /\ k[2] >= Nonce[t]}
           moved == {m_currentByAddressAndNonce[k] : k \in K}
<1>1. /\ m_currentByAddressAndNonce' = Without(m_currentByAddressAndNonce, K)
      /\ EraseCurrent(moved) /\ m_currentByHash' = m_currentByHash \ moved
      /\ m_future' = [k \in DOMAIN m_future \cup K |->
                        IF k \in DOMAIN m_future THEN m_future[k]
                        ELSE m_currentByAddressAndNonce[k]]
      /\ m_futureSize' = m_futureSize + Cardinality(K)
      /\ op = "free" /\ UNCHANGED <<m_known, m_dropped, op, adding, tx, nonce>>
  BY Zenon DEF SetFuture, call
<1>2. K \subseteq DOMAIN m_currentByAddressAndNonce
  OBVIOUS
<1>3. IndexInv /\ m_future \in Maps /\ m_currentByAddressAndNonce \in Maps
  BY QueueInvIndex, SMTT(30) DEF QueueInv, TypeOK
<1> HIDE DEF K
<1>4. \A u \in m_currentByHash : Key(u) \in K <=> u \in moved
  <2>1. SUFFICES ASSUME NEW u \in m_currentByHash PROVE Key(u) \in K <=> u \in moved
    OBVIOUS
  <2>2. m_currentByAddressAndNonce[Key(u)] = u
    BY <1>3, Zenon DEF IndexInv, CurrentIndexed
  <2>3. ASSUME NEW k \in K, u = m_currentByAddressAndNonce[k] PROVE Key(u) \in K
    BY <1>2, <1>3, <2>3, EntryFacts, SMTT(30)
  <2>4. QED
    BY <2>2, <2>3, SMTT(30)
<1>5. moved \subseteq m_currentByHash
  BY <1>2, <1>3, EntryFacts, SMTT(30)
<1> HIDE DEF moved
<1>6. IndexInv'
  BY <1>1, <1>3, <1>4, EraseIndexed, SMTT(30)
<1>7. DOMAIN m_currentByAddressAndNonce' = DOMAIN m_currentByAddressAndNonce \ K
  BY <1>1, <1>3, WithoutFacts, ZenonT(60)
<1>8. DOMAIN m_future' = DOMAIN m_future \cup K
  BY <1>1
<1>9. DOMAIN m_future \cap K = {}
  BY <1>2 DEF QueueInv, NonceOnce
<1>10. \A k \in DOMAIN m_future : m_future'[k] = m_future[k]
  BY <1>1, Zenon
<1>11. \A k \in K : m_future'[k] = m_currentByAddressAndNonce[k]
  BY <1>1, <1>9
<1>12. m_future' \in Maps
  <2>1. DOMAIN m_future \cup K \in SUBSET Keys
    BY <1>2, <1>3, MapFacts, SMTT(30)
  <2>2. m_future' \in [DOMAIN m_future \cup K -> Tx]
    BY <1>1, <1>2, <1>3, MapFacts, SMTT(30)
  <2>3. QED
    BY <2>1, <2>2, MapIntro, SMTT(30)
<1>13. FutureCounted' /\ m_futureSize' \in Nat
  <2>1. IsFiniteSet(DOMAIN m_future) /\ IsFiniteSet(DOMAIN m_currentByAddressAndNonce)
    BY <1>3, MapFacts, SMTT(30)
  <2>2. IsFiniteSet(K)
    BY <1>2, <2>1, FS_Subset
  <2>3. Cardinality(DOMAIN m_future \cap K) = 0
    <3>1. Cardinality({}) = 0
      BY FS_EmptySet, SMTT(30)
    <3>2. QED
      BY <1>9, <3>1, ZenonT(60)
  <2>4. /\ Cardinality(DOMAIN m_future) \in Nat /\ Cardinality(K) \in Nat
        /\ Cardinality(DOMAIN m_future \cup K)
             = Cardinality(DOMAIN m_future) + Cardinality(K) - Cardinality(DOMAIN m_future \cap K)
    BY <2>1, <2>2, FS_Union, FS_CardinalityType, Zenon
  <2>5. Cardinality(DOMAIN m_future \cup K) = Cardinality(DOMAIN m_future) + Cardinality(K)
    BY <2>3, <2>4, SMTT(30)
  <2>6. QED
    BY <1>1, <1>8, <2>4, <2>5, SMTT(30) DEF QueueInv, FutureCounted
<1>14. TypeOK'
  BY <1>1, <1>6, <1>12, <1>13, SMTT(30) DEF QueueInv, TypeOK, IndexInv
<1>15. NonceOnce'
  <2>1. \A k \in DOMAIN m_future' : Key(m_future'[k]) = k
    BY <1>2, <1>3, <1>8, <1>10, <1>11, EntryFacts, SMTT(30) DEF QueueInv, NonceOnce
  <2>2. DOMAIN m_future' \cap DOMAIN m_currentByAddressAndNonce' = {}
    BY <1>7, <1>8, SMTT(30) DEF QueueInv, NonceOnce
  <2>3. QED
    BY <1>1, <2>1, <2>2, Zenon DEF NonceOnce
<1>16. QueuedKnown'
  <2>1. Future' \subseteq Future \cup m_currentByHash
    BY <1>2, <1>3, <1>8, <1>10, <1>11, EntryFacts, SMTT(30) DEF Future
  <2>2. InHand' = InHand
    BY <1>1 DEF InHand
  <2>3. QED
    BY <1>1, <2>1, <2>2, Zenon DEF QueueInv, QueuedKnown
<1>17. QED
  BY <1>6, <1>13, <1>14, <1>15, <1>16, SMTT(30) DEF QueueInv, IndexInv

LEMMA ClearInv == ASSUME QueueInv, Clear PROVE QueueInv'
<1>1. /\ m_known' = {} /\ m_dropped' = {} /\ m_futureSize' = 0
      /\ m_current' = <<>> /\ m_currentByHash' = {} /\ m_currentByAddressAndNonce' = <<>>
      /\ m_future' = <<>> /\ op = "free" /\ UNCHANGED <<op, adding, tx, nonce>>
  BY DEF Clear, call
<1>2. DOMAIN m_current' = {} /\ DOMAIN m_currentByAddressAndNonce' = {} /\ DOMAIN m_future' = {}
      /\ m_current' \in Seq(Tx) /\ m_currentByAddressAndNonce' \in Maps /\ m_future' \in Maps
  BY <1>1, EmptyMap, SMTT(30)
<1>3. TypeOK'
  BY <1>1, <1>2, SMTT(30) DEF QueueInv, TypeOK
<1>4. CurrentIndexed'
  <2>1. \A f : DOMAIN f = {} => Range(f) = {} /\ IsInjective(f)
    BY EmptyDomain
  <2>2. Range(m_current') = {} /\ IsInjective(m_current')
    BY <1>2, <2>1, ZenonT(60)
  <2>3. QED
    BY <1>1, <1>2, <2>2, SMTT(30) DEF CurrentIndexed
<1>5. NonceOnce'
  BY <1>1, <1>2, SMTT(30) DEF NonceOnce
<1>6. FutureCounted'
  BY <1>1, <1>2, FS_EmptySet DEF FutureCounted
<1>7. QueuedKnown'
  BY <1>1, <1>2, SMTT(30) DEF QueuedKnown, Future
<1>8. QED
  BY <1>3, <1>4, <1>5, <1>6, <1>7, SMTT(30) DEF QueueInv

LEMMA StutterInv == ASSUME QueueInv, UNCHANGED vars PROVE QueueInv'
<1>1. UNCHANGED <<m_known, m_dropped, m_current, m_currentByHash, m_currentByAddressAndNonce>>
      /\ UNCHANGED <<m_future, m_futureSize, op, adding, tx, nonce>>
  BY DEF vars, index, future, call
<1>2. QED
  BY <1>1 DEF QueueInv, TypeOK, CurrentIndexed, NonceOnce, FutureCounted, QueuedKnown, Future, InHand

LEMMA NextInv == ASSUME QueueInv, [Next]_vars PROVE QueueInv'
<1>1. ASSUME NEW t \in Tx, NEW retry \in BOOLEAN, Import(t, retry) PROVE QueueInv'
  BY <1>1, ImportInv
<1>2. CASE Loops
  BY <1>2, InsertCurrentInv, MakeCurrentInv, CallInv, DropFutureInv, DropFutureEndInv,
     DropLastInv, SMTT(30)
  DEF Loops
<1>3. ASSUME NEW t \in Tx, SetFuture(t) \/ Drop(t) \/ DropGood(t) \/ EraseDropedTx(t) PROVE QueueInv'
  BY <1>3, SetFutureInv, DropInv, CallInv
<1>4. CASE Clear
  BY <1>4, ClearInv
<1>5. CASE UNCHANGED vars
  BY <1>5, StutterInv
<1>6. QED
  BY <1>1, <1>2, <1>3, <1>4, <1>5, SMTT(30) DEF Next

\* The inductive invariant holds of every operation of the queue.
THEOREM QueueInvariant == Spec => []QueueInv
  BY InitInv, NextInv, PTL DEF Spec

\* Type correctness of the members; in particular m_futureSize, an unsigned
\* counter, never goes below zero.
THEOREM QueueTypes == Spec => []TypeOK
<1>1. QueueInv => TypeOK
  BY DEF QueueInv
<1>2. QED
  BY <1>1, QueueInvariant, PTL

\* m_current, m_currentByHash and m_currentByAddressAndNonce agree at every step.
THEOREM IndexesOfCurrent == Spec => []CurrentIndexed
<1>1. QueueInv => CurrentIndexed
  BY SMTT(30) DEF QueueInv
<1>2. QED
  BY <1>1, QueueInvariant, PTL

\* A sender's nonce is queued at most once, current or future.
THEOREM NonceUnique == Spec => []NonceOnce
<1>1. QueueInv => NonceOnce
  BY SMTT(30) DEF QueueInv
<1>2. QED
  BY <1>1, QueueInvariant, PTL

\* m_futureSize is the number of entries of m_future.
THEOREM FutureSize == Spec => []FutureCounted
<1>1. QueueInv => FutureCounted
  BY DEF QueueInv
<1>2. QED
  BY <1>1, QueueInvariant, PTL

\* What is queued is in m_known.
THEOREM KnownQueued == Spec => []QueuedKnown
<1>1. QueueInv => QueuedKnown
  BY DEF QueueInv
<1>2. QED
  BY <1>1, QueueInvariant, PTL

-----------------------------------------------------------------------------
(* No step loses a transaction. *)

LEMMA QueueUnchanged ==
  ASSUME UNCHANGED <<m_currentByHash, m_future>> PROVE LeavesForReason
  BY DEF LeavesForReason, Future

\* Of a removed transaction only itself is gone.
LEMMA RemoveLoses ==
  ASSUME QueueInv, NEW t \in Tx, Remove(t), UNCHANGED future
  PROVE  (m_currentByHash \cup Future) \ {t} \subseteq m_currentByHash' \cup Future'
<1>1. m_currentByHash' = m_currentByHash \ {t}
  BY QueueInvIndex, RemoveFacts, SMTT(30)
<1>2. Future' = Future
  BY DEF Future, future
<1>3. QED
  BY <1>1, <1>2, SMTT(30)

LEMMA ImportLoses ==
  ASSUME QueueInv, NEW t \in Tx, NEW retry \in BOOLEAN, Import(t, retry)
  PROVE  LeavesForReason
<1> DEFINE u == m_currentByAddressAndNonce[Key(t)]
           w == m_future[Key(t)]
<1>1. IndexInv /\ m_future \in Maps
  BY QueueInvIndex, SMTT(30) DEF QueueInv, TypeOK
<1>2. \/ Key(t) \notin DOMAIN m_currentByAddressAndNonce /\ m_currentByHash' = m_currentByHash
      \/ /\ Key(t) \in DOMAIN m_currentByAddressAndNonce /\ m_currentByHash' = m_currentByHash \ {u}
         /\ u \in Tx /\ Key(u) = Key(t) /\ GasPrice[u] <= GasPrice[t]
  <2>1. CASE Key(t) \in DOMAIN m_currentByAddressAndNonce
    <3>1. u \in Tx /\ Key(u) = Key(t)
      BY <1>1, <2>1, EntryFacts, SMTT(30) DEF IndexInv
    <3>2. Remove(u) /\ ~(GasPrice[t] < GasPrice[u])
      BY <2>1, Zenon DEF Import, Overbid
    <3>3. GasPrice[t] \in Nat /\ GasPrice[u] \in Nat
      BY <3>1, TxAssumption, Zenon
    <3> HIDE DEF u
    <3>4. m_currentByHash' = m_currentByHash \ {u}
      BY <1>1, <3>1, <3>2, RemoveFacts, Zenon
    <3>5. QED
      BY <2>1, <3>1, <3>2, <3>3, <3>4, SMTT(30)
  <2>2. CASE Key(t) \notin DOMAIN m_currentByAddressAndNonce
    BY <2>2, Zenon DEF Import, index
  <2>3. QED
    BY <2>1, <2>2, Zenon
<1>3. CASE Overbid(t, m_future)
  <2>1. Key(t) \notin DOMAIN m_currentByAddressAndNonce
    BY <1>3, Zenon DEF Overbid, QueueInv, NonceOnce
  <2>2. m_currentByHash' = m_currentByHash
    BY <1>2, <2>1, Zenon
  <2>3. m_future' = m_future
    BY <1>3, SMTT(30) DEF Import, future
  <2>4. QED
    BY <2>2, <2>3, QueueUnchanged, SMTT(30)
<1>4. CASE ~Overbid(t, m_future)
  <2>1. op' = "insertCurrent" /\ tx' = t
    BY <1>4, SMTT(30) DEF Import
  <2>2. \/ m_future' = m_future
        \/ /\ Key(t) \in DOMAIN m_future /\ m_future' = Without(m_future, {Key(t)})
           /\ Key(w) = Key(t) /\ GasPrice[w] <= GasPrice[t]
    <3>1. CASE Key(t) \in DOMAIN m_future
      <4>1. w \in Tx /\ Key(w) = Key(t)
        BY <1>1, <3>1, MapFacts, Zenon DEF QueueInv, NonceOnce
      <4>2. m_future' = Without(m_future, {Key(t)}) /\ ~(GasPrice[t] < GasPrice[w])
        BY <1>4, <3>1, Zenon DEF Import, Overbid
      <4>3. GasPrice[t] \in Nat /\ GasPrice[w] \in Nat
        BY <4>1, TxAssumption
      <4>4. QED
        BY <3>1, <4>1, <4>2, <4>3, SMTT(30)
    <3>2. CASE Key(t) \notin DOMAIN m_future
      BY <1>4, <3>2, Zenon DEF Import, future
    <3>3. QED
      BY <3>1, <3>2, Zenon
  <2>3. ASSUME NEW v \in Future, v \notin Future' PROVE Key(v) = Key(t) /\ GasPrice[v] <= GasPrice[t]
    <3>1. PICK k \in DOMAIN m_future : v = m_future[k]
      BY DEF Future
    <3>2. m_future' = Without(m_future, {Key(t)}) /\ Key(w) = Key(t) /\ GasPrice[w] <= GasPrice[t]
      BY <2>2, <2>3, Zenon DEF Future
    <3>3. k # Key(t) => k \in DOMAIN m_future' /\ m_future'[k] = v
      BY <3>1, <3>2, Zenon DEF Without
    <3>4. k = Key(t)
      BY <2>3, <3>3 DEF Future
    <3>5. QED
      BY <3>1, <3>2, <3>4, Zenon
  <2>4. ASSUME NEW v \in m_currentByHash, v \notin m_currentByHash'
        PROVE  Key(v) = Key(t) /\ GasPrice[v] <= GasPrice[t]
    BY <1>2, <2>4, Zenon
  <2>5. QED
    BY <2>1, <2>3, <2>4, SMTT(30) DEF LeavesForReason
<1>5. QED
  BY <1>3, <1>4, SMTT(30)

LEMMA MakeCurrentLoses == ASSUME QueueInv, MakeCurrent PROVE LeavesForReason
<1> DEFINE k == <<From[tx], nonce>>
<1>1. m_currentByHash' = m_currentByHash \cup {m_future[k]} /\ m_future' = Without(m_future, {k})
  BY Zenon DEF MakeCurrent, EnterCurrent
<1> HIDE DEF k
<1>2. ASSUME NEW j \in DOMAIN m_future PROVE m_future[j] \in m_currentByHash' \cup Future'
  <2>1. CASE j = k
    BY <1>1, <2>1
  <2>2. CASE j # k
    <3>1. j \in DOMAIN m_future' /\ m_future'[j] = m_future[j]
      BY <1>1, <2>2 DEF Without
    <3>2. QED
      BY <3>1 DEF Future
  <2>3. QED
    BY <2>1, <2>2
<1>3. QED
  BY <1>1, <1>2, ZenonT(60) DEF LeavesForReason, Future

LEMMA SetFutureLoses == ASSUME QueueInv, NEW t \in Tx, SetFuture(t) PROVE LeavesForReason
<1> DEFINE K == {k \in DOMAIN m_currentByAddressAndNonce : k[1] = From[t] /\ k[2] >= Nonce[t]}
           moved == {m_currentByAddressAndNonce[k] : k \in K}
<1>1. /\ m_currentByHash' = m_currentByHash \ moved
      /\ m_future' = [k \in DOMAIN m_future \cup K |->
                        IF k \in DOMAIN m_future THEN m_future[k]
                        ELSE m_currentByAddressAndNonce[k]]
  BY Zenon DEF SetFuture
<1>2. DOMAIN m_future \cap K = {}
  BY Zenon DEF QueueInv, NonceOnce
<1> HIDE DEF K
<1>3. /\ DOMAIN m_future' = DOMAIN m_future \cup K
      /\ \A k \in DOMAIN m_future : m_future'[k] = m_future[k]
      /\ \A k \in K : m_future'[k] = m_currentByAddressAndNonce[k]
  BY <1>1, <1>2, Zenon
<1>4. moved \subseteq Future' /\ Future \subseteq Future'
  BY <1>3, Zenon DEF Future
<1>5. QED
  BY <1>1, <1>4, Zenon DEF LeavesForReason

LEMMA DropFutureEndLoses == ASSUME QueueInv, DropFutureEnd PROVE LeavesForReason
<1>1. op = "futureLimit" /\ tx \in Tx /\ UNCHANGED future
  BY DEF DropFutureEnd, QueueInv, TypeOK
<1>2. Remove(tx) \/ UNCHANGED m_currentByHash
  BY DEF DropFutureEnd, index
<1>3. CASE Remove(tx)
  BY <1>1, <1>3, RemoveLoses DEF LeavesForReason
<1>4. CASE UNCHANGED m_currentByHash
  BY <1>1, <1>4, QueueUnchanged DEF future
<1>5. QED
  BY <1>2, <1>3, <1>4

LEMMA DropLoses == ASSUME QueueInv, NEW t \in Tx, Drop(t) PROVE LeavesForReason
<1>1. t \in m_dropped' /\ Remove(t) /\ UNCHANGED future
  BY DEF Drop
<1>2. QED
  BY <1>1, RemoveLoses DEF LeavesForReason

LEMMA NextLoses == ASSUME QueueInv, [Next]_vars PROVE [LeavesForReason]_vars
<1>1. ASSUME NEW t \in Tx, NEW retry \in BOOLEAN, Import(t, retry) PROVE LeavesForReason
  BY <1>1, ImportLoses
<1>2. CASE InsertCurrent
  <2>1. m_currentByHash \subseteq m_currentByHash'
    BY <1>2, Zenon DEF InsertCurrent, EnterCurrent, index
  <2>2. Future' = Future
    BY <1>2, Zenon DEF InsertCurrent, Future, future
  <2>3. QED
    BY <2>1, <2>2, SMTT(30) DEF LeavesForReason
<1>3. CASE MakeCurrent
  BY <1>3, MakeCurrentLoses
<1>4. CASE MakeCurrentEnd \/ ImportEnd
  BY <1>4, QueueUnchanged DEF MakeCurrentEnd, ImportEnd, index, future
<1>5. CASE DropFuture \/ DropLast
  BY <1>5, Zenon DEF DropFuture, DropLast, LeavesForReason
<1>6. CASE DropFutureEnd
  BY <1>6, DropFutureEndLoses
<1>7. ASSUME NEW t \in Tx, SetFuture(t) PROVE LeavesForReason
  BY <1>7, SetFutureLoses
<1>8. ASSUME NEW t \in Tx, Drop(t) PROVE LeavesForReason
  BY <1>8, DropLoses
<1>9. ASSUME NEW t \in Tx, DropGood(t) \/ EraseDropedTx(t) PROVE LeavesForReason
  BY <1>9, QueueUnchanged DEF DropGood, EraseDropedTx, index, future
<1>10. CASE Clear
  BY <1>10 DEF Clear, LeavesForReason
<1>11. QED
  BY <1>1, <1>2, <1>3, <1>4, <1>5, <1>6, <1>7, <1>8, <1>9, <1>10, SMTT(30) DEF Next, Loops

\* No operation loses a queued transaction but for one of the named reasons:
\* in particular makeCurrent_WITH_LOCK and setFuture move every one they take.
THEOREM NoneLost == Spec => NothingLost
<1>1. QueueInv /\ [Next]_vars => [LeavesForReason]_vars
  BY NextLoses
<1>2. QED
  BY <1>1, QueueInvariant, PTL DEF Spec, NothingLost
=============================================================================
