-------------------------- MODULE BlockQueueProofs --------------------------
(* Theorems about BlockQueue, for every set of blocks, verifiers and bounds: *)
(* types, the indexes, and what m_readySet and the deques hold.              *)
EXTENDS BlockQueueFeed, TLAPS

-----------------------------------------------------------------------------
(* Sequences: the few facts the proofs cite. *)

LEMMA LenProperties ==
  ASSUME NEW S, NEW q \in Seq(S)
  PROVE  Len(q) \in Nat /\ q \in [1..Len(q) -> S] /\ DOMAIN q = 1..Len(q)
  OBVIOUS

LEMMA ElementOfSeq == ASSUME NEW S, NEW q \in Seq(S), NEW i \in 1..Len(q) PROVE q[i] \in S
  OBVIOUS

LEMMA EmptySeq ==
  ASSUME NEW S
  PROVE  <<>> \in Seq(S) /\ Len(<<>>) = 0 /\ \A q \in Seq(S) : q # <<>> => Len(q) \in Nat \ {0}
  OBVIOUS

LEMMA RangeOfSeq == ASSUME NEW S, NEW q \in Seq(S) PROVE Range(q) \in SUBSET S
  BY DEF Range

LEMMA SeqEqual ==
  ASSUME NEW S, NEW q \in Seq(S), NEW r \in Seq(S), Len(q) = Len(r),
         \A i \in 1..Len(q) : q[i] = r[i]
  PROVE  q = r
  OBVIOUS

LEMMA HeadTailProperties ==
  ASSUME NEW S, NEW q \in Seq(S), q # <<>>
  PROVE  /\ Head(q) \in S /\ Tail(q) \in Seq(S) /\ Len(Tail(q)) = Len(q) - 1
         /\ \A i \in 1..Len(Tail(q)) : Tail(q)[i] = q[i + 1]
  OBVIOUS

LEMMA AppendProperties ==
  ASSUME NEW S, NEW q \in Seq(S), NEW e \in S
  PROVE  /\ Append(q, e) \in Seq(S) /\ Append(q, e) # <<>> /\ Len(Append(q, e)) = Len(q) + 1
         /\ \A i \in 1..Len(q) : Append(q, e)[i] = q[i]
         /\ Append(q, e)[Len(q) + 1] = e
  OBVIOUS

LEMMA ConcatProperties ==
  ASSUME NEW S, NEW q \in Seq(S), NEW r \in Seq(S)
  PROVE  /\ q \o r \in Seq(S) /\ Len(q \o r) = Len(q) + Len(r)
         /\ \A i \in 1..(Len(q) + Len(r)) :
              (q \o r)[i] = IF i <= Len(q) THEN q[i] ELSE r[i - Len(q)]
  OBVIOUS

LEMMA ConcatEmptySeq == ASSUME NEW S, NEW q \in Seq(S) PROVE q \o <<>> = q /\ <<>> \o q = q
  OBVIOUS

LEMMA AppendIsConcat ==
  ASSUME NEW S, NEW q \in Seq(S), NEW e \in S PROVE Append(q, e) = q \o <<e>>
  OBVIOUS

LEMMA ConcatAssociative ==
  ASSUME NEW S, NEW q \in Seq(S), NEW r \in Seq(S), NEW s \in Seq(S)
  PROVE  (q \o r) \o s = q \o (r \o s)
  OBVIOUS

LEMMA SubSeqProperties ==
  ASSUME NEW S, NEW q \in Seq(S), NEW m \in 1..(Len(q) + 1), NEW n \in 0..Len(q)
  PROVE  /\ SubSeq(q, m, n) \in Seq(S)
         /\ Len(SubSeq(q, m, n)) = IF m <= n THEN n - m + 1 ELSE 0
         /\ \A i \in 1..(n - m + 1) : SubSeq(q, m, n)[i] = q[m + i - 1]
  OBVIOUS

-----------------------------------------------------------------------------
(* The operators the model is built from. *)

LEMMA Arranged == ASSUME NEW S, NEW f \in Arrangements(S) PROVE f \in Seq(S)
  BY DEF Arrangements

LEMMA EnumerationOf ==
  ASSUME NEW I, NEW f \in Enumerations(I) PROVE f \in Seq(I) /\ \A i \in DOMAIN f : f[i] \in I
<1>1. f \in Arrangements(I)
  BY Zenon DEF Enumerations
<1>2. f \in Seq(I)
  BY <1>1, Arranged, Zenon
<1> QED
  BY <1>2

\* removeIf: the survivors of a deque form a deque of the same elements.
LEMMA KeptIsSeq ==
  ASSUME NEW S, NEW q \in Seq(S), NEW I \in SUBSET DOMAIN q, NEW f \in Enumerations(I)
  PROVE  [i \in DOMAIN f |-> q[f[i]]] \in Seq(S)
<1>1. f \in Seq(I)
  BY Arranged DEF Enumerations
<1>2. \A i \in DOMAIN f : q[f[i]] \in S
  BY <1>1
<1>3. DOMAIN f = 1..Len(f) /\ Len(f) \in Nat
  BY <1>1
<1> QED
  BY <1>2, <1>3

\* collectUnknownBad, noteReady: only blocks of m_unknown are released.
LEMMA DescendantsUnknown == ASSUME NEW S PROVE UnknownDescendants(S) \subseteq m_unknown
  BY DEF UnknownDescendants

\* The released blocks, in whatever order, form a sequence of blocks.
LEMMA ReleaseIsSeq ==
  ASSUME NEW D \in SUBSET Hash, NEW h, NEW s \in ReleaseOrders(h, D)
  PROVE  s \in Seq(Hash) /\ Range(s) = D /\ IsInjective(s)
<1>1. s \in Seq(D)
  BY Arranged DEF ReleaseOrders
<1> QED
  BY <1>1 DEF ReleaseOrders

\* The hashes of m_verifying.
LEMMA HashesIsSeq ==
  ASSUME NEW q \in Seq(Entry)
  PROVE  /\ Hashes(q) \in Seq(Hash) /\ Len(Hashes(q)) = Len(q)
         /\ \A i \in 1..Len(q) : Hashes(q)[i] = q[i].hash /\ q[i] \in Entry
<1>1. Len(q) \in Nat /\ DOMAIN q = 1..Len(q)
  BY LenProperties
<1>2. \A i \in 1..Len(q) : q[i] \in Entry
  BY ElementOfSeq
<1>3. \A i \in 1..Len(q) : q[i].hash \in Hash
  BY <1>2 DEF Entry
<1> QED
  BY <1>1, <1>2, <1>3, SMTT(30) DEF Hashes

\* removeIf returns elements of the deque, even if not the selected ones.
LEMMA TailInDomain ==
  ASSUME NEW S, NEW q \in Seq(S), NEW I \in SUBSET DOMAIN q
  PROVE  \A i \in TailPositions(q, I) : i \in DOMAIN q /\ q[i] \in S
  BY DEF TailPositions

\* The front of m_verifying.
LEMMA FrontOfVerifying ==
  ASSUME NEW q \in Seq(Entry), q # <<>>
  PROVE  Head(q) \in Entry /\ Head(q).hash \in Hash /\ Tail(q) \in Seq(Entry)
<1>1. Head(q) \in Entry /\ Tail(q) \in Seq(Entry)
  BY HeadTailProperties
<1> QED
  BY <1>1 DEF Entry

\* A sequence is its first n elements and the rest.
LEMMA SplitAt ==
  ASSUME NEW S, NEW q \in Seq(S), NEW n \in 0..Len(q)
  PROVE  /\ SubSeq(q, 1, n) \in Seq(S) /\ SubSeq(q, n + 1, Len(q)) \in Seq(S)
         /\ SubSeq(q, 1, n) \o SubSeq(q, n + 1, Len(q)) = q
<1>1. ASSUME NEW r \in Seq(S), NEW s \in Seq(S), Len(r) = n, Len(s) = Len(q) - n,
             \A i \in 1..n : r[i] = q[i], \A i \in 1..(Len(q) - n) : s[i] = q[n + i]
      PROVE  r \o s = q
  <2>1. r \o s \in Seq(S) /\ Len(r \o s) = Len(q)
    BY <1>1, SMTT(30)
  <2>2. ASSUME NEW i \in 1..Len(q) PROVE (r \o s)[i] = q[i]
    <3>1. CASE i <= n
      <4>1. i \in 1..n /\ (r \o s)[i] = r[i]
        BY <1>1, <3>1
      <4> QED
        BY <1>1, <4>1, Zenon
    <3>2. CASE ~(i <= n)
      <4>1. i - n \in 1..(Len(q) - n) /\ n + (i - n) = i /\ (r \o s)[i] = s[i - n]
        BY <1>1, <3>2
      <4> QED
        BY <1>1, <4>1, Zenon
    <3> QED
      BY <3>1, <3>2, Zenon
  <2> QED
    BY <2>1, <2>2, SeqEqual, Zenon
<1>2. /\ SubSeq(q, 1, n) \in Seq(S) /\ Len(SubSeq(q, 1, n)) = n
      /\ \A i \in 1..n : SubSeq(q, 1, n)[i] = q[i]
  OBVIOUS
<1>3. /\ SubSeq(q, n + 1, Len(q)) \in Seq(S) /\ Len(SubSeq(q, n + 1, Len(q))) = Len(q) - n
      /\ \A i \in 1..(Len(q) - n) : SubSeq(q, n + 1, Len(q))[i] = q[n + i]
  OBVIOUS
<1> QED
  BY <1>1, <1>2, <1>3, Zenon

\* dequeueMultiple(min(max, count)) splits the deque.
LEMMA DrainSplits ==
  ASSUME NEW q \in Seq(Hash), NEW max \in Nat, NEW n, n = Min({max, Len(q)}) \/ n = 0
  PROVE  /\ n \in 0..Len(q)
         /\ SubSeq(q, 1, n) \in Seq(Hash) /\ SubSeq(q, n + 1, Len(q)) \in Seq(Hash)
         /\ SubSeq(q, 1, n) \o SubSeq(q, n + 1, Len(q)) = q
         /\ Range(SubSeq(q, 1, n)) \subseteq Hash
<1>1. Len(q) \in Nat
  BY LenProperties
<1>2. n \in 0..Len(q)
  <2>1. \E x \in {max, Len(q)} : \A y \in {max, Len(q)} : x <= y
    BY <1>1
  <2>2. Min({max, Len(q)}) \in 0..Len(q)
    BY <1>1, <2>1 DEF Min
  <2> QED
    BY <1>1, <2>2
<1> QED
  BY <1>2, SplitAt, RangeOfSeq, Zenon

-----------------------------------------------------------------------------
(* Type correctness. *)

LEMMA InitTypeOK == Init => TypeOK
<1> SUFFICES ASSUME Init PROVE TypeOK
  OBVIOUS
<1>1. SetsOK
  BY DEF Init, SetsOK
<1>2. DequesOK
  BY DEF Init, DequesOK
<1>3. ThreadsOK
  BY DEF Init, ThreadsOK, Sections
<1>4. FlagsOK
  BY Zenon DEF Init, FlagsOK
<1> QED
  BY <1>1, <1>2, <1>3, <1>4, SMTT(30) DEF Init, TypeOK

\* Blaming blocks, or the uncles hash, keeps the sets within their types.
LEMMA BlameSets ==
  ASSUME TypeOK, NEW B \in SUBSET (Hash \cup {EmptyListSHA3}), Blame(B),
         UNCHANGED <<todo, world>>
  PROVE  SetsOK'
  BY DescendantsUnknown, SMTT(30) DEF TypeOK, SetsOK, Blame, world

\* Steps keep the sets within the blocks.
LEMMA SetsStep == TypeOK /\ [Next]_vars => SetsOK'
<1> SUFFICES ASSUME TypeOK, [Next]_vars PROVE SetsOK'
  BY SMTT(30)
<1> USE DEF TypeOK, SetsOK
<1>1. ASSUME NEW h \in Hash, ImportNew(h, TRUE) \/ ImportNew(h, FALSE), todo' \subseteq todo, UNCHANGED world PROVE SetsOK'
  <2>1. CASE ImportFuture(h)
    BY <1>1, <2>1, SMTT(30) DEF ImportFuture, world
  <2>2. CASE ImportBadChain(h)
    BY <1>1, <2>2, SMTT(30) DEF ImportBadChain, maps, world
  <2>3. CASE ImportUnknown(h)
    BY <1>1, <2>3, SMTT(30) DEF ImportUnknown, world
  <2>4. CASE ImportReady(h)
    BY <1>1, <2>4, DescendantsUnknown, SMTT(30) DEF ImportReady, NoteReady, world
  <2> QED
    BY <1>1, <2>1, <2>2, <2>3, <2>4, Zenon DEF ImportNew
<1>2. ASSUME NEW h \in Hash, NEW isOurs \in BOOLEAN, Import(h, isOurs) PROVE SetsOK'
  BY <1>1, <1>2, Zenon DEF Import, client
<1>3. ASSUME NEW h \in todo, TickImport(h) PROVE SetsOK'
  BY <1>1, <1>3, ZenonT(60) DEF TickImport, sets, maps, world
<1>4. CASE TickCollect
  BY <1>4 DEF TickCollect, world
<1>5. ASSUME NEW v \in Verifiers, Take(v) \/ Exit(v) \/ VerifyReplace(v) \/ DrainVerifiedEnd(v) \/ Notify(v) PROVE SetsOK'
  BY <1>5, Zenon DEF Take, Exit, VerifyReplace, DrainVerifiedEnd, Notify, sets, maps,
     client, world
<1>6. ASSUME NEW v \in Verifiers, VerifyFail(v) PROVE SetsOK'
  BY <1>6, SMTT(30) DEF VerifyFail, ThreadsOK, maps, client, world
<1>7. ASSUME NEW v \in Verifiers, VerifyNext(v) PROVE SetsOK'
  BY <1>7, SMTT(30) DEF VerifyNext, Finish, ThreadsOK, maps, client, world
<1>8. CASE DrainVerified
  BY <1>8, FrontOfVerifying, ZenonT(60) DEF DrainVerified, FrontDone, Finish, DequesOK,
     maps, client, world
<1>9. CASE UpdateBad
  BY <1>9, DescendantsUnknown DEF UpdateBad, client, world
<1>10. CASE BadVerified
  <2> DEFINE removed == {i \in DOMAIN m_verified : {m_verified[i], Parent[m_verified[i]]} \cap m_knownBad # {}}
             blamed == {m_verified[i] : i \in TailPositions(m_verified, removed)}
  <2>1. blamed \in SUBSET (Hash \cup {EmptyListSHA3})
    <3>1. \A i \in TailPositions(m_verified, removed) : m_verified[i] \in Hash
      BY TailInDomain, Zenon DEF DequesOK
    <3> QED
      BY <3>1, ZenonT(60)
  <2>2. Blame(blamed) /\ UNCHANGED <<todo, world>>
    BY <1>10 DEF BadVerified, client
  <2> QED
    BY <2>1, <2>2, BlameSets, ZenonT(60)
<1>11. CASE BadUnverified
  <2> DEFINE removed == {i \in DOMAIN m_unverified : {m_unverified[i], Parent[m_unverified[i]]} \cap m_knownBad # {}}
             blamed == {m_unverified[i] : i \in TailPositions(m_unverified, removed)}
  <2>1. blamed \in SUBSET (Hash \cup {EmptyListSHA3})
    <3>1. \A i \in TailPositions(m_unverified, removed) : m_unverified[i] \in Hash
      BY TailInDomain, ZenonT(60) DEF DequesOK
    <3> QED
      BY <3>1, Zenon
  <2>2. Blame(blamed) /\ UNCHANGED <<todo, world>>
    BY <1>11, Zenon DEF BadUnverified, client
  <2> QED
    BY <2>1, <2>2, BlameSets, Zenon
<1>12. CASE BadVerifying
  <2> DEFINE removed == {i \in DOMAIN m_verifying :
                           {Sha3Uncles(m_verifying[i]), Parent[m_verifying[i].hash]}
                              \cap m_knownBad # {}}
             HashOf(i) == IF i \in removed /\ m_verifying[i].done
                          THEN m_verifying[i].hash ELSE Sha3Uncles(m_verifying[i])
  <2>1. \A i \in TailPositions(m_verifying, removed) : m_verifying[i] \in Entry
    BY TailInDomain, Zenon DEF DequesOK
  <2>2. \A i \in TailPositions(m_verifying, removed) : HashOf(i) \in Hash \cup {EmptyListSHA3}
    BY <2>1, Zenon DEF Entry, Sha3Uncles
  <2>3. Blame({HashOf(i) : i \in TailPositions(m_verifying, removed)})
    BY <1>12, Zenon DEF BadVerifying
  <2> HIDE DEF HashOf, removed
  <2> QED
    BY <1>12, <2>2, <2>3, BlameSets, ZenonT(60) DEF BadVerifying, client
<1>13. ASSUME NEW max \in 1..MaxDrain, Drain(max) PROVE SetsOK'
  <2>1. max \in Nat
    BY BoundAssumption
  <2> QED
    BY <1>13, <2>1, DrainSplits, ZenonT(60) DEF Drain, DequesOK, maps, world
<1>14. CASE ImportDrained
  BY <1>14, HeadTailProperties DEF ImportDrained, Rest, sets, maps, DequesOK
<1>15. CASE DoneDrain
  BY <1>15, RangeOfSeq DEF DoneDrain, maps, world, DequesOK
<1>16. CASE Clear
  BY <1>16, SMTT(30) DEF Clear, client, world
<1>17. CASE UpdateBadEnd \/ Clock \/ Stop \/ UNCHANGED vars
  BY <1>17, Zenon DEF UpdateBadEnd, Clock, Stop, vars, sets, maps, client, world
<1> QED
  BY <1>1, <1>2, <1>3, <1>4, <1>5, <1>6, <1>7, <1>8, <1>9, <1>10, <1>11, <1>12, <1>13,
     <1>14, <1>15, <1>16, <1>17, ZenonT(60)
  DEF Next, SteadyNext, Sync, Tick, Verify, UpdateBadLoop

\* Steps keep the deques sequences of blocks.
LEMMA DequesStep == TypeOK /\ [Next]_vars => DequesOK'
<1> SUFFICES ASSUME TypeOK, [Next]_vars PROVE DequesOK'
  OBVIOUS
<1> USE DEF TypeOK, DequesOK
<1>1. ASSUME NEW h \in Hash, ImportNew(h, TRUE) \/ ImportNew(h, FALSE), UNCHANGED <<blocks, badBlocks>> PROVE DequesOK'
  <2>1. CASE ImportFuture(h)
    BY <1>1, <2>1, SMTT(30) DEF ImportFuture, deques, section
  <2>2. CASE ImportBadChain(h)
    BY <1>1, <2>2, SMTT(30) DEF ImportBadChain, deques
  <2>3. CASE ImportUnknown(h)
    BY <1>1, <2>3 DEF ImportUnknown, deques, section
  <2>4. CASE ImportReady(h)
    <3>1. UnknownDescendants({h}) \in SUBSET Hash
      BY DescendantsUnknown DEF SetsOK
    <3>2. PICK s \in ReleaseOrders(h, UnknownDescendants({h})) :
              m_unverified' = Append(m_unverified, h) \o s
      BY <2>4, Zenon DEF ImportReady, NoteReady
    <3>3. s \in Seq(Hash)
      BY <3>1, <3>2, ReleaseIsSeq, Zenon
    <3> QED
      BY <1>1, <2>4, <3>2, <3>3, SMTT(30) DEF ImportReady, section
  <2> QED
    BY <1>1, <2>1, <2>2, <2>3, <2>4, ZenonT(60) DEF ImportNew
<1>2. ASSUME NEW h \in Hash, NEW isOurs \in BOOLEAN, Import(h, isOurs) PROVE DequesOK'
  BY <1>1, <1>2, Zenon DEF Import, client
<1>3. ASSUME NEW h \in todo, TickImport(h) PROVE DequesOK'
  BY <1>1, <1>3, ZenonT(60) DEF TickImport, SetsOK, deques, section
<1>4. ASSUME NEW v \in Verifiers, Take(v) PROVE DequesOK'
  <2>1. Head(m_unverified) \in Hash /\ Tail(m_unverified) \in Seq(Hash)
    BY <1>4, HeadTailProperties, SMTT(30) DEF Take
  <2>2. [hash |-> Head(m_unverified), done |-> FALSE] \in Entry
    BY <2>1 DEF Entry
  <2>3. m_verifying' \in Seq(Entry)
    BY <1>4, <2>2, AppendProperties, SMTT(30) DEF Take
  <2> QED
    BY <1>4, <2>1, <2>3 DEF Take, section, client
<1>5. ASSUME NEW v \in Verifiers, VerifyFail(v) PROVE DequesOK'
  <2> DEFINE kept == {i \in DOMAIN m_verifying : Sha3Uncles(m_verifying[i]) # work[v]}
  <2>1. PICK f \in Enumerations(kept) : m_verifying' = [i \in DOMAIN f |-> m_verifying[f[i]]]
    BY <1>5, Zenon DEF VerifyFail
  <2>2. m_verifying' \in Seq(Entry)
    BY <2>1, KeptIsSeq, ZenonT(60)
  <2> QED
    BY <1>5, <2>2, Zenon DEF VerifyFail, client
<1>6. ASSUME NEW v \in Verifiers, VerifyNext(v) PROVE DequesOK'
  <2>1. m_verifying' \in Seq(Entry)
    BY <1>6, FrontOfVerifying, Zenon DEF VerifyNext, Finish
  <2>2. work[v] \in Hash
    BY <1>6 DEF VerifyNext, ThreadsOK
  <2>3. m_verified' \in Seq(Hash)
    <3>1. m_verified' = m_verified \/ m_verified' = Append(m_verified, work[v])
      BY <1>6, Zenon DEF VerifyNext, Finish
    <3>2. Append(m_verified, work[v]) \in Seq(Hash)
      BY <2>2, AppendProperties
    <3> QED
      BY <3>1, <3>2, Zenon
  <2> QED
    BY <1>6, <2>1, <2>3 DEF VerifyNext, client
<1>7. ASSUME NEW v \in Verifiers, VerifyReplace(v) PROVE DequesOK'
  <2>1. Len(m_verifying) \in Nat /\ DOMAIN m_verifying = 1..Len(m_verifying)
    BY LenProperties
  <2>2. \A e \in Entry : [e EXCEPT !.done = TRUE] \in Entry
    BY Zenon DEF Entry
  <2>3. \A i \in 1..Len(m_verifying) : m_verifying[i] \in Entry
    BY ElementOfSeq
  <2>4. m_verifying' \in Seq(Entry)
    BY <1>7, <2>1, <2>2, <2>3 DEF VerifyReplace
  <2> QED
    BY <1>7, <2>4 DEF VerifyReplace, section, client
<1>8. CASE DrainVerified
  <2>1. m_verifying' \in Seq(Entry) /\ Head(m_verifying).hash \in Hash
    BY <1>8, FrontOfVerifying DEF DrainVerified, FrontDone, Finish
  <2>2. m_verified' \in Seq(Hash)
    <3>1. m_verified' = m_verified \/ m_verified' = Append(m_verified, Head(m_verifying).hash)
      BY <1>8 DEF DrainVerified, Finish
    <3>2. Append(m_verified, Head(m_verifying).hash) \in Seq(Hash)
      BY <2>1, AppendProperties
    <3> QED
      BY <3>1, <3>2, ZenonT(60)
  <2> QED
    BY <1>8, <2>1, <2>2 DEF DrainVerified, section, client
<1>9. CASE UpdateBad
  BY <1>9, HeadTailProperties DEF UpdateBad, deques, client
<1>10. CASE BadVerified
  <2> DEFINE removed == {i \in DOMAIN m_verified : {m_verified[i], Parent[m_verified[i]]} \cap m_knownBad # {}}
  <2>1. PICK f \in Enumerations(DOMAIN m_verified \ removed) : m_verified' = [i \in DOMAIN f |-> m_verified[f[i]]]
    BY <1>10, Zenon DEF BadVerified
  <2>2. m_verified' \in Seq(Hash)
    BY <2>1, KeptIsSeq, ZenonT(60)
  <2> QED
    BY <1>10, <2>2, Zenon DEF BadVerified, client
<1>11. CASE BadUnverified
  <2> DEFINE removed == {i \in DOMAIN m_unverified : {m_unverified[i], Parent[m_unverified[i]]} \cap m_knownBad # {}}
  <2>1. PICK f \in Enumerations(DOMAIN m_unverified \ removed) : m_unverified' = [i \in DOMAIN f |-> m_unverified[f[i]]]
    BY <1>11, Zenon DEF BadUnverified
  <2>2. m_unverified' \in Seq(Hash)
    BY <2>1, KeptIsSeq, ZenonT(60)
  <2> QED
    BY <1>11, <2>2, Zenon DEF BadUnverified, client
<1>12. CASE BadVerifying
  <2> DEFINE removed == {i \in DOMAIN m_verifying :
                           {Sha3Uncles(m_verifying[i]), Parent[m_verifying[i].hash]}
                              \cap m_knownBad # {}}
  <2>1. PICK f \in Enumerations(DOMAIN m_verifying \ removed) : m_verifying' = [i \in DOMAIN f |-> m_verifying[f[i]]]
    BY <1>12, Zenon DEF BadVerifying
  <2>2. m_verifying' \in Seq(Entry)
    BY <2>1, KeptIsSeq, Zenon
  <2> QED
    BY <1>12, <2>2, Zenon DEF BadVerifying, client
<1>13. ASSUME NEW max \in 1..MaxDrain, Drain(max) PROVE DequesOK'
  <2>1. max \in Nat
    BY BoundAssumption
  <2> DEFINE n == IF m_drainingSet = {} THEN Min({max, Len(m_verified)}) ELSE 0
  <2>2. n = Min({max, Len(m_verified)}) \/ n = 0
    OBVIOUS
  <2>3. blocks' = SubSeq(m_verified, 1, n) /\ m_verified' = SubSeq(m_verified, n + 1, Len(m_verified))
    BY <1>13 DEF Drain
  <2> HIDE DEF n
  <2>4. blocks' \in Seq(Hash) /\ m_verified' \in Seq(Hash)
    BY <2>1, <2>2, <2>3, DrainSplits, Zenon
  <2> QED
    BY <1>13, <2>4, EmptySeq, Zenon DEF Drain, section
<1>14. CASE ImportDrained
  <2>1. Head(blocks) \in Hash /\ Tail(blocks) \in Seq(Hash)
    BY <1>14, HeadTailProperties DEF ImportDrained
  <2>2. Append(badBlocks, Head(blocks)) \in Seq(Hash)
    BY <2>1, AppendProperties
  <2>3. PICK chain, bad, lost : Rest(chain, bad, lost) /\ bad \in {badBlocks, Append(badBlocks, Head(blocks))}
    BY <1>14, ZenonT(60) DEF ImportDrained
  <2> QED
    BY <2>1, <2>2, <2>3, Zenon DEF Rest, deques, section
<1>15. CASE DoneDrain
  BY <1>15 DEF DoneDrain, deques
<1>16. CASE Clear
  BY <1>16 DEF Clear, section, client
<1>17. CASE TickCollect \/ UpdateBadEnd \/ Clock \/ Stop \/ UNCHANGED vars
  BY <1>17, Zenon DEF TickCollect, UpdateBadEnd, Clock, Stop, vars, deques, section, client
<1>18. ASSUME NEW v \in Verifiers, Exit(v) \/ DrainVerifiedEnd(v) \/ Notify(v) PROVE DequesOK'
  BY <1>18, Zenon DEF Exit, DrainVerifiedEnd, Notify, deques, section, client
<1> QED
  BY <1>1, <1>2, <1>3, <1>4, <1>5, <1>6, <1>7, <1>8, <1>9, <1>10, <1>11, <1>12, <1>13,
     <1>14, <1>15, <1>16, <1>17, <1>18, ZenonT(60)
  DEF Next, SteadyNext, Sync, Tick, Verify, UpdateBadLoop

\* Steps keep every thread at one of its places.
LEMMA ThreadsStep == TypeOK /\ [Next]_vars => ThreadsOK'
<1> SUFFICES ASSUME TypeOK, [Next]_vars PROVE ThreadsOK'
  OBVIOUS
<1> USE DEF TypeOK, ThreadsOK
<1>1. ASSUME NEW h \in Hash, ImportNew(h, TRUE) \/ ImportNew(h, FALSE) PROVE lock' \in Sections
  BY <1>1, ZenonT(60) DEF ImportNew, ImportFuture, ImportBadChain, ImportUnknown,
     ImportReady, NoteReady, section, Sections
<1>2. ASSUME NEW h \in Hash, NEW isOurs \in BOOLEAN, Import(h, isOurs) PROVE ThreadsOK'
  BY <1>1, <1>2, Zenon DEF Import, threads, client
<1>3. ASSUME NEW h \in todo, TickImport(h) PROVE ThreadsOK'
  BY <1>1, <1>3, ZenonT(60) DEF TickImport, SetsOK, threads, section
<1>4. ASSUME NEW v \in Verifiers, Take(v) PROVE ThreadsOK'
  <2>1. Head(m_unverified) \in Hash
    BY <1>4, HeadTailProperties, Zenon DEF Take, DequesOK
  <2> QED
    BY <1>4, <2>1, Zenon DEF Take, section, client
<1>5. ASSUME NEW v \in Verifiers, VerifyFail(v) \/ VerifyNext(v) \/ VerifyReplace(v) PROVE ThreadsOK'
  BY <1>5, SMTT(30) DEF VerifyFail, VerifyNext, VerifyReplace, section, client, Sections
<1>6. ASSUME NEW v \in Verifiers, Exit(v) \/ DrainVerifiedEnd(v) \/ Notify(v) PROVE ThreadsOK'
  BY <1>6, Zenon DEF Exit, DrainVerifiedEnd, Notify, section, client, Sections
<1>7. CASE UpdateBad \/ BadVerified \/ BadUnverified \/ BadVerifying
  BY <1>7, Zenon DEF UpdateBad, BadVerified, BadUnverified, BadVerifying, threads,
     client, Sections
<1>8. CASE UpdateBadEnd \/ DoneDrain
  BY <1>8, Zenon DEF UpdateBadEnd, DoneDrain, threads, Sections
<1>9. ASSUME NEW max \in 1..MaxDrain, Drain(max) PROVE ThreadsOK'
  BY <1>9, Zenon DEF Drain, threads, section
<1>10. CASE DrainVerified \/ ImportDrained \/ TickCollect
  BY <1>10, Zenon DEF DrainVerified, ImportDrained, Rest, TickCollect, threads,
     section, client
<1>11. CASE Clear \/ Clock \/ Stop \/ UNCHANGED vars
  BY <1>11, Zenon DEF Clear, Clock, Stop, vars, threads, section, client
<1> QED
  BY <1>1, <1>2, <1>3, <1>4, <1>5, <1>6, <1>7, <1>8, <1>9, <1>10, <1>11, ZenonT(60)
  DEF Next, SteadyNext, Sync, Tick, Verify, UpdateBadLoop

\* Steps keep the two flags Boolean.
LEMMA FlagsStep == TypeOK /\ [Next]_vars => FlagsOK'
<1> SUFFICES ASSUME TypeOK, [Next]_vars PROVE FlagsOK'
  OBVIOUS
<1> USE DEF TypeOK, FlagsOK
<1>1. UNCHANGED m_deleting \/ m_deleting' = TRUE
  BY ZenonT(60) DEF Next, SteadyNext, Sync, Tick, Verify, UpdateBadLoop, Import, TickImport,
         TickCollect, Take, Exit, VerifyFail, VerifyNext, VerifyReplace, DrainVerifiedEnd,
         Notify, DrainVerified, UpdateBad, BadVerified, BadUnverified, BadVerifying,
         UpdateBadEnd, Drain, ImportDrained, Rest, DoneDrain, Clear, Clock, Stop,
         vars, threads
<1>2. CASE UpdateBad
  BY <1>1, <1>2, Zenon DEF UpdateBad
<1>3. CASE BadVerified
  BY <1>1, <1>3, Zenon DEF BadVerified
<1>4. CASE BadUnverified
  BY <1>1, <1>4, Zenon DEF BadUnverified
<1>5. CASE BadVerifying
  BY <1>1, <1>5, ZenonT(60) DEF BadVerifying
<1>6. UpdateBad \/ BadVerified \/ BadUnverified \/ BadVerifying \/ UNCHANGED moreBad
  BY ZenonT(60) DEF Next, SteadyNext, Sync, Tick, Verify, UpdateBadLoop, Import, TickImport,
         ImportNew, ImportFuture, ImportBadChain, ImportUnknown, ImportReady,
         TickCollect, Take, Exit, VerifyFail, VerifyNext, VerifyReplace, DrainVerifiedEnd,
         Notify, DrainVerified, UpdateBadEnd, Drain, ImportDrained, Rest, DoneDrain,
         Clear, Clock, Stop, vars, section
<1> QED
  BY <1>1, <1>2, <1>3, <1>4, <1>5, <1>6, ZenonT(60)

\* The members of BlockQueue and the locals of its threads keep their types under
\* every interleaving of import, tick, verifierBody, sync, clear and stop.
THEOREM TypeCorrect == Spec => []TypeOK
<1>1. TypeOK /\ [Next]_vars => TypeOK'
  <2>1. [Next]_vars => UNCHANGED now \/ now' = now + 1
    BY Zenon DEF Next, SteadyNext, Sync, Tick, Verify, UpdateBadLoop, Import, TickImport,
           TickCollect, Take, Exit, VerifyFail, VerifyNext, VerifyReplace, DrainVerifiedEnd,
           Notify, DrainVerified, UpdateBad, BadVerified, BadUnverified, BadVerifying,
           UpdateBadEnd, Drain, ImportDrained, Rest, DoneDrain, Clear, Clock, Stop,
           vars, world
  <2>2. TypeOK /\ [Next]_vars => (now \in Nat)'
    BY <2>1 DEF TypeOK
  <2> QED
    BY <2>2, SetsStep, DequesStep, ThreadsStep, FlagsStep, SMTT(30) DEF TypeOK
<1> QED
  BY <1>1, InitTypeOK, PTL DEF Spec

-----------------------------------------------------------------------------
(* The hash sets and the maps. *)

LEMMA InitIndexes == Init => IndexesAgree
  BY DEF Init, IndexesAgree

\* A new block, in none of the sets, joins one of them.
LEMMA ImportIndexes ==
  ASSUME IndexesAgree, NEW h \in Hash, ~Queued(h), NEW isOurs, ImportNew(h, isOurs)
  PROVE  IndexesAgree'
<1> USE DEF IndexesAgree, Queued
<1>1. CASE ImportFuture(h)
  BY <1>1 DEF ImportFuture
<1>2. CASE ImportBadChain(h)
  BY <1>2 DEF ImportBadChain, maps
<1>3. CASE ImportUnknown(h)
  BY <1>3 DEF ImportUnknown
<1>4. CASE ImportReady(h)
  BY <1>4, DescendantsUnknown, ZenonT(60) DEF ImportReady, NoteReady
<1> QED
  BY <1>1, <1>2, <1>3, <1>4, Zenon DEF ImportNew

LEMMA BlameIndexes == ASSUME IndexesAgree, NEW B, Blame(B) PROVE IndexesAgree'
  BY DescendantsUnknown DEF IndexesAgree, Blame

LEMMA IndexesStep == TypeOK /\ IndexesAgree /\ [Next]_vars => IndexesAgree'
<1> SUFFICES ASSUME TypeOK, IndexesAgree, [Next]_vars PROVE IndexesAgree'
  OBVIOUS
<1>1. ASSUME NEW h \in Hash, NEW isOurs \in BOOLEAN, Import(h, isOurs) PROVE IndexesAgree'
  BY <1>1, ImportIndexes DEF Import
<1>2. ASSUME NEW h \in todo, TickImport(h) PROVE IndexesAgree'
  <2>1. h \in Hash
    BY DEF TypeOK, SetsOK
  <2>2. CASE Queued(h) \/ h \in m_bc
    BY <1>2, <2>2, Zenon DEF TickImport, IndexesAgree, sets, maps
  <2> QED
    BY <1>2, <2>1, <2>2, ImportIndexes, Zenon DEF TickImport
<1>3. ASSUME NEW v \in Verifiers, Verify(v) PROVE IndexesAgree'
  BY <1>3, Zenon DEF Verify, Take, VerifyFail, VerifyNext, Finish, VerifyReplace, DrainVerifiedEnd,
              Notify, Exit, IndexesAgree, sets, maps
<1>4. CASE DrainVerified
  BY <1>4, Zenon DEF DrainVerified, Finish, IndexesAgree, maps
<1>5. CASE UpdateBad
  BY <1>5, DescendantsUnknown, SMTT(30) DEF UpdateBad, IndexesAgree
<1>6. CASE BadVerified \/ BadUnverified \/ BadVerifying
  BY <1>6, BlameIndexes, Zenon DEF BadVerified, BadUnverified, BadVerifying
<1>7. ASSUME NEW max \in 1..MaxDrain, Drain(max) PROVE IndexesAgree'
  BY <1>7, Zenon DEF Drain, IndexesAgree, maps
<1>8. CASE ImportDrained \/ DoneDrain \/ UpdateBadEnd
  BY <1>8, Zenon DEF ImportDrained, Rest, DoneDrain, UpdateBadEnd, IndexesAgree, sets, maps
<1>9. CASE TickCollect
  BY <1>9, Zenon DEF TickCollect, IndexesAgree
<1>10. CASE Clear
  BY <1>10 DEF Clear, IndexesAgree
<1>11. CASE Clock \/ Stop \/ UNCHANGED vars
  BY <1>11, Zenon DEF Clock, Stop, vars, IndexesAgree, sets, maps
<1> QED
  BY <1>1, <1>2, <1>3, <1>4, <1>5, <1>6, <1>7, <1>8, <1>9, <1>10, <1>11, SMTT(30)
  DEF Next, SteadyNext, Sync, Tick, UpdateBadLoop

\* The hash sets agree with the maps they index, and the places where a block may
\* wait exclude each other, through import, tick, noteReady, updateBad and clear.
THEOREM IndexesCorrect == Spec => []IndexesAgree
  BY TypeCorrect, InitIndexes, IndexesStep, PTL DEF Spec

-----------------------------------------------------------------------------
(* How steps change the pipeline, as facts about sequences. *)

LEMMA PipelineIsSeq ==
  ASSUME TypeOK
  PROVE  /\ Pipeline \in Seq(Hash) /\ Feed \in Seq(Hash)
         /\ Hashes(m_verifying) \in Seq(Hash)
<1>1. Hashes(m_verifying) \in Seq(Hash)
  BY HashesIsSeq DEF TypeOK, DequesOK
<1> QED
  BY <1>1, ConcatProperties, Zenon DEF TypeOK, DequesOK, Pipeline, Feed

\* Concatenation of sequences of blocks, position by position.
LEMMA HashConcat ==
  ASSUME NEW s \in Seq(Hash), NEW t \in Seq(Hash)
  PROVE  /\ s \o t \in Seq(Hash) /\ Len(s) \in Nat /\ Len(t) \in Nat
         /\ Len(s \o t) = Len(s) + Len(t)
         /\ DOMAIN s = 1..Len(s) /\ DOMAIN t = 1..Len(t)
         /\ DOMAIN (s \o t) = 1..(Len(s) + Len(t))
         /\ \A i \in 1..Len(s) : (s \o t)[i] = s[i]
         /\ \A i \in 1..Len(t) : (s \o t)[Len(s) + i] = t[i]
  BY LenProperties, ConcatProperties

\* A sequence of blocks that is not empty is its front and its rest.
LEMMA FrontAndRest ==
  ASSUME NEW u \in Seq(Hash), u # <<>>
  PROVE  /\ Head(u) \in Hash /\ Tail(u) \in Seq(Hash) /\ <<Head(u)>> \in Seq(Hash)
         /\ <<Head(u)>> \o Tail(u) = u
<1>1. Head(u) \in Hash /\ Tail(u) \in Seq(Hash)
  BY HeadTailProperties
<1>2. <<Head(u)>> \in Seq(Hash) /\ <<Head(u)>> \o Tail(u) = u
  BY <1>1
<1> QED
  BY <1>1, <1>2

LEMMA HashesAppend ==
  ASSUME NEW q \in Seq(Entry), NEW e \in Entry
  PROVE  Hashes(Append(q, e)) = Hashes(q) \o <<e.hash>>
<1>1. e.hash \in Hash /\ <<e.hash>> \in Seq(Hash) /\ Len(<<e.hash>>) = 1 /\ <<e.hash>>[1] = e.hash
  BY DEF Entry
<1>2. Append(q, e) \in Seq(Entry) /\ Len(Append(q, e)) = Len(q) + 1 /\ Len(q) \in Nat
      /\ (\A i \in 1..Len(q) : Append(q, e)[i] = q[i]) /\ Append(q, e)[Len(q) + 1] = e
  BY AppendProperties, LenProperties
<1> DEFINE a == Hashes(Append(q, e))
           b == Hashes(q)
           c == <<e.hash>>
<1>3. a \in Seq(Hash) /\ Len(a) = Len(q) + 1 /\ b \in Seq(Hash) /\ Len(b) = Len(q)
  BY <1>2, HashesIsSeq, Zenon
<1>4. ASSUME NEW i \in 1..Len(q) PROVE a[i] = b[i]
  <2>1. i \in 1..Len(Append(q, e)) /\ Append(q, e)[i] = q[i]
    BY <1>2
  <2>2. a[i] = Append(q, e)[i].hash
    BY <1>2, <2>1, HashesIsSeq, Zenon
  <2>3. b[i] = q[i].hash
    BY HashesIsSeq
  <2> QED
    BY <2>1, <2>2, <2>3, Zenon
<1>5. a[Len(q) + 1] = e.hash
  <2>1. Len(q) + 1 \in 1..Len(Append(q, e))
    BY <1>2
  <2> QED
    BY <1>2, <2>1, HashesIsSeq, Zenon
<1>6. c \in Seq(Hash) /\ Len(c) = 1 /\ c[1] = e.hash
  BY <1>1
<1> HIDE DEF a, b, c
<1>7. b \o c \in Seq(Hash) /\ Len(b \o c) = Len(q) + 1
      /\ (\A i \in 1..Len(q) : (b \o c)[i] = b[i]) /\ (b \o c)[Len(q) + 1] = e.hash
  <2>1. /\ b \o c \in Seq(Hash) /\ Len(b \o c) = Len(b) + Len(c)
        /\ \A i \in 1..Len(b) : (b \o c)[i] = b[i]
        /\ \A i \in 1..Len(c) : (b \o c)[Len(b) + i] = c[i]
    BY <1>3, <1>6, HashConcat, Zenon
  <2>2. 1 \in 1..Len(c)
    BY <1>6
  <2> QED
    BY <1>2, <1>3, <1>6, <2>1, <2>2, ZenonT(60)
<1>8. ASSUME NEW i \in 1..(Len(q) + 1) PROVE a[i] = (b \o c)[i]
  BY <1>2, <1>4, <1>5, <1>7, SMTT(30)
<1>9. a = b \o c
  BY <1>3, <1>7, <1>8, SeqEqual, Zenon
<1> QED
  BY <1>9 DEF a, b, c

LEMMA HashesFront ==
  ASSUME NEW q \in Seq(Entry), q # <<>>
  PROVE  Hashes(q) = <<Head(q).hash>> \o Hashes(Tail(q))
<1>1. Hashes(q) \in Seq(Hash) /\ Len(Hashes(q)) = Len(q) /\ Len(q) \in Nat \ {0}
  BY HashesIsSeq, EmptySeq
<1>2. Hashes(q) # <<>>
  BY <1>1
<1>3. Head(q) = q[1] /\ Head(Hashes(q)) = Hashes(q)[1]
  BY <1>1
<1>4. Head(Hashes(q)) = Head(q).hash
  BY <1>1, <1>3, HashesIsSeq
<1>5. /\ Tail(q) \in Seq(Entry) /\ Len(Tail(q)) = Len(q) - 1
      /\ \A i \in 1..Len(Tail(q)) : Tail(q)[i] = q[i + 1]
  BY HeadTailProperties
<1>6. /\ Tail(Hashes(q)) \in Seq(Hash) /\ Len(Tail(Hashes(q))) = Len(q) - 1
      /\ \A i \in 1..(Len(q) - 1) : Tail(Hashes(q))[i] = Hashes(q)[i + 1]
  BY <1>1, <1>2, HeadTailProperties
<1>7. Hashes(Tail(q)) \in Seq(Hash) /\ Len(Hashes(Tail(q))) = Len(q) - 1
  BY <1>5, HashesIsSeq, Zenon
<1>8. ASSUME NEW i \in 1..(Len(q) - 1) PROVE Hashes(Tail(q))[i] = Tail(Hashes(q))[i]
  <2>1. Hashes(Tail(q))[i] = Tail(q)[i].hash
    BY <1>5, HashesIsSeq, Zenon
  <2>2. i + 1 \in 1..Len(q) /\ Tail(q)[i] = q[i + 1]
    BY <1>1, <1>5
  <2>3. Hashes(q)[i + 1] = q[i + 1].hash
    BY <2>2, HashesIsSeq
  <2> QED
    BY <1>6, <2>1, <2>2, <2>3, SMTT(30)
<1>9. Hashes(Tail(q)) = Tail(Hashes(q))
  BY <1>6, <1>7, <1>8, SeqEqual, Zenon
<1> QED
  BY <1>1, <1>2, <1>4, <1>9, FrontAndRest, ZenonT(60)

\* verifierBody takes a block: it moves from the front of m_unverified to the end
\* of m_verifying.
LEMMA TakeKeepsOrder ==
  ASSUME NEW q \in Seq(Entry), NEW u \in Seq(Hash), u # <<>>
  PROVE  Hashes(Append(q, [hash |-> Head(u), done |-> FALSE])) \o Tail(u) = Hashes(q) \o u
<1> DEFINE e == [hash |-> Head(u), done |-> FALSE]
<1>1. Head(u) \in Hash /\ Tail(u) \in Seq(Hash) /\ <<Head(u)>> \in Seq(Hash)
      /\ <<Head(u)>> \o Tail(u) = u
  BY FrontAndRest
<1>2. e \in Entry /\ e.hash = Head(u)
  BY <1>1, Zenon DEF Entry
<1>3. Hashes(Append(q, e)) = Hashes(q) \o <<Head(u)>>
  BY <1>2, HashesAppend, ZenonT(60)
<1>4. Hashes(q) \in Seq(Hash)
  BY HashesIsSeq
<1>5. (Hashes(q) \o <<Head(u)>>) \o Tail(u) = Hashes(q) \o (<<Head(u)>> \o Tail(u))
  BY <1>1, <1>4, ConcatAssociative, SMTT(30)
<1> QED
  BY <1>1, <1>3, <1>5, Zenon

\* A verified block moves from the front of m_verifying to the end of m_verified.
LEMMA FinishKeepsOrder ==
  ASSUME NEW a \in Seq(Hash), NEW q \in Seq(Entry), q # <<>>
  PROVE  Append(a, Head(q).hash) \o Hashes(Tail(q)) = a \o Hashes(q)
<1>1. Head(q).hash \in Hash /\ Tail(q) \in Seq(Entry)
  BY FrontOfVerifying
<1>2. Append(a, Head(q).hash) = a \o <<Head(q).hash>>
  BY <1>1, AppendIsConcat
<1>3. Hashes(Tail(q)) \in Seq(Hash) /\ <<Head(q).hash>> \in Seq(Hash)
  <2>1. Hashes(Tail(q)) \in Seq(Hash)
    BY <1>1, HashesIsSeq, Zenon
  <2> QED
    BY <1>1, <2>1
<1>4. (a \o <<Head(q).hash>>) \o Hashes(Tail(q)) = a \o (<<Head(q).hash>> \o Hashes(Tail(q)))
  BY <1>3, ConcatAssociative, SMTT(30)
<1> QED
  BY <1>2, <1>4, HashesFront, Zenon

\* Disjoint sequences without repetition have none together.
LEMMA InjectiveConcat ==
  ASSUME NEW s \in Seq(Hash), NEW t \in Seq(Hash)
  PROVE  IsInjective(s \o t) <=>
           IsInjective(s) /\ IsInjective(t) /\ Range(s) \cap Range(t) = {}
<1>1. /\ Len(s) \in Nat /\ Len(t) \in Nat /\ DOMAIN s = 1..Len(s) /\ DOMAIN t = 1..Len(t)
      /\ DOMAIN (s \o t) = 1..(Len(s) + Len(t))
      /\ \A i \in 1..(Len(s) + Len(t)) :
            (s \o t)[i] = IF i <= Len(s) THEN s[i] ELSE t[i - Len(s)]
  BY LenProperties, ConcatProperties
<1>2. /\ \A i \in 1..Len(s) : i \in DOMAIN (s \o t) /\ (s \o t)[i] = s[i]
      /\ \A i \in 1..Len(t) : Len(s) + i \in DOMAIN (s \o t) /\ (s \o t)[Len(s) + i] = t[i]
  BY <1>1
<1>3. ASSUME IsInjective(s \o t)
      PROVE  IsInjective(s) /\ IsInjective(t) /\ Range(s) \cap Range(t) = {}
  <2>1. IsInjective(s)
    BY <1>1, <1>2, <1>3, Zenon DEF IsInjective
  <2>2. IsInjective(t)
    <3> SUFFICES ASSUME NEW i \in 1..Len(t), NEW j \in 1..Len(t), t[i] = t[j] PROVE i = j
      BY <1>1 DEF IsInjective
    <3>1. Len(s) + i = Len(s) + j
      BY <1>2, <1>3, Zenon DEF IsInjective
    <3> QED
      BY <1>1, <3>1
  <2>3. ASSUME NEW i \in 1..Len(s), NEW j \in 1..Len(t) PROVE s[i] # t[j]
    <3>1. i # Len(s) + j
      BY <1>1
    <3> QED
      BY <1>2, <1>3, <3>1, Zenon DEF IsInjective
  <2> QED
    BY <1>1, <2>1, <2>2, <2>3, ZenonT(60) DEF Range
<1>4. ASSUME IsInjective(s), IsInjective(t), Range(s) \cap Range(t) = {}
      PROVE  IsInjective(s \o t)
  <2> SUFFICES ASSUME NEW i \in 1..(Len(s) + Len(t)), NEW j \in 1..(Len(s) + Len(t)),
                      (s \o t)[i] = (s \o t)[j]
               PROVE  i = j
    BY <1>1, Zenon DEF IsInjective
  <2>1. CASE i <= Len(s) /\ j <= Len(s)
    BY <1>1, <1>4, <2>1, SMTT(30) DEF IsInjective
  <2>2. CASE ~(i <= Len(s)) /\ ~(j <= Len(s))
    <3>1. i - Len(s) \in DOMAIN t /\ j - Len(s) \in DOMAIN t /\ t[i - Len(s)] = t[j - Len(s)]
      BY <1>1, <2>2
    <3> QED
      BY <1>1, <1>4, <3>1, SMTT(30) DEF IsInjective
  <2>3. CASE i <= Len(s) /\ ~(j <= Len(s))
    <3>1. i \in DOMAIN s /\ j - Len(s) \in DOMAIN t /\ s[i] = t[j - Len(s)]
      BY <1>1, <2>3
    <3> QED
      BY <1>4, <3>1, Zenon DEF Range
  <2>4. CASE ~(i <= Len(s)) /\ j <= Len(s)
    <3>1. j \in DOMAIN s /\ i - Len(s) \in DOMAIN t /\ s[j] = t[i - Len(s)]
      BY <1>1, <2>4
    <3> QED
      BY <1>4, <3>1, Zenon DEF Range
  <2> QED
    BY <2>1, <2>2, <2>3, <2>4
<1> QED
  BY <1>3, <1>4

LEMMA HashConcatAssociative ==
  ASSUME NEW s \in Seq(Hash), NEW t \in Seq(Hash), NEW w \in Seq(Hash)
  PROVE  (s \o t) \o w = s \o (t \o w)
  BY ConcatAssociative, SMTT(30)

LEMMA RangeConcat ==
  ASSUME NEW s \in Seq(Hash), NEW t \in Seq(Hash)
  PROVE  Range(s \o t) = Range(s) \cup Range(t)
<1>1. /\ Len(s) \in Nat /\ Len(t) \in Nat /\ DOMAIN s = 1..Len(s) /\ DOMAIN t = 1..Len(t)
      /\ DOMAIN (s \o t) = 1..(Len(s) + Len(t))
      /\ \A i \in 1..Len(s) : (s \o t)[i] = s[i]
      /\ \A i \in 1..Len(t) : (s \o t)[Len(s) + i] = t[i]
  BY HashConcat
<1>2. ASSUME NEW i \in DOMAIN (s \o t) PROVE (s \o t)[i] \in Range(s) \cup Range(t)
  <2>1. CASE i <= Len(s)
    BY <1>1, <2>1 DEF Range
  <2>2. CASE ~(i <= Len(s))
    <3>1. i - Len(s) \in 1..Len(t) /\ Len(s) + (i - Len(s)) = i
      BY <1>1, <2>2
    <3>2. (s \o t)[i] = t[i - Len(s)]
      BY <1>1, <3>1, Zenon
    <3> QED
      BY <1>1, <3>1, <3>2, Zenon DEF Range
  <2> QED
    BY <2>1, <2>2, Zenon
<1>3. ASSUME NEW i \in DOMAIN s PROVE s[i] \in Range(s \o t)
  <2>1. i \in DOMAIN (s \o t) /\ (s \o t)[i] = s[i]
    BY <1>1
  <2> QED
    BY <2>1 DEF Range
<1>4. ASSUME NEW i \in DOMAIN t PROVE t[i] \in Range(s \o t)
  <2>1. Len(s) + i \in DOMAIN (s \o t) /\ (s \o t)[Len(s) + i] = t[i]
    BY <1>1
  <2> QED
    BY <2>1, Zenon DEF Range
<1> QED
  BY <1>2, <1>3, <1>4, Zenon DEF Range

LEMMA SingletonSeq ==
  ASSUME NEW h \in Hash
  PROVE  <<h>> \in Seq(Hash) /\ Range(<<h>>) = {h} /\ IsInjective(<<h>>)
<1>1. <<h>> \in Seq(Hash) /\ DOMAIN <<h>> = {1} /\ <<h>>[1] = h
  OBVIOUS
<1> QED
  BY <1>1 DEF Range, IsInjective

-----------------------------------------------------------------------------
(* m_readySet and the deques, while no block is known to be bad. *)

\* Steps of the verifiers move blocks between the deques and keep their order.
LEMMA TakePipeline == ASSUME TypeOK, NEW v \in Verifiers, Take(v) PROVE Pipeline' = Pipeline
<1> DEFINE a == m_verified
           b == Hashes(m_verifying)
           c == m_unverified
           d == Hashes(m_verifying')
           e == m_unverified'
<1>1. a \in Seq(Hash) /\ b \in Seq(Hash) /\ c \in Seq(Hash) /\ m_verifying \in Seq(Entry)
  BY PipelineIsSeq, SMTT(30) DEF TypeOK, DequesOK
<1>2. d \in Seq(Hash) /\ e \in Seq(Hash)
  BY DequesStep, HashesIsSeq, Zenon DEF DequesOK, Next, SteadyNext, Verify
<1>3. d \o e = b \o c /\ m_verified' = a
  BY <1>1, TakeKeepsOrder, Zenon DEF Take
<1> HIDE DEF a, b, c, d, e
<1>4. (a \o b) \o c = a \o (b \o c)
  BY <1>1, HashConcatAssociative, Zenon
<1>5. (a \o d) \o e = a \o (d \o e)
  BY <1>1, <1>2, HashConcatAssociative, ZenonT(60)
<1> QED
  BY <1>3, <1>4, <1>5, SMTT(30) DEF Pipeline, a, b, c, d, e

LEMMA FinishPipeline ==
  ASSUME TypeOK, m_verifying # <<>>, Finish(Head(m_verifying).hash),
         Parent[Head(m_verifying).hash] \notin m_knownBad, UNCHANGED m_unverified
  PROVE  Pipeline' = Pipeline /\ m_readySet' = m_readySet
<1>1. m_verified \in Seq(Hash) /\ m_verifying \in Seq(Entry)
  BY Zenon DEF TypeOK, DequesOK
<1>2. Append(m_verified, Head(m_verifying).hash) \o Hashes(Tail(m_verifying))
        = m_verified \o Hashes(m_verifying)
  BY <1>1, FinishKeepsOrder, Zenon
<1> QED
  BY <1>2, Zenon DEF Finish, Pipeline

LEMMA ReplaceHashes ==
  ASSUME TypeOK, NEW v \in Verifiers, VerifyReplace(v) PROVE Pipeline' = Pipeline
<1>1. m_verifying \in Seq(Entry) /\ \A i \in DOMAIN m_verifying : m_verifying[i] \in Entry
  BY ElementOfSeq, LenProperties DEF TypeOK, DequesOK
<1>2. DOMAIN m_verifying' = DOMAIN m_verifying
      /\ \A i \in DOMAIN m_verifying : m_verifying'[i].hash = m_verifying[i].hash
  BY <1>1 DEF VerifyReplace, Entry
<1>3. Hashes(m_verifying') = Hashes(m_verifying)
  BY <1>2 DEF Hashes
<1> QED
  BY <1>3, Zenon DEF VerifyReplace, Pipeline

\* A ready block and the waiting blocks it releases join the end.
LEMMA ReadyPipeline ==
  ASSUME TypeOK, IndexesAgree, NEW h \in Hash, ~Queued(h), ImportReady(h)
  PROVE  \E s \in ReleaseOrders(h, UnknownDescendants({h})) :
           /\ s \in Seq(Hash) /\ IsInjective(s)
           /\ Range(s) \subseteq m_unknown /\ h \notin Range(s)
           /\ Pipeline' = Pipeline \o (<<h>> \o s)
           /\ m_readySet' = m_readySet \cup {h} \cup Range(s)
<1> DEFINE D == UnknownDescendants({h})
           p == m_verified \o Hashes(m_verifying)
           u == m_unverified
<1>1. D \in SUBSET Hash /\ D \subseteq m_unknown /\ h \notin m_unknown
  BY DescendantsUnknown, Zenon DEF TypeOK, SetsOK, Queued, IndexesAgree
<1>2. PICK s \in ReleaseOrders(h, D) : m_unverified' = Append(m_unverified, h) \o s
  BY Zenon DEF ImportReady, NoteReady
<1>3. s \in Seq(Hash) /\ Range(s) = D /\ IsInjective(s)
  BY <1>1, <1>2, ReleaseIsSeq, ZenonT(60)
<1>4. Pipeline = p \o u /\ Pipeline' = p \o (Append(u, h) \o s)
  BY <1>2 DEF ImportReady, Pipeline
<1>5. m_readySet' = m_readySet \cup {h} \cup Range(s)
  BY <1>3, Zenon DEF ImportReady, NoteReady
<1>6. p \in Seq(Hash) /\ u \in Seq(Hash) /\ <<h>> \in Seq(Hash)
  BY PipelineIsSeq, ConcatProperties, SingletonSeq, Zenon DEF TypeOK, DequesOK
<1> HIDE DEF p, u
<1>7. Append(u, h) = u \o <<h>>
  BY <1>6, AppendIsConcat, SMTT(30)
<1>8. u \o <<h>> \in Seq(Hash) /\ <<h>> \o s \in Seq(Hash)
  BY <1>3, <1>6, ConcatProperties, Zenon
<1>9. (u \o <<h>>) \o s = u \o (<<h>> \o s)
  BY <1>3, <1>6, ConcatAssociative, SMTT(30)
<1>10. p \o (u \o (<<h>> \o s)) = (p \o u) \o (<<h>> \o s)
  BY <1>6, <1>8, ConcatAssociative, SMTT(30)
<1>11. Pipeline' = Pipeline \o (<<h>> \o s)
  BY <1>4, <1>7, <1>9, <1>10, Zenon
<1> QED
  BY <1>1, <1>2, <1>3, <1>5, <1>11, Zenon

\* drain takes a prefix.
LEMMA DrainPipeline ==
  ASSUME TypeOK, NEW max \in 1..MaxDrain, Drain(max)
  PROVE  /\ blocks' \in Seq(Hash) /\ Pipeline' \in Seq(Hash)
         /\ Pipeline = blocks' \o Pipeline'
         /\ m_readySet' = m_readySet \ Range(blocks')
         /\ m_drainingSet' = m_drainingSet \cup Range(blocks')
<1>1. max \in Nat /\ m_verified \in Seq(Hash)
  BY BoundAssumption DEF TypeOK, DequesOK
<1> DEFINE n == IF m_drainingSet = {} THEN Min({max, Len(m_verified)}) ELSE 0
           a == SubSeq(m_verified, 1, n)
           r == SubSeq(m_verified, n + 1, Len(m_verified))
           b == Hashes(m_verifying)
           c == m_unverified
<1>2. blocks' = a /\ m_verified' = r /\ UNCHANGED <<m_verifying, m_unverified>>
      /\ m_readySet' = m_readySet \ Range(a) /\ m_drainingSet' = m_drainingSet \cup Range(a)
  BY Zenon DEF Drain
<1>3. n = Min({max, Len(m_verified)}) \/ n = 0
  OBVIOUS
<1> HIDE DEF n
<1>4. a \in Seq(Hash) /\ r \in Seq(Hash) /\ a \o r = m_verified
  BY <1>1, <1>3, DrainSplits, Zenon
<1>5. b \in Seq(Hash) /\ c \in Seq(Hash)
  BY PipelineIsSeq DEF TypeOK, DequesOK
<1>6. Pipeline = ((a \o r) \o b) \o c /\ Pipeline' = (r \o b) \o c
  BY <1>2, <1>4, Zenon DEF Pipeline
<1> HIDE DEF a, r, b, c
<1>7. r \o b \in Seq(Hash) /\ (r \o b) \o c \in Seq(Hash)
  BY <1>4, <1>5, ConcatProperties
<1>8. (a \o r) \o b = a \o (r \o b)
  BY <1>4, <1>5, HashConcatAssociative, ZenonT(60)
<1>9. (a \o (r \o b)) \o c = a \o ((r \o b) \o c)
  BY <1>4, <1>5, <1>7, HashConcatAssociative, ZenonT(60)
<1> QED
  BY <1>2, <1>4, <1>6, <1>7, <1>8, <1>9, ZenonT(60)

LEMMA ReadyJoins ==
  ASSUME TypeOK, IndexesAgree, ReadyInv, NEW h \in Hash, ~Queued(h), ImportReady(h)
  PROVE  ReadyInv'
<1> SUFFICES ASSUME m_knownBad = {}
             PROVE  /\ lock' \in {"free", "drainVerified"}
                    /\ IsInjective(Pipeline') /\ Range(Pipeline') = m_readySet'
  BY Zenon DEF ReadyInv, ImportReady
<1>1. lock' \in {"free", "drainVerified"}
  BY DEF ReadyInv, ImportReady, section
<1>2. PICK s : /\ s \in Seq(Hash) /\ IsInjective(s)
               /\ Range(s) \subseteq m_unknown /\ h \notin Range(s)
               /\ Pipeline' = Pipeline \o (<<h>> \o s)
               /\ m_readySet' = m_readySet \cup {h} \cup Range(s)
  BY ReadyPipeline, Zenon
<1>3. <<h>> \in Seq(Hash) /\ Range(<<h>>) = {h} /\ IsInjective(<<h>>)
  BY SingletonSeq
<1>4. Range(<<h>> \o s) = {h} \cup Range(s) /\ <<h>> \o s \in Seq(Hash)
  <2>1. <<h>> \o s \in Seq(Hash)
    BY <1>2, <1>3, HashConcat, Zenon
  <2>2. Range(<<h>> \o s) = Range(<<h>>) \cup Range(s)
    BY <1>2, <1>3, RangeConcat, Zenon
  <2> QED
    BY <1>3, <2>1, <2>2
<1>5. IsInjective(<<h>> \o s)
  <2>1. Range(<<h>>) \cap Range(s) = {}
    BY <1>2, <1>3
  <2> QED
    BY <1>2, <1>3, <2>1, InjectiveConcat, Zenon
<1>6. Pipeline \in Seq(Hash) /\ IsInjective(Pipeline) /\ Range(Pipeline) = m_readySet
  BY PipelineIsSeq DEF ReadyInv
<1>7. Range(Pipeline) \cap Range(<<h>> \o s) = {}
  BY <1>2, <1>4, <1>6, Zenon DEF IndexesAgree, Queued
<1>8. IsInjective(Pipeline \o (<<h>> \o s))
  BY <1>4, <1>5, <1>6, <1>7, InjectiveConcat, Zenon
<1>9. Range(Pipeline \o (<<h>> \o s)) = Range(Pipeline) \cup Range(<<h>> \o s)
  BY <1>4, <1>6, RangeConcat, ZenonT(60)
<1> QED
  BY <1>1, <1>2, <1>4, <1>6, <1>8, <1>9, ZenonT(60)

LEMMA ImportReadyInv ==
  ASSUME TypeOK, IndexesAgree, ReadyInv, NEW h \in Hash, ~Queued(h), NEW isOurs,
         ImportNew(h, isOurs)
  PROVE  ReadyInv'
<1>1. CASE ImportFuture(h)
  BY <1>1, Zenon DEF ImportFuture, ReadyInv, Pipeline, deques, section
<1>2. CASE ImportBadChain(h)
  BY <1>2, Zenon DEF ImportBadChain, ReadyInv
<1>3. CASE ImportUnknown(h)
  BY <1>3, Zenon DEF ImportUnknown, ReadyInv, Pipeline, deques, section
<1> QED
  BY <1>1, <1>2, <1>3, ReadyJoins, Zenon DEF ImportNew

LEMMA ReadyStep == TypeOK /\ IndexesAgree /\ ReadyInv /\ [Next]_vars => ReadyInv'
<1> SUFFICES ASSUME TypeOK, IndexesAgree, ReadyInv, [Next]_vars PROVE ReadyInv'
  OBVIOUS
<1>1. ASSUME NEW h \in Hash, NEW isOurs \in BOOLEAN, Import(h, isOurs) PROVE ReadyInv'
  BY <1>1, ImportReadyInv, SMTT(30) DEF Import
<1>2. ASSUME NEW h \in todo, TickImport(h) PROVE ReadyInv'
  <2>1. h \in Hash
    BY DEF TypeOK, SetsOK
  <2>2. CASE Queued(h) \/ h \in m_bc
    BY <1>2, <2>2, Zenon DEF TickImport, ReadyInv, Pipeline, sets, deques, section
  <2> QED
    BY <1>2, <2>1, <2>2, ImportReadyInv, Zenon DEF TickImport
<1>3. ASSUME NEW v \in Verifiers, Take(v) \/ VerifyReplace(v) PROVE ReadyInv'
  <2>1. Pipeline' = Pipeline
    BY <1>3, TakePipeline, ReplaceHashes
  <2>2. UNCHANGED <<m_knownBad, m_readySet, lock>>
    BY <1>3, SMTT(30) DEF Take, VerifyReplace, sets, section
  <2> QED
    BY <2>1, <2>2 DEF ReadyInv
<1>4. ASSUME NEW v \in Verifiers, VerifyFail(v) PROVE ReadyInv'
  BY <1>4, ZenonT(60) DEF VerifyFail, ReadyInv
<1>5. ASSUME NEW v \in Verifiers, VerifyNext(v) PROVE ReadyInv'
  <2>1. Head(m_verifying).hash = work[v] /\ m_verifying # <<>>
    <3>1. m_verifying # <<>> /\ Sha3Uncles(Head(m_verifying)) = work[v] /\ work[v] \in Hash
      BY <1>5, Zenon DEF VerifyNext, TypeOK, ThreadsOK
    <3> QED
      BY <3>1, HashAssumption, Zenon DEF Sha3Uncles
  <2>2. Finish(Head(m_verifying).hash) /\ UNCHANGED m_unverified /\ lock' = "drainVerified"
    BY <1>5, <2>1, Zenon DEF VerifyNext
  <2>3. CASE Parent[Head(m_verifying).hash] \in m_knownBad
    BY <2>2, <2>3, Zenon DEF Finish, ReadyInv
  <2>4. CASE Parent[Head(m_verifying).hash] \notin m_knownBad
    <3>1. Pipeline' = Pipeline /\ m_readySet' = m_readySet
      BY <2>1, <2>2, <2>4, FinishPipeline, Zenon
    <3>2. m_knownBad' = m_knownBad
      BY <2>2, <2>4, Zenon DEF Finish
    <3> QED
      BY <2>2, <3>1, <3>2, SMTT(30) DEF ReadyInv
  <2> QED
    BY <2>3, <2>4, Zenon
<1>6. CASE DrainVerified
  <2>1. m_verifying # <<>> /\ Finish(Head(m_verifying).hash) /\ UNCHANGED <<m_unverified, lock>>
    BY <1>6, Zenon DEF DrainVerified, FrontDone, section
  <2>2. CASE Parent[Head(m_verifying).hash] \in m_knownBad
    BY <2>1, <2>2, Zenon DEF Finish, ReadyInv
  <2>3. CASE Parent[Head(m_verifying).hash] \notin m_knownBad
    <3>1. Pipeline' = Pipeline /\ m_readySet' = m_readySet
      BY <2>1, <2>3, FinishPipeline, Zenon
    <3>2. m_knownBad' = m_knownBad
      BY <2>1, <2>3, Zenon DEF Finish
    <3> QED
      BY <2>1, <3>1, <3>2, SMTT(30) DEF ReadyInv
  <2> QED
    BY <2>2, <2>3, Zenon
<1>7. ASSUME NEW v \in Verifiers, DrainVerifiedEnd(v) \/ Notify(v) \/ Exit(v) PROVE ReadyInv'
  BY <1>7, Zenon DEF DrainVerifiedEnd, Notify, Exit, ReadyInv, Pipeline, sets, deques,
     section
<1>8. CASE UpdateBadLoop
  BY <1>8, ZenonT(60) DEF UpdateBadLoop, UpdateBad, BadVerified, BadUnverified,
     BadVerifying,
              UpdateBadEnd, Blame, ReadyInv, sets
<1>9. ASSUME NEW max \in 1..MaxDrain, Drain(max) PROVE ReadyInv'
  <2>1. /\ blocks' \in Seq(Hash) /\ Pipeline' \in Seq(Hash)
        /\ Pipeline = blocks' \o Pipeline'
        /\ m_readySet' = m_readySet \ Range(blocks')
    BY <1>9, DrainPipeline, Zenon
  <2>2. UNCHANGED <<m_knownBad, lock>>
    BY <1>9, Zenon DEF Drain, section
  <2> DEFINE a == blocks'
             q == Pipeline'
  <2>3. a \in Seq(Hash) /\ q \in Seq(Hash) /\ Pipeline = a \o q
    BY <2>1, SMTT(30)
  <2>4. ASSUME m_knownBad = {} PROVE IsInjective(q) /\ Range(q) = m_readySet \ Range(a)
    <3>1. IsInjective(a \o q) /\ Range(a \o q) = m_readySet
      BY <2>3, <2>4, SMTT(30) DEF ReadyInv
    <3> HIDE DEF a, q
    <3>2. IsInjective(q) /\ Range(a) \cap Range(q) = {}
      BY <2>3, <3>1, InjectiveConcat, SMTT(30)
    <3>3. Range(a \o q) = Range(a) \cup Range(q)
      BY <2>3, RangeConcat, SMTT(30)
    <3> QED
      BY <3>1, <3>2, <3>3, SMTT(30)
  <2> QED
    BY <2>1, <2>2, <2>4, Zenon DEF ReadyInv
<1>10. CASE ImportDrained
  BY <1>10, Zenon DEF ImportDrained, Rest, ReadyInv, Pipeline, sets, deques, section
<1>11. CASE DoneDrain
  <2>1. CASE badBlocks = <<>>
    BY <1>11, <2>1, ZenonT(60) DEF DoneDrain, ReadyInv, Pipeline, deques, Range
  <2>2. CASE badBlocks # <<>>
    <3>1. m_knownBad' # {}
      <4>1. badBlocks \in Seq(Hash)
        BY SMTT(30) DEF TypeOK, DequesOK
      <4>2. 1 \in DOMAIN badBlocks
        BY <2>2, <4>1, EmptySeq, LenProperties, SMTT(30)
      <4> QED
        BY <1>11, <4>2, Zenon DEF DoneDrain, Range
    <3> QED
      BY <3>1, SMTT(30) DEF ReadyInv
  <2> QED
    BY <2>1, <2>2, SMTT(30)
<1>12. CASE TickCollect
  BY <1>12, Zenon DEF TickCollect, ReadyInv, Pipeline, deques, section
<1>13. CASE Clear
  <2>1. m_readySet' = {} /\ m_verified' = <<>> /\ m_verifying' = <<>> /\ m_unverified' = <<>>
        /\ UNCHANGED <<m_knownBad, lock>>
    BY <1>13, Zenon DEF Clear, section
  <2>2. Hashes(<<>>) = <<>>
    BY DEF Hashes
  <2>3. Pipeline' = <<>>
    BY <2>1, <2>2, SMTT(30) DEF Pipeline
  <2>4. IsInjective(<<>>) /\ Range(<<>>) = {}
    BY SMTT(30) DEF IsInjective, Range
  <2> QED
    BY <2>1, <2>3, <2>4, SMTT(30) DEF ReadyInv
<1>14. CASE Clock \/ Stop \/ UNCHANGED vars
  BY <1>14, Zenon DEF Clock, Stop, vars, ReadyInv, Pipeline, sets, deques, section
<1> QED
  BY <1>1, <1>2, <1>3, <1>4, <1>5, <1>6, <1>7, <1>8, <1>9, <1>10, <1>11, <1>12, <1>13,
     <1>14, ZenonT(60)
  DEF Next, SteadyNext, Sync, Tick, Verify

LEMMA InitReady == Init => ReadyInv
<1> SUFFICES ASSUME Init PROVE ReadyInv
  BY SMTT(30)
<1>1. m_readySet = {} /\ m_verified = <<>> /\ m_verifying = <<>> /\ m_unverified = <<>>
      /\ lock = "free"
  BY Zenon DEF Init
<1>2. Hashes(<<>>) = <<>>
  BY DEF Hashes
<1>3. Pipeline = <<>>
  BY <1>1, <1>2, SMTT(30) DEF Pipeline
<1>4. IsInjective(<<>>) /\ Range(<<>>) = {}
  BY DEF IsInjective, Range
<1> QED
  BY <1>1, <1>3, <1>4, SMTT(30) DEF ReadyInv

\* As long as no block is known to be bad, the three deques hold exactly the blocks
\* of m_readySet, each once, whatever import, tick, noteReady, the verifier threads,
\* drain and clear do, for every set of blocks and every number of verifiers.
THEOREM ReadyCorrect == Spec => []ReadyMatchesKnown
<1>1. ReadyInv => ReadyMatchesKnown
  BY DEF ReadyInv, ReadyMatchesKnown
<1> QED
  BY <1>1, TypeCorrect, IndexesCorrect, InitReady, ReadyStep, PTL DEF Spec

\* "We're next!": the block that leaves m_verifying is the one at its front.
LEMMA NextIsFront ==
  ASSUME TypeOK, NEW v \in Verifiers, VerifyNext(v)
  PROVE  m_verifying # <<>> /\ Head(m_verifying).hash = work[v] /\ ~Head(m_verifying).done
<1>1. m_verifying # <<>> /\ Sha3Uncles(Head(m_verifying)) = work[v] /\ work[v] \in Hash
  BY DEF VerifyNext, TypeOK, ThreadsOK
<1> QED
  BY <1>1, HashAssumption DEF Sha3Uncles

-----------------------------------------------------------------------------
(* Bad blocks included, but without clear(): where a block can be. *)

\* The blocks of m_verifying that are verified already.
DoneHashes == {m_verifying[i].hash : i \in {j \in DOMAIN m_verifying : m_verifying[j].done}}

\* A block is in the deques once, as a ready or a bad one; what is being drained or waits
\* for a parent is not there.
PlacesInv ==
  /\ IsInjective(Pipeline) /\ Range(Pipeline) \subseteq m_readySet \cup m_knownBad
  /\ m_unknown \cap (m_readySet \cup m_drainingSet \cup m_knownBad) = {}
  /\ m_drainingSet \cap Range(Pipeline) = {}
  /\ Range(blocks) \cup Range(badBlocks) \subseteq m_drainingSet

ParentsInv == \A u \in m_unknown : Parent[u] \notin m_readySet \cup m_drainingSet \cup m_bc

\* The block a verifier holds is in the deques as its own placeholder, if at all, and no
\* other verifier holds it.
WorkInv ==
  \A v \in Verifiers : pc[v] = "verify" =>
    /\ work[v] \in m_readySet \cup m_knownBad
    /\ work[v] \notin Range(m_verified) \cup Range(m_unverified) \cup DoneHashes
    /\ \A w \in Verifiers : pc[w] = "verify" /\ work[w] = work[v] => w = v

\* The deques hold no bad block, except while updateBad_WITH_LOCK is removing them; a
\* round that removes none leaves the deque it looked at clean.
CleanInv ==
  /\ DoneHashes \cap m_knownBad = {}
  /\ lock \in {"free", "drainVerified", "updateBad"} => Range(Pipeline) \cap m_knownBad = {}
  /\ lock \in {"badUnverified", "badVerifying"} /\ ~moreBad => Range(m_verified) \cap m_knownBad = {}
  /\ lock = "badVerifying" /\ ~moreBad => Range(m_unverified) \cap m_knownBad = {}

QueueInv == PlacesInv /\ ParentsInv /\ WorkInv /\ CleanInv

LEMMA PipelineParts ==
  ASSUME NEW a \in Seq(Hash), NEW b \in Seq(Hash), NEW c \in Seq(Hash)
  PROVE  /\ Range(a \o b \o c) = Range(a) \cup Range(b) \cup Range(c)
         /\ IsInjective(a \o b \o c) <=>
              /\ IsInjective(a) /\ IsInjective(b) /\ IsInjective(c)
              /\ Range(a) \cap Range(b) = {} /\ Range(a) \cap Range(c) = {}
              /\ Range(b) \cap Range(c) = {}
<1>1. a \o b \in Seq(Hash)
  OBVIOUS
<1>2. Range(a \o b) = Range(a) \cup Range(b)
      /\ (IsInjective(a \o b) <=> IsInjective(a) /\ IsInjective(b) /\ Range(a) \cap Range(b) = {})
  BY RangeConcat, InjectiveConcat, Zenon
<1> DEFINE p == a \o b
<1>3. p \in Seq(Hash)
  BY <1>1
<1> HIDE DEF p
<1>4. Range(p \o c) = Range(p) \cup Range(c)
      /\ (IsInjective(p \o c) <=> IsInjective(p) /\ IsInjective(c) /\ Range(p) \cap Range(c) = {})
  BY <1>3, RangeConcat, InjectiveConcat, Zenon
<1>5. Range(p) = Range(a) \cup Range(b)
      /\ (IsInjective(p) <=> IsInjective(a) /\ IsInjective(b) /\ Range(a) \cap Range(b) = {})
  BY <1>2 DEF p
<1>6. /\ Range(p \o c) = Range(a) \cup Range(b) \cup Range(c)
      /\ IsInjective(p \o c) <=>
              /\ IsInjective(a) /\ IsInjective(b) /\ IsInjective(c)
              /\ Range(a) \cap Range(b) = {} /\ Range(a) \cap Range(c) = {}
              /\ Range(b) \cap Range(c) = {}
  BY <1>4, <1>5
<1> QED
  BY <1>6 DEF p

\* The pipeline of a state, and that of the next one.
LEMMA Parts ==
  ASSUME TypeOK
  PROVE  /\ Range(Pipeline) = Range(m_verified) \cup Range(Hashes(m_verifying)) \cup Range(m_unverified)
         /\ IsInjective(Pipeline) <=>
              /\ IsInjective(m_verified) /\ IsInjective(Hashes(m_verifying)) /\ IsInjective(m_unverified)
              /\ Range(m_verified) \cap Range(Hashes(m_verifying)) = {}
              /\ Range(m_verified) \cap Range(m_unverified) = {}
              /\ Range(Hashes(m_verifying)) \cap Range(m_unverified) = {}
         /\ DoneHashes \subseteq Range(Hashes(m_verifying))
         /\ Range(Pipeline) \subseteq Hash
<1>1. m_verified \in Seq(Hash) /\ Hashes(m_verifying) \in Seq(Hash) /\ m_unverified \in Seq(Hash)
      /\ Pipeline \in Seq(Hash)
  BY PipelineIsSeq DEF TypeOK, DequesOK
<1>2. DoneHashes \subseteq Range(Hashes(m_verifying))
  BY Zenon DEF DoneHashes, Hashes, Range
<1>3. Range(Pipeline) \subseteq Hash
  BY <1>1 DEF Range
<1> DEFINE a == m_verified
           b == Hashes(m_verifying)
           c == m_unverified
<1>4. Pipeline = a \o b \o c
  BY DEF Pipeline
<1>5. a \in Seq(Hash) /\ b \in Seq(Hash) /\ c \in Seq(Hash)
  BY <1>1
<1> HIDE DEF a, b, c
<1>6. /\ Range(a \o b \o c) = Range(a) \cup Range(b) \cup Range(c)
      /\ IsInjective(a \o b \o c) <=>
              /\ IsInjective(a) /\ IsInjective(b) /\ IsInjective(c)
              /\ Range(a) \cap Range(b) = {} /\ Range(a) \cap Range(c) = {}
              /\ Range(b) \cap Range(c) = {}
  BY <1>5, PipelineParts, Zenon
<1> QED
  BY <1>2, <1>3, <1>4, <1>6, Zenon DEF a, b, c

\* removeIf keeps the order and makes no copies.
LEMMA KeptPart ==
  ASSUME NEW S, NEW q \in Seq(S), NEW I \in SUBSET DOMAIN q, NEW f \in Enumerations(I),
         NEW r, r = [i \in DOMAIN f |-> q[f[i]]]
  PROVE  /\ r \in Seq(S)
         /\ \A j \in DOMAIN r : \E i \in I : r[j] = q[i]
         /\ Range(r) \subseteq Range(q)
         /\ IsInjective(q) => IsInjective(r)
<1>1. r \in Seq(S) /\ DOMAIN r = DOMAIN f
  BY KeptIsSeq, Zenon
<1>2. \A i \in DOMAIN f : f[i] \in I /\ r[i] = q[f[i]]
  BY EnumerationOf, Zenon
<1>3. \A i, j \in DOMAIN f : f[i] = f[j] => i = j
  <2>1. DOMAIN f \subseteq Nat /\ \A i \in DOMAIN f : f[i] \in Nat
    BY <1>1, <1>2, LenProperties
  <2>2. \A i, j \in DOMAIN f : i < j => f[i] < f[j]
    BY Zenon DEF Enumerations
  <2> QED
    BY <2>1, <2>2
<1>4. IsInjective(q) => IsInjective(r)
  BY <1>1, <1>2, <1>3 DEF IsInjective
<1>5. Range(r) \subseteq Range(q)
  BY <1>1, <1>2 DEF Range
<1> QED
  BY <1>1, <1>2, <1>4, <1>5, Zenon

Kept(q, f) == [i \in DOMAIN f |-> q[f[i]]]

LEMMA KeptHashes ==
  ASSUME NEW q \in Seq(Hash), NEW I \in SUBSET DOMAIN q, NEW f \in Enumerations(I)
  PROVE  /\ Range(Kept(q, f)) \subseteq Range(q)
         /\ IsInjective(q) => IsInjective(Kept(q, f))
<1>1. Kept(q, f) = [i \in DOMAIN f |-> q[f[i]]]
  BY Zenon DEF Kept
<1> QED
  BY <1>1, KeptPart, SMTT(30)

LEMMA NoDescendants == UnknownDescendants({}) = {}
<1>1. \A c \in m_unknown : Parent[c] \in {} \cup {} => c \in {}
  OBVIOUS
<1> QED
  BY <1>1, Zenon DEF UnknownDescendants

LEMMA DescendantsClosed ==
  ASSUME NEW S, NEW u \in m_unknown, Parent[u] \in S \cup UnknownDescendants(S)
  PROVE  u \in UnknownDescendants(S)
BY Zenon DEF UnknownDescendants

LEMMA CardinalityOfNone == Cardinality({}) = 0
<1> DEFINE F(g) == [T \in SUBSET {} |-> IF T = {} THEN 0 ELSE 1 + g[T \ {CHOOSE x : x \in T}]]
           CS == CHOOSE g : g = F(g)
<1>1. \E g : g = F(g)
  <2>1. [T \in SUBSET {} |-> 0] = F([T \in SUBSET {} |-> 0])
    OBVIOUS
  <2> QED
    BY <2>1, Zenon
<1>2. CS = F(CS)
  BY <1>1, Zenon
<1>3. CS[{}] = 0
  BY <1>2, Zenon
<1> QED
  BY <1>3, Zenon DEF Cardinality

\* A removeIf that selects nothing returns nothing.
LEMMA NoTail ==
  ASSUME NEW S, NEW q \in Seq(S)
  PROVE  TailPositions(q, {}) = {}
<1>1. Cardinality({}) = 0 /\ Len(q) \in Nat
  BY CardinalityOfNone
<1> QED
  BY <1>1 DEF TailPositions

\* Blocks B become bad and the blocks O stop waiting; the deques lose blocks at most.
LEMMA Condemned ==
  ASSUME TypeOK, PlacesInv, ParentsInv, WorkInv, NEW B, NEW O, O \subseteq m_unknown,
         B \cap m_unknown = {},
         m_readySet' = m_readySet \ B, m_knownBad' = m_knownBad \cup B \cup O,
         m_unknown' = m_unknown \ O, UNCHANGED <<m_drainingSet, blocks, badBlocks, m_bc>>,
         IsInjective(Pipeline'), Range(Pipeline') \subseteq Range(Pipeline),
         Range(m_verified') \subseteq Range(m_verified),
         Range(m_unverified') \subseteq Range(m_unverified), DoneHashes' \subseteq DoneHashes,
         \A v \in Verifiers : pc'[v] = "verify" => pc[v] = "verify" /\ work'[v] = work[v]
  PROVE  PlacesInv' /\ ParentsInv' /\ WorkInv'
<1>1. PlacesInv'
  <2>1. Range(Pipeline') \subseteq m_readySet' \cup m_knownBad'
    BY Zenon DEF PlacesInv
  <2>2. m_unknown' \cap (m_readySet' \cup m_drainingSet' \cup m_knownBad') = {}
    BY Zenon DEF PlacesInv
  <2>3. m_drainingSet' \cap Range(Pipeline') = {}
    BY Zenon DEF PlacesInv
  <2>4. Range(blocks') \cup Range(badBlocks') \subseteq m_drainingSet'
    BY Zenon DEF PlacesInv
  <2> QED
    BY <2>1, <2>2, <2>3, <2>4, Zenon DEF PlacesInv, Range, IsInjective
<1>2. ParentsInv'
  BY Zenon DEF ParentsInv
<1>3. WorkInv'
  <2> SUFFICES ASSUME NEW v \in Verifiers, pc'[v] = "verify"
               PROVE  /\ work'[v] \in m_readySet' \cup m_knownBad'
                      /\ work'[v] \notin Range(m_verified') \cup Range(m_unverified') \cup DoneHashes'
                      /\ \A w \in Verifiers : pc'[w] = "verify" /\ work'[w] = work'[v] => w = v
    BY Zenon DEF WorkInv, Range
  <2>1. pc[v] = "verify" /\ work'[v] = work[v]
    BY Zenon
  <2>2. work[v] \in m_readySet \cup m_knownBad
        /\ work[v] \notin Range(m_verified) \cup Range(m_unverified) \cup DoneHashes
    BY <2>1, Zenon DEF WorkInv
  <2>3. \A w \in Verifiers : pc[w] = "verify" /\ work[w] = work[v] => w = v
    BY <2>1, Zenon DEF WorkInv
  <2> QED
    BY <2>1, <2>2, <2>3, Zenon
<1> QED
  BY <1>1, <1>2, <1>3, Zenon

\* A step that moves no block.
LEMMA PlacesKept ==
  ASSUME TypeOK, QueueInv,
         UNCHANGED <<m_readySet, m_drainingSet, m_knownBad, m_unknown, deques, blocks, badBlocks,
                     m_bc, moreBad>>,
         \A v \in Verifiers : pc'[v] = "verify" => pc[v] = "verify" /\ work'[v] = work[v],
         \/ lock' = lock
         \/ lock \in {"drainVerified", "updateBad"} /\ lock' = "free"
  PROVE  QueueInv'
<1>1. m_verified' = m_verified /\ m_verifying' = m_verifying /\ m_unverified' = m_unverified
  BY Zenon DEF deques
<1>2. Pipeline' = Pipeline /\ DoneHashes' = DoneHashes
  BY <1>1, Zenon DEF Pipeline, Hashes, DoneHashes
<1>3. PlacesInv' /\ ParentsInv' /\ WorkInv'
  <2> DEFINE B == {}
             O == {}
  <2>1. /\ O \subseteq m_unknown /\ B \cap m_unknown = {}
        /\ m_readySet' = m_readySet \ B /\ m_knownBad' = m_knownBad \cup B \cup O
        /\ m_unknown' = m_unknown \ O /\ UNCHANGED <<m_drainingSet, blocks, badBlocks, m_bc>>
    BY Zenon
  <2>2. /\ IsInjective(Pipeline') /\ Range(Pipeline') \subseteq Range(Pipeline)
        /\ Range(m_verified') \subseteq Range(m_verified)
        /\ Range(m_unverified') \subseteq Range(m_unverified) /\ DoneHashes' \subseteq DoneHashes
    BY <1>1, <1>2, Zenon DEF QueueInv, PlacesInv
  <2> HIDE DEF B, O
  <2> QED
    BY <2>1, <2>2, Condemned, Zenon DEF QueueInv
<1>4. CleanInv'
  <2>1. /\ DoneHashes' \cap m_knownBad' = {}
        /\ lock' \in {"free", "drainVerified", "updateBad"} => Range(Pipeline') \cap m_knownBad' = {}
    BY <1>2, Zenon DEF QueueInv, CleanInv
  <2>2. /\ lock' \in {"badUnverified", "badVerifying"} /\ ~moreBad'
             => Range(m_verified') \cap m_knownBad' = {}
        /\ lock' = "badVerifying" /\ ~moreBad' => Range(m_unverified') \cap m_knownBad' = {}
    BY <1>1, Zenon DEF QueueInv, CleanInv
  <2> QED
    BY <2>1, <2>2, Zenon DEF CleanInv, Range
<1> QED
  BY <1>3, <1>4, Zenon DEF QueueInv

\* import: a block the queue does not have joins one of its parts.
LEMMA ImportBadPlaces ==
  ASSUME TypeOK, IndexesAgree, QueueInv, lock = "free", NEW h \in Hash, ~Queued(h),
         ImportBadChain(h), UNCHANGED <<threads, blocks, badBlocks, m_bc>>
  PROVE  QueueInv'
<1>1. h \notin m_readySet /\ h \notin m_knownBad /\ h \notin m_unknown
  BY DEF Queued, IndexesAgree
<1>2. h \notin Range(Pipeline)
  BY <1>1 DEF QueueInv, PlacesInv
<1>3. /\ m_verified' = m_verified /\ m_verifying' = m_verifying /\ m_unverified' = m_unverified
      /\ pc' = pc /\ work' = work /\ m_unknown' = m_unknown /\ m_readySet' = m_readySet
      /\ m_drainingSet' = m_drainingSet /\ lock' = "updateBad" /\ m_knownBad' = m_knownBad \cup {h}
  BY Zenon DEF ImportBadChain, deques, threads, maps
<1>4. Pipeline' = Pipeline /\ DoneHashes' = DoneHashes
  BY <1>3, Zenon DEF Pipeline, Hashes, DoneHashes
<1>5. PlacesInv' /\ ParentsInv' /\ WorkInv'
  <2> DEFINE B == {h}
             O == {}
  <2>1. /\ O \subseteq m_unknown /\ B \cap m_unknown = {}
        /\ m_readySet' = m_readySet \ B /\ m_knownBad' = m_knownBad \cup B \cup O
        /\ m_unknown' = m_unknown \ O /\ UNCHANGED <<m_drainingSet, blocks, badBlocks, m_bc>>
    BY <1>1, <1>3
  <2>2. /\ IsInjective(Pipeline') /\ Range(Pipeline') \subseteq Range(Pipeline)
        /\ Range(m_verified') \subseteq Range(m_verified)
        /\ Range(m_unverified') \subseteq Range(m_unverified) /\ DoneHashes' \subseteq DoneHashes
    BY <1>3, <1>4, Zenon DEF QueueInv, PlacesInv
  <2>3. \A v \in Verifiers : pc'[v] = "verify" => pc[v] = "verify" /\ work'[v] = work[v]
    BY <1>3, Zenon
  <2> HIDE DEF B, O
  <2> QED
    BY <2>1, <2>2, <2>3, Condemned, Zenon DEF QueueInv
<1>6. CleanInv'
  <2>1. Range(Pipeline') \cap m_knownBad' = {}
    BY <1>2, <1>3, <1>4 DEF QueueInv, CleanInv
  <2>2. DoneHashes' \cap m_knownBad' = {}
    <3>1. DoneHashes \subseteq Range(Pipeline)
      BY Parts
    <3> QED
      BY <1>4, <2>1, <3>1
  <2> QED
    BY <1>3, <2>1, <2>2, Zenon DEF CleanInv, Range
<1> QED
  BY <1>5, <1>6 DEF QueueInv

\* The parts of the pipeline after a step.
LEMMA PartsNext ==
  ASSUME DequesOK'
  PROVE  /\ Range(Pipeline') = Range(m_verified') \cup Range(Hashes(m_verifying')) \cup Range(m_unverified')
         /\ IsInjective(Pipeline') <=>
              /\ IsInjective(m_verified') /\ IsInjective(Hashes(m_verifying')) /\ IsInjective(m_unverified')
              /\ Range(m_verified') \cap Range(Hashes(m_verifying')) = {}
              /\ Range(m_verified') \cap Range(m_unverified') = {}
              /\ Range(Hashes(m_verifying')) \cap Range(m_unverified') = {}
         /\ DoneHashes' \subseteq Range(Hashes(m_verifying'))
<1> DEFINE a == m_verified'
           b == Hashes(m_verifying')
           c == m_unverified'
<1>1. a \in Seq(Hash) /\ m_verifying' \in Seq(Entry) /\ c \in Seq(Hash)
  BY DEF DequesOK
<1>2. b \in Seq(Hash)
  BY <1>1, HashesIsSeq
<1>3. DoneHashes' \subseteq Range(Hashes(m_verifying'))
  BY DEF DoneHashes, Hashes, Range
<1>4. Pipeline' = a \o b \o c
  BY DEF Pipeline, Hashes
<1> HIDE DEF a, b, c
<1>5. /\ Range(a \o b \o c) = Range(a) \cup Range(b) \cup Range(c)
      /\ IsInjective(a \o b \o c) <=>
              /\ IsInjective(a) /\ IsInjective(b) /\ IsInjective(c)
              /\ Range(a) \cap Range(b) = {} /\ Range(a) \cap Range(c) = {}
              /\ Range(b) \cap Range(c) = {}
  BY <1>1, <1>2, PipelineParts, Zenon
<1> QED
  BY <1>3, <1>4, <1>5, ZenonT(60) DEF a, b, c

\* removeIf on m_verifying.
LEMMA KeptVerifying ==
  ASSUME TypeOK, DequesOK', IsInjective(Pipeline), UNCHANGED <<m_verified, m_unverified>>,
         NEW I \in SUBSET DOMAIN m_verifying, NEW f \in Enumerations(I),
         m_verifying' = [i \in DOMAIN f |-> m_verifying[f[i]]]
  PROVE  /\ IsInjective(Pipeline') /\ Range(Pipeline') \subseteq Range(Pipeline)
         /\ DoneHashes' \subseteq {m_verifying[i].hash : i \in {j \in I : m_verifying[j].done}}
         /\ DoneHashes' \subseteq DoneHashes
         /\ Range(Hashes(m_verifying')) \subseteq {m_verifying[i].hash : i \in I}
<1> DEFINE q == m_verifying
           r == m_verifying'
           d == Hashes(q)
           e == Hashes(r)
<1>1. q \in Seq(Entry) /\ d \in Seq(Hash)
  BY PipelineIsSeq, Zenon DEF TypeOK, DequesOK
<1>2. r \in Seq(Entry) /\ \A j \in DOMAIN r : \E i \in I : r[j] = q[i]
  BY <1>1, KeptPart, SMTT(30)
<1>3. e = [i \in DOMAIN f |-> d[f[i]]] /\ I \in SUBSET DOMAIN d
  <2>1. \A i \in DOMAIN f : f[i] \in DOMAIN q
    BY EnumerationOf
  <2> QED
    BY <2>1, Zenon DEF Hashes
<1>4. DoneHashes' \subseteq {q[i].hash : i \in {j \in I : q[j].done}}
  <2>1. DoneHashes' = {r[i].hash : i \in {j \in DOMAIN r : r[j].done}}
    BY Zenon DEF DoneHashes
  <2> HIDE DEF q, r
  <2> QED
    BY <1>2, <2>1, ZenonT(60)
<1>5. {q[i].hash : i \in {j \in I : q[j].done}} \subseteq DoneHashes
  BY Zenon DEF DoneHashes
<1>6. Range(e) \subseteq {q[i].hash : i \in I}
  <2>1. Range(e) = {r[j].hash : j \in DOMAIN r}
    BY Zenon DEF Range, Hashes
  <2> HIDE DEF q, r, e
  <2> QED
    BY <1>2, <2>1, ZenonT(60)
<1>7. IsInjective(d)
  BY Parts, Zenon
<1> HIDE DEF d, e
<1>8. Range(e) \subseteq Range(d) /\ IsInjective(e)
  <2>1. d \in Seq(Hash) /\ I \in SUBSET DOMAIN d /\ IsInjective(d)
    BY <1>1, <1>3, <1>7, Zenon
  <2> HIDE DEF q, r
  <2>2. Range(Kept(d, f)) \subseteq Range(d) /\ IsInjective(Kept(d, f))
    BY <2>1, KeptHashes, Zenon
  <2>3. e = Kept(d, f)
    BY <1>3, Zenon DEF Kept
  <2> QED
    BY <2>2, <2>3, Zenon
<1>9. /\ IsInjective(Pipeline') /\ Range(Pipeline') \subseteq Range(Pipeline)
  <2>1. /\ Range(Pipeline) = Range(m_verified) \cup Range(d) \cup Range(m_unverified)
        /\ IsInjective(m_verified) /\ IsInjective(m_unverified)
        /\ Range(m_verified) \cap Range(d) = {}
        /\ Range(m_verified) \cap Range(m_unverified) = {}
        /\ Range(d) \cap Range(m_unverified) = {}
    BY Parts, Zenon DEF d
  <2>2. /\ Range(Pipeline') = Range(m_verified) \cup Range(e) \cup Range(m_unverified)
        /\ IsInjective(Pipeline') <=>
              /\ IsInjective(m_verified) /\ IsInjective(e) /\ IsInjective(m_unverified)
              /\ Range(m_verified) \cap Range(e) = {}
              /\ Range(m_verified) \cap Range(m_unverified) = {}
              /\ Range(e) \cap Range(m_unverified) = {}
    <3>1. m_verified' = m_verified /\ m_unverified' = m_unverified
      OBVIOUS
    <3> QED
      BY <3>1, PartsNext, Zenon DEF e
  <2> QED
    BY <1>8, <2>1, <2>2, Zenon
<1> QED
  BY <1>4, <1>5, <1>6, <1>9, Zenon DEF e

LEMMA ImportUnknownPlaces ==
  ASSUME TypeOK, IndexesAgree, QueueInv, lock = "free", NEW h \in Hash, ~Queued(h),
         Parent[h] \notin m_readySet \cup m_drainingSet \cup m_bc,
         ImportUnknown(h), UNCHANGED <<threads, blocks, badBlocks, m_bc>>
  PROVE  QueueInv'
<1>1. /\ UNCHANGED <<m_readySet, m_drainingSet, m_knownBad, m_verified, m_verifying, m_unverified,
                     pc, work, blocks, badBlocks, m_bc, lock, moreBad>>
      /\ m_unknown' = m_unknown \cup {h}
  BY Zenon DEF ImportUnknown, deques, threads, section
<1>2. Pipeline' = Pipeline /\ DoneHashes' = DoneHashes
  BY <1>1, Zenon DEF Pipeline, Hashes, DoneHashes
<1>3. h \notin m_readySet /\ h \notin m_drainingSet /\ h \notin m_knownBad
  BY Zenon DEF Queued
<1>4. m_unknown' \cap (m_readySet' \cup m_drainingSet' \cup m_knownBad') = {}
  BY <1>1, <1>3, Zenon DEF QueueInv, PlacesInv
<1>5. PlacesInv'
  <2>1. /\ IsInjective(Pipeline') /\ Range(Pipeline') \subseteq m_readySet' \cup m_knownBad'
        /\ m_drainingSet' \cap Range(Pipeline') = {}
        /\ Range(blocks') \cup Range(badBlocks') \subseteq m_drainingSet'
    BY <1>1, <1>2, Zenon DEF QueueInv, PlacesInv
  <2> QED
    BY <1>4, <2>1, Zenon DEF PlacesInv, Range, IsInjective
<1>6. ParentsInv'
  BY <1>1, Zenon DEF QueueInv, ParentsInv
<1>7. WorkInv'
  BY <1>1, <1>2, Zenon DEF QueueInv, WorkInv, Range
<1>8. CleanInv'
  BY <1>1, <1>2, Zenon DEF QueueInv, CleanInv, Range
<1> QED
  BY <1>5, <1>6, <1>7, <1>8 DEF QueueInv

LEMMA ImportReadyPlaces ==
  ASSUME TypeOK, IndexesAgree, QueueInv, lock = "free", NEW h \in Hash, ~Queued(h),
         ImportReady(h), h \notin m_bc, UNCHANGED <<threads, blocks, badBlocks, m_bc>>
  PROVE  QueueInv'
<1>1. PICK s \in ReleaseOrders(h, UnknownDescendants({h})) :
         /\ s \in Seq(Hash) /\ IsInjective(s)
         /\ Range(s) \subseteq m_unknown /\ h \notin Range(s)
         /\ Pipeline' = Pipeline \o (<<h>> \o s)
         /\ m_readySet' = m_readySet \cup {h} \cup Range(s)
  BY ReadyPipeline, Zenon
<1> DEFINE D == Range(s)
<1>2. UnknownDescendants({h}) = D
  BY DescendantsUnknown, ReleaseIsSeq, Zenon DEF TypeOK, SetsOK
<1>3. h \notin m_readySet /\ h \notin m_drainingSet /\ h \notin m_knownBad /\ h \notin m_unknown
  BY DEF Queued, IndexesAgree
<1>4. /\ UNCHANGED <<m_drainingSet, m_knownBad, m_verified, m_verifying, pc, work, blocks, badBlocks,
                     m_bc, lock, moreBad>>
      /\ m_unknown' = m_unknown \ D
  BY <1>2, Zenon DEF ImportReady, NoteReady, threads, section
<1>5. DoneHashes' = DoneHashes
  BY <1>4, Zenon DEF DoneHashes
<1>6. Range(m_unverified') = Range(m_unverified) \cup {h} \cup D
  <2>1. PICK t \in ReleaseOrders(h, D) : m_unverified' = Append(m_unverified, h) \o t
    BY <1>2, Zenon DEF ImportReady, NoteReady
  <2>2. t \in Seq(Hash) /\ Range(t) = D
    BY <1>1, <2>1, ReleaseIsSeq, Zenon DEF TypeOK, SetsOK
  <2>3. m_unverified \in Seq(Hash)
    BY DEF TypeOK, DequesOK
  <2>4. Append(m_unverified, h) = m_unverified \o <<h>> /\ <<h>> \in Seq(Hash) /\ Range(<<h>>) = {h}
    BY <2>3, SingletonSeq
  <2>5. Range(m_unverified \o <<h>> \o t) = Range(m_unverified) \cup {h} \cup D
    <3>1. Range(m_unverified \o <<h>> \o t) = Range(m_unverified) \cup Range(<<h>>) \cup Range(t)
      BY <2>2, <2>3, <2>4, PipelineParts, Zenon
    <3> QED
      BY <2>2, <2>4, <3>1, Zenon
  <2> QED
    BY <2>1, <2>4, <2>5, Zenon
<1>7. IsInjective(Pipeline') /\ Range(Pipeline') = Range(Pipeline) \cup {h} \cup D
  <2>1. Pipeline \in Seq(Hash) /\ <<h>> \in Seq(Hash) /\ Range(<<h>>) = {h} /\ IsInjective(<<h>>)
    BY PipelineIsSeq, SingletonSeq
  <2>2. (Pipeline \o <<h>>) \o s = Pipeline \o (<<h>> \o s)
    BY <1>1, <2>1, HashConcatAssociative, ZenonT(60)
  <2>3. Range(Pipeline) \cap {h} = {} /\ Range(Pipeline) \cap D = {} /\ {h} \cap D = {}
    BY <1>1, <1>3, Zenon DEF QueueInv, PlacesInv
  <2>4. Range(Pipeline \o <<h>> \o s) = Range(Pipeline) \cup {h} \cup D
    <3>1. s \in Seq(Hash) /\ Pipeline \in Seq(Hash) /\ <<h>> \in Seq(Hash)
      BY <1>1, <2>1, Zenon
    <3> DEFINE p == Pipeline
               o == <<h>>
    <3>2. p \in Seq(Hash) /\ o \in Seq(Hash)
      BY <3>1
    <3> HIDE DEF p, o
    <3>3. Range(p \o o \o s) = Range(p) \cup Range(o) \cup Range(s)
      BY <3>1, <3>2, PipelineParts
    <3> QED
      BY <2>1, <3>3, Zenon DEF p, o
  <2>5. IsInjective(Pipeline \o <<h>> \o s)
    <3>1. IsInjective(Pipeline)
      BY Zenon DEF QueueInv, PlacesInv
    <3> QED
      BY <1>1, <2>1, <2>3, <3>1, PipelineParts, ZenonT(60)
  <2> QED
    BY <1>1, <2>2, <2>4, <2>5, ZenonT(60)
<1>8. D \subseteq m_unknown /\ m_readySet' = m_readySet \cup {h} \cup D
  BY <1>1, Zenon
<1>9. \A u \in m_unknown \ D : Parent[u] # h /\ Parent[u] \notin D
  BY <1>2, DescendantsClosed, Zenon
<1> HIDE DEF D
<1>10. PlacesInv'
  <2>1. Range(Pipeline') \subseteq m_readySet' \cup m_knownBad'
    BY <1>4, <1>7, <1>8, Zenon DEF QueueInv, PlacesInv
  <2>2. m_unknown' \cap (m_readySet' \cup m_drainingSet' \cup m_knownBad') = {}
    BY <1>3, <1>4, <1>8, ZenonT(60) DEF QueueInv, PlacesInv
  <2>3. m_drainingSet' \cap Range(Pipeline') = {}
    BY <1>3, <1>4, <1>7, <1>8, ZenonT(60) DEF QueueInv, PlacesInv
  <2>4. Range(blocks') \cup Range(badBlocks') \subseteq m_drainingSet'
    BY <1>4, Zenon DEF QueueInv, PlacesInv
  <2> QED
    BY <1>7, <2>1, <2>2, <2>3, <2>4, Zenon DEF PlacesInv, Range, IsInjective
<1>11. ParentsInv'
  BY <1>4, <1>8, <1>9, Zenon DEF QueueInv, ParentsInv
<1>12. WorkInv'
  <2> SUFFICES ASSUME NEW v \in Verifiers, pc'[v] = "verify"
               PROVE  /\ work'[v] \in m_readySet' \cup m_knownBad'
                      /\ work'[v] \notin Range(m_verified') \cup Range(m_unverified') \cup DoneHashes'
                      /\ \A w \in Verifiers : pc'[w] = "verify" /\ work'[w] = work'[v] => w = v
    BY Zenon DEF WorkInv, Range
  <2>1. pc[v] = "verify" /\ pc' = pc /\ work' = work
    BY <1>4
  <2>2. /\ work[v] \in m_readySet \cup m_knownBad
        /\ work[v] \notin Range(m_verified) \cup Range(m_unverified) \cup DoneHashes
        /\ \A w \in Verifiers : pc[w] = "verify" /\ work[w] = work[v] => w = v
    BY <2>1, Zenon DEF QueueInv, WorkInv
  <2>3. work[v] # h /\ work[v] \notin D
    BY <1>3, <1>8, <2>2, Zenon DEF QueueInv, PlacesInv
  <2>4. Range(m_verified') = Range(m_verified)
    BY <1>4
  <2> QED
    BY <1>4, <1>5, <1>6, <1>8, <2>1, <2>2, <2>3, <2>4, ZenonT(60)
<1>13. CleanInv'
  <2>1. Range(Pipeline') \cap m_knownBad' = {}
    BY <1>3, <1>4, <1>7, <1>8, ZenonT(60) DEF QueueInv, PlacesInv, CleanInv
  <2> QED
    BY <1>4, <1>5, <2>1, Zenon DEF QueueInv, CleanInv, Range
<1> QED
  BY <1>10, <1>11, <1>12, <1>13 DEF QueueInv

LEMMA ImportPlaces ==
  ASSUME TypeOK, IndexesAgree, QueueInv, lock = "free", NEW h \in Hash, ~Queued(h), h \notin m_bc,
         NEW isOurs, ImportNew(h, isOurs), UNCHANGED <<threads, blocks, badBlocks, m_bc>>
  PROVE  QueueInv'
<1>1. CASE ImportFuture(h)
  <2>1. /\ UNCHANGED <<m_readySet, m_drainingSet, m_knownBad, m_unknown, deques, blocks, badBlocks,
                       m_bc, moreBad>>
        /\ \A v \in Verifiers : pc'[v] = "verify" => pc[v] = "verify" /\ work'[v] = work[v]
        /\ lock' = lock
    BY <1>1, Zenon DEF ImportFuture, section, threads
  <2> QED
    BY <2>1, PlacesKept, Zenon
<1>2. CASE ImportBadChain(h)
  BY <1>2, ImportBadPlaces
<1>3. CASE ImportUnknown(h) /\ Parent[h] \notin m_readySet \cup m_drainingSet \cup m_bc
  BY <1>3, ImportUnknownPlaces, Zenon
<1>4. CASE ImportReady(h)
  BY <1>4, ImportReadyPlaces
<1> QED
  BY <1>1, <1>2, <1>3, <1>4, Zenon DEF ImportNew

LEMMA TakePlaces ==
  ASSUME TypeOK, QueueInv, NEW v \in Verifiers, Take(v)
  PROVE  QueueInv'
<1> DEFINE h == Head(m_unverified)
<1>1. /\ UNCHANGED <<m_readySet, m_drainingSet, m_knownBad, m_unknown, m_verified, blocks, badBlocks,
                     m_bc, lock, moreBad>>
      /\ m_unverified # <<>> /\ m_unverified' = Tail(m_unverified) /\ lock \in {"free", "updateBad"}
      /\ m_verifying' = Append(m_verifying, [hash |-> h, done |-> FALSE])
      /\ pc' = [pc EXCEPT ![v] = "verify"] /\ work' = [work EXCEPT ![v] = h]
  BY Zenon DEF Take, VerificationFree, sets, maps, section, client, world
<1>2. Pipeline' = Pipeline
  BY TakePipeline
<1>3. h \in Hash /\ h \in Range(m_unverified) /\ Range(m_unverified') \subseteq Range(m_unverified)
      /\ h \notin Range(m_unverified')
  <2>1. m_unverified \in Seq(Hash)
    BY DEF TypeOK, DequesOK
  <2> DEFINE t == Tail(m_unverified)
  <2>2. h \in Hash /\ t \in Seq(Hash) /\ <<h>> \in Seq(Hash) /\ m_unverified = <<h>> \o t
    BY <1>1, <2>1, FrontAndRest, Zenon
  <2>3. IsInjective(m_unverified)
    BY Parts, Zenon DEF QueueInv, PlacesInv
  <2> HIDE DEF h, t
  <2>4. Range(<<h>> \o t) = Range(<<h>>) \cup Range(t) /\ Range(<<h>>) = {h}
    BY <2>2, RangeConcat, SingletonSeq, Zenon
  <2>5. Range(<<h>>) \cap Range(t) = {}
    <3>1. IsInjective(<<h>> \o t)
      BY <2>2, <2>3, Zenon
    <3>2. t \in Seq(Hash) /\ <<h>> \in Seq(Hash)
      BY <2>2, Zenon
    <3> QED
      BY <3>1, <3>2, InjectiveConcat, Zenon
  <2>6. m_unverified' = t
    BY <1>1 DEF t
  <2> QED
    BY <2>2, <2>4, <2>5, <2>6
<1>4. DoneHashes' = DoneHashes
  <2> DEFINE q == m_verifying
             e == [hash |-> h, done |-> FALSE]
             r == Append(q, e)
  <2>1. q \in Seq(Entry) /\ e.done = FALSE
    BY DEF TypeOK, DequesOK
  <2>2. m_verifying' = r
    BY <1>1, Zenon
  <2> HIDE DEF q, e
  <2>3. DOMAIN q = 1..Len(q) /\ DOMAIN r = 1..(Len(q) + 1) /\ Len(q) \in Nat
        /\ (\A i \in 1..Len(q) : r[i] = q[i]) /\ r[Len(q) + 1] = e
    BY <2>1
  <2> HIDE DEF r
  <2>4. {r[i].hash : i \in {j \in DOMAIN r : r[j].done}}
          = {q[i].hash : i \in {j \in DOMAIN q : q[j].done}}
    <3>1. \A j \in DOMAIN r : r[j].done => j \in DOMAIN q
      BY <2>1, <2>3
    <3>2. \A j \in DOMAIN q : j \in DOMAIN r /\ r[j] = q[j]
      BY <2>3
    <3> QED
      BY <3>1, <3>2, Zenon
  <2> QED
    BY <2>2, <2>4, Zenon DEF DoneHashes, q
<1>5. /\ h \in m_readySet \cup m_knownBad /\ h \notin Range(m_verified) /\ h \notin DoneHashes
      /\ \A w \in Verifiers : pc[w] = "verify" => work[w] # h
  <2>1. h \in Range(Pipeline) /\ h \notin Range(m_verified) /\ h \notin DoneHashes
    BY <1>3, Parts, Zenon DEF QueueInv, PlacesInv
  <2> QED
    BY <1>3, <2>1, Zenon DEF QueueInv, PlacesInv, WorkInv
<1> HIDE DEF h
<1>6. PlacesInv'
  <2>1. /\ IsInjective(Pipeline') /\ Range(Pipeline') \subseteq m_readySet' \cup m_knownBad'
        /\ m_unknown' \cap (m_readySet' \cup m_drainingSet' \cup m_knownBad') = {}
        /\ m_drainingSet' \cap Range(Pipeline') = {}
        /\ Range(blocks') \cup Range(badBlocks') \subseteq m_drainingSet'
    BY <1>1, <1>2, Zenon DEF QueueInv, PlacesInv
  <2> QED
    BY <2>1, Zenon DEF PlacesInv, Range, IsInjective
<1>7. ParentsInv'
  BY <1>1, Zenon DEF QueueInv, ParentsInv
<1>8. WorkInv'
  <2> SUFFICES ASSUME NEW u \in Verifiers, pc'[u] = "verify"
               PROVE  /\ work'[u] \in m_readySet' \cup m_knownBad'
                      /\ work'[u] \notin Range(m_verified') \cup Range(m_unverified') \cup DoneHashes'
                      /\ \A w \in Verifiers : pc'[w] = "verify" /\ work'[w] = work'[u] => w = u
    BY Zenon DEF WorkInv, Range
  <2>1. pc \in [Verifiers -> {"wait", "verify", "drainOk", "drainBad", "notify", "exited"}]
        /\ work \in [Verifiers -> Hash \cup {NoHash}]
    BY DEF TypeOK, ThreadsOK
  <2>2. /\ \A w \in Verifiers \ {v} : pc'[w] = pc[w] /\ work'[w] = work[w]
        /\ work'[v] = h
    BY <1>1, <2>1, Zenon
  <2>3. Range(m_verified') = Range(m_verified)
    BY <1>1, Zenon
  <2>4. CASE u = v
    BY <1>1, <1>3, <1>4, <1>5, <2>2, <2>3, <2>4
  <2>5. CASE u # v
    <3>1. /\ work[u] \in m_readySet \cup m_knownBad
          /\ work[u] \notin Range(m_verified) \cup Range(m_unverified) \cup DoneHashes
          /\ \A w \in Verifiers : pc[w] = "verify" /\ work[w] = work[u] => w = u
      BY <2>2, <2>5, Zenon DEF QueueInv, WorkInv
    <3> QED
      BY <1>1, <1>3, <1>4, <1>5, <2>2, <2>3, <2>5, <3>1
  <2> QED
    BY <2>4, <2>5, Zenon
<1>9. CleanInv'
  <2>1. Range(Pipeline') \cap m_knownBad' = {} /\ DoneHashes' \cap m_knownBad' = {}
    BY <1>1, <1>2, <1>4, ZenonT(60) DEF QueueInv, CleanInv
  <2> QED
    BY <1>1, <2>1, Zenon DEF CleanInv, Range
<1> QED
  BY <1>6, <1>7, <1>8, <1>9 DEF QueueInv

LEMMA ReplacePlaces ==
  ASSUME TypeOK, QueueInv, NEW v \in Verifiers, VerifyReplace(v)
  PROVE  QueueInv'
<1> DEFINE h == work[v]
           q == m_verifying
           mine == {i \in DOMAIN m_verifying : Sha3Uncles(m_verifying[i]) = work[v]}
           r == [i \in DOMAIN m_verifying |->
                   IF i \in mine /\ \A j \in mine : i <= j
                   THEN [m_verifying[i] EXCEPT !.done = TRUE] ELSE m_verifying[i]]
<1>1. /\ UNCHANGED <<m_readySet, m_drainingSet, m_knownBad, m_unknown, m_verified, m_unverified,
                     blocks, badBlocks, m_bc, lock, moreBad>>
      /\ m_verifying' = r /\ lock = "free" /\ pc[v] = "verify"
      /\ pc' = [pc EXCEPT ![v] = "wait"] /\ work' = [work EXCEPT ![v] = NoHash]
  BY Zenon DEF VerifyReplace, sets, maps, section, client, world
<1>2. Pipeline' = Pipeline
  BY ReplaceHashes
<1>3. pc \in [Verifiers -> {"wait", "verify", "drainOk", "drainBad", "notify", "exited"}]
      /\ work \in [Verifiers -> Hash \cup {NoHash}] /\ h \in Hash /\ q \in Seq(Entry)
  BY <1>1 DEF TypeOK, ThreadsOK, DequesOK
<1>4. DoneHashes' \subseteq DoneHashes \cup ({h} \cap Range(Hashes(q)))
  <2>1. DoneHashes' = {r[i].hash : i \in {j \in DOMAIN r : r[j].done}}
    BY <1>1, Zenon DEF DoneHashes
  <2>2. \A j \in mine : q[j].hash = h
    BY <1>3, HashAssumption, Zenon DEF Sha3Uncles
  <2>3. ASSUME NEW j \in DOMAIN r, r[j].done
        PROVE  r[j].hash \in DoneHashes \cup ({h} \cap Range(Hashes(q)))
    <3>1. j \in DOMAIN q /\ q[j] \in Entry
      BY <1>3
    <3>2. CASE j \in mine
      <4>1. r[j].hash = q[j].hash
        BY <3>1 DEF Entry
      <4> QED
        BY <2>2, <3>1, <3>2, <4>1 DEF Range, Hashes
    <3>3. CASE j \notin mine
      <4>1. r[j] = q[j]
        BY <3>1, <3>3
      <4> QED
        BY <2>3, <3>1, <4>1, Zenon DEF DoneHashes
    <3> QED
      BY <3>2, <3>3
  <2> HIDE DEF r, h, q
  <2> QED
    BY <2>1, <2>3, Zenon
<1> HIDE DEF mine, r, q
<1>5. h \notin Range(m_verified) \cup Range(m_unverified) \cup DoneHashes
      /\ \A w \in Verifiers : pc[w] = "verify" /\ work[w] = h => w = v
  BY <1>1, Zenon DEF QueueInv, WorkInv
<1>6. PlacesInv'
  <2>1. /\ IsInjective(Pipeline') /\ Range(Pipeline') \subseteq m_readySet' \cup m_knownBad'
        /\ m_unknown' \cap (m_readySet' \cup m_drainingSet' \cup m_knownBad') = {}
        /\ m_drainingSet' \cap Range(Pipeline') = {}
        /\ Range(blocks') \cup Range(badBlocks') \subseteq m_drainingSet'
    BY <1>1, <1>2, Zenon DEF QueueInv, PlacesInv
  <2> QED
    BY <2>1, Zenon DEF PlacesInv, Range, IsInjective
<1>7. ParentsInv'
  BY <1>1, Zenon DEF QueueInv, ParentsInv
<1>8. WorkInv'
  <2> SUFFICES ASSUME NEW u \in Verifiers, pc'[u] = "verify"
               PROVE  /\ work'[u] \in m_readySet' \cup m_knownBad'
                      /\ work'[u] \notin Range(m_verified') \cup Range(m_unverified') \cup DoneHashes'
                      /\ \A w \in Verifiers : pc'[w] = "verify" /\ work'[w] = work'[u] => w = u
    BY Zenon DEF WorkInv, Range
  <2>1. /\ \A w \in Verifiers \ {v} : pc'[w] = pc[w] /\ work'[w] = work[w]
        /\ pc'[v] = "wait"
    BY <1>1, <1>3, Zenon
  <2>2. Range(m_verified') = Range(m_verified) /\ Range(m_unverified') = Range(m_unverified)
    BY <1>1, Zenon
  <2>3. u # v
    BY <2>1, Zenon
  <2>4. /\ work[u] \in m_readySet \cup m_knownBad
        /\ work[u] \notin Range(m_verified) \cup Range(m_unverified) \cup DoneHashes
        /\ \A w \in Verifiers : pc[w] = "verify" /\ work[w] = work[u] => w = u
    BY <2>1, <2>3, Zenon DEF QueueInv, WorkInv
  <2>5. work[u] # h
    BY <1>5, <2>1, <2>3, Zenon
  <2> HIDE DEF h
  <2> QED
    BY <1>1, <1>4, <2>1, <2>2, <2>3, <2>4, <2>5, ZenonT(60)
<1>9. CleanInv'
  <2>1. Range(Pipeline') \cap m_knownBad' = {} /\ Range(Hashes(q)) \subseteq Range(Pipeline)
    BY <1>1, <1>2, Parts, ZenonT(60) DEF QueueInv, CleanInv, q
  <2>2. DoneHashes' \cap m_knownBad' = {}
    <3>1. DoneHashes \cap m_knownBad = {}
      BY DEF QueueInv, CleanInv
    <3> QED
      BY <1>1, <1>2, <1>4, <2>1, <3>1, Zenon
  <2> QED
    BY <1>1, <2>1, <2>2, Zenon DEF CleanInv, Range
<1> QED
  BY <1>6, <1>7, <1>8, <1>9 DEF QueueInv

LEMMA FailPlaces ==
  ASSUME TypeOK, QueueInv, DequesOK', NEW v \in Verifiers, VerifyFail(v)
  PROVE  QueueInv'
<1> DEFINE h == work[v]
           q == m_verifying
           kept == {i \in DOMAIN m_verifying : Sha3Uncles(m_verifying[i]) # work[v]}
<1>1. /\ UNCHANGED <<m_drainingSet, m_unknown, m_verified, m_unverified, blocks, badBlocks, m_bc>>
      /\ m_readySet' = m_readySet \ {h} /\ m_knownBad' = m_knownBad \cup {h}
      /\ lock' = "drainVerified" /\ lock = "free" /\ pc[v] = "verify"
      /\ pc' = [pc EXCEPT ![v] = "drainBad"] /\ work' = [work EXCEPT ![v] = NoHash]
  BY Zenon DEF VerifyFail, maps, client, world
<1>2. PICK f \in Enumerations(kept) : m_verifying' = [i \in DOMAIN f |-> m_verifying[f[i]]]
  BY Zenon DEF VerifyFail
<1>3. pc \in [Verifiers -> {"wait", "verify", "drainOk", "drainBad", "notify", "exited"}]
      /\ work \in [Verifiers -> Hash \cup {NoHash}] /\ h \in Hash /\ q \in Seq(Entry)
  BY <1>1, Zenon DEF TypeOK, ThreadsOK, DequesOK
<1>4. h \in m_readySet \cup m_knownBad
      /\ h \notin Range(m_verified) \cup Range(m_unverified) \cup DoneHashes
  BY <1>1, Zenon DEF QueueInv, WorkInv
<1>5. kept \in SUBSET DOMAIN q
  OBVIOUS
<1> HIDE DEF q
<1>6. IsInjective(Pipeline') /\ Range(Pipeline') \subseteq Range(Pipeline)
      /\ DoneHashes' \subseteq DoneHashes
      /\ Range(Hashes(m_verifying')) \subseteq {q[i].hash : i \in kept}
  BY <1>1, <1>2, <1>3, <1>5, KeptVerifying, ZenonT(60) DEF q, QueueInv, PlacesInv
<1>7. h \notin Range(Pipeline')
  <2>1. h \notin {q[i].hash : i \in kept}
    BY <1>4, Zenon DEF q, DoneHashes, Sha3Uncles
  <2>2. Range(Pipeline') = Range(m_verified') \cup Range(Hashes(m_verifying')) \cup Range(m_unverified')
    BY PartsNext, Zenon
  <2> QED
    BY <1>1, <1>4, <1>6, <2>1, <2>2, Zenon
<1>8. PlacesInv' /\ ParentsInv' /\ WorkInv'
  <2> DEFINE B == {h}
             O == {}
  <2>1. /\ O \subseteq m_unknown /\ B \cap m_unknown = {}
        /\ m_readySet' = m_readySet \ B /\ m_knownBad' = m_knownBad \cup B \cup O
        /\ m_unknown' = m_unknown \ O /\ UNCHANGED <<m_drainingSet, blocks, badBlocks, m_bc>>
    BY <1>1, <1>4, Zenon DEF QueueInv, PlacesInv
  <2>2. Range(m_verified') \subseteq Range(m_verified)
        /\ Range(m_unverified') \subseteq Range(m_unverified)
    BY <1>1, Zenon
  <2>3. \A w \in Verifiers : pc'[w] = "verify" => pc[w] = "verify" /\ work'[w] = work[w]
    BY <1>1, <1>3, Zenon
  <2> HIDE DEF B, O
  <2> QED
    BY <1>6, <2>1, <2>2, <2>3, Condemned, Zenon DEF QueueInv
<1>9. CleanInv'
  <2>1. Range(Pipeline') \cap m_knownBad' = {}
    BY <1>1, <1>6, <1>7, Zenon DEF QueueInv, CleanInv
  <2>2. DoneHashes' \cap m_knownBad' = {}
    BY <1>1, <1>4, <1>6, Zenon DEF QueueInv, CleanInv
  <2> QED
    BY <1>1, <2>1, <2>2, Zenon DEF CleanInv, Range
<1> QED
  BY <1>8, <1>9 DEF QueueInv

\* The front of m_verifying and the rest of it.
LEMMA FrontParts ==
  ASSUME NEW q \in Seq(Entry), q # <<>>, IsInjective(Hashes(q))
  PROVE  /\ Head(q).hash \in Hash /\ Head(q).hash \notin Range(Hashes(Tail(q)))
         /\ Range(Hashes(q)) = {Head(q).hash} \cup Range(Hashes(Tail(q)))
         /\ IsInjective(Hashes(Tail(q)))
         /\ Head(q).done => Head(q).hash \in {q[i].hash : i \in {j \in DOMAIN q : q[j].done}}
         /\ {Tail(q)[i].hash : i \in {j \in DOMAIN Tail(q) : Tail(q)[j].done}}
              \subseteq {q[i].hash : i \in {j \in DOMAIN q : q[j].done}}
<1> DEFINE h == Head(q).hash
           r == Tail(q)
           t == Hashes(Tail(q))
<1>1. h \in Hash /\ r \in Seq(Entry)
  BY FrontOfVerifying, Zenon
<1>2. t \in Seq(Hash)
  BY <1>1, HashesIsSeq, Zenon
<1>3. Hashes(q) = <<h>> \o t
  BY HashesFront, Zenon
<1>4. <<h>> \in Seq(Hash) /\ Range(<<h>>) = {h} /\ IsInjective(<<h>>)
  BY <1>1, SingletonSeq, Zenon
<1>5. Range(<<h>> \o t) = Range(<<h>>) \cup Range(t)
      /\ (IsInjective(<<h>> \o t)
            <=> IsInjective(<<h>>) /\ IsInjective(t) /\ Range(<<h>>) \cap Range(t) = {})
  <2> DEFINE o == <<h>>
  <2>1. o \in Seq(Hash)
    BY <1>4
  <2> HIDE DEF o, t
  <2>2. Range(o \o t) = Range(o) \cup Range(t)
        /\ (IsInjective(o \o t) <=> IsInjective(o) /\ IsInjective(t) /\ Range(o) \cap Range(t) = {})
    BY <1>2, <2>1, RangeConcat, InjectiveConcat, Zenon
  <2> QED
    BY <2>2, Zenon DEF o
<1>6. Range(Hashes(q)) = {h} \cup Range(t) /\ IsInjective(t) /\ h \notin Range(t)
  <2> HIDE DEF h, t
  <2> QED
    BY <1>3, <1>4, <1>5, Zenon
<1>7. 1 \in DOMAIN q /\ Head(q) = q[1]
      /\ \A j \in DOMAIN r : j + 1 \in DOMAIN q /\ r[j] = q[j + 1]
  BY <1>1
<1>8. Head(q).done => h \in {q[i].hash : i \in {j \in DOMAIN q : q[j].done}}
  BY <1>7, Zenon
<1>9. {r[i].hash : i \in {j \in DOMAIN r : r[j].done}}
        \subseteq {q[i].hash : i \in {j \in DOMAIN q : q[j].done}}
  <2> HIDE DEF r
  <2> QED
    BY <1>7
<1> QED
  BY <1>1, <1>6, <1>8, <1>9, Zenon

LEMMA FinishPlaces ==
  ASSUME TypeOK, DequesOK', QueueInv, lock \in {"free", "drainVerified"}, lock' = "drainVerified",
         m_verifying # <<>>, Finish(Head(m_verifying).hash),
         UNCHANGED <<m_unverified, m_unknown, m_drainingSet, blocks, badBlocks, m_bc>>,
         \A w \in Verifiers : pc'[w] = "verify" =>
            pc[w] = "verify" /\ work'[w] = work[w] /\ work[w] # Head(m_verifying).hash
  PROVE  QueueInv'
<1> DEFINE q == m_verifying
           h == Head(m_verifying).hash
           t == Hashes(Tail(m_verifying))
<1>1. q \in Seq(Entry) /\ IsInjective(Hashes(q)) /\ m_verified \in Seq(Hash)
  BY Parts, Zenon DEF TypeOK, DequesOK, QueueInv, PlacesInv
<1>2. h \in Hash /\ h \notin Range(t) /\ Range(Hashes(q)) = {h} \cup Range(t) /\ IsInjective(t)
  BY <1>1, FrontParts, Zenon
<1>3. DoneHashes' \subseteq DoneHashes
  <2>1. m_verifying' = Tail(m_verifying)
    BY Zenon DEF Finish
  <2> DEFINE D(r) == {r[i].hash : i \in {j \in DOMAIN r : r[j].done}}
  <2>2. DoneHashes' = D(Tail(m_verifying)) /\ DoneHashes = D(m_verifying)
    BY <2>1, Zenon DEF DoneHashes
  <2>3. D(Tail(m_verifying)) \subseteq D(m_verifying)
    BY <1>1, FrontParts, Zenon
  <2> HIDE DEF D
  <2> QED
    BY <2>2, <2>3, Zenon
<1>4. /\ Range(Pipeline) = Range(m_verified) \cup ({h} \cup Range(t)) \cup Range(m_unverified)
      /\ Range(m_verified) \cap ({h} \cup Range(t)) = {}
      /\ Range(m_verified) \cap Range(m_unverified) = {}
      /\ ({h} \cup Range(t)) \cap Range(m_unverified) = {}
      /\ IsInjective(m_verified) /\ IsInjective(m_unverified)
  BY <1>2, Parts, Zenon DEF QueueInv, PlacesInv
<1>5. Range(Pipeline) \cap m_knownBad = {} /\ DoneHashes \cap m_knownBad = {}
  BY Zenon DEF QueueInv, CleanInv
<1>6. h \in Range(Pipeline) /\ h \in m_readySet \cup m_knownBad /\ h \notin m_unknown
  BY <1>4, Zenon DEF QueueInv, PlacesInv
<1>7. CASE Parent[h] \notin m_knownBad
  <2>1. Pipeline' = Pipeline /\ m_readySet' = m_readySet
    BY <1>7, FinishPipeline, Zenon
  <2>2. m_knownBad' = m_knownBad /\ m_verified' = Append(m_verified, h)
    BY <1>7, Zenon DEF Finish
  <2>3. Range(m_verified') = Range(m_verified) \cup {h}
    <3>1. Append(m_verified, h) = m_verified \o <<h>> /\ <<h>> \in Seq(Hash) /\ Range(<<h>>) = {h}
      BY <1>1, <1>2, SingletonSeq
    <3>2. Range(m_verified \o <<h>>) = Range(m_verified) \cup Range(<<h>>)
      BY <1>1, <3>1, RangeConcat, Zenon
    <3> QED
      BY <2>2, <3>1, <3>2, Zenon
  <2>4. PlacesInv'
    <3>1. /\ IsInjective(Pipeline') /\ Range(Pipeline') \subseteq m_readySet' \cup m_knownBad'
          /\ m_unknown' \cap (m_readySet' \cup m_drainingSet' \cup m_knownBad') = {}
          /\ m_drainingSet' \cap Range(Pipeline') = {}
          /\ Range(blocks') \cup Range(badBlocks') \subseteq m_drainingSet'
      BY <2>1, <2>2, Zenon DEF QueueInv, PlacesInv
    <3> QED
      BY <3>1, Zenon DEF PlacesInv, Range, IsInjective
  <2>5. ParentsInv'
    BY <2>1, Zenon DEF QueueInv, ParentsInv
  <2>6. WorkInv'
    <3> SUFFICES ASSUME NEW v \in Verifiers, pc'[v] = "verify"
                 PROVE  /\ work'[v] \in m_readySet' \cup m_knownBad'
                        /\ work'[v] \notin Range(m_verified') \cup Range(m_unverified') \cup DoneHashes'
                        /\ \A w \in Verifiers : pc'[w] = "verify" /\ work'[w] = work'[v] => w = v
      BY Zenon DEF WorkInv, Range
    <3>1. pc[v] = "verify" /\ work'[v] = work[v] /\ work[v] # h
      BY Zenon
    <3>2. /\ work[v] \in m_readySet \cup m_knownBad
          /\ work[v] \notin Range(m_verified) \cup Range(m_unverified) \cup DoneHashes
          /\ \A w \in Verifiers : pc[w] = "verify" /\ work[w] = work[v] => w = v
      BY <3>1, Zenon DEF QueueInv, WorkInv
    <3>3. Range(m_unverified') = Range(m_unverified)
      BY Zenon
    <3> HIDE DEF h
    <3> QED
      BY <1>3, <2>1, <2>2, <2>3, <3>1, <3>2, <3>3, ZenonT(60)
  <2>7. CleanInv'
    <3>1. Range(Pipeline') \cap m_knownBad' = {} /\ DoneHashes' \cap m_knownBad' = {}
      BY <1>3, <1>5, <2>1, <2>2, ZenonT(60)
    <3> QED
      BY <3>1, Zenon DEF CleanInv, Range
  <2> QED
    BY <2>4, <2>5, <2>6, <2>7, Zenon DEF QueueInv
<1>8. CASE Parent[h] \in m_knownBad
  <2>1. /\ m_readySet' = m_readySet \ {h} /\ m_knownBad' = m_knownBad \cup {h}
        /\ m_verified' = m_verified /\ m_verifying' = Tail(m_verifying)
    BY <1>8, Zenon DEF Finish
  <2>2. /\ Range(Pipeline') = Range(m_verified) \cup Range(t) \cup Range(m_unverified)
        /\ IsInjective(Pipeline')
    <3>1. m_unverified' = m_unverified /\ Hashes(m_verifying') = t
      BY <2>1, Zenon
    <3>2. Range(m_verified) \cap Range(t) = {} /\ Range(t) \cap Range(m_unverified) = {}
      BY <1>4, Zenon
    <3> QED
      BY <1>2, <1>4, <2>1, <3>1, <3>2, PartsNext, Zenon
  <2>3. Range(Pipeline') \subseteq Range(Pipeline) /\ h \notin Range(Pipeline')
    BY <1>2, <1>4, <2>2, Zenon
  <2>4. PlacesInv' /\ ParentsInv' /\ WorkInv'
    <3> DEFINE B == {h}
               O == {}
    <3>1. /\ O \subseteq m_unknown /\ B \cap m_unknown = {}
          /\ m_readySet' = m_readySet \ B /\ m_knownBad' = m_knownBad \cup B \cup O
          /\ m_unknown' = m_unknown \ O /\ UNCHANGED <<m_drainingSet, blocks, badBlocks, m_bc>>
      BY <1>6, <2>1, Zenon
    <3>2. Range(m_verified') \subseteq Range(m_verified)
          /\ Range(m_unverified') \subseteq Range(m_unverified)
      BY <2>1, Zenon
    <3>3. \A w \in Verifiers : pc'[w] = "verify" => pc[w] = "verify" /\ work'[w] = work[w]
      BY Zenon
    <3> HIDE DEF B, O
    <3> QED
      BY <1>3, <2>2, <2>3, <3>1, <3>2, <3>3, Condemned, Zenon DEF QueueInv
  <2>5. CleanInv'
    <3>1. Range(Pipeline') \cap m_knownBad' = {} /\ DoneHashes' \cap m_knownBad' = {}
      <4>1. DoneHashes' \subseteq Range(Pipeline')
        BY PartsNext, Zenon
      <4> QED
        BY <1>5, <2>1, <2>3, <4>1, ZenonT(60)
    <3> QED
      BY <3>1, Zenon DEF CleanInv, Range
  <2> QED
    BY <2>4, <2>5, Zenon DEF QueueInv
<1> QED
  BY <1>7, <1>8, Zenon

LEMMA NextPlaces ==
  ASSUME TypeOK, DequesOK', QueueInv, NEW v \in Verifiers, VerifyNext(v)
  PROVE  QueueInv'
<1>1. m_verifying # <<>> /\ Head(m_verifying).hash = work[v]
  BY NextIsFront, Zenon
<1>2. /\ lock = "free" /\ lock' = "drainVerified" /\ Finish(Head(m_verifying).hash)
      /\ UNCHANGED <<m_unverified, m_unknown, m_drainingSet, blocks, badBlocks, m_bc>>
  BY <1>1, Zenon DEF VerifyNext, maps, client, world
<1>3. pc[v] = "verify" /\ pc' = [pc EXCEPT ![v] = "drainOk"] /\ work' = [work EXCEPT ![v] = NoHash]
      /\ pc \in [Verifiers -> {"wait", "verify", "drainOk", "drainBad", "notify", "exited"}]
      /\ work \in [Verifiers -> Hash \cup {NoHash}]
  BY Zenon DEF VerifyNext, TypeOK, ThreadsOK
<1>4. ASSUME NEW w \in Verifiers, pc'[w] = "verify"
      PROVE  pc[w] = "verify" /\ work'[w] = work[w] /\ work[w] # Head(m_verifying).hash
  <2>1. w # v /\ pc[w] = "verify" /\ work'[w] = work[w]
    BY <1>3, <1>4
  <2>2. work[w] # work[v]
    BY <1>3, <2>1, Zenon DEF QueueInv, WorkInv
  <2> QED
    BY <1>1, <2>1, <2>2, Zenon
<1>5. lock \in {"free", "drainVerified"}
  BY <1>2
<1> QED
  BY <1>1, <1>2, <1>4, <1>5, FinishPlaces, Zenon

LEMMA DrainVerifiedPlaces ==
  ASSUME TypeOK, DequesOK', QueueInv, DrainVerified
  PROVE  QueueInv'
<1>1. /\ m_verifying # <<>> /\ Head(m_verifying).done /\ Finish(Head(m_verifying).hash)
      /\ lock = "drainVerified" /\ lock' = "drainVerified"
      /\ UNCHANGED <<m_unverified, m_unknown, m_drainingSet, blocks, badBlocks, m_bc, pc, work>>
  BY Zenon DEF DrainVerified, FrontDone, maps, client, world, section, threads
<1>2. Head(m_verifying).hash \in DoneHashes
  <2>1. m_verifying \in Seq(Entry) /\ IsInjective(Hashes(m_verifying))
    BY Parts, Zenon DEF TypeOK, DequesOK, QueueInv, PlacesInv
  <2> QED
    BY <1>1, <2>1, FrontParts, Zenon DEF DoneHashes
<1>3. ASSUME NEW w \in Verifiers, pc'[w] = "verify"
      PROVE  pc[w] = "verify" /\ work'[w] = work[w] /\ work[w] # Head(m_verifying).hash
  <2>1. pc[w] = "verify" /\ work'[w] = work[w]
    BY <1>1, <1>3, Zenon
  <2>2. work[w] \notin DoneHashes
    BY <2>1, Zenon DEF QueueInv, WorkInv
  <2> QED
    BY <1>2, <2>1, <2>2, Zenon
<1>4. lock \in {"free", "drainVerified"}
  BY <1>1
<1> QED
  BY <1>1, <1>3, <1>4, FinishPlaces, Zenon

\* collectUnknownBad for a block that is bad already.
LEMMA UpdateBadPlaces ==
  ASSUME TypeOK, QueueInv, UpdateBad
  PROVE  QueueInv'
<1> DEFINE B == {}
           O == UnknownDescendants({Head(badTodo)})
<1>1. O \subseteq m_unknown
  BY Zenon DEF UnknownDescendants
<1>2. /\ m_knownBad' = m_knownBad \cup O /\ m_unknown' = m_unknown \ O /\ m_readySet' = m_readySet
      /\ UNCHANGED <<m_verified, m_verifying, m_unverified, m_drainingSet, blocks, badBlocks, m_bc,
                     pc, work>>
      /\ lock' = "badVerified"
  BY Zenon DEF UpdateBad, deques, threads, client, world
<1> HIDE DEF O
<1>3. Pipeline' = Pipeline /\ DoneHashes' = DoneHashes
  BY <1>2, Zenon DEF Pipeline, Hashes, DoneHashes
<1>4. PlacesInv' /\ ParentsInv' /\ WorkInv'
  <2>1. /\ B \cap m_unknown = {} /\ m_readySet' = m_readySet \ B
        /\ m_knownBad' = m_knownBad \cup B \cup O
    BY <1>2
  <2>2. /\ IsInjective(Pipeline') /\ Range(Pipeline') \subseteq Range(Pipeline)
        /\ Range(m_verified') \subseteq Range(m_verified)
        /\ Range(m_unverified') \subseteq Range(m_unverified) /\ DoneHashes' \subseteq DoneHashes
    BY <1>2, <1>3, Zenon DEF QueueInv, PlacesInv
  <2>3. \A v \in Verifiers : pc'[v] = "verify" => pc[v] = "verify" /\ work'[v] = work[v]
    BY <1>2, Zenon
  <2>4. UNCHANGED <<m_drainingSet, blocks, badBlocks, m_bc>>
    BY <1>2, Zenon
  <2> HIDE DEF B
  <2> QED
    BY <1>1, <1>2, <2>1, <2>2, <2>3, <2>4, Condemned, Zenon DEF QueueInv
<1>5. DoneHashes' \cap m_knownBad' = {}
  <2>1. DoneHashes \subseteq Range(Pipeline)
    BY Parts, Zenon
  <2> QED
    BY <1>1, <1>2, <1>3, <2>1, ZenonT(60) DEF QueueInv, PlacesInv, CleanInv
<1>6. CleanInv'
  BY <1>2, <1>5, Zenon DEF CleanInv
<1> QED
  BY <1>4, <1>6, Zenon DEF QueueInv

\* The bookkeeping of one removeIf round.
LEMMA BlamePlaces ==
  ASSUME TypeOK, QueueInv, NEW B, B \subseteq Range(Pipeline) \cup {EmptyListSHA3}, Blame(B),
         UNCHANGED <<blocks, badBlocks, m_bc, pc, work>>,
         IsInjective(Pipeline'), Range(Pipeline') \subseteq Range(Pipeline),
         Range(m_verified') \subseteq Range(m_verified),
         Range(m_unverified') \subseteq Range(m_unverified), DoneHashes' \subseteq DoneHashes,
         DoneHashes' \cap B = {}
  PROVE  /\ PlacesInv' /\ ParentsInv' /\ WorkInv' /\ DoneHashes' \cap m_knownBad' = {}
         /\ B = {} => m_knownBad' = m_knownBad
<1> DEFINE O == UnknownDescendants(B)
<1>1. O \subseteq m_unknown
  BY Zenon DEF UnknownDescendants
<1>2. /\ m_knownBad' = m_knownBad \cup B \cup O /\ m_readySet' = m_readySet \ B
      /\ m_unknown' = m_unknown \ O /\ m_drainingSet' = m_drainingSet
  BY Zenon DEF Blame
<1>3. B = {} => m_knownBad' = m_knownBad
  <2> SUFFICES ASSUME B = {} PROVE m_knownBad' = m_knownBad
    BY Zenon
  <2>1. O = {}
    BY NoDescendants, Zenon
  <2> QED
    BY <1>2, <2>1, Zenon
<1> HIDE DEF O
<1>4. B \cap m_unknown = {}
  <2>1. EmptyListSHA3 \notin m_unknown
    BY HashAssumption, Zenon DEF TypeOK, SetsOK
  <2> QED
    BY <2>1, Zenon DEF QueueInv, PlacesInv
<1>5. \A v \in Verifiers : pc'[v] = "verify" => pc[v] = "verify" /\ work'[v] = work[v]
  BY Zenon
<1>6. UNCHANGED <<m_drainingSet, blocks, badBlocks, m_bc>>
  BY <1>2, Zenon
<1>7. PlacesInv' /\ ParentsInv' /\ WorkInv'
  BY <1>1, <1>2, <1>4, <1>5, <1>6, Condemned, Zenon DEF QueueInv
<1>8. DoneHashes' \cap m_knownBad' = {}
  <2>1. DoneHashes \subseteq Range(Pipeline)
    BY Parts, Zenon
  <2>2. DoneHashes \cap m_knownBad = {} /\ Range(Pipeline) \cap m_unknown = {}
    BY Zenon DEF QueueInv, PlacesInv, CleanInv
  <2> QED
    BY <1>1, <1>2, <2>1, <2>2, Zenon
<1> QED
  BY <1>3, <1>7, <1>8, Zenon

\* removeIf on m_verified or m_unverified.
LEMMA KeptDeque ==
  ASSUME TypeOK, DequesOK', IsInjective(Pipeline), m_verifying' = m_verifying,
         Range(m_verified') \subseteq Range(m_verified),
         Range(m_unverified') \subseteq Range(m_unverified),
         IsInjective(m_verified) => IsInjective(m_verified'),
         IsInjective(m_unverified) => IsInjective(m_unverified')
  PROVE  /\ IsInjective(Pipeline') /\ Range(Pipeline') \subseteq Range(Pipeline)
         /\ DoneHashes' = DoneHashes
<1> DEFINE a == Range(m_verified)
           b == Range(Hashes(m_verifying))
           c == Range(m_unverified)
           d == Range(m_verified')
           e == Range(m_unverified')
<1>1. /\ Range(Pipeline) = a \cup b \cup c
      /\ IsInjective(m_verified) /\ IsInjective(Hashes(m_verifying)) /\ IsInjective(m_unverified)
      /\ a \cap b = {} /\ a \cap c = {} /\ b \cap c = {}
  BY Parts, Zenon
<1>2. Hashes(m_verifying') = Hashes(m_verifying) /\ DoneHashes' = DoneHashes
  BY Zenon DEF DoneHashes
<1>3. /\ Range(Pipeline') = d \cup b \cup e
      /\ IsInjective(Pipeline') <=>
              /\ IsInjective(m_verified') /\ IsInjective(Hashes(m_verifying)) /\ IsInjective(m_unverified')
              /\ d \cap b = {} /\ d \cap e = {} /\ b \cap e = {}
  BY <1>2, PartsNext, Zenon
<1>4. d \subseteq a /\ e \subseteq c
  BY Zenon
<1> HIDE DEF a, b, c, d, e
<1>5. /\ d \cap b = {} /\ d \cap e = {} /\ b \cap e = {}
      /\ d \cup b \cup e \subseteq a \cup b \cup c
  BY <1>1, <1>4, Zenon
<1> QED
  BY <1>1, <1>2, <1>3, <1>5, Zenon

LEMMA BadVerifiedPlaces ==
  ASSUME TypeOK, DequesOK', QueueInv, BadVerified
  PROVE  QueueInv'
<1> DEFINE q == m_verified
           removed == {i \in DOMAIN q : {q[i], Parent[q[i]]} \cap m_knownBad # {}}
           I == DOMAIN q \ removed
           B == {q[i] : i \in TailPositions(q, removed)}
<1>1. /\ \E f \in Enumerations(I) : m_verified' = [i \in DOMAIN f |-> q[f[i]]]
      /\ Blame(B) /\ moreBad' = (removed # {}) /\ lock' = "badUnverified"
      /\ UNCHANGED <<m_verifying, m_unverified, blocks, badBlocks, m_bc, pc, work>>
  BY Zenon DEF BadVerified, threads, client, world
<1>2. q \in Seq(Hash) /\ I \in SUBSET DOMAIN q
  BY Zenon DEF TypeOK, DequesOK
<1>3. B \subseteq Range(m_verified)
  BY Zenon DEF TailPositions, Range
<1>4. removed = {} => B = {} /\ Range(m_verified) \cap m_knownBad = {}
  <2> SUFFICES ASSUME removed = {} PROVE B = {} /\ Range(m_verified) \cap m_knownBad = {}
    BY Zenon
  <2>1. TailPositions(q, removed) = {}
    BY <1>2, NoTail, Zenon
  <2>2. \A i \in DOMAIN q : q[i] \notin m_knownBad
    BY Zenon
  <2>3. Range(m_verified) \cap m_knownBad = {}
    BY <2>2, Zenon DEF Range
  <2> QED
    BY <2>1, <2>3, Zenon
<1> HIDE DEF removed, I, B
<1>5. Range(m_verified') \subseteq Range(m_verified) /\ (IsInjective(m_verified) => IsInjective(m_verified'))
  <2>1. PICK f \in Enumerations(I) : m_verified' = [i \in DOMAIN f |-> q[f[i]]]
    BY <1>1, Zenon
  <2>2. m_verified' = Kept(q, f)
    BY <2>1, Zenon DEF Kept
  <2>3. Range(Kept(q, f)) \subseteq Range(q) /\ (IsInjective(q) => IsInjective(Kept(q, f)))
    BY <1>2, KeptHashes, Zenon
  <2> QED
    BY <2>2, <2>3, Zenon
<1>6. /\ IsInjective(Pipeline') /\ Range(Pipeline') \subseteq Range(Pipeline)
      /\ DoneHashes' = DoneHashes
  <2>1. IsInjective(Pipeline) /\ m_unverified' = m_unverified /\ m_verifying' = m_verifying
    BY <1>1, Zenon DEF QueueInv, PlacesInv
  <2>2. Range(m_unverified') \subseteq Range(m_unverified)
        /\ (IsInjective(m_unverified) => IsInjective(m_unverified'))
    BY <2>1, Zenon
  <2> QED
    BY <1>5, <2>1, <2>2, KeptDeque, Zenon
<1>7. B \subseteq Range(Pipeline) /\ DoneHashes \cap B = {}
  <2>1. /\ Range(m_verified) \subseteq Range(Pipeline) /\ DoneHashes \subseteq Range(Hashes(m_verifying))
        /\ Range(m_verified) \cap Range(Hashes(m_verifying)) = {}
    <3>1. IsInjective(Pipeline)
      BY Zenon DEF QueueInv, PlacesInv
    <3> QED
      BY <3>1, Parts, Zenon
  <2> QED
    BY <1>3, <2>1
<1>8. /\ PlacesInv' /\ ParentsInv' /\ WorkInv' /\ DoneHashes' \cap m_knownBad' = {}
      /\ B = {} => m_knownBad' = m_knownBad
  <2>1. B \subseteq Range(Pipeline) \cup {EmptyListSHA3} /\ DoneHashes' \cap B = {}
        /\ DoneHashes' \subseteq DoneHashes /\ Range(m_unverified') \subseteq Range(m_unverified)
    BY <1>1, <1>6, <1>7, Zenon
  <2>2. UNCHANGED <<blocks, badBlocks, m_bc, pc, work>>
    BY <1>1, Zenon
  <2> QED
    BY <1>1, <1>5, <1>6, <2>1, <2>2, BlamePlaces, Zenon
<1>9. ~moreBad' => Range(m_verified') \cap m_knownBad' = {}
  <2> SUFFICES ASSUME ~moreBad' PROVE Range(m_verified') \cap m_knownBad' = {}
    OBVIOUS
  <2>1. removed = {}
    BY <1>1, Zenon
  <2> QED
    BY <1>4, <1>5, <1>8, <2>1
<1>10. CleanInv'
  BY <1>1, <1>8, <1>9, Zenon DEF CleanInv, Range
<1> QED
  BY <1>8, <1>10, Zenon DEF QueueInv

LEMMA BadUnverifiedPlaces ==
  ASSUME TypeOK, DequesOK', QueueInv, BadUnverified
  PROVE  QueueInv'
<1> DEFINE q == m_unverified
           removed == {i \in DOMAIN q : {q[i], Parent[q[i]]} \cap m_knownBad # {}}
           I == DOMAIN q \ removed
           B == {q[i] : i \in TailPositions(q, removed)}
<1>1. /\ \E f \in Enumerations(I) : m_unverified' = [i \in DOMAIN f |-> q[f[i]]]
      /\ Blame(B) /\ moreBad' = (moreBad \/ removed # {}) /\ lock' = "badVerifying"
      /\ UNCHANGED <<m_verifying, m_verified, blocks, badBlocks, m_bc, pc, work>>
  BY Zenon DEF BadUnverified, threads, client, world
<1>2. q \in Seq(Hash) /\ I \in SUBSET DOMAIN q
  BY Zenon DEF TypeOK, DequesOK
<1>3. B \subseteq Range(m_unverified)
  BY Zenon DEF TailPositions, Range
<1>4. removed = {} => B = {} /\ Range(m_unverified) \cap m_knownBad = {}
  <2> SUFFICES ASSUME removed = {} PROVE B = {} /\ Range(m_unverified) \cap m_knownBad = {}
    OBVIOUS
  <2>1. TailPositions(q, removed) = {}
    BY <1>2, NoTail, Zenon
  <2>2. \A i \in DOMAIN q : q[i] \notin m_knownBad
    BY Zenon
  <2>3. Range(m_unverified) \cap m_knownBad = {}
    BY <2>2 DEF Range
  <2> QED
    BY <2>1, <2>3, Zenon
<1> HIDE DEF removed, I, B
<1>5. Range(m_unverified') \subseteq Range(m_unverified) /\ (IsInjective(m_unverified) => IsInjective(m_unverified'))
  <2>1. PICK f \in Enumerations(I) : m_unverified' = [i \in DOMAIN f |-> q[f[i]]]
    BY <1>1, Zenon
  <2>2. m_unverified' = Kept(q, f)
    BY <2>1, Zenon DEF Kept
  <2>3. Range(Kept(q, f)) \subseteq Range(q) /\ (IsInjective(q) => IsInjective(Kept(q, f)))
    BY <1>2, KeptHashes, Zenon
  <2> QED
    BY <2>2, <2>3, Zenon
<1>6. /\ IsInjective(Pipeline') /\ Range(Pipeline') \subseteq Range(Pipeline)
      /\ DoneHashes' = DoneHashes
  <2>1. IsInjective(Pipeline) /\ m_verified' = m_verified /\ m_verifying' = m_verifying
    BY <1>1, Zenon DEF QueueInv, PlacesInv
  <2>2. Range(m_verified') \subseteq Range(m_verified)
        /\ (IsInjective(m_verified) => IsInjective(m_verified'))
    BY <2>1, Zenon
  <2> QED
    BY <1>5, <2>1, <2>2, KeptDeque, Zenon
<1>7. B \subseteq Range(Pipeline) /\ DoneHashes \cap B = {}
  <2>1. /\ Range(m_unverified) \subseteq Range(Pipeline) /\ DoneHashes \subseteq Range(Hashes(m_verifying))
        /\ Range(Hashes(m_verifying)) \cap Range(m_unverified) = {}
    <3>1. IsInjective(Pipeline)
      BY Zenon DEF QueueInv, PlacesInv
    <3> QED
      BY <3>1, Parts, Zenon
  <2> QED
    BY <1>3, <2>1
<1>8. /\ PlacesInv' /\ ParentsInv' /\ WorkInv' /\ DoneHashes' \cap m_knownBad' = {}
      /\ B = {} => m_knownBad' = m_knownBad
  <2>1. B \subseteq Range(Pipeline) \cup {EmptyListSHA3} /\ DoneHashes' \cap B = {}
        /\ DoneHashes' \subseteq DoneHashes /\ Range(m_verified') \subseteq Range(m_verified)
    BY <1>1, <1>6, <1>7, Zenon
  <2>2. UNCHANGED <<blocks, badBlocks, m_bc, pc, work>>
    BY <1>1, Zenon
  <2> QED
    BY <1>1, <1>5, <1>6, <2>1, <2>2, BlamePlaces, Zenon
<1>9. ~moreBad' => /\ Range(m_verified') \cap m_knownBad' = {}
                   /\ Range(m_unverified') \cap m_knownBad' = {}
  <2> SUFFICES ASSUME ~moreBad' PROVE /\ Range(m_verified') \cap m_knownBad' = {}
                                      /\ Range(m_unverified') \cap m_knownBad' = {}
    OBVIOUS
  <2>1. removed = {} /\ ~moreBad /\ lock = "badUnverified"
    BY <1>1, Zenon DEF BadUnverified
  <2>2. Range(m_verified) \cap m_knownBad = {} /\ Range(m_verified') = Range(m_verified)
    BY <1>1, <2>1, Zenon DEF QueueInv, CleanInv
  <2> QED
    BY <1>4, <1>5, <1>8, <2>1, <2>2, ZenonT(60)
<1>10. CleanInv'
  BY <1>1, <1>8, <1>9, Zenon DEF CleanInv, Range
<1> QED
  BY <1>8, <1>10, Zenon DEF QueueInv

LEMMA BadVerifyingPlaces ==
  ASSUME TypeOK, DequesOK', QueueInv, BadVerifying
  PROVE  QueueInv'
<1> DEFINE q == m_verifying
           removed == {i \in DOMAIN q : {Sha3Uncles(q[i]), Parent[q[i].hash]} \cap m_knownBad # {}}
           I == DOMAIN q \ removed
           HashOf(i) == IF i \in removed /\ q[i].done THEN q[i].hash ELSE Sha3Uncles(q[i])
           B == {HashOf(i) : i \in TailPositions(q, removed)}
<1>1. /\ \E f \in Enumerations(I) : m_verifying' = [i \in DOMAIN f |-> q[f[i]]]
      /\ Blame(B) /\ lock' = (IF moreBad \/ removed # {} THEN "badVerified" ELSE "updateBad")
      /\ lock = "badVerifying"
      /\ UNCHANGED <<m_verified, m_unverified, blocks, badBlocks, m_bc, pc, work>>
  BY Zenon DEF BadVerifying, threads, client, world
<1>2. q \in Seq(Entry) /\ I \in SUBSET DOMAIN q /\ IsInjective(Pipeline) /\ IsInjective(Hashes(q))
  BY Parts, Zenon DEF TypeOK, DequesOK, QueueInv, PlacesInv
<1>3. \A i \in DOMAIN q : q[i].hash \in Range(Hashes(q)) /\ q[i].hash \in Hash /\ q[i].done \in BOOLEAN
  <2>1. q \in Seq(Entry)
    BY <1>2, Zenon
  <2> HIDE DEF q
  <2>2. \A i \in DOMAIN q : q[i] \in Entry
    BY <2>1
  <2>3. \A i \in DOMAIN q : i \in DOMAIN Hashes(q) /\ Hashes(q)[i] = q[i].hash
    BY Zenon DEF Hashes
  <2>4. \A i \in DOMAIN q : q[i].hash \in Range(Hashes(q))
    BY <2>3, Zenon DEF Range
  <2> QED
    BY <2>2, <2>4, Zenon DEF Entry
<1>4. \A i, j \in DOMAIN q : q[i].hash = q[j].hash => i = j
  BY <1>2, Zenon DEF IsInjective, Hashes
<1>5. ASSUME NEW i \in TailPositions(q, removed)
      PROVE  /\ i \in DOMAIN q
             /\ \/ HashOf(i) = EmptyListSHA3
                \/ HashOf(i) = q[i].hash /\ (i \in removed \/ ~q[i].done)
  <2>1. i \in DOMAIN q
    BY Zenon DEF TailPositions
  <2> HIDE DEF removed, q
  <2> QED
    BY <2>1, Zenon DEF Sha3Uncles
<1>6. B \subseteq Range(Hashes(q)) \cup {EmptyListSHA3}
  <2> HIDE DEF HashOf
  <2> QED
    BY <1>3, <1>5, Zenon
<1>7. removed = {} => B = {} /\ Range(Hashes(q)) \cap m_knownBad = {}
  <2> SUFFICES ASSUME removed = {} PROVE B = {} /\ Range(Hashes(q)) \cap m_knownBad = {}
    BY Zenon
  <2>1. TailPositions(q, removed) = {}
    BY <1>2, NoTail, Zenon
  <2>2. \A i \in DOMAIN q : Sha3Uncles(q[i]) \notin m_knownBad
    BY Zenon
  <2>3. ASSUME NEW i \in DOMAIN q PROVE q[i].hash \notin m_knownBad
    <3>1. CASE q[i].done
      <4>1. q[i].hash \in DoneHashes
        BY <3>1, Zenon DEF DoneHashes
      <4> QED
        BY <4>1, Zenon DEF QueueInv, CleanInv
    <3>2. CASE ~q[i].done
      BY <2>2, <3>2, Zenon DEF Sha3Uncles
    <3> QED
      BY <3>1, <3>2, Zenon
  <2>4. Range(Hashes(q)) \cap m_knownBad = {}
    BY <2>3, ZenonT(60) DEF Range, Hashes
  <2>5. B = {}
    BY <2>1, Zenon
  <2> QED
    BY <2>4, <2>5, Zenon
<1>8. \A i \in I : q[i].done => q[i].hash \notin B
  <2> SUFFICES ASSUME NEW i \in I, q[i].done, NEW j \in TailPositions(q, removed), HashOf(j) = q[i].hash
               PROVE  FALSE
    BY Zenon
  <2>1. q[i].hash # EmptyListSHA3 /\ i \in DOMAIN q /\ i \notin removed
    BY <1>3, HashAssumption, Zenon
  <2>2. j \in DOMAIN q /\ q[j].hash = q[i].hash /\ (j \in removed \/ ~q[j].done)
    BY <1>5, <2>1, Zenon
  <2>3. j = i
    BY <1>4, <2>1, <2>2, Zenon
  <2> QED
    BY <2>1, <2>2, <2>3, Zenon
<1> HIDE DEF removed, I, HashOf, B
<1>9. PICK f \in Enumerations(I) : m_verifying' = [i \in DOMAIN f |-> q[f[i]]]
  BY <1>1, Zenon
<1>10. /\ IsInjective(Pipeline') /\ Range(Pipeline') \subseteq Range(Pipeline)
       /\ DoneHashes' \subseteq {q[i].hash : i \in {j \in I : q[j].done}}
       /\ DoneHashes' \subseteq DoneHashes
       /\ Range(Hashes(m_verifying')) \subseteq {q[i].hash : i \in I}
  BY <1>1, <1>2, <1>9, KeptVerifying, ZenonT(60)
<1>11. DoneHashes' \cap B = {}
  BY <1>8, <1>10, ZenonT(60)
<1>12. /\ PlacesInv' /\ ParentsInv' /\ WorkInv' /\ DoneHashes' \cap m_knownBad' = {}
       /\ B = {} => m_knownBad' = m_knownBad
  <2>1. B \subseteq Range(Pipeline) \cup {EmptyListSHA3}
    BY <1>6, Parts, Zenon
  <2>2. Range(m_verified') \subseteq Range(m_verified) /\ Range(m_unverified') \subseteq Range(m_unverified)
    BY <1>1, Zenon
  <2>3. UNCHANGED <<blocks, badBlocks, m_bc, pc, work>>
    BY <1>1, Zenon
  <2> QED
    BY <1>1, <1>10, <1>11, <2>1, <2>2, <2>3, BlamePlaces, Zenon
<1>13. lock' = "updateBad" => Range(Pipeline') \cap m_knownBad' = {}
  <2> SUFFICES ASSUME lock' = "updateBad" PROVE Range(Pipeline') \cap m_knownBad' = {}
    OBVIOUS
  <2>1. removed = {} /\ ~moreBad
    BY <1>1, Zenon
  <2>2. Range(m_verified) \cap m_knownBad = {} /\ Range(m_unverified) \cap m_knownBad = {}
    BY <1>1, <2>1, Zenon DEF QueueInv, CleanInv
  <2>3. Range(Pipeline) \cap m_knownBad = {}
    BY <1>7, <2>1, <2>2, Parts, ZenonT(60)
  <2> QED
    BY <1>7, <1>10, <1>12, <2>1, <2>3, ZenonT(60)
<1>14. lock' = "badVerified" \/ lock' = "updateBad"
  BY <1>1, Zenon
<1>15. CleanInv'
  BY <1>12, <1>13, <1>14, Zenon DEF CleanInv, Range
<1> QED
  BY <1>12, <1>15, Zenon DEF QueueInv

LEMMA DrainTakes ==
  ASSUME TypeOK, NEW max \in 1..MaxDrain, Drain(max)
  PROVE  Range(m_verified) = Range(blocks') \cup Range(m_verified')
<1>1. max \in Nat /\ m_verified \in Seq(Hash)
  BY BoundAssumption DEF TypeOK, DequesOK
<1> DEFINE n == IF m_drainingSet = {} THEN Min({max, Len(m_verified)}) ELSE 0
           a == SubSeq(m_verified, 1, n)
           r == SubSeq(m_verified, n + 1, Len(m_verified))
<1>2. blocks' = a /\ m_verified' = r
  BY Zenon DEF Drain
<1>3. n = Min({max, Len(m_verified)}) \/ n = 0
  OBVIOUS
<1> HIDE DEF n
<1>4. a \in Seq(Hash) /\ r \in Seq(Hash) /\ a \o r = m_verified
  BY <1>1, <1>3, DrainSplits, Zenon
<1> HIDE DEF a, r
<1>5. Range(a \o r) = Range(a) \cup Range(r)
  BY <1>4, RangeConcat, Zenon
<1> QED
  BY <1>2, <1>4, <1>5, Zenon

\* drain moves a prefix of the deques to the blocks being drained.
LEMMA DrainPlaces ==
  ASSUME TypeOK, DequesOK', QueueInv, NEW max \in 1..MaxDrain, Drain(max)
  PROVE  QueueInv'
<1> DEFINE D == Range(blocks')
<1>1. /\ blocks' \in Seq(Hash) /\ Pipeline' \in Seq(Hash) /\ Pipeline = blocks' \o Pipeline'
      /\ m_readySet' = m_readySet \ D /\ m_drainingSet' = m_drainingSet \cup D
  BY DrainPipeline, Zenon
<1>2. /\ lock = "free" /\ badBlocks' = <<>>
      /\ UNCHANGED <<m_knownBad, m_unknown, m_verifying, m_unverified, m_bc, pc, work, lock, moreBad>>
  BY Zenon DEF Drain, maps, section, threads, world
<1>3. /\ Range(Pipeline) = D \cup Range(Pipeline') /\ IsInjective(Pipeline')
      /\ D \cap Range(Pipeline') = {}
  <2> DEFINE a == blocks'
             q == Pipeline'
  <2>1. a \in Seq(Hash) /\ q \in Seq(Hash) /\ Pipeline = a \o q
    BY <1>1
  <2>2. IsInjective(Pipeline)
    BY Zenon DEF QueueInv, PlacesInv
  <2> HIDE DEF a, q
  <2>3. Range(a \o q) = Range(a) \cup Range(q)
        /\ (IsInjective(a \o q) <=> IsInjective(a) /\ IsInjective(q) /\ Range(a) \cap Range(q) = {})
    BY <2>1, RangeConcat, InjectiveConcat, Zenon
  <2>4. IsInjective(q) /\ Range(a) \cap Range(q) = {} /\ Range(Pipeline) = Range(a) \cup Range(q)
    BY <2>1, <2>2, <2>3, Zenon
  <2> QED
    BY <2>4, Zenon DEF a, q
<1>4. Range(Pipeline) \cap m_knownBad = {} /\ DoneHashes' = DoneHashes
  BY <1>2, Zenon DEF QueueInv, CleanInv, DoneHashes
<1>5. Range(m_verified') \subseteq Range(m_verified) /\ D \subseteq Range(m_verified)
      /\ Range(badBlocks') = {}
  <2>1. Range(badBlocks') = {}
    BY <1>2 DEF Range
  <2>2. Range(m_verified) = D \cup Range(m_verified')
    BY DrainTakes, Zenon
  <2> HIDE DEF D
  <2> QED
    BY <2>1, <2>2
<1> HIDE DEF D
<1>6. PlacesInv'
  <2>1. Range(Pipeline') \subseteq m_readySet' \cup m_knownBad'
    BY <1>1, <1>2, <1>3, ZenonT(60) DEF QueueInv, PlacesInv
  <2>2. m_unknown' \cap (m_readySet' \cup m_drainingSet' \cup m_knownBad') = {}
    BY <1>1, <1>2, <1>3, Zenon DEF QueueInv, PlacesInv
  <2>3. m_drainingSet' \cap Range(Pipeline') = {}
    BY <1>1, <1>3, Zenon DEF QueueInv, PlacesInv
  <2>4. Range(blocks') \cup Range(badBlocks') \subseteq m_drainingSet'
    BY <1>1, <1>5, Zenon DEF D
  <2> QED
    BY <1>3, <2>1, <2>2, <2>3, <2>4, Zenon DEF PlacesInv, Range, IsInjective
<1>7. ParentsInv'
  <2>1. D \subseteq m_readySet
    BY <1>3, <1>4, Zenon DEF QueueInv, PlacesInv
  <2> QED
    BY <1>1, <1>2, <2>1, Zenon DEF QueueInv, ParentsInv
<1>8. WorkInv'
  <2> SUFFICES ASSUME NEW v \in Verifiers, pc'[v] = "verify"
               PROVE  /\ work'[v] \in m_readySet' \cup m_knownBad'
                      /\ work'[v] \notin Range(m_verified') \cup Range(m_unverified') \cup DoneHashes'
                      /\ \A w \in Verifiers : pc'[w] = "verify" /\ work'[w] = work'[v] => w = v
    BY Zenon DEF WorkInv, Range
  <2>1. pc[v] = "verify" /\ pc' = pc /\ work' = work
    BY <1>2, Zenon
  <2>2. /\ work[v] \in m_readySet \cup m_knownBad
        /\ work[v] \notin Range(m_verified) \cup Range(m_unverified) \cup DoneHashes
        /\ \A w \in Verifiers : pc[w] = "verify" /\ work[w] = work[v] => w = v
    BY <2>1, Zenon DEF QueueInv, WorkInv
  <2>3. work[v] \notin D
    BY <1>5, <2>2, Zenon
  <2>4. Range(m_unverified') = Range(m_unverified)
    BY <1>2, Zenon
  <2> QED
    BY <1>1, <1>2, <1>4, <1>5, <2>1, <2>2, <2>3, <2>4, ZenonT(60)
<1>9. CleanInv'
  <2>1. Range(Pipeline') \cap m_knownBad' = {} /\ DoneHashes' \cap m_knownBad' = {}
    BY <1>2, <1>3, <1>4, Zenon DEF QueueInv, CleanInv
  <2> QED
    BY <1>2, <2>1, Zenon DEF CleanInv, Range
<1> QED
  BY <1>6, <1>7, <1>8, <1>9, Zenon DEF QueueInv

\* BlockChain::sync: what becomes of a block that is being drained.
LEMMA ImportDrainedPlaces ==
  ASSUME TypeOK, QueueInv, ImportDrained
  PROVE  QueueInv'
<1> DEFINE b == Head(blocks)
<1>1. blocks # <<>> /\ blocks' = Tail(blocks)
      /\ UNCHANGED <<sets, maps, deques, section, threads>>
  BY Zenon DEF ImportDrained, Rest
<1>2. /\ UNCHANGED <<m_readySet, m_drainingSet, m_knownBad, m_unknown, m_verified, m_verifying,
                     m_unverified, lock, moreBad, pc, work>>
  BY <1>1, Zenon DEF sets, maps, deques, section, threads
<1>3. (m_bc' = m_bc \/ m_bc' = m_bc \cup {b}) /\ (badBlocks' = badBlocks \/ badBlocks' = Append(badBlocks, b))
  BY Zenon DEF ImportDrained, Rest
<1>4. b \in m_drainingSet /\ Range(Tail(blocks)) \subseteq m_drainingSet
  <2>1. blocks \in Seq(Hash) /\ blocks # <<>>
    BY <1>1 DEF TypeOK, DequesOK
  <2>2. b \in Range(blocks) /\ Range(Tail(blocks)) \subseteq Range(blocks)
    <3>1. Len(blocks) \in Nat \ {0} /\ DOMAIN blocks = 1..Len(blocks) /\ b = blocks[1]
          /\ Tail(blocks) \in Seq(Hash) /\ DOMAIN Tail(blocks) = 1..(Len(blocks) - 1)
          /\ \A i \in 1..(Len(blocks) - 1) : Tail(blocks)[i] = blocks[i + 1]
      BY <2>1
    <3>2. 1 \in DOMAIN blocks /\ \A i \in DOMAIN Tail(blocks) :
             i + 1 \in DOMAIN blocks /\ Tail(blocks)[i] = blocks[i + 1]
      BY <3>1
    <3> HIDE DEF b
    <3> QED
      BY <3>1, <3>2, Zenon DEF Range
  <2>3. Range(blocks) \subseteq m_drainingSet
    BY DEF QueueInv, PlacesInv
  <2> QED
    BY <2>2, <2>3
<1>5. Range(badBlocks') \subseteq m_drainingSet
  <2>1. badBlocks \in Seq(Hash) /\ b \in Hash /\ Range(badBlocks) \subseteq m_drainingSet
    BY <1>4, Zenon DEF TypeOK, DequesOK, SetsOK, QueueInv, PlacesInv
  <2> HIDE DEF b
  <2>2. Range(Append(badBlocks, b)) = Range(badBlocks) \cup {b}
    <3>1. Append(badBlocks, b) = badBlocks \o <<b>> /\ <<b>> \in Seq(Hash) /\ Range(<<b>>) = {b}
      BY <2>1, SingletonSeq
    <3>2. Range(badBlocks \o <<b>>) = Range(badBlocks) \cup Range(<<b>>)
      BY <2>1, <3>1, RangeConcat, Zenon
    <3> QED
      BY <3>1, <3>2, Zenon
  <2> QED
    BY <1>3, <1>4, <2>1, <2>2, Zenon
<1> HIDE DEF b
<1>6. Pipeline' = Pipeline /\ DoneHashes' = DoneHashes
  BY <1>2, Zenon DEF Pipeline, Hashes, DoneHashes
<1>7. PlacesInv'
  <2>1. /\ IsInjective(Pipeline') /\ Range(Pipeline') \subseteq m_readySet' \cup m_knownBad'
        /\ m_unknown' \cap (m_readySet' \cup m_drainingSet' \cup m_knownBad') = {}
        /\ m_drainingSet' \cap Range(Pipeline') = {}
    BY <1>2, <1>6, Zenon DEF QueueInv, PlacesInv
  <2>2. Range(blocks') \cup Range(badBlocks') \subseteq m_drainingSet'
    BY <1>1, <1>2, <1>4, <1>5, Zenon
  <2> QED
    BY <2>1, <2>2, Zenon DEF PlacesInv, Range, IsInjective
<1>8. ParentsInv'
  BY <1>2, <1>3, <1>4, Zenon DEF QueueInv, ParentsInv
<1>9. WorkInv'
  BY <1>2, <1>6, Zenon DEF QueueInv, WorkInv, Range
<1>10. CleanInv'
  BY <1>2, <1>6, Zenon DEF QueueInv, CleanInv, Range
<1> QED
  BY <1>7, <1>8, <1>9, <1>10, Zenon DEF QueueInv

LEMMA DoneDrainPlaces ==
  ASSUME TypeOK, QueueInv, DoneDrain
  PROVE  QueueInv'
<1> DEFINE B == Range(badBlocks)
<1>1. /\ m_drainingSet' = {} /\ m_knownBad' = m_knownBad \cup B /\ badBlocks' = <<>>
      /\ blocks' = <<>> /\ lock = "free" /\ (lock' = "free" \/ lock' = "updateBad")
      /\ UNCHANGED <<m_readySet, m_unknown, m_verified, m_verifying, m_unverified, pc, work, m_bc>>
  BY Zenon DEF DoneDrain, maps, deques, threads, world
<1>2. B \subseteq m_drainingSet /\ Range(badBlocks') = {} /\ Range(blocks') = {}
  <2>1. Range(<<>>) = {}
    BY DEF Range
  <2>2. B \subseteq m_drainingSet
    BY DEF QueueInv, PlacesInv
  <2> QED
    BY <1>1, <2>1, <2>2, ZenonT(60)
<1>3. Pipeline' = Pipeline /\ DoneHashes' = DoneHashes
  BY <1>1, Zenon DEF Pipeline, Hashes, DoneHashes
<1> HIDE DEF B
<1>4. PlacesInv'
  <2>1. /\ IsInjective(Pipeline') /\ Range(Pipeline') \subseteq m_readySet' \cup m_knownBad'
        /\ m_drainingSet' \cap Range(Pipeline') = {}
        /\ Range(blocks') \cup Range(badBlocks') \subseteq m_drainingSet'
    BY <1>1, <1>2, <1>3, Zenon DEF QueueInv, PlacesInv
  <2>2. m_unknown' \cap (m_readySet' \cup m_drainingSet' \cup m_knownBad') = {}
    BY <1>1, <1>2, Zenon DEF QueueInv, PlacesInv
  <2> QED
    BY <2>1, <2>2, Zenon DEF PlacesInv, Range, IsInjective
<1>5. ParentsInv'
  BY <1>1, Zenon DEF QueueInv, ParentsInv
<1>6. WorkInv'
  <2> SUFFICES ASSUME NEW v \in Verifiers, pc'[v] = "verify"
               PROVE  /\ work'[v] \in m_readySet' \cup m_knownBad'
                      /\ work'[v] \notin Range(m_verified') \cup Range(m_unverified') \cup DoneHashes'
                      /\ \A w \in Verifiers : pc'[w] = "verify" /\ work'[w] = work'[v] => w = v
    BY Zenon DEF WorkInv, Range
  <2>1. pc[v] = "verify" /\ pc' = pc /\ work' = work
    BY <1>1, Zenon
  <2>2. /\ work[v] \in m_readySet \cup m_knownBad
        /\ work[v] \notin Range(m_verified) \cup Range(m_unverified) \cup DoneHashes
        /\ \A w \in Verifiers : pc[w] = "verify" /\ work[w] = work[v] => w = v
    BY <2>1, Zenon DEF QueueInv, WorkInv
  <2>3. Range(m_verified') = Range(m_verified) /\ Range(m_unverified') = Range(m_unverified)
    BY <1>1, Zenon
  <2> QED
    BY <1>1, <1>3, <2>1, <2>2, <2>3, ZenonT(60)
<1>7. CleanInv'
  <2>1. Range(Pipeline') \cap m_knownBad' = {}
    BY <1>1, <1>2, <1>3, Zenon DEF QueueInv, PlacesInv, CleanInv
  <2>2. DoneHashes' \cap m_knownBad' = {}
    <3>1. DoneHashes \subseteq Range(Pipeline)
      BY Parts
    <3> QED
      BY <1>3, <2>1, <3>1
  <2> QED
    BY <1>1, <2>1, <2>2, Zenon DEF CleanInv, Range
<1> QED
  BY <1>4, <1>5, <1>6, <1>7, Zenon DEF QueueInv

LEMMA QueueStep ==
  TypeOK /\ DequesOK' /\ IndexesAgree /\ QueueInv /\ [SteadyNext]_vars => QueueInv'
<1> SUFFICES ASSUME TypeOK, DequesOK', IndexesAgree, QueueInv, [SteadyNext]_vars
             PROVE  QueueInv'
  OBVIOUS
<1>1. ASSUME NEW h \in Hash, NEW isOurs \in BOOLEAN, Import(h, isOurs) PROVE QueueInv'
  <2>1. /\ lock = "free" /\ ~Queued(h) /\ h \notin m_bc /\ ImportNew(h, isOurs)
        /\ UNCHANGED <<threads, blocks, badBlocks, m_bc>>
    BY <1>1, Zenon DEF Import, client, world
  <2> QED
    BY <2>1, ImportPlaces, Zenon
<1>2. ASSUME NEW h \in todo, TickImport(h) PROVE QueueInv'
  <2>1. h \in Hash /\ lock = "free" /\ UNCHANGED <<threads, blocks, badBlocks, m_bc>>
    BY <1>2, Zenon DEF TypeOK, SetsOK, TickImport, world
  <2>2. CASE Queued(h) \/ h \in m_bc
    <3>1. /\ UNCHANGED <<m_readySet, m_drainingSet, m_knownBad, m_unknown, deques, blocks, badBlocks,
                         m_bc, moreBad>>
          /\ \A v \in Verifiers : pc'[v] = "verify" => pc[v] = "verify" /\ work'[v] = work[v]
          /\ lock' = lock
      BY <1>2, <2>1, <2>2, Zenon DEF TickImport, sets, maps, section, threads
    <3> QED
      BY <3>1, PlacesKept, Zenon
  <2>3. CASE ~(Queued(h) \/ h \in m_bc)
    <3>1. ~Queued(h) /\ h \notin m_bc /\ ImportNew(h, FALSE)
      BY <1>2, <2>3, Zenon DEF TickImport
    <3> QED
      BY <2>1, <3>1, ImportPlaces, Zenon
  <2> QED
    BY <2>2, <2>3, Zenon
<1>3. ASSUME NEW v \in Verifiers, Take(v) \/ VerifyReplace(v) PROVE QueueInv'
  BY <1>3, TakePlaces, ReplacePlaces, Zenon
<1>4. ASSUME NEW v \in Verifiers, VerifyFail(v) \/ VerifyNext(v) PROVE QueueInv'
  BY <1>4, FailPlaces, NextPlaces, Zenon
<1>5. ASSUME NEW v \in Verifiers, DrainVerifiedEnd(v) \/ Notify(v) \/ Exit(v) PROVE QueueInv'
  <2>1. /\ UNCHANGED <<m_readySet, m_drainingSet, m_knownBad, m_unknown, deques, blocks, badBlocks,
                       m_bc, moreBad, work>>
        /\ lock' = lock \/ (lock = "drainVerified" /\ lock' = "free")
    BY <1>5, Zenon DEF DrainVerifiedEnd, Notify, Exit, sets, maps, section, client, world
  <2>2. \E s \in {"notify", "wait", "exited"} : pc' = [pc EXCEPT ![v] = s]
    BY <1>5, Zenon DEF DrainVerifiedEnd, Notify, Exit
  <2>3. \A w \in Verifiers : pc'[w] = "verify" => pc[w] = "verify" /\ work'[w] = work[w]
    <3>1. pc \in [Verifiers -> {"wait", "verify", "drainOk", "drainBad", "notify", "exited"}]
      BY Zenon DEF TypeOK, ThreadsOK
    <3> QED
      BY <2>1, <2>2, <3>1, Zenon
  <2>4. \/ lock' = lock
        \/ lock \in {"drainVerified", "updateBad"} /\ lock' = "free"
    BY <2>1, Zenon
  <2> QED
    BY <2>1, <2>3, <2>4, PlacesKept, Zenon
<1>6. CASE DrainVerified
  BY <1>6, DrainVerifiedPlaces, Zenon
<1>7. CASE UpdateBad \/ BadVerified \/ BadUnverified \/ BadVerifying
  BY <1>7, UpdateBadPlaces, BadVerifiedPlaces, BadUnverifiedPlaces, BadVerifyingPlaces, Zenon
<1>8. CASE UpdateBadEnd \/ TickCollect \/ Clock \/ Stop \/ UNCHANGED vars
  <2>1. /\ UNCHANGED <<m_readySet, m_drainingSet, m_knownBad, m_unknown, deques, blocks, badBlocks,
                       m_bc, moreBad, pc, work>>
        /\ lock' = lock \/ (lock = "updateBad" /\ lock' = "free")
    <3>1. CASE UpdateBadEnd
      BY <3>1, Zenon DEF UpdateBadEnd, sets, maps, threads, world
    <3>2. CASE TickCollect
      BY <3>2, Zenon DEF TickCollect, section, threads, world
    <3>3. CASE Clock
      BY <3>3, Zenon DEF Clock, sets, maps, section, threads, client
    <3>4. CASE Stop
      BY <3>4, Zenon DEF Stop, sets, maps, section, client, world
    <3>5. CASE UNCHANGED vars
      BY <3>5, Zenon DEF vars, sets, maps, section, threads, client, world
    <3> QED
      BY <1>8, <3>1, <3>2, <3>3, <3>4, <3>5, Zenon
  <2>2. \A w \in Verifiers : pc'[w] = "verify" => pc[w] = "verify" /\ work'[w] = work[w]
    BY <2>1, Zenon
  <2>3. \/ lock' = lock
        \/ lock \in {"drainVerified", "updateBad"} /\ lock' = "free"
    BY <2>1, Zenon
  <2> QED
    BY <2>1, <2>2, <2>3, PlacesKept, Zenon
<1>9. CASE Sync
  BY <1>9, DrainPlaces, ImportDrainedPlaces, DoneDrainPlaces, Zenon DEF Sync
<1> QED
  BY <1>1, <1>2, <1>3, <1>4, <1>5, <1>6, <1>7, <1>8, <1>9, Zenon
  DEF SteadyNext, Tick, Verify, UpdateBadLoop

LEMMA InitQueue == Init => QueueInv
<1> SUFFICES ASSUME Init PROVE QueueInv
  OBVIOUS
<1>1. /\ m_readySet = {} /\ m_drainingSet = {} /\ m_knownBad = {} /\ m_unknown = {}
      /\ m_verified = <<>> /\ m_verifying = <<>> /\ m_unverified = <<>>
      /\ blocks = <<>> /\ badBlocks = <<>> /\ pc = [v \in Verifiers |-> "wait"]
  BY Zenon DEF Init
<1>2. Range(<<>>) = {} /\ IsInjective(<<>>) /\ Hashes(<<>>) = <<>>
  BY DEF Range, IsInjective, Hashes
<1>3. Pipeline = <<>> /\ DoneHashes = {}
  BY <1>1, <1>2 DEF Pipeline, DoneHashes
<1>4. PlacesInv
  BY <1>1, <1>2, <1>3, Zenon DEF PlacesInv
<1>5. ParentsInv
  BY <1>1 DEF ParentsInv
<1>6. WorkInv
  BY <1>1, Zenon DEF WorkInv
<1>7. CleanInv
  BY <1>1, <1>2, <1>3, Zenon DEF CleanInv
<1> QED
  BY <1>4, <1>5, <1>6, <1>7, Zenon DEF QueueInv

LEMMA QueueAlways == SteadySpec => []QueueInv
<1>1. [SteadyNext]_vars => [Next]_vars
  BY Zenon DEF Next
<1>2. SteadySpec => Spec
  BY <1>1, PTL DEF SteadySpec, Spec
<1>3. TypeOK => DequesOK
  BY Zenon DEF TypeOK
<1> QED
  BY <1>2, <1>3, TypeCorrect, IndexesCorrect, InitQueue, QueueStep, PTL DEF SteadySpec

\* Bad blocks included, but without clear(): no block is in the deques twice, and once
\* m_lock is free what they hold is in m_readySet, so that import turns it away.  The
\* removal rounds of updateBad_WITH_LOCK, drainVerified_WITH_BOTH_LOCKS and a verifier
\* that fails leave none behind, however they interleave with import, drain and doneDrain.
THEOREM QueuedStayReady == SteadySpec => []QueuedAreReady
<1>1. QueueInv => QueuedAreReady
  BY Zenon DEF QueueInv, PlacesInv, CleanInv, QueuedAreReady
<1> QED
  BY <1>1, QueueAlways, PTL

\* A block waits in m_unknown only while its parent is neither ready, nor being drained,
\* nor in the chain (BlockQueue.h:322), whatever import, tick, drain, BlockChain::sync and
\* updateBad_WITH_LOCK do to that parent, as long as nobody calls clear().
THEOREM WaitingForParents == SteadySpec => []UnknownParentsAbsent
<1>1. QueueInv => UnknownParentsAbsent
  BY DEF QueueInv, ParentsInv, UnknownParentsAbsent
<1> QED
  BY <1>1, QueueAlways, PTL
=============================================================================
