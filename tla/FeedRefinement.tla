--------------------------- MODULE FeedRefinement ---------------------------
(* The order in which blocks reach the chain, for every set of blocks and    *)
(* verifiers.  While nothing goes wrong parents come first; and where every  *)
(* block is good nothing does, and the block queue implements ChainFeed and  *)
(* leaves no finished block at the front of m_verifying.  Then m_difficulty, *)
(* which covers what is in the queue whatever goes wrong.                    *)
EXTENDS BlockQueueProofs, Sums

\* Every block of s has its parent in c or before it.
Ordered(s, c) == \A i \in DOMAIN s : Parent[s[i]] \in c \cup {s[j] : j \in 1..(i - 1)}

LEMMA OrderedIsInOrder == ASSUME NEW s PROVE Ordered(s, m_bc) <=> Abstract!InOrder(s)
  BY DEF Ordered, Abstract!InOrder

-----------------------------------------------------------------------------
(* Ordered sequences. *)

LEMMA OrderedAppend ==
  ASSUME NEW s \in Seq(Hash), NEW t \in Seq(Hash), NEW c,
         Ordered(s, c), Ordered(t, c \cup Range(s))
  PROVE  Ordered(s \o t, c)
<1>1. /\ Len(s) \in Nat /\ Len(t) \in Nat /\ DOMAIN s = 1..Len(s) /\ DOMAIN t = 1..Len(t)
      /\ DOMAIN (s \o t) = 1..(Len(s) + Len(t))
      /\ \A i \in 1..Len(s) : (s \o t)[i] = s[i]
      /\ \A i \in 1..Len(t) : (s \o t)[Len(s) + i] = t[i]
  BY HashConcat
<1> SUFFICES ASSUME NEW i \in 1..(Len(s) + Len(t))
             PROVE  Parent[(s \o t)[i]] \in c \cup {(s \o t)[j] : j \in 1..(i - 1)}
  BY <1>1, Zenon DEF Ordered
<1>2. CASE i \in 1..Len(s)
  <2>1. Parent[s[i]] \in c \cup {s[j] : j \in 1..(i - 1)} /\ (s \o t)[i] = s[i]
    BY <1>1, <1>2 DEF Ordered
  <2>2. \A j \in 1..(i - 1) : (s \o t)[j] = s[j]
    BY <1>1, <1>2
  <2> QED
    BY <2>1, <2>2, ZenonT(60)
<1>3. CASE ~(i \in 1..Len(s))
  <2> DEFINE k == i - Len(s)
  <2>1. k \in 1..Len(t) /\ (s \o t)[i] = t[k]
    <3>1. k \in 1..Len(t) /\ Len(s) + k = i
      BY <1>1, <1>3, SMTT(30)
    <3> QED
      BY <1>1, <3>1, SMTT(30)
  <2>2. Parent[t[k]] \in c \cup Range(s) \cup {t[j] : j \in 1..(k - 1)}
    BY <1>1, <2>1, Zenon DEF Ordered
  <2>3. CASE Parent[t[k]] \in Range(s)
    <3>1. PICK j \in 1..Len(s) : s[j] = Parent[t[k]]
      BY <1>1, <2>3 DEF Range
    <3>2. j \in 1..(i - 1) /\ (s \o t)[j] = Parent[t[k]]
      BY <1>1, <1>3, <3>1, SMTT(30)
    <3> QED
      BY <2>1, <3>2
  <2>4. CASE Parent[t[k]] \in {t[j] : j \in 1..(k - 1)}
    <3>1. PICK j \in 1..(k - 1) : t[j] = Parent[t[k]]
      BY <2>4
    <3>2. Len(s) + j \in 1..(i - 1) /\ j \in 1..Len(t)
      BY <1>1, <2>1, <3>1
    <3>3. (s \o t)[Len(s) + j] = Parent[t[k]]
      BY <1>1, <3>1, <3>2, SMTT(30)
    <3> QED
      BY <2>1, <3>2, <3>3, Zenon
  <2> QED
    BY <2>1, <2>2, <2>3, <2>4, Zenon
<1> QED
  BY <1>2, <1>3, Zenon

LEMMA OrderedPrefix ==
  ASSUME NEW s \in Seq(Hash), NEW t \in Seq(Hash), NEW c, Ordered(s \o t, c)
  PROVE  Ordered(s, c)
<1>1. /\ Len(s) \in Nat /\ Len(t) \in Nat /\ DOMAIN s = 1..Len(s)
      /\ DOMAIN (s \o t) = 1..(Len(s) + Len(t))
      /\ \A i \in 1..Len(s) : (s \o t)[i] = s[i]
  BY HashConcat
<1> SUFFICES ASSUME NEW i \in 1..Len(s)
             PROVE  Parent[s[i]] \in c \cup {s[j] : j \in 1..(i - 1)}
  BY <1>1 DEF Ordered
<1>2. i \in DOMAIN (s \o t) /\ (s \o t)[i] = s[i] /\ \A j \in 1..(i - 1) : (s \o t)[j] = s[j]
  BY <1>1
<1> QED
  BY <1>2 DEF Ordered

LEMMA OrderedTail ==
  ASSUME NEW s \in Seq(Hash), s # <<>>, NEW c, Ordered(s, c)
  PROVE  Parent[Head(s)] \in c /\ Ordered(Tail(s), c \cup {Head(s)})
<1>1. Len(s) \in Nat \ {0} /\ DOMAIN s = 1..Len(s) /\ Head(s) = s[1]
  BY EmptySeq, LenProperties
<1>2. Tail(s) \in Seq(Hash) /\ Len(Tail(s)) = Len(s) - 1
      /\ \A i \in 1..(Len(s) - 1) : Tail(s)[i] = s[i + 1]
  BY HeadTailProperties
<1>3. DOMAIN Tail(s) = 1..(Len(s) - 1)
  BY <1>2, LenProperties
<1>4. Parent[Head(s)] \in c
  <2>1. 1 \in DOMAIN s /\ 1..(1 - 1) = {}
    BY <1>1
  <2> QED
    BY <1>1, <2>1 DEF Ordered
<1>5. ASSUME NEW i \in 1..(Len(s) - 1)
      PROVE  Parent[Tail(s)[i]] \in c \cup {Head(s)} \cup {Tail(s)[j] : j \in 1..(i - 1)}
  <2>1. Tail(s)[i] = s[i + 1] /\ i + 1 \in DOMAIN s /\ (i + 1) - 1 = i
    BY <1>1, <1>2, SMTT(30)
  <2>2. Parent[s[i + 1]] \in c \cup {s[j] : j \in 1..i}
    BY <2>1 DEF Ordered
  <2>3. ASSUME NEW j \in 1..i PROVE s[j] = Head(s) \/ s[j] \in {Tail(s)[l] : l \in 1..(i - 1)}
    <3>1. CASE j = 1
      BY <1>1, <3>1, SMTT(30)
    <3>2. CASE j # 1
      <4>1. j - 1 \in 1..(i - 1) /\ j - 1 \in 1..(Len(s) - 1) /\ (j - 1) + 1 = j
        BY <1>1, <3>2
      <4>2. Tail(s)[j - 1] = s[j]
        BY <1>2, <4>1
      <4> QED
        BY <4>1, <4>2, Zenon
    <3> QED
      BY <3>1, <3>2, SMTT(30)
  <2> QED
    BY <2>1, <2>2, <2>3, SMTT(30)
<1> QED
  BY <1>3, <1>4, <1>5, Zenon DEF Ordered

\* noteReady_WITH_LOCK releases the descendants of a block after it, parents first.
LEMMA OrderedRelease ==
  ASSUME NEW h \in Hash, NEW D, NEW s \in ReleaseOrders(h, D), s \in Seq(Hash),
         NEW c, Parent[h] \in c
  PROVE  Ordered(<<h>> \o s, c)
<1>1. <<h>> \in Seq(Hash) /\ Range(<<h>>) = {h}
  BY SingletonSeq
<1>2. Ordered(<<h>>, c)
  <2>1. DOMAIN <<h>> = {1} /\ <<h>>[1] = h
    OBVIOUS
  <2> QED
    BY <2>1 DEF Ordered
<1>3. Ordered(s, c \cup {h})
  BY DEF ReleaseOrders, Ordered
<1> QED
  BY <1>1, <1>2, <1>3, OrderedAppend, Zenon

-----------------------------------------------------------------------------
(* The feed: what sync holds, then the three deques. *)

Moves == UNCHANGED <<m_bc, Feed>> \/ Abstract!FeedNext

LEMMA FeedParts ==
  ASSUME TypeOK
  PROVE  blocks \in Seq(Hash) /\ Pipeline \in Seq(Hash) /\ Feed \in Seq(Hash)
         /\ Range(Feed) = Range(blocks) \cup Range(Pipeline)
  BY PipelineIsSeq, RangeConcat, SMTT(30) DEF Feed, TypeOK, DequesOK

LEMMA AppendNotEmpty == ASSUME NEW S, NEW s \in Seq(S), NEW e PROVE Append(s, e) # <<>>
<1>1. Len(Append(s, e)) = Len(s) + 1 /\ Len(s) \in Nat /\ Len(<<>>) = 0
  OBVIOUS
<1> QED
  BY <1>1

\* A step that leaves the feed, the chain and what is being drained alone.
LEMMA FeedUnmoved ==
  ASSUME FeedInv, UNCHANGED <<m_bc, blocks, m_drainingSet>>,
         clientPc' # "import" => blocks = <<>>, Pipeline' = Pipeline
  PROVE  FeedInv' /\ Moves
         /\ (m_unknown' \subseteq m_unknown /\ UNCHANGED now /\ Timely => Timely')
<1>1. Feed' = Feed
  BY DEF Feed
<1>2. Abstract!InOrder(Feed)'
  BY <1>1 DEF FeedInv, Abstract!InOrder
<1>3. Moves
  BY <1>1, SMTT(30) DEF Moves
<1>4. m_unknown' \subseteq m_unknown /\ UNCHANGED now /\ Timely => Timely'
  BY <1>1, SMTT(30) DEF Timely
<1> QED
  BY <1>1, <1>2, <1>3, <1>4, SMTT(30) DEF FeedInv

\* import and noteReady_WITH_LOCK: a ready block finds its parent in the feed or in
\* the chain, and joins the feed with the blocks that waited for it.
LEMMA FeedImport ==
  ASSUME TypeOK, IndexesAgree, ReadyInv, NothingWrong, FeedInv, NEW h \in Hash, ~Queued(h),
         NEW isOurs \in BOOLEAN, ImportNew(h, isOurs), UNCHANGED <<m_bc, blocks, now>>,
         clientPc' # "import" => blocks = <<>>
  PROVE  FeedInv' /\ Moves /\ (~isOurs /\ Timely => Timely')
<1>0. ~isOurs => Timestamp[h] <= now \/ ImportFuture(h)
  <2>1. Timestamp[h] \in Nat /\ now \in Nat
    BY HeaderAssumption DEF TypeOK
  <2>2. Timestamp[h] > now \/ Timestamp[h] <= now
    BY <2>1
  <2> QED
    BY <2>2, Zenon DEF ImportNew
<1>a. Parent[h] \notin m_knownBad
  BY DEF NothingWrong
<1>1. CASE ImportFuture(h)
  <2>1. Pipeline' = Pipeline
    BY <1>1, SMTT(30) DEF ImportFuture, Pipeline, deques
  <2> QED
    BY <1>1, <2>1, FeedUnmoved, SMTT(30) DEF ImportFuture
<1>2. CASE ImportUnknown(h)
  <2>1. Pipeline' = Pipeline
    BY <1>2, SMTT(30) DEF ImportUnknown, Pipeline, deques
  <2>2. Feed' = Feed
    BY <2>1, SMTT(30) DEF Feed
  <2>3. Timestamp[h] <= now /\ Timely => Timely'
    BY <1>2, <2>2, SMTT(30) DEF Timely, ImportUnknown
  <2>4. FeedInv' /\ Moves
    BY <1>2, <2>1, FeedUnmoved, SMTT(30) DEF ImportUnknown
  <2> QED
    BY <1>0, <1>1, <2>3, <2>4, SMTT(30)
<1>3. CASE ImportReady(h) /\ Parent[h] \in m_readySet \cup m_drainingSet \cup m_bc
  <2>1. PICK s \in ReleaseOrders(h, UnknownDescendants({h})) :
               /\ s \in Seq(Hash) /\ Range(s) \subseteq m_unknown
               /\ Pipeline' = Pipeline \o (<<h>> \o s)
    BY <1>3, ReadyPipeline, Zenon
  <2> DEFINE add == <<h>> \o s
  <2>2. <<h>> \in Seq(Hash) /\ Range(<<h>>) = {h}
    BY SingletonSeq
  <2>3. add \in Seq(Hash) /\ Range(add) = {h} \cup Range(s) /\ Len(add) \in Nat \ {0}
    <3>1. Range(<<h>> \o s) = {h} \cup Range(s)
      BY <2>1, <2>2, RangeConcat, ZenonT(60)
    <3>2. <<h>> \o s \in Seq(Hash) /\ Len(<<h>> \o s) = Len(<<h>>) + Len(s) /\ Len(s) \in Nat
      BY <2>1, <2>2, HashConcat
    <3>3. Len(<<h>>) = 1
      OBVIOUS
    <3> QED
      BY <3>1, <3>2, <3>3
  <2>4. blocks \in Seq(Hash) /\ Pipeline \in Seq(Hash) /\ Feed \in Seq(Hash)
        /\ Range(Feed) = Range(blocks) \cup Range(Pipeline)
    BY FeedParts
  <2>5. Parent[h] \in m_bc \cup Range(Feed)
    BY <1>3, <2>4, SMTT(30) DEF NothingWrong, FeedInv, ReadyInv
  <2>6. Ordered(add, m_bc \cup Range(Feed))
    BY <2>1, <2>5, OrderedRelease, SMTT(30)
  <2> HIDE DEF add
  <2>7. Feed' = Feed \o add
    <3>1. (blocks \o Pipeline) \o add = blocks \o (Pipeline \o add)
      BY <2>3, <2>4, HashConcatAssociative, ZenonT(60)
    <3> QED
      BY <2>1, <3>1, Zenon DEF Feed, add
  <2>8. Ordered(Feed, m_bc)
    BY OrderedIsInOrder DEF FeedInv
  <2>9. Ordered(Feed \o add, m_bc)
    BY <2>3, <2>4, <2>6, <2>8, OrderedAppend, Zenon
  <2>10. Abstract!InOrder(Feed)'
    BY <2>7, <2>9, ZenonT(60) DEF Ordered, Abstract!InOrder
  <2>11. Abstract!Accept
    <3>1. Feed \o add \in Seq(Hash) /\ Len(Feed \o add) = Len(Feed) + Len(add) /\ Len(Feed) \in Nat
          /\ \A k \in 1..Len(Feed) : (Feed \o add)[k] = Feed[k]
      BY <2>3, <2>4, HashConcat, Zenon
    <3>2. SubSeq(Feed \o add, 1, Len(Feed)) = Feed
      <4> DEFINE w == Feed \o add
      <4>1. w \in Seq(Hash) /\ Len(Feed) \in 1 - 1 .. Len(w) /\ 1 \in 1..(Len(w) + 1)
        BY <2>3, <3>1, SMTT(30)
      <4>2. SubSeq(w, 1, Len(Feed)) \in Seq(Hash) /\ Len(SubSeq(w, 1, Len(Feed))) = Len(Feed)
            /\ \A k \in 1..Len(Feed) : SubSeq(w, 1, Len(Feed))[k] = w[k]
        BY <3>1, <4>1, SMTT(30)
      <4> HIDE DEF w
      <4>3. \A k \in 1..Len(Feed) : SubSeq(w, 1, Len(Feed))[k] = Feed[k]
        BY <3>1, <4>2, SMTT(30) DEF w
      <4>4. SubSeq(w, 1, Len(Feed)) = Feed
        BY <2>4, <4>2, <4>3, SeqEqual, SMTT(30)
      <4> QED
        BY <4>4, SMTT(30) DEF w
    <3> QED
      BY <2>3, <2>7, <2>9, <3>1, <3>2, OrderedIsInOrder DEF Abstract!Accept
  <2>12. Moves
    BY <2>11, SMTT(30) DEF Moves, Abstract!FeedNext
  <2>13. Timestamp[h] <= now /\ Timely => Timely'
    <3>1. Range(Feed \o add) = Range(Feed) \cup Range(add)
      BY <2>3, <2>4, RangeConcat, SMTT(30)
    <3>2. m_unknown' \subseteq m_unknown
      BY <1>3, Zenon DEF ImportReady, NoteReady
    <3> QED
      BY <1>3, <2>1, <2>3, <2>7, <3>1, <3>2, ZenonT(60) DEF Timely
  <2> QED
    BY <1>0, <1>1, <1>3, <2>10, <2>12, <2>13, Zenon DEF FeedInv, ImportReady
<1> QED
  BY <1>a, <1>1, <1>2, <1>3, SMTT(30) DEF ImportNew

\* BlockChain::sync: the front of the feed has its parent in the chain and goes there.
LEMMA FeedDeliver ==
  ASSUME TypeOK, NothingWrong, NothingWrong', FeedInv, ImportDrained
  PROVE  FeedInv' /\ Moves /\ (Timely => Timely')
<1> DEFINE b == Head(blocks)
<1>1. blocks # <<>> /\ blocks \in Seq(Hash) /\ Pipeline \in Seq(Hash) /\ Feed \in Seq(Hash)
      /\ clientPc = "import"
  BY FeedParts DEF ImportDrained
<1>2. b \in Hash /\ Tail(blocks) \in Seq(Hash) /\ <<b>> \in Seq(Hash) /\ <<b>> \o Tail(blocks) = blocks
  BY <1>1, FrontAndRest, SMTT(30)
<1>3. Feed = <<b>> \o (Tail(blocks) \o Pipeline)
  <2>1. (<<b>> \o Tail(blocks)) \o Pipeline = <<b>> \o (Tail(blocks) \o Pipeline)
    BY <1>1, <1>2, HashConcatAssociative, ZenonT(60)
  <2> QED
    BY <1>2, <2>1 DEF Feed
<1>4. Tail(blocks) \o Pipeline \in Seq(Hash)
  BY <1>1, <1>2, HashConcat
<1>5. Feed # <<>> /\ Head(Feed) = b /\ Tail(Feed) = Tail(blocks) \o Pipeline
  <2> DEFINE r == Tail(blocks) \o Pipeline
  <2>1. r \in Seq(Hash) /\ b \in Hash /\ Feed = <<b>> \o r
    BY <1>2, <1>3, <1>4, SMTT(30)
  <2> HIDE DEF r, b
  <2>2. <<b>> \in Seq(Hash) /\ Len(<<b>>) = 1 /\ <<b>>[1] = b
    BY <2>1, SMTT(30)
  <2>3. /\ Len(Feed) = 1 + Len(r) /\ Len(r) \in Nat /\ DOMAIN Feed = 1..(1 + Len(r))
        /\ \A i \in 1..1 : Feed[i] = <<b>>[i]
        /\ \A i \in 1..Len(r) : Feed[1 + i] = r[i]
    BY <2>1, <2>2, HashConcat, SMTT(30)
  <2>4. Feed # <<>> /\ Head(Feed) = b
    BY <1>1, <2>2, <2>3, SMTT(30)
  <2>5. Tail(Feed) \in Seq(Hash) /\ Len(Tail(Feed)) = Len(r)
        /\ \A i \in 1..Len(r) : Tail(Feed)[i] = Feed[i + 1]
    BY <1>1, <2>3, <2>4, HeadTailProperties, SMTT(30)
  <2>6. \A i \in 1..Len(r) : Tail(Feed)[i] = r[i]
    <3> SUFFICES ASSUME NEW i \in 1..Len(r) PROVE Tail(Feed)[i] = r[i]
      BY Zenon
    <3>1. i + 1 = 1 + i
      BY <2>3
    <3> QED
      BY <2>3, <2>5, <3>1, SMTT(30)
  <2>7. Tail(Feed) = r
    BY <2>1, <2>5, <2>6, SeqEqual
  <2> QED
    BY <2>4, <2>7, SMTT(30) DEF r, b
<1>6. Parent[b] \in m_bc /\ Ordered(Tail(Feed), m_bc \cup {b})
  <2>1. Ordered(Feed, m_bc)
    BY OrderedIsInOrder DEF FeedInv
  <2> QED
    BY <1>1, <1>5, <2>1, OrderedTail, ZenonT(60)
<1>8. /\ blocks' = Tail(blocks) /\ m_bc' = m_bc \cup {b}
      /\ UNCHANGED <<sets, maps, deques, clientPc, now>>
  <2>1. Append(badBlocks, b) # <<>> /\ abandoned \cup {b} # {}
    BY AppendNotEmpty, Zenon DEF TypeOK, DequesOK
  <2>2. badBlocks' = <<>> /\ abandoned' = {}
    BY DEF NothingWrong
  <2>3. PICK o \in Outcomes(b) :
             \/ o = "imported" /\ Rest(m_bc \cup {b}, badBlocks, abandoned)
             \/ o = "AlreadyHaveBlock" /\ Rest(m_bc, badBlocks, abandoned)
    BY <2>1, <2>2, Zenon DEF ImportDrained, Rest
  <2>4. o = "AlreadyHaveBlock" => b \in m_bc
    BY SMTT(30) DEF Outcomes
  <2> QED
    BY <2>3, <2>4, SMTT(30) DEF Rest
<1>9. Pipeline' = Pipeline
  BY <1>8, SMTT(30) DEF Pipeline, deques
<1>10. Feed' = Tail(Feed)
  BY <1>5, <1>8, <1>9, SMTT(30) DEF Feed
<1>11. Moves
  BY <1>5, <1>8, <1>10, SMTT(30) DEF Moves, Abstract!FeedNext, Abstract!Deliver
<1>12. Abstract!InOrder(Feed)'
  BY <1>6, <1>8, <1>10, Zenon DEF Ordered, Abstract!InOrder
<1>13. Range(blocks) = {b} \cup Range(Tail(blocks)) /\ Range(Feed) = {b} \cup Range(Tail(Feed))
  <2>1. Range(<<b>>) = {b}
    BY <1>2, SingletonSeq
  <2>2. Range(<<b>> \o Tail(blocks)) = Range(<<b>>) \cup Range(Tail(blocks))
    BY <1>2, RangeConcat, Zenon
  <2>3. Range(<<b>> \o (Tail(blocks) \o Pipeline)) = Range(<<b>>) \cup Range(Tail(blocks) \o Pipeline)
    BY <1>2, <1>4, RangeConcat, ZenonT(60)
  <2> QED
    BY <1>2, <1>3, <1>5, <2>1, <2>2, <2>3, Zenon
<1>14. m_drainingSet' \subseteq m_bc' \cup Range(blocks')
  BY <1>8, <1>13 DEF FeedInv, sets
<1>15. Timely => Timely'
  BY <1>8, <1>10, <1>13, SMTT(30) DEF Timely, maps
<1> QED
  BY <1>1, <1>8, <1>11, <1>12, <1>14, <1>15, SMTT(30) DEF FeedInv, sets

\* drain only moves the boundary between the deques and what sync holds.
LEMMA FeedDrain ==
  ASSUME TypeOK, FeedInv, NEW max \in 1..MaxDrain, Drain(max)
  PROVE  FeedInv' /\ Moves /\ (Timely => Timely')
<1>1. /\ blocks' \in Seq(Hash) /\ Pipeline' \in Seq(Hash)
      /\ Pipeline = blocks' \o Pipeline'
      /\ m_drainingSet' = m_drainingSet \cup Range(blocks')
  BY DrainPipeline, SMTT(30)
<1>2. blocks = <<>> /\ clientPc' = "import"
      /\ UNCHANGED <<m_bc, m_unknown, now>>
  BY DEF FeedInv, Drain, maps, world
<1>3. Pipeline \in Seq(Hash)
  BY FeedParts
<1>4. Feed' = Feed
  <2>1. <<>> \o Pipeline = Pipeline
    BY <1>3, ConcatEmptySeq, SMTT(30)
  <2> QED
    BY <1>1, <1>2, <2>1, SMTT(30) DEF Feed
<1>5. Range(<<>>) = {}
  BY SMTT(30) DEF Range
<1>6. Abstract!InOrder(Feed)'
  BY <1>2, <1>4, SMTT(30) DEF FeedInv, Abstract!InOrder
<1>7. Moves
  BY <1>2, <1>4, SMTT(30) DEF Moves
<1> QED
  BY <1>1, <1>2, <1>4, <1>5, <1>6, <1>7, SMTT(30) DEF FeedInv, Timely

\* clear forgets the deques; sync keeps what it holds.
LEMMA FeedClear ==
  ASSUME TypeOK, FeedInv, Clear
  PROVE  FeedInv' /\ Moves /\ (Timely => Timely')
<1>1. blocks \in Seq(Hash) /\ Pipeline \in Seq(Hash) /\ Feed \in Seq(Hash)
      /\ Range(Feed) = Range(blocks) \cup Range(Pipeline)
  BY FeedParts, SMTT(30)
<1>2. m_verified' = <<>> /\ m_verifying' = <<>> /\ m_unverified' = <<>>
      /\ m_drainingSet' = {} /\ m_unknown' = {}
      /\ UNCHANGED <<m_bc, blocks, clientPc, now>>
  BY DEF Clear, client, world
<1>3. Hashes(<<>>) = <<>>
  BY DEF Hashes
<1>4. Pipeline' = <<>>
  BY <1>2, <1>3, SMTT(30) DEF Pipeline
<1>5. Feed' = blocks
  <2>1. blocks \o <<>> = blocks
    BY <1>1, ConcatEmptySeq, SMTT(30)
  <2> QED
    BY <1>2, <1>4, <2>1, SMTT(30) DEF Feed
<1>6. Ordered(blocks, m_bc)
  <2>1. Ordered(blocks \o Pipeline, m_bc)
    BY OrderedIsInOrder, SMTT(30) DEF FeedInv, Feed
  <2> QED
    BY <1>1, <2>1, OrderedPrefix, SMTT(30)
<1>7. Abstract!InOrder(Feed)'
  BY <1>2, <1>5, <1>6, SMTT(30) DEF Ordered, Abstract!InOrder
<1>8. Abstract!Forget
  <2>1. Len(blocks) \in Nat /\ Len(Feed) = Len(blocks) + Len(Pipeline) /\ Len(Pipeline) \in Nat
        /\ \A k \in 1..Len(blocks) : Feed[k] = blocks[k]
    BY <1>1, HashConcat, Zenon DEF Feed
  <2>2. Len(blocks) \in 0..Len(Feed)
    BY <2>1, SMTT(30)
  <2>3. SubSeq(Feed, 1, Len(blocks)) \in Seq(Hash) /\ Len(SubSeq(Feed, 1, Len(blocks))) = Len(blocks)
        /\ \A k \in 1..Len(blocks) : SubSeq(Feed, 1, Len(blocks))[k] = Feed[k]
    BY <1>1, <2>1, <2>2, SMTT(30)
  <2>4. \A k \in 1..Len(blocks) : SubSeq(Feed, 1, Len(blocks))[k] = blocks[k]
    BY <2>1, <2>3, Zenon
  <2>5. SubSeq(Feed, 1, Len(blocks)) = blocks
    BY <1>1, <2>3, <2>4, SeqEqual, SMTT(30)
  <2> QED
    BY <1>2, <1>5, <2>2, <2>5, ZenonT(60) DEF Abstract!Forget
<1>9. Moves
  BY <1>8, SMTT(30) DEF Moves, Abstract!FeedNext
<1> QED
  BY <1>1, <1>2, <1>5, <1>7, <1>9, SMTT(30) DEF FeedInv, Timely

\* Every step of the node, as long as nothing goes wrong.
LEMMA FeedStep ==
  ASSUME TypeOK, IndexesAgree, ReadyInv, NothingWrong, NothingWrong', FeedInv, [Next]_vars
  PROVE  FeedInv' /\ Moves /\ (AllGood /\ Timely => Timely')
<1> DEFINE Goal == FeedInv' /\ Moves /\ (AllGood /\ Timely => Timely')
<1> SUFFICES Goal
  BY Zenon
<1>1. ASSUME NEW h \in Hash, NEW isOurs \in BOOLEAN, Import(h, isOurs) PROVE Goal
  <2>1. AllGood => ~isOurs
    BY <1>1 DEF Import, AllGood
  <2>2. ~Queued(h) /\ ImportNew(h, isOurs) /\ UNCHANGED <<m_bc, blocks, now, clientPc>>
    BY <1>1, SMTT(30) DEF Import, client, world
  <2>3. clientPc' # "import" => blocks = <<>>
    BY <2>2, SMTT(30) DEF FeedInv
  <2>4. FeedInv' /\ Moves /\ (~isOurs /\ Timely => Timely')
    BY <2>2, <2>3, FeedImport, ZenonT(60)
  <2> QED
    BY <2>1, <2>4, Zenon
<1>2. ASSUME NEW h \in todo, TickImport(h) PROVE Goal
  <2>1. h \in Hash
    BY SMTT(30) DEF TypeOK, SetsOK
  <2>2. UNCHANGED <<m_bc, blocks, now>> /\ blocks = <<>>
    BY <1>2, SMTT(30) DEF TickImport, world, FeedInv
  <2>3. CASE Queued(h) \/ h \in m_bc
    <3>1. UNCHANGED <<sets, maps, deques>>
      BY <1>2, <2>3, Zenon DEF TickImport
    <3>2. Pipeline' = Pipeline
      BY <3>1 DEF deques, Pipeline
    <3> QED
      BY <2>2, <3>1, <3>2, FeedUnmoved, SMTT(30) DEF sets, maps
  <2>4. CASE ~(Queued(h) \/ h \in m_bc)
    <3>1. ImportNew(h, FALSE) /\ ~Queued(h) /\ FALSE \in BOOLEAN
      BY <1>2, <2>4, ZenonT(60) DEF TickImport
    <3>2. FeedInv' /\ Moves /\ (~FALSE /\ Timely => Timely')
      BY <2>1, <2>2, <3>1, FeedImport, Zenon
    <3> QED
      BY <3>2, Zenon
  <2> QED
    BY <2>3, <2>4, SMTT(30)
<1>3. ASSUME NEW v \in Verifiers, Take(v) \/ VerifyReplace(v) PROVE Goal
  <2>1. Pipeline' = Pipeline
    BY <1>3, TakePipeline, ReplaceHashes
  <2>2. UNCHANGED <<sets, maps, client, world>>
    BY <1>3, SMTT(30) DEF Take, VerifyReplace
  <2> QED
    BY <2>1, <2>2, FeedUnmoved, Zenon DEF sets, maps, client, world, FeedInv
<1>4. ASSUME NEW v \in Verifiers, VerifyFail(v) PROVE FALSE
  BY <1>4, Zenon DEF VerifyFail, NothingWrong
<1>5. ASSUME NEW v \in Verifiers, VerifyNext(v) PROVE Goal
  <2>1. Head(m_verifying).hash = work[v] /\ m_verifying # <<>>
    <3>1. m_verifying # <<>> /\ Sha3Uncles(Head(m_verifying)) = work[v] /\ work[v] \in Hash
      BY <1>5, Zenon DEF VerifyNext, TypeOK, ThreadsOK
    <3> QED
      BY <3>1, HashAssumption, Zenon DEF Sha3Uncles
  <2>2. Finish(Head(m_verifying).hash) /\ UNCHANGED <<m_unverified, m_drainingSet, maps, client, world>>
    BY <1>5, <2>1, Zenon DEF VerifyNext
  <2>3. Parent[Head(m_verifying).hash] \notin m_knownBad
    BY SMTT(30) DEF NothingWrong
  <2>4. Pipeline' = Pipeline
    BY <2>1, <2>2, <2>3, FinishPipeline, Zenon
  <2> QED
    BY <2>2, <2>4, FeedUnmoved, SMTT(30) DEF maps, client, world, FeedInv
<1>6. CASE DrainVerified
  <2>1. m_verifying # <<>> /\ Finish(Head(m_verifying).hash)
        /\ UNCHANGED <<m_unverified, m_drainingSet, maps, client, world>>
    BY <1>6, Zenon DEF DrainVerified, FrontDone
  <2>2. Parent[Head(m_verifying).hash] \notin m_knownBad
    BY SMTT(30) DEF NothingWrong
  <2>3. Pipeline' = Pipeline
    BY <2>1, <2>2, FinishPipeline, Zenon
  <2> QED
    BY <2>1, <2>3, FeedUnmoved, Zenon DEF maps, client, world, FeedInv
<1>7. ASSUME NEW v \in Verifiers, DrainVerifiedEnd(v) \/ Notify(v) \/ Exit(v)
      PROVE  Goal
  <2>1. UNCHANGED <<sets, maps, deques, client, world>>
    BY <1>7, SMTT(30) DEF DrainVerifiedEnd, Notify, Exit
  <2>2. Pipeline' = Pipeline
    BY <2>1, SMTT(30) DEF deques, Pipeline
  <2> QED
    BY <2>1, <2>2, FeedUnmoved, Zenon DEF sets, maps, client, world, FeedInv
<1>8. CASE UpdateBadLoop
  <2>1. lock \in {"free", "drainVerified"}
    BY SMTT(30) DEF NothingWrong, ReadyInv
  <2> QED
    BY <1>8, <2>1, ZenonT(60) DEF UpdateBadLoop, UpdateBad, BadVerified, BadUnverified,
       BadVerifying, UpdateBadEnd
<1>9. CASE DoneDrain
  <2>1. blocks = <<>>
    BY <1>9, SMTT(30) DEF DoneDrain
  <2>2. m_drainingSet' = {} /\ UNCHANGED <<maps, deques, blocks, world>>
    BY <1>9, SMTT(30) DEF DoneDrain
  <2>3. Feed' = Feed
    BY <2>2, SMTT(30) DEF Feed, Pipeline, deques
  <2>4. Abstract!InOrder(Feed)'
    BY <2>2, <2>3, Zenon DEF FeedInv, Abstract!InOrder, world
  <2>5. Moves
    BY <2>2, <2>3, SMTT(30) DEF Moves, world
  <2> QED
    BY <2>1, <2>2, <2>3, <2>4, <2>5, Zenon DEF FeedInv, Timely, maps, world
<1>10. CASE TickCollect
  <2>1. UNCHANGED <<m_drainingSet, m_unknown, deques, blocks, world>> /\ clientPc = "idle"
    BY <1>10, SMTT(30) DEF TickCollect
  <2>2. Pipeline' = Pipeline
    BY <2>1, SMTT(30) DEF deques, Pipeline
  <2> QED
    BY <2>1, <2>2, FeedUnmoved, SMTT(30) DEF world, FeedInv
<1>11. CASE Clock
  <2>1. now' = now + 1 /\ UNCHANGED <<sets, maps, deques, client, m_bc>>
    BY <1>11, SMTT(30) DEF Clock
  <2>2. Pipeline' = Pipeline
    BY <2>1, SMTT(30) DEF deques, Pipeline
  <2>3. FeedInv' /\ Moves
    BY <2>1, <2>2, FeedUnmoved, Zenon DEF FeedInv, sets, client
  <2>4. Range(Feed) \cup m_unknown \subseteq Hash
    <3>1. Feed \in Seq(Hash)
      BY FeedParts, SMTT(30)
    <3>2. Range(Feed) \subseteq Hash
      BY <3>1, ElementOfSeq, LenProperties, ZenonT(60) DEF Range
    <3> QED
      BY <3>2, SMTT(30) DEF TypeOK, SetsOK
  <2>5. Timely => \A g \in Range(Feed) \cup m_unknown : Timestamp[g] <= now + 1
    BY <2>4, HeaderAssumption, SMTT(30) DEF Timely, TypeOK
  <2>6. Feed' = Feed
    BY <2>1, <2>2, SMTT(30) DEF Feed, client
  <2> QED
    BY <2>1, <2>3, <2>5, <2>6, SMTT(30) DEF Timely, maps
<1>12. CASE Stop \/ UNCHANGED vars
  <2>1. UNCHANGED <<sets, maps, deques, client, world>>
    BY <1>12, Zenon DEF Stop, vars
  <2>2. Pipeline' = Pipeline
    BY <2>1 DEF deques, Pipeline
  <2> QED
    BY <2>1, <2>2, FeedUnmoved, ZenonT(60) DEF sets, maps, client, world, FeedInv
<1>13. ASSUME NEW max \in 1..MaxDrain, Drain(max) PROVE Goal
  BY <1>13, FeedDrain, Zenon
<1>14. CASE ImportDrained
  BY <1>14, FeedDeliver, Zenon
<1>15. CASE Clear
  BY <1>15, FeedClear, Zenon
<1> QED
  BY <1>1, <1>2, <1>3, <1>4, <1>5, <1>6, <1>7, <1>8, <1>9, <1>10, <1>11, <1>12,
     <1>13, <1>14, <1>15, ZenonT(60)
  DEF Next, SteadyNext, Sync, Tick, Verify

\* What a step can undo: a found bad block is forgotten only once it is known bad.
LEMMA WrongStays ==
  ASSUME TypeOK, OrderInv, [Next]_vars
  PROVE  (NothingWrong' => NothingWrong) /\ (clientPc' # "import" => badBlocks' = <<>>)
<1> DEFINE Goal == (NothingWrong' => NothingWrong) /\ (clientPc' # "import" => badBlocks' = <<>>)
           BadStay == m_knownBad \subseteq m_knownBad' /\ UNCHANGED <<badBlocks, abandoned>>
                      /\ (clientPc' # "import" => clientPc # "import")
<1> SUFFICES Goal
  BY Zenon
<1>1. ASSUME BadStay PROVE Goal
  BY <1>1, SMTT(30) DEF OrderInv, NothingWrong
<1>2. ASSUME NEW h, NEW isOurs, ImportNew(h, isOurs) PROVE m_knownBad \subseteq m_knownBad'
  BY <1>2, Zenon DEF ImportNew, ImportFuture, ImportBadChain, ImportUnknown, ImportReady
<1>3. ASSUME NEW h \in Hash, NEW isOurs \in BOOLEAN, Import(h, isOurs) PROVE BadStay
  BY <1>2, <1>3, Zenon DEF Import, client, world
<1>4. ASSUME NEW h \in todo, TickImport(h) PROVE BadStay
  BY <1>2, <1>4, ZenonT(60) DEF TickImport, sets, world
<1>5. ASSUME NEW v \in Verifiers, Verify(v) PROVE BadStay
  <2>1. UNCHANGED <<client, world>>
    BY <1>5, Zenon DEF Verify, Take, VerifyFail, VerifyNext, VerifyReplace, DrainVerifiedEnd,
       Notify, Exit
  <2>2. ASSUME Take(v) \/ VerifyReplace(v) \/ DrainVerifiedEnd(v) \/ Notify(v) \/ Exit(v)
        PROVE  m_knownBad \subseteq m_knownBad'
    BY <2>2, Zenon DEF Take, VerifyReplace, DrainVerifiedEnd, Notify, Exit, sets
  <2>3. ASSUME VerifyFail(v) \/ VerifyNext(v) PROVE m_knownBad \subseteq m_knownBad'
    BY <2>3, Zenon DEF VerifyFail, VerifyNext, Finish
  <2>4. m_knownBad \subseteq m_knownBad'
    BY <1>5, <2>2, <2>3, Zenon DEF Verify
  <2> QED
    BY <2>1, <2>4, Zenon DEF client, world
<1>6. ASSUME DrainVerified PROVE BadStay
  <2>1. UNCHANGED <<client, world>> /\ m_knownBad \subseteq m_knownBad'
    BY <1>6, Zenon DEF DrainVerified, Finish
  <2> QED
    BY <2>1, Zenon DEF client, world
<1>7. ASSUME UpdateBadLoop PROVE BadStay
  <2>1. CASE UpdateBadEnd
    BY <2>1, SMTT(30) DEF UpdateBadEnd, sets, world
  <2>2. CASE UpdateBad \/ BadVerified \/ BadUnverified \/ BadVerifying
    <3>1. UNCHANGED <<client, world>> /\ m_knownBad \subseteq m_knownBad'
      BY <2>2, Zenon DEF UpdateBad, BadVerified, BadUnverified, BadVerifying, Blame
    <3> QED
      BY <3>1, Zenon DEF client, world
  <2> QED
    BY <1>7, <2>1, <2>2, Zenon DEF UpdateBadLoop
<1>8. ASSUME TickCollect \/ Clock \/ Stop \/ Clear \/ UNCHANGED vars PROVE BadStay
  <2>1. CASE TickCollect
    BY <2>1, Zenon DEF TickCollect, world
  <2>2. CASE Clock \/ Stop \/ Clear \/ UNCHANGED vars
    BY <2>2, ZenonT(60) DEF Clock, Stop, Clear, vars, sets, client, world
  <2> QED
    BY <1>8, <2>1, <2>2, Zenon
<1>9. ASSUME NEW max \in 1..MaxDrain, Drain(max) PROVE Goal
  <2>1. clientPc' = "import" /\ badBlocks = <<>> /\ UNCHANGED <<m_knownBad, abandoned>>
    BY <1>9, Zenon DEF Drain, OrderInv, world
  <2> QED
    BY <2>1, Zenon DEF NothingWrong
<1>10. CASE ImportDrained
  <2>1. clientPc' = "import" /\ UNCHANGED m_knownBad
    BY <1>10, Zenon DEF ImportDrained, Rest, sets
  <2>2. Append(badBlocks, Head(blocks)) # <<>>
    BY AppendNotEmpty, Zenon DEF TypeOK, DequesOK
  <2>3. badBlocks' = badBlocks \/ badBlocks' = Append(badBlocks, Head(blocks))
    BY <1>10, Zenon DEF ImportDrained, Rest
  <2>4. abandoned \subseteq abandoned'
    BY <1>10, Zenon DEF ImportDrained, Rest
  <2> QED
    BY <2>1, <2>2, <2>3, <2>4, Zenon DEF NothingWrong
<1>11. CASE DoneDrain
  <2>1. m_knownBad' = m_knownBad \cup Range(badBlocks) /\ badBlocks' = <<>> /\ UNCHANGED abandoned
    BY <1>11, Zenon DEF DoneDrain, world
  <2>2. Range(badBlocks) = {} => badBlocks = <<>>
    <3>1. badBlocks \in Seq(Hash) /\ DOMAIN badBlocks = 1..Len(badBlocks) /\ Len(badBlocks) \in Nat
      BY LenProperties, SMTT(30) DEF TypeOK, DequesOK
    <3>2. Range(badBlocks) = {} => DOMAIN badBlocks = {}
      BY Zenon DEF Range
    <3> QED
      BY <3>1, <3>2, EmptySeq, SMTT(30)
  <2> QED
    BY <2>1, <2>2, SMTT(30) DEF NothingWrong
<1> QED
  BY <1>1, <1>3, <1>4, <1>5, <1>6, <1>7, <1>8, <1>9, <1>10, <1>11, ZenonT(60)
  DEF Next, SteadyNext, Sync, Tick

LEMMA OrderStep ==
  ASSUME TypeOK, IndexesAgree, ReadyInv, OrderInv, [Next]_vars PROVE OrderInv'
<1>1. (NothingWrong' => NothingWrong) /\ (clientPc' # "import" => badBlocks' = <<>>)
  BY WrongStays, Zenon
<1>2. NothingWrong /\ NothingWrong' => FeedInv'
  BY FeedStep, Zenon DEF OrderInv
<1> QED
  BY <1>1, <1>2, Zenon DEF OrderInv

\* Good blocks, imported when their time has come, go wrong nowhere.
LEMMA NothingGoesWrong ==
  ASSUME AllGood, TypeOK, ReadyInv, GoodInv, [Next]_vars PROVE NothingWrong'
<1> DEFINE NoMoreBad == UNCHANGED <<m_knownBad, badBlocks, abandoned>>
<1>0. m_knownBad = {} /\ badBlocks = <<>> /\ abandoned = {}
  BY DEF GoodInv, NothingWrong
<1>1. ASSUME NoMoreBad PROVE NothingWrong'
  BY <1>0, <1>1 DEF NothingWrong
<1>2. ASSUME NEW h, NEW isOurs, ImportNew(h, isOurs) PROVE UNCHANGED m_knownBad
  <2>1. Parent[h] \notin m_knownBad
    BY <1>0
  <2> QED
    BY <1>2, <2>1, Zenon DEF ImportNew, ImportFuture, ImportUnknown, ImportReady
<1>3. ASSUME NEW h \in Hash, NEW isOurs \in BOOLEAN, Import(h, isOurs) PROVE NoMoreBad
  BY <1>2, <1>3, Zenon DEF Import, client, world
<1>4. ASSUME NEW h \in todo, TickImport(h) PROVE NoMoreBad
  BY <1>2, <1>4, ZenonT(60) DEF TickImport, sets, world
<1>5. ASSUME NEW v \in Verifiers, Verify(v) PROVE NoMoreBad
  <2>1. ~VerifyFail(v)
    BY Zenon DEF VerifyFail, AllGood
  <2>2. UNCHANGED <<client, world>>
    BY <1>5, Zenon DEF Verify, Take, VerifyFail, VerifyNext, VerifyReplace, DrainVerifiedEnd,
       Notify, Exit
  <2>3. ASSUME VerifyNext(v) PROVE UNCHANGED m_knownBad
    BY <1>0, <2>3, Zenon DEF VerifyNext, Finish
  <2>4. UNCHANGED m_knownBad
    BY <1>5, <2>1, <2>3, Zenon DEF Verify, Take, VerifyReplace, DrainVerifiedEnd, Notify, Exit, sets
  <2> QED
    BY <2>2, <2>4, Zenon DEF client, world
<1>6. ASSUME DrainVerified PROVE NoMoreBad
  <2>1. UNCHANGED <<client, world, m_knownBad>>
    BY <1>0, <1>6, Zenon DEF DrainVerified, Finish
  <2> QED
    BY <2>1, Zenon DEF client, world
<1>7. ASSUME UpdateBadLoop PROVE FALSE
  <2>1. lock \in {"free", "drainVerified"}
    BY <1>0, SMTT(30) DEF ReadyInv
  <2> QED
    BY <1>7, <2>1, ZenonT(60) DEF UpdateBadLoop, UpdateBad, BadVerified, BadUnverified,
       BadVerifying, UpdateBadEnd
<1>8. ASSUME TickCollect \/ Clock \/ Stop \/ Clear \/ UNCHANGED vars PROVE NoMoreBad
  BY <1>8, ZenonT(60) DEF TickCollect, Clock, Stop, Clear, vars, sets, client, world
<1>9. ASSUME NEW max \in 1..MaxDrain, Drain(max) PROVE NoMoreBad
  BY <1>0, <1>9, Zenon DEF Drain, world
<1>10. ASSUME ImportDrained PROVE NoMoreBad
  <2> DEFINE b == Head(blocks)
  <2>1. blocks \in Seq(Hash) /\ blocks # <<>> /\ Pipeline \in Seq(Hash) /\ Feed \in Seq(Hash)
        /\ Range(Feed) = Range(blocks) \cup Range(Pipeline)
    BY <1>10, FeedParts, Zenon DEF ImportDrained
  <2>2. 1 \in DOMAIN blocks /\ blocks[1] = b /\ b \in Hash /\ Len(blocks) \in Nat \ {0}
    BY <2>1, EmptySeq, LenProperties
  <2>3. Timestamp[b] <= now /\ ~(Timestamp[b] > now)
    <3>1. b \in Range(Feed)
      <4>1. b \in Range(blocks)
        BY <2>2, Zenon DEF Range
      <4> QED
        BY <2>1, <4>1, Zenon
    <3>2. Timestamp[b] \in Nat /\ now \in Nat
      BY <2>2, HeaderAssumption DEF TypeOK
    <3> QED
      BY <3>1, <3>2 DEF GoodInv, Timely
  <2>4. Parent[b] \in m_bc
    <3>1. 1 \in DOMAIN Feed /\ Feed[1] = b /\ 1..(1 - 1) = {}
      BY <2>1, <2>2, HashConcat, SMTT(30) DEF Feed
    <3>2. Abstract!InOrder(Feed)
      BY DEF GoodInv, FeedInv
    <3> QED
      BY <3>1, <3>2, Zenon DEF Abstract!InOrder
  <2>5. Outcomes(b) \subseteq {"imported", "AlreadyHaveBlock"}
    BY <2>3, <2>4, SMTT(30) DEF Outcomes, AllGood
  <2>6. PICK o \in Outcomes(b) :
             \/ Rest(m_bc \cup {b}, badBlocks, abandoned) \/ Rest(m_bc, badBlocks, abandoned)
    <3>1. \A o \in Outcomes(b) : o \notin {"UnknownParent", "Exception", "FutureTime", "TransientError"}
      BY <2>5
    <3> QED
      BY <1>10, <3>1, Zenon DEF ImportDrained
  <2> QED
    BY <2>6, Zenon DEF Rest, sets
<1>11. ASSUME DoneDrain PROVE NoMoreBad
  <2>1. Range(<<>>) = {}
    BY SMTT(30) DEF Range
  <2>2. m_knownBad' = m_knownBad \cup Range(badBlocks) /\ badBlocks' = <<>> /\ UNCHANGED abandoned
    BY <1>11, Zenon DEF DoneDrain, world
  <2>3. {} \cup {} = {}
    OBVIOUS
  <2> QED
    BY <1>0, <2>1, <2>2, <2>3, Zenon
<1> QED
  BY <1>1, <1>3, <1>4, <1>5, <1>6, <1>7, <1>8, <1>9, <1>10, <1>11, ZenonT(60)
  DEF Next, SteadyNext, Sync, Tick

LEMMA GoodStep ==
  ASSUME AllGood, TypeOK, IndexesAgree, ReadyInv, GoodInv, [Next]_vars
  PROVE  GoodInv' /\ Moves
<1>1. NothingWrong'
  BY NothingGoesWrong, Zenon
<1>2. NothingWrong /\ FeedInv /\ Timely
  BY DEF GoodInv
<1>3. FeedInv' /\ Moves /\ Timely'
  BY <1>1, <1>2, FeedStep, Zenon
<1> QED
  BY <1>1, <1>3, Zenon DEF GoodInv

LEMMA InitFeed == Init => Feed = <<>>
<1> SUFFICES ASSUME Init PROVE Feed = <<>>
  BY SMTT(30)
<1>1. blocks = <<>> /\ m_verified = <<>> /\ m_verifying = <<>> /\ m_unverified = <<>>
  BY DEF Init
<1>2. Hashes(<<>>) = <<>>
  BY SMTT(30) DEF Hashes
<1> QED
  BY <1>1, <1>2, SMTT(30) DEF Pipeline, Feed

LEMMA InitGood == Init => GoodInv /\ OrderInv
<1> SUFFICES ASSUME Init PROVE GoodInv /\ OrderInv
  OBVIOUS
<1>1. Feed = <<>> /\ Range(<<>>) = {} /\ DOMAIN <<>> = {}
  BY InitFeed, SMTT(30) DEF Range
<1>2. Abstract!InOrder(Feed)
  BY <1>1 DEF Abstract!InOrder
<1> QED
  BY <1>1, <1>2, Zenon DEF Init, GoodInv, OrderInv, NothingWrong, FeedInv, Timely

LEMMA GoodAlways == ASSUME AllGood PROVE Spec => [](GoodInv /\ ReadyInv /\ IndexesAgree /\ TypeOK)
<1>1. TypeOK /\ IndexesAgree /\ ReadyInv /\ GoodInv /\ [Next]_vars => GoodInv'
  BY GoodStep
<1> QED
  BY <1>1, TypeCorrect, IndexesCorrect, InitReady, ReadyStep, InitGood, PTL DEF Spec

\* Where every block is good and none is sealed here, no block is ever put in
\* m_knownBad or in sync's badBlocks: for every set of blocks, every number of
\* verifiers, and whatever clear(), the clock and the verifiers do.
THEOREM GoodNeverBad == ASSUME AllGood PROVE Spec => []NeverBad
<1>1. GoodInv => NeverBad
  BY DEF GoodInv, NothingWrong, NeverBad
<1> QED
  BY <1>1, GoodAlways, PTL

\* There too, the block queue with BlockChain::sync implements ChainFeed: blocks
\* reach the chain in the order of their acceptance, parents first, none skipped.
THEOREM Refinement == ASSUME AllGood PROVE Spec => ImplementsFeed
<1>1. Init => Abstract!FeedInit
  BY InitFeed, Zenon DEF Init, Abstract!FeedInit
<1>2. TypeOK /\ IndexesAgree /\ ReadyInv /\ GoodInv /\ [Next]_vars
        => [Abstract!FeedNext]_(Abstract!feedVars)
  BY GoodStep DEF Moves, Abstract!feedVars
<1> QED
  BY <1>1, <1>2, GoodAlways, PTL DEF Spec, ImplementsFeed, Abstract!FeedSpec

\* With any blocks at all, as long as none was found bad and sync gave up on none, a
\* block's parent is in the chain or before it in what sync holds and the deques: for
\* every set of blocks and verifiers, and whatever clear() and the verifiers do.
THEOREM ParentsComeFirst == Spec => []ParentsFirst
<1>1. TypeOK /\ IndexesAgree /\ ReadyInv /\ OrderInv /\ [Next]_vars => OrderInv'
  BY OrderStep
<1>2. OrderInv => ParentsFirst
  BY Zenon DEF OrderInv, NothingWrong, FeedInv, Abstract!InOrder, Feed, ParentsFirst
<1> QED
  BY <1>1, <1>2, TypeCorrect, IndexesCorrect, InitReady, ReadyStep, InitGood, PTL DEF Spec

\* The chain has the parent of every block it has, whatever is offered to the queue
\* and in whatever order sync meets it: BlockChain::import looks the parent up.
THEOREM ChainIsClosed == Spec => []ChainClosed
<1>1. Init => ChainClosed
  BY Zenon DEF Init, ChainClosed
<1>2. ASSUME ChainClosed, [Next]_vars PROVE ChainClosed'
  <2>1. ASSUME UNCHANGED m_bc PROVE ChainClosed'
    BY <1>2, <2>1 DEF ChainClosed
  <2>2. CASE ImportDrained
    <3>1. m_bc' = m_bc \/ (m_bc' = m_bc \cup {Head(blocks)} /\ Parent[Head(blocks)] \in m_bc)
      BY <2>2, Zenon DEF ImportDrained, Rest, Outcomes
    <3> QED
      BY <1>2, <3>1, Zenon DEF ChainClosed
  <2>3. ASSUME NEW v \in Verifiers, Verify(v) PROVE UNCHANGED m_bc
    BY <2>3, Zenon DEF Verify, Take, VerifyFail, VerifyNext, VerifyReplace, DrainVerifiedEnd,
       Notify, Exit, world
  <2>4. ASSUME DrainVerified \/ UpdateBadLoop \/ Clear \/ Clock \/ Stop \/ UNCHANGED vars
        PROVE  UNCHANGED m_bc
    BY <2>4, Zenon DEF DrainVerified, UpdateBadLoop, UpdateBad, BadVerified, BadUnverified,
       BadVerifying, UpdateBadEnd, Clear, Clock, Stop, world, vars
  <2>5. ASSUME NEW h, NEW isOurs, Import(h, isOurs) \/ TickImport(h) PROVE UNCHANGED m_bc
    BY <2>5, Zenon DEF Import, TickImport, world
  <2>6. ASSUME NEW max, Drain(max) \/ DoneDrain \/ TickCollect PROVE UNCHANGED m_bc
    BY <2>6, Zenon DEF Drain, DoneDrain, TickCollect, world
  <2> QED
    BY <1>2, <2>1, <2>2, <2>3, <2>4, <2>5, <2>6, Zenon DEF Next, SteadyNext, Sync, Tick
<1>3. ChainClosed /\ [Next]_vars => ChainClosed'
  BY <1>2
<1> QED
  BY <1>1, <1>3, PTL DEF Spec

-----------------------------------------------------------------------------
(* The front of m_verifying. *)

\* The inductive invariant behind NoFinishedFront.
FrontInv == m_knownBad = {} => NoFinishedFront

LEMMA FrontStep == TypeOK /\ DequesOK' /\ ReadyInv /\ FrontInv /\ [Next]_vars => FrontInv'
<1> SUFFICES ASSUME TypeOK, DequesOK', ReadyInv, FrontInv, [Next]_vars, m_knownBad' = {},
                    lock' = "free"
             PROVE  ~FrontDone'
  BY DEF FrontInv, NoFinishedFront
<1>1. ASSUME UNCHANGED <<m_knownBad, m_verifying>>, lock = "free" PROVE ~FrontDone'
  BY <1>1, Zenon DEF FrontInv, NoFinishedFront, FrontDone
<1>2. ASSUME NEW h, NEW isOurs, ImportNew(h, isOurs), lock = "free" PROVE ~FrontDone'
  <2>1. CASE ImportBadChain(h)
    BY <2>1, Zenon DEF ImportBadChain
  <2>2. CASE ImportFuture(h) \/ ImportUnknown(h) \/ ImportReady(h)
    <3>1. UNCHANGED <<m_knownBad, m_verifying>>
      BY <2>2, Zenon DEF ImportFuture, ImportUnknown, ImportReady, deques
    <3> QED
      BY <1>1, <1>2, <3>1
  <2> QED
    BY <1>2, <2>1, <2>2, Zenon DEF ImportNew
<1>3. ASSUME NEW h \in Hash, NEW isOurs \in BOOLEAN, Import(h, isOurs) PROVE ~FrontDone'
  BY <1>2, <1>3, Zenon DEF Import
<1>4. ASSUME NEW h \in todo, TickImport(h) PROVE ~FrontDone'
  <2>1. lock = "free"
    BY <1>4, Zenon DEF TickImport
  <2>2. CASE Queued(h) \/ h \in m_bc
    <3>1. UNCHANGED <<m_knownBad, m_verifying>>
      BY <1>4, <2>2, Zenon DEF TickImport, sets, deques
    <3> QED
      BY <1>1, <2>1, <3>1
  <2>3. CASE ~(Queued(h) \/ h \in m_bc)
    BY <1>2, <1>4, <2>1, <2>3, Zenon DEF TickImport
  <2> QED
    BY <2>2, <2>3
<1>5. ASSUME NEW v \in Verifiers, Take(v) PROVE ~FrontDone'
  <2> DEFINE q == m_verifying
             e == [hash |-> Head(m_unverified), done |-> FALSE]
  <2>1. m_verifying' = Append(q, e) /\ UNCHANGED <<m_knownBad, lock>>
    BY <1>5, Zenon DEF Take, sets, section
  <2>2. q \in Seq(Entry) /\ e.done = FALSE
    BY Zenon DEF TypeOK, DequesOK
  <2>3. q = <<>> \/ ~Head(q).done
    BY <2>1, Zenon DEF FrontInv, NoFinishedFront, FrontDone
  <2> HIDE DEF q, e
  <2>4. ~Head(Append(q, e)).done
    <3>1. CASE q = <<>>
      BY <2>2, <3>1
    <3>2. CASE q # <<>>
      <4>1. Head(Append(q, e)) = Head(q)
        BY <2>2, <3>2
      <4> QED
        BY <2>3, <3>2, <4>1
    <3> QED
      BY <3>1, <3>2
  <2> QED
    BY <2>1, <2>4, Zenon DEF FrontDone
<1>6. ASSUME NEW v \in Verifiers, VerifyReplace(v) PROVE ~FrontDone'
  <2> DEFINE q == m_verifying
             mine == {i \in DOMAIN m_verifying : Sha3Uncles(m_verifying[i]) = work[v]}
             r == [i \in DOMAIN m_verifying |->
                     IF i \in mine /\ \A j \in mine : i <= j
                     THEN [m_verifying[i] EXCEPT !.done = TRUE] ELSE m_verifying[i]]
  <2>1. m_verifying' = r /\ 1 \notin mine /\ UNCHANGED <<m_knownBad, lock>>
    BY <1>6, Zenon DEF VerifyReplace, sets, section
  <2>2. q \in Seq(Entry)
    BY DEF TypeOK, DequesOK
  <2>3. q = <<>> \/ ~Head(q).done
    BY <2>1, Zenon DEF FrontInv, NoFinishedFront, FrontDone
  <2>4. CASE q = <<>>
    <3>1. r = <<>>
      BY <2>4
    <3> QED
      BY <2>1, <3>1, Zenon DEF FrontDone
  <2>5. CASE q # <<>>
    <3>1. 1 \in DOMAIN q /\ Head(q) = q[1]
      BY <2>2, <2>5
    <3>2. r[1] = q[1]
      BY <2>1, <3>1
    <3>3. Head(r) = r[1]
      <4>1. r \in Seq(Entry) /\ DOMAIN r = DOMAIN q
        BY <2>1, Zenon DEF DequesOK
      <4> HIDE DEF r
      <4> QED
        BY <3>1, <4>1
    <3> HIDE DEF r, mine
    <3> QED
      BY <2>1, <2>3, <2>5, <3>1, <3>2, <3>3, Zenon DEF FrontDone
  <2> QED
    BY <2>4, <2>5
<1>7. ASSUME NEW v \in Verifiers, VerifyFail(v) PROVE FALSE
  BY <1>7, Zenon DEF VerifyFail
<1>8. ASSUME NEW v \in Verifiers, VerifyNext(v) PROVE FALSE
  BY <1>8, Zenon DEF VerifyNext
<1>9. ASSUME NEW v \in Verifiers, DrainVerifiedEnd(v) PROVE ~FrontDone'
  BY <1>9, Zenon DEF DrainVerifiedEnd, FrontDone, deques
<1>10. ASSUME NEW v \in Verifiers, Notify(v) \/ Exit(v) PROVE ~FrontDone'
  <2>1. UNCHANGED <<m_knownBad, m_verifying, lock>>
    BY <1>10, Zenon DEF Notify, Exit, sets, deques, section
  <2> QED
    BY <1>1, <2>1
<1>11. CASE DrainVerified
  BY <1>11, Zenon DEF DrainVerified, section
<1>12. CASE UpdateBadLoop
  <2>1. m_knownBad = {}
    BY <1>12, Zenon DEF UpdateBadLoop, UpdateBad, BadVerified, BadUnverified, BadVerifying,
       UpdateBadEnd, Blame, sets
  <2> QED
    BY <1>12, <2>1, Zenon DEF ReadyInv, UpdateBadLoop, UpdateBad, BadVerified, BadUnverified,
       BadVerifying, UpdateBadEnd
<1>13. ASSUME NEW max \in 1..MaxDrain, Drain(max) PROVE ~FrontDone'
  <2>1. UNCHANGED <<m_knownBad, m_verifying, lock>>
    BY <1>13, Zenon DEF Drain, section
  <2> QED
    BY <1>1, <2>1
<1>14. CASE ImportDrained \/ TickCollect \/ Clock \/ Stop \/ UNCHANGED vars
  <2>1. UNCHANGED <<m_knownBad, m_verifying, lock>>
    BY <1>14, Zenon DEF ImportDrained, Rest, TickCollect, Clock, Stop, vars, sets, deques,
       section
  <2> QED
    BY <1>1, <2>1
<1>15. CASE DoneDrain
  <2>1. m_knownBad = {} /\ lock = "free" /\ m_verifying' = m_verifying
    BY <1>15, Zenon DEF DoneDrain, deques
  <2> QED
    BY <1>1, <2>1
<1>16. CASE Clear
  BY <1>16, Zenon DEF Clear, FrontDone
<1> QED
  BY <1>3, <1>4, <1>5, <1>6, <1>7, <1>8, <1>9, <1>10, <1>11, <1>12, <1>13, <1>14, <1>15, <1>16,
     Zenon DEF Next, SteadyNext, Sync, Tick, Verify

LEMMA InitFront == Init => FrontInv
BY Zenon DEF Init, FrontInv, NoFinishedFront, FrontDone

\* A verifier that finishes out of turn never leaves its block stuck at the front of
\* m_verifying: as long as no block is known to be bad, and so always where all are good,
\* the front is still being verified whenever m_lock is free.
THEOREM FrontUnfinished == ASSUME AllGood PROVE Spec => []NoFinishedFront
<1>1. NeverBad => m_knownBad = {}
  BY DEF NeverBad
<1>2. FrontInv /\ m_knownBad = {} => NoFinishedFront
  BY DEF FrontInv
<1>3. TypeOK => DequesOK
  BY DEF TypeOK
<1> QED
  BY <1>1, <1>2, <1>3, TypeCorrect, IndexesCorrect, InitReady, ReadyStep, InitFront, FrontStep,
     GoodNeverBad, PTL DEF Spec

-----------------------------------------------------------------------------
(* m_difficulty. *)

\* The inductive invariant behind NoDifficultyUnderflow: m_difficulty counts at least
\* what is being drained, the three deques and the blocks that wait for a parent.
DifficultyInv ==
  /\ m_difficulty \in Int /\ m_drainingDifficulty \in Nat
  /\ m_drainingDifficulty + SeqSum(Difficulty, Pipeline) + SumDifficulty(m_unknown) <= m_difficulty

\* Difficulty weighs the blocks: its sums obey the laws of Sums.
Weighted == Weighs(Hash, Difficulty)

LEMMA HashWorth == ASSUME Weighted, NEW s \in Seq(Hash) PROVE SeqSum(Difficulty, s) \in Nat
  BY Zenon DEF Weighted, Weighs

LEMMA SetWorth == ASSUME Weighted, NEW T \in SUBSET Hash PROVE SumDifficulty(T) \in Nat
  BY Zenon DEF Weighted, Weighs, SumDifficulty

LEMMA NoWorth == ASSUME Weighted PROVE SumDifficulty({}) = 0 /\ SeqSum(Difficulty, <<>>) = 0
  BY Zenon DEF Weighted, Weighs, SumDifficulty

LEMMA UnionWorth ==
  ASSUME Weighted, NEW T \in SUBSET Hash, NEW W \in SUBSET Hash, T \cap W = {}
  PROVE  SumDifficulty(T \cup W) = SumDifficulty(T) + SumDifficulty(W)
  BY Zenon DEF Weighted, Weighs, SumDifficulty

LEMMA SubsetWorth ==
  ASSUME Weighted, NEW T \in SUBSET Hash, NEW W \in SUBSET T
  PROVE  SumDifficulty(W) <= SumDifficulty(T)
<1> DEFINE V == T \ W
<1>1. W \in SUBSET Hash /\ V \in SUBSET Hash /\ W \cap V = {} /\ W \cup V = T
  OBVIOUS
<1> HIDE DEF V
<1>2. SumDifficulty(W \cup V) = SumDifficulty(W) + SumDifficulty(V)
  BY <1>1, UnionWorth
<1>3. SumDifficulty(W) \in Nat /\ SumDifficulty(V) \in Nat
  BY <1>1, SetWorth
<1>4. SumDifficulty(T) = SumDifficulty(W) + SumDifficulty(V)
  BY <1>1, <1>2, Zenon
<1> QED
  BY <1>3, <1>4

LEMMA RangeWorth ==
  ASSUME Weighted, NEW s \in Seq(Hash)
  PROVE  /\ SumDifficulty(Range(s)) <= SeqSum(Difficulty, s)
         /\ IsInjective(s) => SumDifficulty(Range(s)) = SeqSum(Difficulty, s)
  BY Zenon DEF Weighted, Weighs, SumDifficulty

LEMMA ConcatWorth ==
  ASSUME Weighted, NEW s \in Seq(Hash), NEW t \in Seq(Hash)
  PROVE  SeqSum(Difficulty, s \o t) = SeqSum(Difficulty, s) + SeqSum(Difficulty, t)
  BY Zenon DEF Weighted, Weighs

LEMMA SingleWorth ==
  ASSUME Weighted, NEW h \in Hash
  PROVE  SeqSum(Difficulty, <<h>>) = Difficulty[h] /\ SumDifficulty({h}) = Difficulty[h]
  BY Zenon DEF Weighted, Weighs, SumDifficulty

LEMMA PipelineWorth ==
  ASSUME Weighted, NEW a \in Seq(Hash), NEW b \in Seq(Hash), NEW c \in Seq(Hash)
  PROVE  SeqSum(Difficulty, a \o b \o c)
           = SeqSum(Difficulty, a) + SeqSum(Difficulty, b) + SeqSum(Difficulty, c)
<1>1. a \o b \in Seq(Hash)
  OBVIOUS
<1> QED
  BY <1>1, ConcatWorth, Zenon

\* removeIf: what is left of a deque is worth no more.
LEMMA KeptWorth ==
  ASSUME Weighted, NEW q \in Seq(Hash), NEW I \in SUBSET DOMAIN q, NEW f \in Enumerations(I)
  PROVE  SeqSum(Difficulty, [i \in DOMAIN f |-> q[f[i]]]) <= SeqSum(Difficulty, q)
<1> DEFINE s == [i \in DOMAIN f |-> q[f[i]]]
           n == Len(s)
<1>1. s \in Seq(Hash) /\ DOMAIN s = DOMAIN f
  BY KeptIsSeq, Zenon
<1>2. n \in Nat /\ DOMAIN f = 1..n
  BY <1>1, LenProperties, Zenon
<1>3. \A i \in DOMAIN f : f[i] \in DOMAIN q
  BY EnumerationOf, Zenon
<1>4. \A i, j \in DOMAIN f : f[i] = f[j] => i = j
  <2>1. \A i, j \in DOMAIN f : (i < j => f[i] < f[j]) /\ f[i] \in Nat
    <3>1. \A i \in DOMAIN f : f[i] \in Nat
      BY <1>3, LenProperties
    <3> QED
      BY <3>1, Zenon DEF Enumerations
  <2> QED
    BY <1>2, <2>1
<1>5. IsInjective(f) /\ f \in [1..n -> DOMAIN q] /\ s = [i \in 1..n |-> q[f[i]]]
  BY <1>2, <1>3, <1>4, EnumerationOf DEF IsInjective
<1> HIDE DEF n
<1>6. SeqSum(Difficulty, [i \in 1..n |-> q[f[i]]]) <= SeqSum(Difficulty, q)
  BY <1>2, <1>5, Zenon DEF Weighted, Weighs
<1> QED
  BY <1>5, <1>6, Zenon

\* removeIf on m_verifying.
LEMMA KeptEntries ==
  ASSUME Weighted, NEW q \in Seq(Entry), NEW I \in SUBSET DOMAIN q, NEW f \in Enumerations(I)
  PROVE  SeqSum(Difficulty, Hashes([i \in DOMAIN f |-> q[f[i]]])) <= SeqSum(Difficulty, Hashes(q))
<1>1. Hashes(q) \in Seq(Hash) /\ DOMAIN Hashes(q) = DOMAIN q
  BY HashesIsSeq DEF Hashes
<1>2. \A i \in DOMAIN f : f[i] \in DOMAIN q
  BY EnumerationOf, Zenon
<1>3. Hashes([i \in DOMAIN f |-> q[f[i]]]) = [i \in DOMAIN f |-> Hashes(q)[f[i]]]
  BY <1>2, Zenon DEF Hashes
<1>4. SeqSum(Difficulty, [i \in DOMAIN f |-> Hashes(q)[f[i]]]) <= SeqSum(Difficulty, Hashes(q))
  <2> DEFINE r == Hashes(q)
  <2>1. r \in Seq(Hash) /\ I \in SUBSET DOMAIN r
    BY <1>1, Zenon
  <2> HIDE DEF r
  <2>2. SeqSum(Difficulty, [i \in DOMAIN f |-> r[f[i]]]) <= SeqSum(Difficulty, r)
    BY <2>1, KeptWorth, Zenon
  <2> QED
    BY <2>2, Zenon DEF r
<1> QED
  BY <1>3, <1>4

\* A step that counts nothing and at most drops blocks.
LEMMA DifficultyKept ==
  ASSUME Weighted, TypeOK, DifficultyInv, UNCHANGED <<m_difficulty, m_drainingDifficulty>>,
         m_unknown' \subseteq m_unknown, Pipeline' \in Seq(Hash),
         SeqSum(Difficulty, Pipeline') <= SeqSum(Difficulty, Pipeline)
  PROVE  DifficultyInv'
<1> DEFINE w == SeqSum(Difficulty, Pipeline)
           x == SeqSum(Difficulty, Pipeline')
           k == SumDifficulty(m_unknown)
           l == SumDifficulty(m_unknown')
<1>1. Pipeline \in Seq(Hash) /\ m_unknown \in SUBSET Hash /\ m_unknown' \in SUBSET m_unknown
      /\ m_unknown' \in SUBSET Hash
  BY PipelineIsSeq, Zenon DEF TypeOK, SetsOK
<1>2. w \in Nat /\ x \in Nat
  BY <1>1, HashWorth
<1>3. k \in Nat /\ l \in Nat /\ l <= k
  BY <1>1, SetWorth, SubsetWorth, Zenon
<1>4. m_difficulty \in Int /\ m_drainingDifficulty \in Nat /\ m_drainingDifficulty + w + k <= m_difficulty
  BY DEF DifficultyInv
<1>5. m_drainingDifficulty + x + l <= m_difficulty
  <2>1. x <= w
    OBVIOUS
  <2> HIDE DEF w, x, k, l
  <2> QED
    BY <1>2, <1>3, <1>4, <2>1
<1>6. SumDifficulty(m_unknown)' = l /\ SeqSum(Difficulty, Pipeline)' = x
  BY Zenon DEF SumDifficulty
<1> QED
  BY <1>4, <1>5, <1>6, ZenonT(60) DEF DifficultyInv

LEMMA PipelineShrinks ==
  ASSUME Weighted, TypeOK, DequesOK',
         SeqSum(Difficulty, m_verified') <= SeqSum(Difficulty, m_verified),
         SeqSum(Difficulty, Hashes(m_verifying')) <= SeqSum(Difficulty, Hashes(m_verifying)),
         SeqSum(Difficulty, m_unverified') <= SeqSum(Difficulty, m_unverified)
  PROVE  /\ Pipeline' \in Seq(Hash)
         /\ SeqSum(Difficulty, Pipeline') <= SeqSum(Difficulty, Pipeline)
<1> DEFINE a == m_verified
           b == Hashes(m_verifying)
           c == m_unverified
           d == m_verified'
           e == Hashes(m_verifying')
           g == m_unverified'
<1>1. a \in Seq(Hash) /\ b \in Seq(Hash) /\ c \in Seq(Hash)
  BY PipelineIsSeq, Zenon DEF TypeOK, DequesOK
<1>2. d \in Seq(Hash) /\ m_verifying' \in Seq(Entry) /\ g \in Seq(Hash)
  BY DEF DequesOK
<1>3. e \in Seq(Hash)
  BY <1>2, HashesIsSeq, Zenon
<1>4. Pipeline = a \o b \o c /\ Pipeline' = d \o e \o g
  BY Zenon DEF Pipeline, Hashes
<1>5. SeqSum(Difficulty, d) <= SeqSum(Difficulty, a)
      /\ SeqSum(Difficulty, e) <= SeqSum(Difficulty, b)
      /\ SeqSum(Difficulty, g) <= SeqSum(Difficulty, c)
  BY Zenon
<1> HIDE DEF a, b, c, d, e, g
<1>6. SeqSum(Difficulty, a \o b \o c)
        = SeqSum(Difficulty, a) + SeqSum(Difficulty, b) + SeqSum(Difficulty, c)
  BY <1>1, PipelineWorth, Zenon
<1>7. SeqSum(Difficulty, d \o e \o g)
        = SeqSum(Difficulty, d) + SeqSum(Difficulty, e) + SeqSum(Difficulty, g)
  BY <1>2, <1>3, PipelineWorth, ZenonT(60)
<1>8. /\ SeqSum(Difficulty, a) \in Nat /\ SeqSum(Difficulty, b) \in Nat
      /\ SeqSum(Difficulty, c) \in Nat /\ SeqSum(Difficulty, d) \in Nat
      /\ SeqSum(Difficulty, e) \in Nat /\ SeqSum(Difficulty, g) \in Nat
  BY <1>1, <1>2, <1>3, HashWorth, ZenonT(60)
<1>9. SeqSum(Difficulty, d \o e \o g) <= SeqSum(Difficulty, a \o b \o c)
  BY <1>5, <1>6, <1>7, <1>8
<1>10. d \o e \o g \in Seq(Hash)
  BY <1>2, <1>3
<1> QED
  BY <1>4, <1>9, <1>10, Zenon

LEMMA SameWorth ==
  ASSUME Weighted, TypeOK, DifficultyInv, UNCHANGED <<m_difficulty, m_drainingDifficulty, m_unknown>>,
         Pipeline' = Pipeline
  PROVE  DifficultyInv'
BY DEF DifficultyInv, SumDifficulty

\* import counts a block where it puts it.
LEMMA ImportDifficulty ==
  ASSUME Weighted, TypeOK, IndexesAgree, DifficultyInv, NEW h \in Hash, ~Queued(h), NEW isOurs,
         ImportNew(h, isOurs)
  PROVE  DifficultyInv'
<1> DEFINE d == m_difficulty
           n == m_drainingDifficulty
           w == SeqSum(Difficulty, Pipeline)
           k == SumDifficulty(m_unknown)
           x == Difficulty[h]
<1>1. Pipeline \in Seq(Hash) /\ m_unknown \in SUBSET Hash /\ h \notin m_unknown
  BY PipelineIsSeq, Zenon DEF TypeOK, SetsOK, IndexesAgree, Queued
<1>2. w \in Nat /\ k \in Nat /\ x \in Nat
  BY <1>1, HashWorth, SetWorth, HeaderAssumption, ZenonT(60)
<1>3. d \in Int /\ n \in Nat /\ n + w + k <= d
  BY Zenon DEF DifficultyInv
<1>4. CASE ImportFuture(h)
  <2>1. Pipeline' = Pipeline /\ m_unknown' = m_unknown /\ m_difficulty' = d + x
        /\ m_drainingDifficulty' = n
    BY <1>4, Zenon DEF ImportFuture, Count, deques, Pipeline, Hashes
  <2>2. SeqSum(Difficulty, Pipeline)' = w /\ SumDifficulty(m_unknown)' = k
    BY <2>1 DEF SumDifficulty
  <2> HIDE DEF w, k, x
  <2>3. d + x \in Int /\ n + w + k <= d + x
    BY <1>2, <1>3
  <2> QED
    BY <1>3, <2>1, <2>2, <2>3, Zenon DEF DifficultyInv
<1>5. CASE ImportBadChain(h)
  <2>1. Pipeline' = Pipeline /\ m_unknown' = m_unknown
        /\ UNCHANGED <<m_difficulty, m_drainingDifficulty>>
    BY <1>5, Zenon DEF ImportBadChain, deques, accounts, maps, Pipeline, Hashes
  <2> QED
    BY <2>1, SameWorth
<1>6. CASE ImportUnknown(h)
  <2>1. Pipeline' = Pipeline /\ m_unknown' = m_unknown \cup {h} /\ m_difficulty' = d + x
        /\ m_drainingDifficulty' = n
    BY <1>6, Zenon DEF ImportUnknown, Count, deques, Pipeline, Hashes
  <2>2. SumDifficulty(m_unknown \cup {h}) = k + x
    <3>1. m_unknown \cap {h} = {} /\ {h} \in SUBSET Hash
      BY <1>1
    <3> QED
      BY <1>1, <3>1, UnionWorth, SingleWorth, ZenonT(60)
  <2>3. SeqSum(Difficulty, Pipeline)' = w /\ SumDifficulty(m_unknown)' = k + x
    BY <2>1, <2>2, Zenon DEF SumDifficulty
  <2> HIDE DEF w, k, x
  <2>4. d + x \in Int /\ n + w + (k + x) <= d + x
    BY <1>2, <1>3
  <2> QED
    BY <1>3, <2>1, <2>3, <2>4, Zenon DEF DifficultyInv
<1>7. CASE ImportReady(h)
  <2>1. PICK s \in ReleaseOrders(h, UnknownDescendants({h})) :
           /\ s \in Seq(Hash) /\ IsInjective(s)
           /\ Range(s) \subseteq m_unknown /\ h \notin Range(s)
           /\ Pipeline' = Pipeline \o (<<h>> \o s)
           /\ m_readySet' = m_readySet \cup {h} \cup Range(s)
    BY <1>7, ReadyPipeline, Zenon
  <2> DEFINE r == Range(s)
             y == SeqSum(Difficulty, s)
             l == SumDifficulty(m_unknown \ r)
  <2>2. UnknownDescendants({h}) = r
    BY <1>1, DescendantsUnknown, ReleaseIsSeq, Zenon
  <2>3. m_unknown' = m_unknown \ r /\ m_difficulty' = d + x /\ m_drainingDifficulty' = n
    BY <1>7, <2>2, Zenon DEF ImportReady, NoteReady, Count
  <2>4. y = SumDifficulty(r) /\ y \in Nat
    BY <2>1, RangeWorth, HashWorth, Zenon
  <2>5. k = l + SumDifficulty(r) /\ l \in Nat
    <3> DEFINE S == m_unknown \ r
    <3>1. S \cap r = {} /\ S \cup r = m_unknown /\ S \in SUBSET Hash
      BY <1>1, <2>1, Zenon
    <3>2. r \in SUBSET Hash
      BY <1>1, <2>1, Zenon
    <3> HIDE DEF S, r
    <3>3. SumDifficulty(S \cup r) = SumDifficulty(S) + SumDifficulty(r)
      BY <3>1, <3>2, UnionWorth, Zenon
    <3>4. SumDifficulty(S) \in Nat
      BY <3>1, SetWorth, Zenon
    <3> QED
      BY <3>1, <3>3, <3>4, Zenon DEF S
  <2>6. SeqSum(Difficulty, Pipeline') = w + (x + y)
    <3>1. <<h>> \in Seq(Hash) /\ <<h>> \o s \in Seq(Hash)
      BY <2>1
    <3>2. SeqSum(Difficulty, <<h>> \o s) = SeqSum(Difficulty, <<h>>) + y
      BY <2>1, <3>1, ConcatWorth, Zenon
    <3>3. SeqSum(Difficulty, Pipeline \o (<<h>> \o s)) = w + SeqSum(Difficulty, <<h>> \o s)
      BY <1>1, <3>1, ConcatWorth, Zenon
    <3> QED
      BY <2>1, <3>2, <3>3, SingleWorth, Zenon
  <2>7. SumDifficulty(m_unknown)' = l /\ SeqSum(Difficulty, Pipeline)' = w + (x + y)
    BY <2>3, <2>6, Zenon DEF SumDifficulty
  <2> HIDE DEF w, k, x, y, l
  <2>8. d + x \in Int /\ n + (w + (x + y)) + l <= d + x
    BY <1>2, <1>3, <2>4, <2>5
  <2> QED
    BY <1>3, <2>3, <2>7, <2>8, Zenon DEF DifficultyInv
<1> QED
  BY <1>4, <1>5, <1>6, <1>7, Zenon DEF ImportNew

LEMMA FinishDifficulty ==
  ASSUME Weighted, TypeOK, DequesOK', DifficultyInv, m_verifying # <<>>, Finish(Head(m_verifying).hash),
         UNCHANGED <<m_unverified, m_unknown, m_difficulty, m_drainingDifficulty>>
  PROVE  DifficultyInv'
<1>1. CASE Parent[Head(m_verifying).hash] \notin m_knownBad
  <2>1. Pipeline' = Pipeline
    BY <1>1, FinishPipeline, Zenon
  <2> QED
    BY <2>1, SameWorth
<1>2. CASE Parent[Head(m_verifying).hash] \in m_knownBad
  <2> DEFINE q == m_verifying
             t == Hashes(Tail(q))
  <2>1. m_verified' = m_verified /\ m_verifying' = Tail(q) /\ m_unverified' = m_unverified
        /\ m_unknown' = m_unknown
    BY <1>2, Zenon DEF Finish
  <2>2. q \in Seq(Entry) /\ q # <<>>
    BY DEF TypeOK, DequesOK
  <2>3. Head(q).hash \in Hash /\ Tail(q) \in Seq(Entry) /\ Hashes(q) = <<Head(q).hash>> \o t
    <3> HIDE DEF q
    <3>1. Head(q).hash \in Hash /\ Tail(q) \in Seq(Entry)
      BY <2>2, FrontOfVerifying, Zenon
    <3>2. Hashes(q) = <<Head(q).hash>> \o t
      BY <2>2, HashesFront, Zenon
    <3> QED
      BY <3>1, <3>2, Zenon
  <2>4. t \in Seq(Hash) /\ <<Head(q).hash>> \in Seq(Hash)
    <3>1. Hashes(Tail(q)) \in Seq(Hash)
      BY <2>3, HashesIsSeq, Zenon
    <3> QED
      BY <2>3, <3>1
  <2>5. SeqSum(Difficulty, Hashes(q)) = SeqSum(Difficulty, <<Head(q).hash>>) + SeqSum(Difficulty, t)
    BY <2>3, <2>4, ConcatWorth, Zenon
  <2>6. SeqSum(Difficulty, <<Head(q).hash>>) \in Nat /\ SeqSum(Difficulty, t) \in Nat
    BY <2>4, HashWorth, Zenon
  <2>7. SeqSum(Difficulty, t) <= SeqSum(Difficulty, Hashes(q))
    BY <2>5, <2>6
  <2>8. m_verified \in Seq(Hash) /\ m_unverified \in Seq(Hash)
    BY Zenon DEF TypeOK, DequesOK
  <2>9. SeqSum(Difficulty, m_verified) \in Nat /\ SeqSum(Difficulty, m_unverified) \in Nat
    BY <2>8, HashWorth
  <2>10. /\ SeqSum(Difficulty, m_verified') <= SeqSum(Difficulty, m_verified)
         /\ SeqSum(Difficulty, Hashes(m_verifying')) <= SeqSum(Difficulty, Hashes(m_verifying))
         /\ SeqSum(Difficulty, m_unverified') <= SeqSum(Difficulty, m_unverified)
    BY <2>1, <2>7, <2>9
  <2>11. Pipeline' \in Seq(Hash) /\ SeqSum(Difficulty, Pipeline') <= SeqSum(Difficulty, Pipeline)
    BY <2>10, PipelineShrinks, Zenon
  <2> QED
    BY <2>1, <2>11, DifficultyKept, Zenon
<1> QED
  BY <1>1, <1>2, Zenon

\* A removeIf of one deque, with the waiting blocks it takes along.
LEMMA RemoveDifficulty ==
  ASSUME Weighted, TypeOK, DequesOK', DifficultyInv, m_unknown' \subseteq m_unknown,
         UNCHANGED <<m_difficulty, m_drainingDifficulty>>,
         \/ /\ UNCHANGED <<m_verifying, m_unverified>>
            /\ \E I \in SUBSET DOMAIN m_verified : \E f \in Enumerations(I) :
                  m_verified' = [i \in DOMAIN f |-> m_verified[f[i]]]
         \/ /\ UNCHANGED <<m_verifying, m_verified>>
            /\ \E I \in SUBSET DOMAIN m_unverified : \E f \in Enumerations(I) :
                  m_unverified' = [i \in DOMAIN f |-> m_unverified[f[i]]]
         \/ /\ UNCHANGED <<m_verified, m_unverified>>
            /\ \E I \in SUBSET DOMAIN m_verifying : \E f \in Enumerations(I) :
                  m_verifying' = [i \in DOMAIN f |-> m_verifying[f[i]]]
  PROVE  DifficultyInv'
<1>1. m_verified \in Seq(Hash) /\ m_verifying \in Seq(Entry) /\ m_unverified \in Seq(Hash)
      /\ Hashes(m_verifying) \in Seq(Hash)
  BY PipelineIsSeq, Zenon DEF TypeOK, DequesOK
<1>2. /\ SeqSum(Difficulty, m_verified) <= SeqSum(Difficulty, m_verified)
      /\ SeqSum(Difficulty, Hashes(m_verifying)) <= SeqSum(Difficulty, Hashes(m_verifying))
      /\ SeqSum(Difficulty, m_unverified) <= SeqSum(Difficulty, m_unverified)
  <2>1. /\ SeqSum(Difficulty, m_verified) \in Nat /\ SeqSum(Difficulty, m_unverified) \in Nat
        /\ SeqSum(Difficulty, Hashes(m_verifying)) \in Nat
    BY <1>1, HashWorth, Zenon
  <2> QED
    BY <2>1
<1>3. /\ SeqSum(Difficulty, m_verified') <= SeqSum(Difficulty, m_verified)
      /\ SeqSum(Difficulty, Hashes(m_verifying')) <= SeqSum(Difficulty, Hashes(m_verifying))
      /\ SeqSum(Difficulty, m_unverified') <= SeqSum(Difficulty, m_unverified)
  <2>1. CASE /\ UNCHANGED <<m_verifying, m_unverified>>
             /\ \E I \in SUBSET DOMAIN m_verified : \E f \in Enumerations(I) :
                  m_verified' = [i \in DOMAIN f |-> m_verified[f[i]]]
    BY <1>1, <1>2, <2>1, KeptWorth, Zenon
  <2>2. CASE /\ UNCHANGED <<m_verifying, m_verified>>
             /\ \E I \in SUBSET DOMAIN m_unverified : \E f \in Enumerations(I) :
                  m_unverified' = [i \in DOMAIN f |-> m_unverified[f[i]]]
    BY <1>1, <1>2, <2>2, KeptWorth, Zenon
  <2>3. CASE /\ UNCHANGED <<m_verified, m_unverified>>
             /\ \E I \in SUBSET DOMAIN m_verifying : \E f \in Enumerations(I) :
                  m_verifying' = [i \in DOMAIN f |-> m_verifying[f[i]]]
    BY <1>1, <1>2, <2>3, KeptEntries, Zenon
  <2> QED
    BY <2>1, <2>2, <2>3, Zenon
<1>4. Pipeline' \in Seq(Hash) /\ SeqSum(Difficulty, Pipeline') <= SeqSum(Difficulty, Pipeline)
  BY <1>3, PipelineShrinks, Zenon
<1> QED
  BY <1>4, DifficultyKept, Zenon

\* drain takes a prefix of the pipeline and counts it, each block once.
LEMMA DrainDifficulty ==
  ASSUME Weighted, TypeOK, DifficultyInv, NEW max \in 1..MaxDrain, Drain(max)
  PROVE  DifficultyInv'
<1> DEFINE d == m_difficulty
           n == m_drainingDifficulty
           w == SeqSum(Difficulty, Pipeline')
           x == SeqSum(Difficulty, blocks')
           k == SumDifficulty(m_unknown)
           r == SumDifficulty(Range(blocks'))
           o == SeqSum(Difficulty, Pipeline)
<1>1. blocks' \in Seq(Hash) /\ Pipeline' \in Seq(Hash) /\ Pipeline = blocks' \o Pipeline'
  BY DrainPipeline
<1>2. o = x + w /\ w \in Nat /\ x \in Nat
  BY <1>1, ConcatWorth, HashWorth, Zenon
<1>3. k \in Nat
  BY SetWorth DEF TypeOK, SetsOK
<1>4. r <= x /\ r \in Nat
  <2>1. Range(blocks') \in SUBSET Hash
    BY <1>1 DEF Range
  <2> QED
    BY <1>1, <2>1, RangeWorth, SetWorth, Zenon
<1>5. m_difficulty' = d /\ m_unknown' = m_unknown
      /\ (m_drainingDifficulty' = r \/ m_drainingDifficulty' = n)
  BY Zenon DEF Drain, maps
<1>6. d \in Int /\ n \in Nat /\ n + o + k <= d
  BY DEF DifficultyInv
<1>7. SeqSum(Difficulty, Pipeline)' = w /\ SumDifficulty(m_unknown)' = k
  BY <1>5 DEF SumDifficulty
<1> HIDE DEF w, x, k, r, o
<1>8. r + w + k <= d /\ n + w + k <= d
  BY <1>2, <1>3, <1>4, <1>6
<1> QED
  BY <1>4, <1>5, <1>6, <1>7, <1>8, Zenon DEF DifficultyInv

LEMMA DifficultyStep ==
  ASSUME Weighted, TypeOK, DequesOK', IndexesAgree, DifficultyInv, [Next]_vars
  PROVE  DifficultyInv'
<1>1. ASSUME NEW h \in Hash, NEW isOurs \in BOOLEAN, Import(h, isOurs) PROVE DifficultyInv'
  BY <1>1, ImportDifficulty DEF Import
<1>2. ASSUME NEW h \in todo, TickImport(h) PROVE DifficultyInv'
  <2>1. h \in Hash
    BY DEF TypeOK, SetsOK
  <2>2. CASE Queued(h) \/ h \in m_bc
    <3>1. UNCHANGED <<sets, maps, deques, accounts, section>>
      BY <1>2, <2>2, Zenon DEF TickImport
    <3>2. Pipeline' = Pipeline /\ UNCHANGED <<m_difficulty, m_drainingDifficulty, m_unknown>>
      BY <3>1, Zenon DEF Pipeline, Hashes, deques, accounts, maps
    <3> QED
      BY <3>2, SameWorth
  <2>3. CASE ~(Queued(h) \/ h \in m_bc)
    <3>1. ImportNew(h, FALSE)
      BY <1>2, <2>3, Zenon DEF TickImport
    <3> QED
      BY <2>1, <2>3, <3>1, ImportDifficulty, Zenon
  <2> QED
    BY <2>2, <2>3
<1>3. ASSUME NEW v \in Verifiers, Take(v) \/ VerifyReplace(v) PROVE DifficultyInv'
  <2>1. Pipeline' = Pipeline
    BY <1>3, TakePipeline, ReplaceHashes
  <2>2. UNCHANGED <<m_difficulty, m_drainingDifficulty, m_unknown>>
    BY <1>3 DEF Take, VerifyReplace, accounts, maps
  <2> QED
    BY <2>1, <2>2, SameWorth
<1>4. ASSUME NEW v \in Verifiers, VerifyFail(v) PROVE DifficultyInv'
  <2> DEFINE kept == {i \in DOMAIN m_verifying : Sha3Uncles(m_verifying[i]) # work[v]}
  <2>1. kept \in SUBSET DOMAIN m_verifying
    OBVIOUS
  <2>2. /\ \E f \in Enumerations(kept) : m_verifying' = [i \in DOMAIN f |-> m_verifying[f[i]]]
        /\ UNCHANGED <<m_verified, m_unverified>>
        /\ UNCHANGED <<m_difficulty, m_drainingDifficulty>> /\ m_unknown' \subseteq m_unknown
    BY <1>4, Zenon DEF VerifyFail, maps, accounts
  <2> HIDE DEF kept
  <2> QED
    BY <2>1, <2>2, RemoveDifficulty, Zenon
<1>5. ASSUME NEW v \in Verifiers, VerifyNext(v) PROVE DifficultyInv'
  <2>1. m_verifying # <<>> /\ Finish(Head(m_verifying).hash)
        /\ UNCHANGED <<m_unverified, m_unknown, m_difficulty, m_drainingDifficulty>>
    <3>1. m_verifying # <<>> /\ Head(m_verifying).hash = work[v]
      BY <1>5, NextIsFront, Zenon
    <3>2. Finish(work[v]) /\ UNCHANGED <<m_unverified, maps, accounts>>
      BY <1>5, Zenon DEF VerifyNext
    <3> QED
      BY <3>1, <3>2, Zenon DEF maps, accounts
  <2> QED
    BY <2>1, FinishDifficulty, Zenon
<1>6. CASE DrainVerified
  <2>1. m_verifying # <<>> /\ Finish(Head(m_verifying).hash)
        /\ UNCHANGED <<m_unverified, m_unknown, m_difficulty, m_drainingDifficulty>>
    BY <1>6, Zenon DEF DrainVerified, FrontDone, maps, accounts
  <2> QED
    BY <2>1, FinishDifficulty, Zenon
<1>7. ASSUME NEW v \in Verifiers, DrainVerifiedEnd(v) \/ Notify(v) \/ Exit(v) PROVE DifficultyInv'
  <2>1. UNCHANGED <<maps, deques, accounts>>
    BY <1>7, Zenon DEF DrainVerifiedEnd, Notify, Exit
  <2>2. Pipeline' = Pipeline /\ UNCHANGED <<m_difficulty, m_drainingDifficulty, m_unknown>>
    BY <2>1, Zenon DEF Pipeline, Hashes, deques, accounts, maps
  <2> QED
    BY <2>2, SameWorth
<1>8. CASE UpdateBad
  <2>1. m_unknown' \subseteq m_unknown /\ UNCHANGED <<deques, accounts>>
    BY <1>8, Zenon DEF UpdateBad
  <2>2. Pipeline' = Pipeline /\ UNCHANGED <<m_difficulty, m_drainingDifficulty>>
    BY <2>1, Zenon DEF Pipeline, Hashes, deques, accounts
  <2>3. Pipeline' \in Seq(Hash) /\ SeqSum(Difficulty, Pipeline') <= SeqSum(Difficulty, Pipeline)
    BY <2>2, PipelineIsSeq, HashWorth
  <2> QED
    BY <2>1, <2>2, <2>3, DifficultyKept, Zenon
<1>9. CASE BadVerified
  <2> DEFINE kept == DOMAIN m_verified
                       \ {i \in DOMAIN m_verified :
                            {m_verified[i], Parent[m_verified[i]]} \cap m_knownBad # {}}
  <2>1. kept \in SUBSET DOMAIN m_verified
    BY Zenon
  <2>2. /\ \E f \in Enumerations(kept) : m_verified' = [i \in DOMAIN f |-> m_verified[f[i]]]
        /\ UNCHANGED <<m_verifying, m_unverified>>
        /\ UNCHANGED <<m_difficulty, m_drainingDifficulty>> /\ m_unknown' \subseteq m_unknown
    BY <1>9, Zenon DEF BadVerified, Blame, accounts
  <2> HIDE DEF kept
  <2> QED
    BY <2>1, <2>2, RemoveDifficulty, Zenon
<1>10. CASE BadUnverified
  <2> DEFINE kept == DOMAIN m_unverified
                       \ {i \in DOMAIN m_unverified :
                            {m_unverified[i], Parent[m_unverified[i]]} \cap m_knownBad # {}}
  <2>1. kept \in SUBSET DOMAIN m_unverified
    OBVIOUS
  <2>2. /\ \E f \in Enumerations(kept) : m_unverified' = [i \in DOMAIN f |-> m_unverified[f[i]]]
        /\ UNCHANGED <<m_verifying, m_verified>>
        /\ UNCHANGED <<m_difficulty, m_drainingDifficulty>> /\ m_unknown' \subseteq m_unknown
    BY <1>10, Zenon DEF BadUnverified, Blame, accounts
  <2> HIDE DEF kept
  <2> QED
    BY <2>1, <2>2, RemoveDifficulty, Zenon
<1>11. CASE BadVerifying
  <2> DEFINE kept == DOMAIN m_verifying
                       \ {i \in DOMAIN m_verifying :
                            {Sha3Uncles(m_verifying[i]), Parent[m_verifying[i].hash]}
                               \cap m_knownBad # {}}
  <2>1. kept \in SUBSET DOMAIN m_verifying
    BY Zenon
  <2>2. /\ \E f \in Enumerations(kept) : m_verifying' = [i \in DOMAIN f |-> m_verifying[f[i]]]
        /\ UNCHANGED <<m_verified, m_unverified>>
        /\ UNCHANGED <<m_difficulty, m_drainingDifficulty>> /\ m_unknown' \subseteq m_unknown
    BY <1>11, Zenon DEF BadVerifying, Blame, accounts
  <2> HIDE DEF kept
  <2> QED
    BY <2>1, <2>2, RemoveDifficulty, Zenon
<1>12. CASE UpdateBadEnd \/ ImportDrained \/ TickCollect \/ Clock \/ Stop \/ UNCHANGED vars
  <2>1. UNCHANGED <<m_unknown, deques, accounts>>
    BY <1>12, Zenon DEF UpdateBadEnd, ImportDrained, Rest, TickCollect, Clock, Stop, vars, maps
  <2>2. Pipeline' = Pipeline /\ UNCHANGED <<m_difficulty, m_drainingDifficulty, m_unknown>>
    BY <2>1, Zenon DEF Pipeline, Hashes, deques, accounts
  <2> QED
    BY <2>2, SameWorth
<1>13. ASSUME NEW max \in 1..MaxDrain, Drain(max) PROVE DifficultyInv'
  BY <1>13, DrainDifficulty
<1>14. CASE DoneDrain
  <2> DEFINE w == SeqSum(Difficulty, Pipeline)
             k == SumDifficulty(m_unknown)
  <2>1. Pipeline' = Pipeline /\ m_unknown' = m_unknown
        /\ m_difficulty' = m_difficulty - m_drainingDifficulty /\ m_drainingDifficulty' = 0
    BY <1>14, Zenon DEF DoneDrain, Pipeline, Hashes, deques, maps
  <2>2. SeqSum(Difficulty, Pipeline)' = w /\ SumDifficulty(m_unknown)' = k
    BY <2>1, Zenon DEF SumDifficulty
  <2>3. w \in Nat /\ k \in Nat
    BY PipelineIsSeq, HashWorth, SetWorth, Zenon DEF TypeOK, SetsOK
  <2>4. m_difficulty \in Int /\ m_drainingDifficulty \in Nat
        /\ m_drainingDifficulty + w + k <= m_difficulty
    BY Zenon DEF DifficultyInv
  <2> HIDE DEF w, k
  <2>5. m_difficulty - m_drainingDifficulty \in Int
        /\ 0 + w + k <= m_difficulty - m_drainingDifficulty
    BY <2>3, <2>4
  <2> QED
    BY <2>1, <2>2, <2>5, Zenon DEF DifficultyInv
<1>15. CASE Clear
  <2>1. m_unknown' = {} /\ m_verified' = <<>> /\ m_verifying' = <<>> /\ m_unverified' = <<>>
        /\ m_difficulty' = 0 /\ m_drainingDifficulty' = 0
    BY <1>15, Zenon DEF Clear
  <2>2. Hashes(<<>>) = <<>>
    BY DEF Hashes
  <2>3. Pipeline' = <<>>
    BY <2>1, <2>2 DEF Pipeline
  <2>4. SeqSum(Difficulty, Pipeline)' = 0
    BY <2>3, NoWorth
  <2>5. SumDifficulty(m_unknown)' = 0
    BY <2>1, NoWorth DEF SumDifficulty
  <2> QED
    BY <2>1, <2>4, <2>5 DEF DifficultyInv
<1> QED
  BY <1>1, <1>2, <1>3, <1>4, <1>5, <1>6, <1>7, <1>8, <1>9, <1>10, <1>11, <1>12, <1>13, <1>14,
     <1>15, Zenon DEF Next, SteadyNext, Sync, Tick, Verify, UpdateBadLoop

LEMMA InitDifficulty == ASSUME Weighted, Init PROVE DifficultyInv
<1>1. m_unknown = {} /\ m_verified = <<>> /\ m_verifying = <<>> /\ m_unverified = <<>>
      /\ m_difficulty = 0 /\ m_drainingDifficulty = 0
  BY Zenon DEF Init
<1>2. Hashes(<<>>) = <<>>
  BY DEF Hashes
<1>3. Pipeline = <<>>
  BY <1>1, <1>2 DEF Pipeline
<1> QED
  BY <1>1, <1>3, NoWorth DEF DifficultyInv

LEMMA DifficultyBounds == ASSUME Weighted, TypeOK, DifficultyInv PROVE NoDifficultyUnderflow
<1> DEFINE w == SeqSum(Difficulty, Pipeline)
           k == SumDifficulty(m_unknown)
<1>1. w \in Nat /\ k \in Nat
  BY PipelineIsSeq, HashWorth, SetWorth, Zenon DEF TypeOK, SetsOK
<1>2. m_difficulty \in Int /\ m_drainingDifficulty \in Nat
      /\ m_drainingDifficulty + w + k <= m_difficulty
  BY DEF DifficultyInv
<1> HIDE DEF w, k
<1> QED
  BY <1>1, <1>2 DEF NoDifficultyUnderflow

Proved == INSTANCE SumTheorems

\* SumTheorems speaks of the same sums.
LEMMA SameSums ==
  /\ \A S : IsFiniteSet(S) <=> Proved!IsFiniteSet(S)
  /\ \A s : Range(s) = Proved!Range(s) /\ (IsInjective(s) <=> Proved!IsInjective(s))
  /\ \A f, S : SumFunctionOnSet(f, S) = Proved!SumFunctionOnSet(f, S)
  /\ \A v, s : SeqSum(v, s) = Proved!SeqSum(v, s)
<1>1. \A S : IsFiniteSet(S) <=> Proved!IsFiniteSet(S)
  BY Zenon DEF IsFiniteSet, Proved!IsFiniteSet
<1>2. \A s : Range(s) = Proved!Range(s) /\ (IsInjective(s) <=> Proved!IsInjective(s))
  BY Zenon DEF Range, IsInjective, Proved!Range, Proved!IsInjective
<1>3. \A f, S : SumFunctionOnSet(f, S) = Proved!SumFunctionOnSet(f, S)
  BY Zenon DEF SumFunctionOnSet, FoldFunctionOnSet, MapThenFoldSet,
       Proved!SumFunctionOnSet, Proved!FoldFunctionOnSet, Proved!MapThenFoldSet
<1>4. \A v, s : SeqSum(v, s) = Proved!SeqSum(v, s)
  BY <1>3, Zenon DEF SeqSum, Proved!SeqSum
<1> QED
  BY <1>1, <1>2, <1>3, <1>4, Zenon

LEMMA DifficultyWeighs == Weighted
<1>1. IsFiniteSet(Hash) /\ Difficulty \in [Hash -> Nat]
  BY HashAssumption, HeaderAssumption, ZenonT(60)
<1>2. Proved!IsFiniteSet(Hash)
  BY <1>1, SameSums, Zenon
<1>3. Proved!Weighs(Hash, Difficulty)
  BY <1>1, <1>2, Proved!LawsOfWeights, Zenon
<1> QED
  BY <1>3, SameSums, ZenonT(60) DEF Weighted, Weighs, Proved!Weighs

\* doneDrain never takes the unsigned m_difficulty below zero: it covers the blocks being
\* drained, the deques and the blocks that wait for a parent, whatever import, tick, the
\* verifiers, updateBad, drain and clear() do in between, bad blocks included.
THEOREM NoUnderflow == Spec => []NoDifficultyUnderflow
<1>1. TypeOK => DequesOK
  BY Zenon DEF TypeOK
<1>2. Init => DifficultyInv
  BY DifficultyWeighs, InitDifficulty
<1>3. TypeOK /\ DequesOK' /\ IndexesAgree /\ DifficultyInv /\ [Next]_vars => DifficultyInv'
  BY DifficultyWeighs, DifficultyStep, ZenonT(60)
<1>4. TypeOK /\ DifficultyInv => NoDifficultyUnderflow
  BY DifficultyWeighs, DifficultyBounds, ZenonT(60)
<1> QED
  BY <1>1, <1>2, <1>3, <1>4, TypeCorrect, IndexesCorrect, PTL DEF Spec
=============================================================================
