-------------------------- MODULE ChainStoreProofs --------------------------
(***************************************************************************)
(* Proofs about ChainStore for every block tree, any number of readers and *)
(* any number of crashes.                                                  *)
(***************************************************************************)
EXTENDS ChainStore, TLAPS

(***************************************************************************)
(* The import in progress: its block is stored as far as its step says,    *)
(* and the hashes it is going to write complete the line it shares with    *)
(* the head to the line of its block.                                      *)
(***************************************************************************)
JobInv ==
  /\ job = [step |-> job.step, block |-> job.block, extras |-> job.extras,
            hashes |-> job.hashes, isBest |-> job.isBest]
  /\ job.isBest \in BOOLEAN
  /\ job.step = "idle" => job = Idle
  /\ job.step # "idle" =>
       /\ up
       /\ job.block \in Block
       /\ Parent[job.block] \in DOMAIN detailsDB
       /\ DOMAIN job.extras = {Parent[job.block], job.block}
       /\ DOMAIN job.hashes \subseteq 1 .. Number[job.block]
       /\ \A n \in DOMAIN job.hashes : job.hashes[n] = Line[job.block][n]
       /\ job.isBest /\ job.step # "extras" =>
            \A n \in 1 .. Number[job.block] :
              n \in DOMAIN job.hashes \/
                (n <= Number[durable] /\ Line[durable][n] = Line[job.block][n])
       /\ ~job.isBest => DOMAIN job.hashes = {}
  /\ job.step \in {"blocks", "extras"} => job.block \in blocksDB
  /\ job.step = "extras" => job.block \in DOMAIN detailsDB

ReaderInv ==
  /\ reader = [r \in Readers |-> reader[r]]
  /\ \A r \in Readers :
       /\ reader[r].of = "hash" => /\ reader[r].key \in Nat \ {0}
                                   /\ reader[r].value \in Block
                                   /\ Number[reader[r].value] = reader[r].key
                                   /\ reader[r].value \in DOMAIN detailsDB
       /\ reader[r] # NoRead /\ reader[r].of # "hash" => /\ reader[r].of = "details"
                                                        /\ reader[r].key \in DOMAIN detailsDB

(***************************************************************************)
(* The head whose line hashDB holds, or is about to be the only thing on   *)
(* disk that "best" does not know of.                                      *)
(***************************************************************************)
indexed == IF job.step = "extras" /\ job.isBest THEN job.block ELSE durable

IndexInv ==
  /\ \A n \in 1 .. Number[indexed] : n \in DOMAIN hashDB
  /\ events \cap {"torn", "stale"} = {} =>
       \A n \in 1 .. Number[indexed] : hashDB[n] = Line[indexed][n]
  /\ \A n \in 1 .. Number[durable] : n \in DOMAIN hashDB

IInv ==
  /\ TypeOK
  /\ DOMAIN hashDB \subseteq Nat \ {0}
  /\ DOMAIN m_blockHashes \subseteq Nat \ {0}
  /\ up \in BOOLEAN
  /\ up => Genesis \in DOMAIN detailsDB
  /\ ~up => job = Idle /\ m_details = Empty /\ (\A r \in Readers : reader[r] = NoRead)
  /\ DiskClosed
  /\ HeadDurable
  /\ JobInv
  /\ ReaderInv
  /\ IndexInv

-----------------------------------------------------------------------------

(***************************************************************************)
(* Partial functions.                                                      *)
(***************************************************************************)
LEMMA WithFacts ==
  ASSUME NEW f, NEW g
  PROVE  /\ DOMAIN With(f, g) = (DOMAIN f) \cup (DOMAIN g)
         /\ \A x \in DOMAIN g : With(f, g)[x] = g[x]
         /\ \A x \in (DOMAIN f) \ (DOMAIN g) : With(f, g)[x] = f[x]
BY DEF With

LEMMA EmptyFacts == DOMAIN Empty = {}
BY DEF Empty

(***************************************************************************)
(* The block tree.                                                         *)
(***************************************************************************)
LEMMA LineFacts ==
  ASSUME NEW b \in Node
  PROVE  /\ Number[b] \in Nat
         /\ Line[b][Number[b]] = b
         /\ \A n \in 0 .. Number[b] : /\ Line[b][n] \in Node
                                      /\ Number[Line[b][n]] = n
         /\ \A n \in 1 .. Number[b] : Line[b][n] \in Block
         /\ \A n \in 0 .. Number[b] : \A m \in 0 .. n : Line[Line[b][n]][m] = Line[b][m]
<1>1. Number[b] \in Nat
  BY TreeAssumption
<1>2. /\ Line[b] \in [0 .. Number[b] -> Node]
      /\ Line[b][Number[b]] = b
      /\ \A n \in 0 .. Number[b] : Number[Line[b][n]] = n
      /\ \A n \in 0 .. Number[b] : \A m \in 0 .. n : Line[Line[b][n]][m] = Line[b][m]
  BY LineAssumption
<1>3. ASSUME NEW n \in 1 .. Number[b]
      PROVE  Line[b][n] \in Block
  <2>1. n \in 0 .. Number[b] /\ n # 0
    BY <1>1
  <2>2. Line[b][n] \in Node /\ Number[Line[b][n]] = n
    BY <1>2, <2>1, Zenon
  <2>3. Number[Genesis] = 0
    BY LineAssumption DEF Node
  <2> QED
    BY <2>1, <2>2, <2>3 DEF Node
<1> QED
  BY <1>1, <1>2, <1>3

LEMMA ParentFacts ==
  ASSUME NEW b \in Block
  PROVE  /\ b \in Node /\ Parent[b] \in Node
         /\ Number[Parent[b]] \in Nat
         /\ Number[b] = Number[Parent[b]] + 1
         /\ \A n \in 0 .. Number[Parent[b]] : Line[b][n] = Line[Parent[b]][n]
<1>1. b \in Node /\ Parent[b] \in Node /\ b # Genesis
  BY TreeAssumption DEF Node
<1>2. Number[Parent[b]] \in Nat /\ Number[b] = Number[Parent[b]] + 1
      /\ Line[b][Number[b] - 1] = Parent[b]
  BY <1>1, LineAssumption, LineFacts
<1>3. Line[b][Number[Parent[b]]] = Parent[b] /\ Number[Parent[b]] \in 0 .. Number[b]
  BY <1>2
<1>4. ASSUME NEW n \in 0 .. Number[Parent[b]]
      PROVE  Line[b][n] = Line[Parent[b]][n]
  BY <1>1, <1>3, LineFacts
<1> QED
  BY <1>1, <1>2, <1>4

LEMMA GenesisFacts == Genesis \in Node /\ Number[Genesis] = 0 /\ Genesis # NoBlock
BY LineAssumption, TreeAssumption DEF Node

(***************************************************************************)
(* The initial state.                                                      *)
(***************************************************************************)
LEMMA InitInv == Init => IInv
<1> SUFFICES ASSUME Init PROVE IInv
  OBVIOUS
<1> USE EmptyFacts, GenesisFacts
<1>1. TypeOK
  BY DEF Init, TypeOK, Idle
<1>2. DiskClosed /\ HeadDurable
  BY DEF Init, DiskClosed, HeadDurable
<1>3. JobInv
  BY DEF Init, JobInv, Idle
<1>4. ReaderInv
  BY DEF Init, ReaderInv, NoRead
<1>5. IndexInv
  BY DEF Init, IndexInv, indexed, durable, Idle
<1> QED
  BY <1>1, <1>2, <1>3, <1>4, <1>5, Zenon DEF IInv, Init

(***************************************************************************)
(* Each action preserves the invariant.                                    *)
(***************************************************************************)
LEMMA OpenInv == IInv /\ open => IInv'
<1> SUFFICES ASSUME IInv, open PROVE IInv'
  OBVIOUS
<1> USE GenesisFacts, EmptyFacts
<1>1. /\ ~up /\ up' = TRUE /\ m_lastBlockHash' = durable
      /\ m_lastBlockNumber' = Number[m_lastBlockHash']
      /\ m_details' = Only(detailsDB', {Genesis, m_lastBlockHash'})
      /\ UNCHANGED <<blocksDB, hashDB, best, m_blockHashes, job, reader, events>>
      /\ durable' = durable /\ indexed' = indexed
  BY DEF open, durable, indexed
<1>2. DOMAIN detailsDB' = (DOMAIN detailsDB) \cup {Genesis}
  <2>1. CASE Genesis \in DOMAIN detailsDB
    BY <2>1, Zenon DEF open
  <2>2. CASE Genesis \notin DOMAIN detailsDB
    <3>1. detailsDB' = With(detailsDB, [b \in {Genesis} |-> {}])
      BY <2>2 DEF open
    <3>2. DOMAIN [b \in {Genesis} |-> {}] = {Genesis}
      OBVIOUS
    <3> QED
      BY <3>1, <3>2, WithFacts, Zenon
  <2> QED
    BY <2>1, <2>2
<1>3. DOMAIN m_details' \subseteq DOMAIN detailsDB'
  BY <1>1 DEF Only
<1>4. TypeOK'
  BY <1>1, <1>2, <1>3, Zenon DEF IInv, TypeOK, durable, Node
<1>5. DiskClosed'
  BY <1>1, <1>2 DEF IInv, TypeOK, DiskClosed, durable
<1>6. HeadDurable'
  BY <1>1 DEF HeadDurable
<1>7. JobInv'
  BY <1>1, <1>2 DEF IInv, JobInv, Idle
<1>8. ReaderInv'
  BY <1>1, <1>2 DEF IInv, ReaderInv
<1>9. IndexInv'
  BY <1>1 DEF IInv, IndexInv
<1> QED
  BY <1>1, <1>2, <1>4, <1>5, <1>6, <1>7, <1>8, <1>9 DEF IInv

LEMMA CloseInv == IInv /\ close => IInv'
<1> SUFFICES ASSUME IInv, close PROVE IInv'
  OBVIOUS
<1> USE GenesisFacts, EmptyFacts
<1>1. /\ up' = FALSE /\ job' = Idle /\ m_details' = Empty /\ m_blockHashes' = Empty
      /\ m_lastBlockHash' = Genesis /\ m_lastBlockNumber' = 0
      /\ reader' = [r \in Readers |-> NoRead]
      /\ UNCHANGED <<blocksDB, detailsDB, hashDB, best>>
      /\ durable' = durable /\ indexed' = durable
  BY DEF close, disk, durable, indexed, Idle
<1>2. events \subseteq events' /\ events' \subseteq events \cup {"torn"}
      /\ (job.step = "extras" /\ job.isBest => "torn" \in events')
  BY DEF close, Note
<1>3. TypeOK'
  BY <1>1, <1>2 DEF IInv, TypeOK, Idle, Event
<1>4. DiskClosed' /\ HeadDurable'
  BY <1>1 DEF IInv, DiskClosed, HeadDurable
<1>5. JobInv'
  BY <1>1 DEF JobInv, Idle
<1>6. ReaderInv'
  BY <1>1 DEF ReaderInv, NoRead
<1>7. IndexInv'
  <2>1. CASE job.step = "extras" /\ job.isBest
    BY <1>1, <1>2, <2>1 DEF IInv, IndexInv
  <2>2. CASE ~(job.step = "extras" /\ job.isBest)
    BY <1>1, <1>2, <2>2 DEF IInv, IndexInv, indexed
  <2> QED
    BY <2>1, <2>2
<1> QED
  BY <1>1, <1>3, <1>4, <1>5, <1>6, <1>7, Zenon DEF IInv

LEMMA CommitBlocksInv == IInv /\ commitBlocks => IInv'
<1> SUFFICES ASSUME IInv, commitBlocks PROVE IInv'
  OBVIOUS
<1>1. /\ job.step = "begun" /\ blocksDB' = blocksDB \cup {job.block}
      /\ job' = [step |-> "blocks", block |-> job.block, extras |-> job.extras,
                 hashes |-> job.hashes, isBest |-> job.isBest]
      /\ UNCHANGED <<detailsDB, hashDB, best, m_details, m_blockHashes, m_lastBlockHash,
                     m_lastBlockNumber, reader, up, events>>
  BY DEF commitBlocks, IInv, JobInv, cache, head
<1>2. durable' = durable /\ indexed' = indexed
  BY <1>1 DEF durable, indexed
<1>3. job.block \in Block /\ up
  BY <1>1 DEF IInv, JobInv
<1>4. TypeOK'
  BY <1>1, <1>3, SMTT(30) DEF IInv, TypeOK
<1>5. DiskClosed' /\ HeadDurable'
  BY <1>1, <1>2 DEF IInv, DiskClosed, HeadDurable
<1>6. JobInv'
  BY <1>1, <1>2, <1>3 DEF IInv, JobInv
<1>7. ReaderInv' /\ IndexInv'
  BY <1>1, <1>2 DEF IInv, ReaderInv, IndexInv
<1> QED
  BY <1>1, <1>3, <1>4, <1>5, <1>6, <1>7 DEF IInv

LEMMA CommitExtrasInv == IInv /\ commitExtras => IInv'
<1> SUFFICES ASSUME IInv, commitExtras PROVE IInv'
  OBVIOUS
<1> DEFINE b == job.block
           p == Parent[job.block]
<1>1. /\ job.step = "blocks"
      /\ job' = [step |-> "extras", block |-> job.block, extras |-> job.extras,
                 hashes |-> job.hashes, isBest |-> job.isBest]
      /\ UNCHANGED <<blocksDB, best, m_details, m_blockHashes, m_lastBlockHash,
                     m_lastBlockNumber, reader, up, events>>
  BY DEF commitExtras, IInv, JobInv, cache, head
<1>2. durable' = durable /\ indexed = durable
      /\ indexed' = (IF job.isBest THEN b ELSE durable)
  BY <1>1 DEF durable, indexed
<1>3. /\ up /\ b \in Block /\ b \in blocksDB /\ p \in DOMAIN detailsDB
      /\ DOMAIN job.hashes \subseteq 1 .. Number[b]
      /\ \A n \in DOMAIN job.hashes : job.hashes[n] = Line[b][n]
      /\ job.isBest \in BOOLEAN
  BY <1>1 DEF IInv, JobInv
<1>4. DOMAIN detailsDB' = (DOMAIN detailsDB) \cup {b}
  <2>1. detailsDB' = With(detailsDB, job.extras) /\ DOMAIN job.extras = {p, b}
    BY <1>1 DEF commitExtras, IInv, JobInv
  <2> QED
    BY <2>1, <1>3 DEF With
<1>5. /\ DOMAIN hashDB' = (DOMAIN hashDB) \cup (DOMAIN job.hashes)
      /\ \A n \in DOMAIN job.hashes : hashDB'[n] = Line[b][n]
      /\ \A n \in (DOMAIN hashDB) \ (DOMAIN job.hashes) : hashDB'[n] = hashDB[n]
  <2>1. hashDB' = With(hashDB, job.hashes)
    BY SMTT(30) DEF commitExtras
  <2> QED
    BY <1>3, <2>1 DEF With
<1>6. /\ Number[b] \in Nat /\ Number[p] \in Nat /\ Number[b] = Number[p] + 1
      /\ Line[b][Number[b]] = b
      /\ \A n \in 1 .. Number[b] : Line[b][n] \in Block /\ Number[Line[b][n]] = n
      /\ \A n \in 1 .. Number[p] : Line[b][n] = Line[p][n]
  <2>1. b \in Node
    BY <1>3 DEF Node
  <2> QED
    BY <1>3, <2>1, ParentFacts, LineFacts, SMTT(30)
<1>7. \A n \in 1 .. Number[b] : Line[b][n] \in blocksDB' /\ Line[b][n] \in DOMAIN detailsDB'
  <2> SUFFICES ASSUME NEW n \in 1 .. Number[b]
               PROVE  Line[b][n] \in blocksDB' /\ Line[b][n] \in DOMAIN detailsDB'
    OBVIOUS
  <2>1. CASE n = Number[b]
    BY <2>1, <1>1, <1>3, <1>4, <1>6, Zenon
  <2>2. CASE n \in 1 .. Number[p]
    BY <2>2, <1>1, <1>3, <1>4, <1>6, Zenon DEF IInv, DiskClosed
  <2> QED
    BY <2>1, <2>2, <1>6
<1>8. TypeOK'
  <2>1. \A n \in DOMAIN hashDB' : hashDB'[n] \in Block /\ Number[hashDB'[n]] = n
    BY <1>3, <1>5, <1>6, ZenonT(60) DEF IInv, TypeOK
  <2> QED
    BY <2>1, <1>1, <1>3, <1>4, SMTT(30) DEF IInv, TypeOK, Node
<1>9. DiskClosed'
  <2>1. \A n \in DOMAIN hashDB' : hashDB'[n] \in DOMAIN detailsDB'
    BY <1>3, <1>4, <1>5, <1>7, Zenon DEF IInv, DiskClosed
  <2>2. \A x \in DOMAIN detailsDB' : \A n \in 1 .. Number[x] :
          Line[x][n] \in blocksDB' \cap DOMAIN detailsDB'
    BY <1>1, <1>4, <1>7 DEF IInv, DiskClosed
  <2> QED
    BY <2>1, <2>2, <1>1, <1>4, Zenon DEF IInv, DiskClosed
<1>10. HeadDurable'
  BY <1>1, <1>2 DEF IInv, HeadDurable
<1>11. JobInv'
  BY <1>1, <1>2, <1>3, <1>4 DEF IInv, JobInv
<1>12. ReaderInv'
  BY <1>1, <1>4 DEF IInv, ReaderInv
<1>13. IndexInv'
  <2>1. CASE job.isBest
    <3>1. \A n \in 1 .. Number[b] :
            n \in DOMAIN job.hashes \/
              (n \in 1 .. Number[durable] /\ Line[durable][n] = Line[b][n])
      BY <2>1, <1>1, <1>6 DEF IInv, JobInv
    <3>2. indexed' = b
      BY <2>1, <1>2
    <3> QED
      BY <3>1, <3>2, <1>1, <1>2, <1>5, SMTT(30) DEF IInv, IndexInv
  <2>2. CASE ~job.isBest
    <3>1. DOMAIN job.hashes = {}
      BY <2>2, <1>1, SMTT(30) DEF IInv, JobInv
    <3> QED
      BY <3>1, <2>2, <1>1, <1>2, <1>5 DEF IInv, IndexInv
  <2> QED
    BY <2>1, <2>2, SMTT(30)
<1>14. DOMAIN hashDB' \subseteq Nat \ {0}
  BY <1>3, <1>5, <1>6 DEF IInv
<1> QED
  BY <1>1, <1>3, <1>4, <1>8, <1>9, <1>10, <1>11, <1>12, <1>13, <1>14, Zenon DEF IInv

LEMMA SetBestInv == IInv /\ setBest => IInv'
<1> SUFFICES ASSUME IInv, setBest PROVE IInv'
  OBVIOUS
<1> USE EmptyFacts
<1> DEFINE b == job.block
<1>1. /\ job.step = "extras" /\ job' = Idle
      /\ UNCHANGED <<blocksDB, detailsDB, hashDB, m_details, m_blockHashes, reader, up, events>>
  BY DEF setBest, cache
<1>2. /\ up /\ b \in Block /\ b \in DOMAIN detailsDB /\ b # NoBlock
      /\ job.isBest \in BOOLEAN
  BY <1>1, TreeAssumption DEF IInv, JobInv, Node
<1>3. CASE job.isBest
  <2>1. m_lastBlockHash' = b /\ m_lastBlockNumber' = Number[b] /\ best' = b
    BY <1>3 DEF setBest
  <2>2. durable' = b /\ indexed' = b /\ indexed = b
    BY <1>1, <1>2, <1>3, <2>1, SMTT(30) DEF durable, indexed, Idle
  <2>3. TypeOK'
    BY <1>1, <1>2, <2>1, Zenon DEF IInv, TypeOK, Node, Idle
  <2>4. DiskClosed' /\ HeadDurable'
    BY <1>1, <1>2, <2>1, <2>2, Zenon DEF IInv, DiskClosed, HeadDurable
  <2>5. JobInv'
    BY <1>1 DEF JobInv, Idle
  <2>6. ReaderInv' /\ IndexInv'
    BY <1>1, <2>2 DEF IInv, ReaderInv, IndexInv
  <2> QED
    BY <1>1, <1>2, <2>3, <2>4, <2>5, <2>6 DEF IInv
<1>4. CASE ~job.isBest
  <2>1. UNCHANGED <<m_lastBlockHash, m_lastBlockNumber, best>>
    BY <1>4 DEF setBest, head
  <2>2. durable' = durable /\ indexed' = durable /\ indexed = durable
    BY <1>1, <1>4, <2>1 DEF durable, indexed, Idle
  <2>3. TypeOK'
    BY <1>1, <2>1, SMTT(30) DEF IInv, TypeOK, Idle
  <2>4. DiskClosed' /\ HeadDurable'
    BY <1>1, <2>1, <2>2, SMTT(30) DEF IInv, DiskClosed, HeadDurable
  <2>5. JobInv'
    BY <1>1 DEF JobInv, Idle
  <2>6. ReaderInv' /\ IndexInv'
    BY <1>1, <2>2 DEF IInv, ReaderInv, IndexInv
  <2> QED
    BY <1>1, <1>2, <2>3, <2>4, <2>5, <2>6 DEF IInv
<1> QED
  BY <1>2, <1>3, <1>4

(***************************************************************************)
(* Below their latest common ancestor two lines are the same line.         *)
(***************************************************************************)
LEMMA CommonLine ==
  ASSUME NEW a \in Node, NEW b \in Node, NEW c \in Nat, IsCommon(a, b, c)
  PROVE  \A n \in 0 .. c : n <= Number[a] /\ Line[a][n] = Line[b][n]
<1>1. Number[a] \in Nat /\ Number[b] \in Nat
  BY LineFacts
<1>2. c \in 0 .. Number[a] /\ c \in 0 .. Number[b] /\ Line[a][c] = Line[b][c]
  BY <1>1 DEF IsCommon
<1>3. \A n \in 0 .. c : Line[Line[a][c]][n] = Line[a][n] /\ Line[Line[b][c]][n] = Line[b][n]
  BY <1>2, LineFacts, SMTT(30)
<1> QED
  BY <1>1, <1>2, <1>3

LEMMA ImportInv == ASSUME NEW b \in Block PROVE IInv /\ import(b) => IInv'
<1> SUFFICES ASSUME IInv, import(b) PROVE IInv'
  BY SMTT(30)
<1> USE EmptyFacts
<1> DEFINE p     == Parent[b]
           last  == m_lastBlockHash
           above == Number[b] >= Number[last] /\ verifyReplaceMiner(b)
<1>1. /\ up /\ job = Idle
      /\ UNCHANGED <<blocksDB, detailsDB, hashDB, best, m_lastBlockHash,
                     m_lastBlockNumber, reader, up, events>>
  BY Zenon DEF import, disk, head
<1>2. PICK c \in 0 .. Number[p] :
        /\ IsCommon(last, p, c)
        /\ job' = [step   |-> "begun", block |-> b,
                   extras |-> [x \in {p, b} |-> IF x = p THEN details(p) \cup {b} ELSE {}],
                   hashes |-> IF above THEN [n \in c + 1 .. Number[b] |-> Line[b][n]]
                              ELSE Empty,
                   isBest |-> above]
        /\ m_details' = With(Fetched({p, last} \cup
                                     (IF above THEN Walked(last, p, c) ELSE {})),
                             [x \in {p} |-> details(p) \cup {b}])
        /\ m_blockHashes' = IF above /\ c # Number[last]
                            THEN clearCachesDuringChainReversion(c + 1)
                            ELSE m_blockHashes
  BY Zenon DEF import
<1>3. durable' = durable /\ indexed = durable /\ indexed' = durable /\ last = durable
  BY <1>1, <1>2, Zenon DEF durable, indexed, IInv, HeadDurable, Idle
<1>4. p \in DOMAIN detailsDB
  <2>1. isKnown(p)
    BY Zenon DEF import
  <2> QED
    BY <2>1, <1>1, Zenon DEF isKnown, hasDetails, IInv, TypeOK
<1>5. /\ b \in Node /\ p \in Node /\ last \in Node /\ Number[p] \in Nat
      /\ Number[b] = Number[p] + 1 /\ Number[last] \in Nat
      /\ \A n \in 0 .. Number[p] : Line[b][n] = Line[p][n]
  <2>1. last \in Node
    BY SMTT(30) DEF IInv, TypeOK
  <2> QED
    BY <2>1, ParentFacts, LineFacts, SMTT(30)
<1>6. DOMAIN m_details' \subseteq DOMAIN detailsDB
  <2>1. DOMAIN m_details \subseteq DOMAIN detailsDB
    BY SMTT(30) DEF IInv, TypeOK
  <2> QED
    BY <1>2, <1>4, <2>1, Zenon DEF With, Fetched, Only
<1>7. /\ DOMAIN m_blockHashes' \subseteq DOMAIN m_blockHashes
      /\ \A n \in DOMAIN m_blockHashes' : m_blockHashes'[n] = m_blockHashes[n]
  BY <1>2, SMTT(30) DEF clearCachesDuringChainReversion, Only
<1>8. TypeOK'
  BY <1>1, <1>2, <1>6, <1>7, ZenonT(60) DEF IInv, TypeOK
<1>9. DiskClosed' /\ HeadDurable'
  BY <1>1, <1>3, <1>7, Zenon DEF IInv, DiskClosed, HeadDurable
<1>10. JobInv'
  <2>1. job'.step = "begun" /\ job'.block = b /\ job'.isBest = above
        /\ DOMAIN job'.extras = {p, b}
        /\ job' = [step |-> job'.step, block |-> job'.block, extras |-> job'.extras,
                   hashes |-> job'.hashes, isBest |-> job'.isBest]
    BY <1>2, Zenon
  <2>2. above \in BOOLEAN
    BY SMTT(30) DEF verifyReplaceMiner
  <2>3. CASE above
    <3>1. job'.hashes = [n \in c + 1 .. Number[b] |-> Line[b][n]]
      BY <1>2, <2>3, Zenon
    <3>2. \A n \in 0 .. c : n <= Number[last] /\ Line[last][n] = Line[p][n]
      BY <1>2, <1>5, CommonLine, SMTT(30)
    <3>3. \A n \in 1 .. Number[b] :
            n \in c + 1 .. Number[b] \/ (n <= Number[last] /\ Line[last][n] = Line[b][n])
      BY <3>2, <1>5
    <3>4. c + 1 .. Number[b] \subseteq 1 .. Number[b]
      BY <1>5
    <3> QED
      BY <3>1, <3>3, <3>4, <2>1, <2>2, <2>3, <1>1, <1>3, <1>4, Zenon DEF JobInv
  <2>4. CASE ~above
    <3>1. job'.hashes = Empty
      BY <1>2, <2>4, Zenon
    <3> QED
      BY <3>1, <2>1, <2>2, <2>4, <1>1, <1>4, ZenonT(60) DEF JobInv
  <2> QED
    BY <2>2, <2>3, <2>4, SMTT(30)
<1>11. ReaderInv' /\ IndexInv'
  BY <1>1, <1>3, Zenon DEF IInv, ReaderInv, IndexInv
<1> QED
  BY <1>1, <1>7, <1>8, <1>9, <1>10, <1>11, Zenon DEF IInv

(***************************************************************************)
(* What rewind(n) makes the head: a block with number n that has details,  *)
(* and the one hashDB names unless the event stale is noted.               *)
(***************************************************************************)
LEMMA RewindHead ==
  ASSUME NEW n \in Height, IInv, rewind(n)
  PROVE  /\ n \in Nat /\ n < Number[durable]
         /\ m_lastBlockHash' \in Node /\ Number[m_lastBlockHash'] = n
         /\ m_lastBlockHash' \in DOMAIN detailsDB
         /\ "stale" \notin events' /\ n # 0 => m_lastBlockHash' = hashDB[n]
         /\ n = 0 => m_lastBlockHash' = Genesis
<1> USE GenesisFacts
<1>1. n \in Nat
  BY LineFacts DEF Height
<1>2. durable = m_lastBlockHash /\ n < Number[durable] /\ Number[durable] \in Nat
  <2>1. m_lastBlockHash = durable /\ m_lastBlockHash \in Node /\ n < m_lastBlockNumber
        /\ m_lastBlockNumber = Number[m_lastBlockHash]
    BY Zenon DEF rewind, IInv, HeadDurable, TypeOK
  <2> QED
    BY <2>1, LineFacts
<1>3. m_lastBlockHash' = numberHash(n)
  BY SMTT(30) DEF rewind
<1>4. CASE n = 0
  BY <1>1, <1>2, <1>3, <1>4, SMTT(30) DEF numberHash, rewind, IInv
<1>5. CASE n # 0
  <2>1. n \in DOMAIN hashDB
    <3>1. n \in 1 .. Number[durable]
      BY <1>1, <1>2, <1>5
    <3> QED
      BY <3>1 DEF IInv, IndexInv
  <2>2. \/ numberHash(n) = m_blockHashes[n] /\ n \in DOMAIN m_blockHashes
        \/ numberHash(n) = hashDB[n]
    BY <2>1, <1>5, SMTT(30) DEF numberHash
  <2>3. /\ numberHash(n) \in Block /\ Number[numberHash(n)] = n
        /\ numberHash(n) \in DOMAIN detailsDB
    BY <2>1, <2>2 DEF IInv, TypeOK, DiskClosed
  <2>4. "stale" \notin events' => numberHash(n) = hashDB[n]
    BY <1>5 DEF rewind
  <2> QED
    BY <1>1, <1>2, <1>3, <1>5, <2>3, <2>4 DEF Node
<1> QED
  BY <1>4, <1>5

LEMMA RewindInv == ASSUME NEW n \in Height PROVE IInv /\ rewind(n) => IInv'
<1> SUFFICES ASSUME IInv, rewind(n) PROVE IInv'
  OBVIOUS
<1> DEFINE h == m_lastBlockHash'
<1>1. /\ up /\ job = Idle /\ best' = h /\ m_lastBlockNumber' = n
      /\ m_blockHashes' = With(Only(hashDB, {n}), clearCachesDuringChainReversion(n + 1))
      /\ UNCHANGED <<blocksDB, detailsDB, hashDB, m_details, job, reader, up>>
      /\ events \subseteq events' /\ events' \subseteq events \cup {"rewound", "stale"}
  BY DEF rewind
<1>2. /\ n \in Nat /\ n < Number[durable]
      /\ h \in Node /\ Number[h] = n
      /\ h \in DOMAIN detailsDB
      /\ "stale" \notin events' /\ n # 0 => h = hashDB[n]
      /\ n = 0 => h = Genesis
  BY RewindHead
<1>3. h # NoBlock
  BY <1>2, TreeAssumption
<1>4. durable' = h /\ indexed' = h /\ indexed = durable
  BY <1>1, <1>3 DEF durable, indexed, Idle
<1>5. /\ DOMAIN m_blockHashes' \subseteq DOMAIN m_blockHashes \cup DOMAIN hashDB
      /\ \A k \in DOMAIN m_blockHashes' :
           \/ k \in DOMAIN m_blockHashes /\ m_blockHashes'[k] = m_blockHashes[k]
           \/ k \in DOMAIN hashDB /\ m_blockHashes'[k] = hashDB[k]
  BY <1>1, Zenon DEF With, Only, clearCachesDuringChainReversion
<1>6. TypeOK'
  <2>1. \A k \in DOMAIN m_blockHashes' :
          m_blockHashes'[k] \in Block /\ Number[m_blockHashes'[k]] = k
    BY <1>5, Zenon DEF IInv, TypeOK
  <2>2. events' \subseteq Event
    BY <1>1, Zenon DEF IInv, TypeOK, Event
  <2> QED
    BY <2>1, <2>2, <1>1, <1>2, ZenonT(60) DEF IInv, TypeOK
<1>7. DiskClosed'
  <2>1. \A k \in DOMAIN m_blockHashes' : m_blockHashes'[k] \in DOMAIN detailsDB
    BY <1>5 DEF IInv, DiskClosed
  <2> QED
    BY <2>1, <1>1, <1>2, Zenon DEF IInv, DiskClosed
<1>8. HeadDurable'
  BY <1>4 DEF HeadDurable
<1>9. JobInv' /\ ReaderInv'
  BY <1>1, Zenon DEF IInv, JobInv, ReaderInv, Idle
<1>10. IndexInv'
  <2>1. Number[durable] \in Nat /\ durable \in Node
    <3>1. durable \in Node
      BY <1>1, Zenon DEF IInv, HeadDurable, TypeOK
    <3> QED
      BY <3>1, LineFacts, SMTT(30)
  <2>2. \A k \in 1 .. n : k \in DOMAIN hashDB
    <3>1. \A k \in 1 .. n : k \in 1 .. Number[durable]
      BY <1>2, <2>1
    <3> QED
      BY <3>1 DEF IInv, IndexInv
  <2>3. ASSUME events' \cap {"torn", "stale"} = {}, NEW k \in 1 .. n
        PROVE  hashDB[k] = Line[h][k]
    <3>1. events \cap {"torn", "stale"} = {}
      BY <1>1, <2>3
    <3>2. \A j \in 1 .. Number[durable] : hashDB[j] = Line[durable][j]
      BY <3>1, <1>4 DEF IInv, IndexInv
    <3>3. /\ n \in 0 .. Number[durable] /\ n # 0 /\ k \in 0 .. n
          /\ k \in 1 .. Number[durable] /\ n \in 1 .. Number[durable]
      BY <1>2, <2>1
    <3>4. h = Line[durable][n]
      BY <1>2, <2>3, <3>2, <3>3, SMTT(30)
    <3> QED
      BY <2>1, <3>2, <3>3, <3>4, LineFacts
  <2> QED
    BY <1>1, <1>2, <1>4, <2>2, <2>3, Zenon DEF IndexInv
<1> QED
  BY <1>1, <1>5, <1>6, <1>7, <1>8, <1>9, <1>10, Zenon DEF IInv

LEMMA LookupInv ==
  ASSUME NEW r \in Readers, NEW x
  PROVE  IInv /\ (lookupHash(r, x) \/ lookupDetails(r, x)) => IInv'
<1> SUFFICES ASSUME IInv, lookupHash(r, x) \/ lookupDetails(r, x) PROVE IInv'
  BY SMTT(30)
<1>1. /\ UNCHANGED <<blocksDB, detailsDB, hashDB, best, m_details, m_blockHashes,
                     m_lastBlockHash, m_lastBlockNumber, job, up, events>>
      /\ durable' = durable /\ indexed' = indexed /\ up
  BY Zenon DEF lookupHash, lookupDetails, disk, cache, head, durable, indexed
<1>2. TypeOK' /\ DiskClosed' /\ HeadDurable' /\ IndexInv'
  BY <1>1, Zenon DEF IInv, TypeOK, DiskClosed, HeadDurable, IndexInv
<1>3. JobInv'
  BY <1>1, Zenon DEF IInv, JobInv
<1>4. ReaderInv'
  <2>1. reader = [s \in Readers |-> reader[s]]
    BY SMTT(30) DEF IInv, ReaderInv
  <2>2. CASE lookupHash(r, x)
    <3>1. reader' = [reader EXCEPT ![r] = [of |-> "hash", key |-> x, value |-> hashDB[x]]]
          /\ x \in DOMAIN hashDB
      BY <2>2, Zenon DEF lookupHash
    <3>2. /\ reader'[r] = [of |-> "hash", key |-> x, value |-> hashDB[x]]
          /\ \A s \in Readers \ {r} : reader'[s] = reader[s]
          /\ reader' = [s \in Readers |-> reader'[s]]
      BY <2>1, <3>1, SMTT(30)
    <3>3. /\ x \in Nat \ {0} /\ hashDB[x] \in Block /\ Number[hashDB[x]] = x
          /\ hashDB[x] \in DOMAIN detailsDB
      BY <3>1, Zenon DEF IInv, TypeOK, DiskClosed
    <3> QED
      BY <1>1, <3>2, <3>3, SMTT(30) DEF IInv, ReaderInv
  <2>3. CASE lookupDetails(r, x)
    <3>1. reader' = [reader EXCEPT ![r] = [of |-> "details", key |-> x, value |-> detailsDB[x]]]
          /\ x \in DOMAIN detailsDB
      BY <2>3, Zenon DEF lookupDetails
    <3>2. /\ reader'[r] = [of |-> "details", key |-> x, value |-> detailsDB[x]]
          /\ \A s \in Readers \ {r} : reader'[s] = reader[s]
          /\ reader' = [s \in Readers |-> reader'[s]]
      BY <2>1, <3>1, SMTT(30)
    <3> QED
      BY <1>1, <3>1, <3>2, Zenon DEF IInv, ReaderInv
  <2> QED
    BY <2>2, <2>3
<1>5. IInv!2' /\ IInv!3' /\ IInv!4' /\ IInv!5' /\ IInv!6'
  BY <1>1, ZenonT(60) DEF IInv
<1> QED
  BY <1>2, <1>3, <1>4, <1>5 DEF IInv

LEMMA FillInv == ASSUME NEW r \in Readers PROVE IInv /\ fill(r) => IInv'
<1> SUFFICES ASSUME IInv, fill(r) PROVE IInv'
  BY Zenon
<1> DEFINE k == reader[r].key
           v == reader[r].value
<1>1. /\ UNCHANGED <<blocksDB, detailsDB, hashDB, best, m_lastBlockHash,
                     m_lastBlockNumber, job, up>>
      /\ durable' = durable /\ indexed' = indexed
      /\ reader[r] # NoRead /\ reader' = [reader EXCEPT ![r] = NoRead]
      /\ events \subseteq events' /\ events' \subseteq events \cup {"outdated"}
  BY Zenon DEF fill, disk, head, durable, indexed, Note
<1>2. up
  BY <1>1, SMTT(30) DEF IInv
<1>3. ReaderInv'
  <2>1. reader = [s \in Readers |-> reader[s]]
    BY DEF IInv, ReaderInv
  <2>2. /\ reader'[r] = NoRead
        /\ \A s \in Readers \ {r} : reader'[s] = reader[s]
        /\ reader' = [s \in Readers |-> reader'[s]]
    BY <1>1, <2>1, SMTT(30)
  <2> QED
    BY <1>1, <2>2, Zenon DEF IInv, ReaderInv, NoRead
<1>4. IndexInv' /\ HeadDurable'
  BY <1>1, Zenon DEF IInv, IndexInv, HeadDurable
<1>5. JobInv'
  BY <1>1, Zenon DEF IInv, JobInv
<1>6. events' \subseteq Event
  BY <1>1, Zenon DEF IInv, TypeOK, Event
<1>7. CASE reader[r].of = "hash"
  <2>1. m_blockHashes' = With([x \in {k} |-> v], m_blockHashes) /\ m_details' = m_details
    BY <1>7, Zenon DEF fill
  <2>2. k \in Nat \ {0} /\ v \in Block /\ Number[v] = k /\ v \in DOMAIN detailsDB
    BY <1>7, SMTT(30) DEF IInv, ReaderInv
  <2>3. /\ DOMAIN m_blockHashes' = {k} \cup DOMAIN m_blockHashes
        /\ \A x \in DOMAIN m_blockHashes : m_blockHashes'[x] = m_blockHashes[x]
        /\ k \notin DOMAIN m_blockHashes => m_blockHashes'[k] = v
    BY <2>1, SMTT(30) DEF With
  <2>4. /\ \A x \in DOMAIN m_blockHashes' :
             /\ m_blockHashes'[x] \in Block /\ Number[m_blockHashes'[x]] = x
             /\ m_blockHashes'[x] \in DOMAIN detailsDB
        /\ DOMAIN m_blockHashes' \subseteq Nat \ {0}
    BY <2>2, <2>3, ZenonT(60) DEF IInv, TypeOK, DiskClosed
  <2>5. TypeOK'
    BY <2>1, <2>4, <1>1, <1>6, Zenon DEF IInv, TypeOK
  <2>6. DiskClosed'
    BY <2>4, <1>1, Zenon DEF IInv, DiskClosed
  <2> QED
    BY <1>1, <1>2, <1>3, <1>4, <1>5, <2>4, <2>5, <2>6, Zenon DEF IInv
<1>8. CASE reader[r].of # "hash"
  <2>1. m_details' = With([x \in {k} |-> v], m_details) /\ m_blockHashes' = m_blockHashes
    BY <1>8, Zenon DEF fill
  <2>2. k \in DOMAIN detailsDB
    BY <1>1, <1>8, SMTT(30) DEF IInv, ReaderInv
  <2>3. DOMAIN m_details' \subseteq DOMAIN detailsDB
    BY <2>1, <2>2, Zenon DEF With, IInv, TypeOK
  <2>4. TypeOK'
    BY <2>1, <2>3, <1>1, <1>6, ZenonT(60) DEF IInv, TypeOK
  <2>5. DiskClosed'
    BY <2>1, <1>1, Zenon DEF IInv, DiskClosed
  <2> QED
    BY <1>1, <1>2, <1>3, <1>4, <1>5, <2>1, <2>4, <2>5, SMTT(30) DEF IInv
<1> QED
  BY <1>7, <1>8, SMTT(30)

LEMMA CollectInv == ASSUME NEW b \in Node PROVE IInv /\ garbageCollect(b) => IInv'
<1> SUFFICES ASSUME IInv, garbageCollect(b) PROVE IInv'
  OBVIOUS
<1>1. /\ UNCHANGED <<blocksDB, detailsDB, hashDB, best, m_blockHashes, m_lastBlockHash,
                     m_lastBlockNumber, job, reader, up, events>>
      /\ durable' = durable /\ indexed' = indexed /\ up
  BY DEF garbageCollect, disk, head, durable, indexed
<1>2. DOMAIN m_details' \subseteq DOMAIN m_details
  BY SMTT(30) DEF garbageCollect, Only
<1>3. TypeOK'
  BY <1>1, <1>2, Zenon DEF IInv, TypeOK
<1>4. DiskClosed' /\ HeadDurable' /\ IndexInv' /\ ReaderInv'
  BY <1>1, Zenon DEF IInv, DiskClosed, HeadDurable, IndexInv, ReaderInv
<1>5. JobInv'
  BY <1>1, Zenon DEF IInv, JobInv
<1> QED
  BY <1>1, <1>3, <1>4, <1>5, SMTT(30) DEF IInv

LEMMA StutterInv == IInv /\ UNCHANGED vars => IInv'
<1> SUFFICES ASSUME IInv, UNCHANGED vars PROVE IInv'
  BY SMTT(30)
<1>1. TypeOK' /\ DiskClosed' /\ HeadDurable'
  BY Zenon DEF IInv, vars, disk, cache, head, TypeOK, DiskClosed, HeadDurable, durable
<1>2. JobInv'
  BY Zenon DEF IInv, vars, disk, cache, head, JobInv, durable
<1>3. ReaderInv'
  BY Zenon DEF IInv, vars, disk, cache, head, ReaderInv
<1>4. IndexInv'
  BY Zenon DEF IInv, vars, disk, cache, head, IndexInv, indexed, durable
<1> QED
  BY <1>1, <1>2, <1>3, <1>4 DEF IInv, vars, disk, cache, head

LEMMA NextInv == IInv /\ [Next]_vars => IInv'
<1> SUFFICES ASSUME IInv, [Next]_vars PROVE IInv'
  OBVIOUS
<1>1. ASSUME NEW b \in Node, garbageCollect(b) PROVE IInv'
  BY <1>1, CollectInv
<1>2. ASSUME NEW b \in Block, import(b) PROVE IInv'
  BY <1>2, ImportInv
<1>3. ASSUME NEW n \in Height, rewind(n) PROVE IInv'
  BY <1>3, RewindInv
<1>4. ASSUME NEW r \in Readers, fill(r) PROVE IInv'
  BY <1>4, FillInv
<1>5. ASSUME NEW r \in Readers, NEW n \in Height, lookupHash(r, n) PROVE IInv'
  BY <1>5, LookupInv
<1>6. ASSUME NEW r \in Readers, NEW b \in Node, lookupDetails(r, b) PROVE IInv'
  BY <1>6, LookupInv
<1> QED
  BY <1>1, <1>2, <1>3, <1>4, <1>5, <1>6, OpenInv, CloseInv, CommitBlocksInv,
     CommitExtrasInv, SetBestInv, StutterInv DEF Next

LEMMA Invariant == Spec => []IInv
BY InitInv, NextInv, PTL DEF Spec

(***************************************************************************)
(* The tables and the caches hold blocks under their own numbers.          *)
(***************************************************************************)
THEOREM StoreTypes == Spec => []TypeOK
<1>1. IInv => TypeOK
  BY DEF IInv
<1> QED
  BY <1>1, Invariant, PTL

(***************************************************************************)
(* A crash between any two writes of insertBlockAndExtras leaves databases *)
(* whose every block can be walked to the genesis block.                   *)
(***************************************************************************)
THEOREM ClosedOnDisk == Spec => []DiskClosed
<1>1. IInv => DiskClosed
  BY DEF IInv
<1> QED
  BY <1>1, Invariant, PTL

(***************************************************************************)
(* open finds the head that the node had.                                  *)
(***************************************************************************)
THEOREM DurableHead == Spec => []HeadDurable
<1>1. IInv => HeadDurable
  BY DEF IInv
<1> QED
  BY <1>1, Invariant, PTL

(***************************************************************************)
(* The hashes by number are the line of the head, but for a crash before   *)
(* "best" is written and a rewind on a stale cached hash.                  *)
(***************************************************************************)
THEOREM IndexIsLine == Spec => []IndexExplained
<1>1. IInv => IndexExplained
  <2> SUFFICES ASSUME IInv, up, events \cap {"torn", "stale"} = {}
               PROVE  \A n \in 1 .. Number[indexed] : n \in DOMAIN hashDB
                                                      /\ hashDB[n] = Line[indexed][n]
    BY Zenon DEF IndexExplained, indexed, IInv, HeadDurable
  <2> QED
    BY SMTT(30) DEF IInv, IndexInv
<1> QED
  BY <1>1, Invariant, PTL

(***************************************************************************)
(* Without those two events rewind goes to a block along the chain.        *)
(***************************************************************************)
THEOREM RewindsAlong == Spec => RewindExplained
<1>1. IInv /\ [Next]_vars => [StepAlong]_vars
  <2> SUFFICES ASSUME IInv, events' \cap {"torn", "stale"} = {},
                      NEW n \in Height, rewind(n)
               PROVE  m_lastBlockHash' = Line[m_lastBlockHash][n]
    BY DEF StepAlong
  <2>1. /\ n \in Nat /\ n < Number[durable]
        /\ n # 0 => m_lastBlockHash' = hashDB[n]
        /\ n = 0 => m_lastBlockHash' = Genesis
    BY RewindHead, SMTT(30)
  <2>2. /\ m_lastBlockHash = durable /\ durable \in Node /\ Number[durable] \in Nat
    <3>1. m_lastBlockHash = durable /\ m_lastBlockHash \in Node
      BY Zenon DEF rewind, IInv, HeadDurable, TypeOK
    <3> QED
      BY <3>1, LineFacts, Zenon
  <2>3. CASE n = 0
    BY <2>1, <2>2, <2>3, LineAssumption, Zenon
  <2>4. CASE n # 0
    <3>1. n \in 1 .. Number[durable]
      BY <2>1, <2>2, <2>4
    <3>2. indexed = durable /\ events \cap {"torn", "stale"} = {}
      BY Zenon DEF rewind, indexed, Idle
    <3> QED
      BY <3>1, <3>2, <2>1, <2>2, <2>4 DEF IInv, IndexInv
  <2> QED
    BY <2>3, <2>4
<1> QED
  BY <1>1, Invariant, PTL DEF Spec, RewindExplained

-----------------------------------------------------------------------------

(***************************************************************************)
(* The miners.  Block b is no reason to leave head h; block b may replace  *)
(* head h.                                                                 *)
(***************************************************************************)
NoBetter(b, h) ==
  /\ Number[b] <= Number[h]
  /\ Number[b] = Number[h] /\ Number[b] >= replaceHeight => Rank[h] = 0 \/ Rank[h] <= Rank[b]

Replaces(b, h) ==
  \/ Number[b] > Number[h]
  \/ /\ Number[b] = Number[h]
     /\ Number[b] < replaceHeight \/ (Rank[h] # 0 /\ Rank[b] <= Rank[h])

(***************************************************************************)
(* The inductive invariant behind BestMiner: without a torn write or a     *)
(* rewind no stored block is higher than the head either, except the one   *)
(* that is about to become the head.                                       *)
(***************************************************************************)
BestInv ==
  events \cap {"torn", "rewound"} = {} =>
    /\ \A b \in DOMAIN detailsDB :
         NoBetter(b, durable) \/ (job.step = "extras" /\ job.isBest /\ b = job.block)
    /\ job.step # "idle" => IF job.isBest THEN Replaces(job.block, durable)
                            ELSE NoBetter(job.block, durable)

(***************************************************************************)
(* The inductive invariant behind ChildrenKept: the cached details are     *)
(* those on disk, except those of the parent until the extras are          *)
(* committed, and the block of an import is new to the database.           *)
(***************************************************************************)
writing == job.step \in {"begun", "blocks"}

ChildrenInv ==
  events = {} =>
    /\ Consistent
    /\ \A x \in DOMAIN m_details :
         m_details[x] = IF writing /\ x = Parent[job.block] THEN job.extras[x] ELSE detailsDB[x]
    /\ writing =>
         /\ job.block \notin DOMAIN detailsDB
         /\ Parent[job.block] \in DOMAIN m_details
         /\ detailsDB[Parent[job.block]] \cup {job.block} \subseteq job.extras[Parent[job.block]]

-----------------------------------------------------------------------------

(***************************************************************************)
(* A block no better than a head is no better than what replaces the head. *)
(***************************************************************************)
LEMMA ReplacedHead ==
  ASSUME NEW x \in Node, NEW b \in Node, NEW h \in Node, NoBetter(x, h), Replaces(b, h)
  PROVE  NoBetter(x, b)
<1>1. /\ Number[x] \in Nat /\ Number[b] \in Nat /\ Number[h] \in Nat
      /\ Rank[x] \in Nat /\ Rank[b] \in Nat /\ Rank[h] \in Nat /\ replaceHeight \in Nat
  BY TreeAssumption
<1> QED
  BY <1>1 DEF NoBetter, Replaces

LEMMA NoBetterSelf == ASSUME NEW b \in Node PROVE NoBetter(b, b)
<1>1. Number[b] \in Nat /\ Rank[b] \in Nat
  BY TreeAssumption
<1> QED
  BY <1>1 DEF NoBetter

LEMMA NoBetterGenesis == ASSUME NEW h \in Node PROVE NoBetter(Genesis, h)
<1>1. CASE Number[h] = 0
  <2>1. h = Genesis
    BY <1>1, LineAssumption, ZenonT(60)
  <2> QED
    BY <2>1, NoBetterSelf
<1>2. CASE Number[h] # 0
  <2>1. Number[h] \in Nat
    BY TreeAssumption
  <2> QED
    BY <1>2, <2>1, GenesisFacts DEF NoBetter
<1> QED
  BY <1>1, <1>2

LEMMA DurableNode == IInv => durable \in Node
BY GenesisFacts DEF IInv, TypeOK, durable

(***************************************************************************)
(* What import decides, when the parent is no higher than the head.        *)
(***************************************************************************)
LEMMA Decision ==
  ASSUME NEW b \in Block, m_lastBlockHash \in Node, NoBetter(Parent[b], m_lastBlockHash)
  PROVE  IF Number[b] >= Number[m_lastBlockHash] /\ verifyReplaceMiner(b)
         THEN Replaces(b, m_lastBlockHash) ELSE NoBetter(b, m_lastBlockHash)
<1> DEFINE h == m_lastBlockHash
           p == Parent[b]
<1>1. /\ b \in Node /\ Number[p] \in Nat /\ Number[b] = Number[p] + 1
  BY ParentFacts
<1>2. /\ Number[h] \in Nat /\ Rank[h] \in Nat /\ Rank[b] \in Nat /\ replaceHeight \in Nat
      /\ Number[Genesis] = 0
  BY <1>1, TreeAssumption, GenesisFacts
<1>3. Number[p] <= Number[h]
  BY DEF NoBetter
<1>4. CASE Number[b] >= Number[h] /\ verifyReplaceMiner(b)
  <2>1. CASE Number[b] = Number[h]
    <3>1. h # Genesis /\ p # h
      BY <1>1, <1>2, <2>1
    <3> QED
      BY <1>1, <1>2, <1>4, <2>1, <3>1 DEF verifyReplaceMiner, Replaces
  <2>2. CASE Number[b] > Number[h]
    BY <1>4, <2>2 DEF Replaces
  <2> QED
    BY <1>1, <1>2, <1>4, <2>1, <2>2
<1>5. CASE ~(Number[b] >= Number[h] /\ verifyReplaceMiner(b))
  <2>1. CASE Number[b] < Number[h]
    BY <1>1, <1>2, <1>5, <2>1 DEF NoBetter
  <2>2. CASE Number[b] >= Number[h]
    <3>1. ~verifyReplaceMiner(b)
      BY <1>5, <2>2, Zenon
    <3>2. /\ Number[b] # Number[h] + 1 /\ ~(Number[b] < replaceHeight)
          /\ ~(Number[b] = Number[h] /\ Rank[h] # 0 /\ Rank[b] <= Rank[h])
      BY <3>1, Zenon DEF verifyReplaceMiner
    <3>3. Number[b] = Number[h]
      BY <1>1, <1>2, <1>3, <2>2, <3>2
    <3>4. Rank[h] = 0 \/ Rank[h] <= Rank[b]
      BY <1>2, <3>2, <3>3
    <3> QED
      BY <1>2, <1>5, <3>3, <3>4 DEF NoBetter
  <2> QED
    BY <1>1, <1>2, <2>1, <2>2
<1> QED
  BY <1>4, <1>5, Zenon

LEMMA InitBest == Init => BestInv
BY EmptyFacts DEF Init, BestInv, Idle

LEMMA OpenBest == IInv /\ BestInv /\ open => BestInv'
<1> SUFFICES ASSUME IInv, BestInv, open, events \cap {"torn", "rewound"} = {}
             PROVE  BestInv'
  BY Zenon DEF BestInv, open
<1>1. durable' = durable /\ job' = job /\ events' = events /\ job = Idle
  BY Zenon DEF open, durable, IInv
<1>2. DOMAIN detailsDB' \subseteq (DOMAIN detailsDB) \cup {Genesis}
  BY DEF open, With
<1>3. NoBetter(Genesis, durable)
  BY DurableNode, NoBetterGenesis
<1>4. job.step = "idle"
  BY <1>1 DEF Idle
<1> QED
  BY <1>1, <1>2, <1>3, <1>4, Zenon DEF BestInv, NoBetter, Replaces

LEMMA CloseBest == IInv /\ BestInv /\ close => BestInv'
<1> SUFFICES ASSUME IInv, BestInv, close, events' \cap {"torn", "rewound"} = {}
             PROVE  BestInv'
  BY Zenon DEF BestInv
<1>1. durable' = durable /\ job' = Idle /\ detailsDB' = detailsDB
  BY DEF close, durable, disk
<1>2. events \cap {"torn", "rewound"} = {} /\ ~(job.step = "extras" /\ job.isBest)
  BY DEF close, Note
<1>3. Idle.step = "idle"
  BY DEF Idle
<1> QED
  BY <1>1, <1>2, <1>3, Zenon DEF BestInv, NoBetter, Replaces

LEMMA CommitBlocksBest == IInv /\ BestInv /\ commitBlocks => BestInv'
<1> SUFFICES ASSUME IInv, BestInv, commitBlocks PROVE BestInv'
  OBVIOUS
<1>1. /\ durable' = durable /\ events' = events /\ detailsDB' = detailsDB
      /\ job.step = "begun" /\ job'.step = "blocks" /\ job'.block = job.block
      /\ job'.isBest = job.isBest
  BY DEF commitBlocks, durable, IInv, JobInv
<1> QED
  BY <1>1, ZenonT(30) DEF BestInv, NoBetter, Replaces

LEMMA CommitExtrasBest == IInv /\ BestInv /\ commitExtras => BestInv'
<1> SUFFICES ASSUME IInv, BestInv, commitExtras PROVE BestInv'
  OBVIOUS
<1>1. /\ durable' = durable /\ events' = events
      /\ job.step = "blocks" /\ job'.step = "extras" /\ job'.block = job.block
      /\ job'.isBest = job.isBest
  BY DEF commitExtras, durable, IInv, JobInv
<1>2. DOMAIN detailsDB' \subseteq (DOMAIN detailsDB) \cup {job.block}
  BY <1>1 DEF commitExtras, IInv, JobInv, With
<1>3. \A x : NoBetter(x, durable)' <=> NoBetter(x, durable)
  BY <1>1, Zenon DEF NoBetter
<1>4. \A x : Replaces(x, durable)' <=> Replaces(x, durable)
  BY <1>1, Zenon DEF Replaces
<1>5. SUFFICES ASSUME events \cap {"torn", "rewound"} = {}
      PROVE /\ \A b \in DOMAIN detailsDB' : NoBetter(b, durable) \/ (job.isBest /\ b = job.block)
            /\ IF job.isBest THEN Replaces(job.block, durable) ELSE NoBetter(job.block, durable)
  BY <1>1, <1>3, <1>4, ZenonT(30) DEF BestInv, NoBetter, Replaces
<1>6. /\ \A b \in DOMAIN detailsDB : NoBetter(b, durable)
      /\ IF job.isBest THEN Replaces(job.block, durable) ELSE NoBetter(job.block, durable)
  BY <1>1, <1>5, Zenon DEF BestInv
<1> QED
  BY <1>2, <1>6, Zenon

LEMMA SetBestBest == IInv /\ BestInv /\ setBest => BestInv'
<1> SUFFICES ASSUME IInv, BestInv, setBest, events \cap {"torn", "rewound"} = {}
             PROVE  BestInv'
  BY Zenon DEF BestInv, setBest
<1>1. /\ events' = events /\ detailsDB' = detailsDB /\ job' = Idle /\ Idle.step = "idle"
      /\ job.step = "extras"
  BY Zenon DEF setBest, Idle
<1>2. job.block \in Node /\ job.block # NoBlock /\ job.isBest \in BOOLEAN /\ durable \in Node
      /\ DOMAIN detailsDB \subseteq Node
  BY <1>1, TreeAssumption, DurableNode, ZenonT(60) DEF IInv, JobInv, TypeOK, Node
<1>3. SUFFICES \A x \in DOMAIN detailsDB : NoBetter(x, durable')
  BY <1>1, Zenon DEF BestInv, NoBetter
<1>4. CASE job.isBest
  <2>1. durable' = job.block
    BY <1>2, <1>4, Zenon DEF setBest, durable
  <2>2. Replaces(job.block, durable) /\ NoBetter(job.block, job.block)
    BY <1>1, <1>2, <1>4, NoBetterSelf, Zenon DEF BestInv
  <2>3. ASSUME NEW x \in DOMAIN detailsDB, x # job.block PROVE NoBetter(x, job.block)
    <3>1. NoBetter(x, durable)
      BY <2>3, Zenon DEF BestInv
    <3> QED
      BY <3>1, <2>2, <1>2, ReplacedHead, Zenon
  <2> QED
    BY <2>1, <2>2, <2>3, Zenon
<1>5. CASE ~job.isBest
  <2>1. durable' = durable
    BY <1>5 DEF setBest, durable
  <2> QED
    BY <2>1, <1>5, Zenon DEF BestInv
<1> QED
  BY <1>2, <1>4, <1>5

LEMMA ImportBest == ASSUME NEW b \in Block PROVE IInv /\ BestInv /\ import(b) => BestInv'
<1> SUFFICES ASSUME IInv, BestInv, import(b), events \cap {"torn", "rewound"} = {}
             PROVE  BestInv'
  BY Zenon DEF BestInv, import
<1> DEFINE above == Number[b] >= Number[m_lastBlockHash] /\ verifyReplaceMiner(b)
<1>1. /\ up /\ job = Idle /\ Idle.step = "idle" /\ isKnown(Parent[b])
      /\ events' = events /\ detailsDB' = detailsDB /\ durable' = durable
      /\ m_lastBlockHash = durable /\ m_lastBlockHash \in Node
  BY Zenon DEF import, Idle, disk, durable, IInv, HeadDurable, TypeOK
<1>2. job'.step = "begun" /\ job'.block = b /\ job'.isBest = above
  <2>1. \E e, n : job' = [step |-> "begun", block |-> b, extras |-> e, hashes |-> n,
                         isBest |-> above]
    BY Zenon DEF import
  <2> HIDE DEF above
  <2>2. PICK e, n : job' = [step |-> "begun", block |-> b, extras |-> e, hashes |-> n,
                            isBest |-> above]
    BY <2>1, Zenon
  <2> QED
    BY <2>2
<1>3. Parent[b] \in DOMAIN detailsDB
  BY <1>1, Zenon DEF isKnown, hasDetails, IInv, TypeOK
<1>4. \A x \in DOMAIN detailsDB : NoBetter(x, durable)
  BY <1>1, Zenon DEF BestInv
<1>5. IF above THEN Replaces(b, durable) ELSE NoBetter(b, durable)
  BY <1>1, <1>3, <1>4, Decision, Zenon
<1> HIDE DEF above
<1> QED
  BY <1>1, <1>2, <1>4, <1>5, ZenonT(30) DEF BestInv, NoBetter, Replaces

(***************************************************************************)
(* The steps that touch neither the details on disk nor "best".            *)
(***************************************************************************)
LEMMA SameBest ==
  BestInv /\ UNCHANGED <<detailsDB, best, job>> /\ events \subseteq events' => BestInv'
<1> SUFFICES ASSUME BestInv, detailsDB' = detailsDB, best' = best, job' = job,
                    events \subseteq events'
             PROVE  BestInv'
  OBVIOUS
<1>1. durable' = durable
  BY DEF durable
<1>2. events' \cap {"torn", "rewound"} = {} => events \cap {"torn", "rewound"} = {}
  OBVIOUS
<1> QED
  BY <1>1, <1>2, ZenonT(30) DEF BestInv, NoBetter, Replaces

LEMMA NextBest == IInv /\ BestInv /\ [Next]_vars => BestInv'
<1> SUFFICES ASSUME IInv, BestInv, [Next]_vars PROVE BestInv'
  OBVIOUS
<1>1. ASSUME NEW b \in Node, garbageCollect(b) PROVE BestInv'
  BY <1>1, SameBest DEF garbageCollect, disk
<1>2. ASSUME NEW b \in Block, import(b) PROVE BestInv'
  BY <1>2, ImportBest
<1>3. ASSUME NEW n \in Height, rewind(n) PROVE BestInv'
  <2>1. "rewound" \in events'
    BY <1>3 DEF rewind
  <2> QED
    BY <2>1, Zenon DEF BestInv
<1>4. ASSUME NEW r \in Readers, fill(r) PROVE BestInv'
  BY <1>4, SameBest, Zenon DEF fill, disk, Note
<1>5. ASSUME NEW r \in Readers, NEW n \in Height, lookupHash(r, n) PROVE BestInv'
  BY <1>5, SameBest, Zenon DEF lookupHash, disk
<1>6. ASSUME NEW r \in Readers, NEW b \in Node, lookupDetails(r, b) PROVE BestInv'
  BY <1>6, SameBest, Zenon DEF lookupDetails, disk
<1>7. CASE UNCHANGED vars
  BY <1>7, SameBest DEF vars, disk
<1> QED
  BY <1>1, <1>2, <1>3, <1>4, <1>5, <1>6, <1>7, OpenBest, CloseBest, CommitBlocksBest,
     CommitExtrasBest, SetBestBest, Zenon DEF Next

LEMMA BestAlways == Spec => [](IInv /\ BestInv)
BY InitInv, NextInv, InitBest, NextBest, PTL DEF Spec

(***************************************************************************)
(* verifyReplaceMiner keeps the best miner at the head: without a torn     *)
(* write or a rewind, no stored block of the head's height comes from a    *)
(* miner that should have replaced the head's.                             *)
(***************************************************************************)
THEOREM BestMinerHeads == Spec => []BestMiner
<1>1. IInv /\ BestInv => BestMiner
  <2> SUFFICES ASSUME IInv, BestInv, up, job = Idle, events \cap {"torn", "rewound"} = {},
                      NEW b \in DOMAIN detailsDB,
                      Number[b] = m_lastBlockNumber, Number[b] >= replaceHeight
               PROVE  Rank[m_lastBlockHash] = 0 \/ Rank[m_lastBlockHash] <= Rank[b]
    BY DEF BestMiner
  <2>1. m_lastBlockHash = durable /\ m_lastBlockNumber = Number[m_lastBlockHash]
        /\ job.step = "idle"
    BY Zenon DEF IInv, HeadDurable, TypeOK, Idle
  <2>2. NoBetter(b, durable)
    BY <2>1, Zenon DEF BestInv
  <2> QED
    BY <2>1, <2>2, Zenon DEF NoBetter
<1> QED
  BY <1>1, BestAlways, PTL

-----------------------------------------------------------------------------

(***************************************************************************)
(* A stored block other than a child of the genesis block has its parent   *)
(* stored.                                                                 *)
(***************************************************************************)
LEMMA StoredParent ==
  ASSUME IInv, NEW y \in blocksDB \cap DOMAIN detailsDB, Parent[y] # Genesis
  PROVE  y \in Block /\ Parent[y] \in DOMAIN detailsDB
<1>1. y \in Block
  BY Zenon DEF IInv, TypeOK
<1>2. Parent[y] \in Node /\ Number[Parent[y]] \in Nat /\ Number[y] = Number[Parent[y]] + 1
  BY <1>1, ParentFacts
<1>3. Line[y][Number[Parent[y]]] = Parent[y]
  BY <1>1, <1>2, ParentFacts, LineFacts
<1>4. Number[Parent[y]] # 0
  BY <1>2, LineAssumption
<1>5. Number[Parent[y]] \in 1 .. Number[y]
  BY <1>2, <1>4
<1> QED
  BY <1>1, <1>3, <1>5, Zenon DEF IInv, DiskClosed

LEMMA InitChildren == Init => ChildrenInv
BY EmptyFacts DEF Init, ChildrenInv, Consistent, writing, Idle

LEMMA OpenChildren == IInv /\ ChildrenInv /\ open => ChildrenInv'
<1> SUFFICES ASSUME IInv, ChildrenInv, open, events = {} PROVE ChildrenInv'
  BY Zenon DEF ChildrenInv, open
<1>1. /\ blocksDB' = blocksDB /\ job' = Idle /\ Idle.step = "idle"
      /\ m_details' = Only(detailsDB', {Genesis, m_lastBlockHash'})
  BY Zenon DEF open, IInv, Idle
<1>2. /\ DOMAIN detailsDB' = (DOMAIN detailsDB) \cup {Genesis}
      /\ \A x \in DOMAIN detailsDB : detailsDB'[x] = detailsDB[x]
  <2>1. CASE Genesis \in DOMAIN detailsDB
    <3>1. detailsDB' = detailsDB
      BY <2>1, Zenon DEF open
    <3> QED
      BY <2>1, <3>1, Zenon
  <2>2. CASE Genesis \notin DOMAIN detailsDB
    <3>1. detailsDB' = With(detailsDB, [b \in {Genesis} |-> {}])
      BY <2>2 DEF open
    <3> QED
      BY <2>2, <3>1 DEF With
  <2> QED
    BY <2>1, <2>2
<1>3. \A x \in DOMAIN m_details' : m_details'[x] = detailsDB'[x]
  BY <1>1 DEF Only
<1>4. ASSUME NEW y \in blocksDB \cap DOMAIN detailsDB', Parent[y] # Genesis
      PROVE  y \in detailsDB'[Parent[y]]
  <2>1. y \in DOMAIN detailsDB
    BY <1>2, TreeAssumption, ZenonT(60) DEF IInv, TypeOK
  <2>2. Parent[y] \in DOMAIN detailsDB /\ y \in detailsDB[Parent[y]]
    BY <2>1, <1>4, StoredParent, Zenon DEF ChildrenInv, Consistent
  <2> QED
    BY <2>2, <1>2
<1> QED
  BY <1>1, <1>3, <1>4, Zenon DEF ChildrenInv, Consistent, writing

LEMMA CloseChildren == IInv /\ ChildrenInv /\ close => ChildrenInv'
<1> SUFFICES ASSUME IInv, ChildrenInv, close, events' = {} PROVE ChildrenInv'
  BY Zenon DEF ChildrenInv
<1>1. /\ blocksDB' = blocksDB /\ detailsDB' = detailsDB /\ job' = Idle /\ Idle.step = "idle"
      /\ m_details' = Empty /\ events = {}
  BY Zenon DEF close, Idle, Note, disk
<1> QED
  BY <1>1, EmptyFacts, Zenon DEF ChildrenInv, Consistent, writing

LEMMA CommitBlocksChildren == IInv /\ ChildrenInv /\ commitBlocks => ChildrenInv'
<1> SUFFICES ASSUME IInv, ChildrenInv, commitBlocks, events = {} PROVE ChildrenInv'
  BY DEF ChildrenInv, commitBlocks
<1>1. /\ blocksDB' = blocksDB \cup {job.block} /\ detailsDB' = detailsDB
      /\ job.step = "begun" /\ job'.step = "blocks" /\ job'.block = job.block
      /\ job'.extras = job.extras /\ m_details' = m_details
  BY DEF commitBlocks, IInv, JobInv, cache
<1>2. writing /\ writing'
  BY <1>1 DEF writing
<1>3. job.block \notin DOMAIN detailsDB
  BY <1>2, Zenon DEF ChildrenInv
<1>4. Consistent'
  BY <1>1, <1>3, Zenon DEF ChildrenInv, Consistent
<1> QED
  BY <1>1, <1>2, <1>4, ZenonT(30) DEF ChildrenInv

LEMMA CommitExtrasChildren == IInv /\ ChildrenInv /\ commitExtras => ChildrenInv'
<1> SUFFICES ASSUME IInv, ChildrenInv, commitExtras, events = {} PROVE ChildrenInv'
  BY DEF ChildrenInv, commitExtras
<1> DEFINE b == job.block
           p == Parent[job.block]
<1>1. /\ blocksDB' = blocksDB /\ job.step = "blocks" /\ job'.step = "extras"
      /\ m_details' = m_details /\ detailsDB' = With(detailsDB, job.extras)
  BY DEF commitExtras, IInv, JobInv, cache
<1>2. writing /\ ~writing'
  BY <1>1 DEF writing
<1>3. /\ b \notin DOMAIN detailsDB /\ p \in DOMAIN m_details
      /\ detailsDB[p] \cup {b} \subseteq job.extras[p]
      /\ \A x \in DOMAIN m_details :
           m_details[x] = IF x = p THEN job.extras[x] ELSE detailsDB[x]
      /\ Consistent
  BY <1>2, Zenon DEF ChildrenInv
<1>4. DOMAIN job.extras = {p, b} /\ DOMAIN m_details \subseteq DOMAIN detailsDB
  BY <1>1, Zenon DEF IInv, JobInv, TypeOK
<1>5. /\ DOMAIN detailsDB' = (DOMAIN detailsDB) \cup {b}
      /\ detailsDB'[p] = job.extras[p]
      /\ \A x \in DOMAIN detailsDB : x # p => detailsDB'[x] = detailsDB[x]
  <2> HIDE DEF b, p
  <2> QED
    BY <1>1, <1>3, <1>4, Zenon DEF With
<1>6. \A x \in DOMAIN m_details' : m_details'[x] = detailsDB'[x]
  BY <1>1, <1>3, <1>4, <1>5, Zenon
<1>7. ASSUME NEW y \in blocksDB \cap DOMAIN detailsDB', Parent[y] # Genesis
      PROVE  y \in detailsDB'[Parent[y]]
  <2>1. CASE y = b
    BY <2>1, <1>3, <1>5, Zenon
  <2>2. CASE y # b
    <3>1. y \in blocksDB \cap DOMAIN detailsDB
      BY <2>2, <1>5, Zenon
    <3>2. Parent[y] \in DOMAIN detailsDB
      BY <3>1, <1>7, StoredParent, Zenon
    <3>3. y \in detailsDB[Parent[y]]
      BY <3>1, <1>3, <1>7, Zenon DEF Consistent
    <3> QED
      BY <3>2, <3>3, <1>3, <1>5, Zenon
  <2> QED
    BY <2>1, <2>2, Zenon
<1> QED
  BY <1>1, <1>2, <1>6, <1>7, Zenon DEF ChildrenInv, Consistent

LEMMA SetBestChildren == IInv /\ ChildrenInv /\ setBest => ChildrenInv'
<1> SUFFICES ASSUME IInv, ChildrenInv, setBest, events = {} PROVE ChildrenInv'
  BY Zenon DEF ChildrenInv, setBest
<1>1. /\ blocksDB' = blocksDB /\ detailsDB' = detailsDB /\ m_details' = m_details
      /\ job.step = "extras" /\ job' = Idle /\ Idle.step = "idle"
  BY Zenon DEF setBest, Idle, cache
<1>2. ~writing /\ ~writing'
  BY <1>1 DEF writing
<1> QED
  BY <1>1, <1>2, Zenon DEF ChildrenInv, Consistent

LEMMA ImportChildren ==
  ASSUME NEW b \in Block PROVE IInv /\ BestInv /\ ChildrenInv /\ import(b) => ChildrenInv'
<1> SUFFICES ASSUME IInv, BestInv, ChildrenInv, import(b), events = {} PROVE ChildrenInv'
  BY Zenon DEF ChildrenInv, import
<1> DEFINE p    == Parent[b]
           kids == details(p) \cup {b}
<1>1. /\ up /\ job = Idle /\ Idle.step = "idle" /\ ~isKnownCurrent(b) /\ isKnown(p)
      /\ blocksDB' = blocksDB /\ detailsDB' = detailsDB
      /\ m_lastBlockNumber = Number[durable]
  BY Zenon DEF import, Idle, disk, IInv, HeadDurable, TypeOK
<1>2. /\ job'.step = "begun" /\ job'.block = b
      /\ job'.extras = [x \in {p, b} |-> IF x = p THEN kids ELSE {}]
      /\ \E S : m_details' = With(Fetched(S), [x \in {p} |-> kids])
  <2> DEFINE last  == m_lastBlockHash
             above == Number[b] >= Number[last] /\ verifyReplaceMiner(b)
  <2>1. PICK c \in 0 .. Number[p] :
          /\ job' = [step   |-> "begun", block |-> b,
                     extras |-> [x \in {p, b} |-> IF x = p THEN kids ELSE {}],
                     hashes |-> IF above THEN [n \in c + 1 .. Number[b] |-> Line[b][n]]
                                ELSE Empty,
                     isBest |-> above]
          /\ m_details' = With(Fetched({p, last} \cup
                                       (IF above THEN Walked(last, p, c) ELSE {})),
                               [x \in {p} |-> kids])
    BY Zenon DEF import
  <2> HIDE DEF p, kids, last, above
  <2> QED
    BY <2>1, Zenon
<1>3. p \in DOMAIN detailsDB /\ DOMAIN m_details \subseteq DOMAIN detailsDB
  BY <1>1, Zenon DEF isKnown, hasDetails, IInv, TypeOK
<1>4. ~writing /\ writing'
  BY <1>1, <1>2, Zenon DEF writing
<1>5. (\A x \in DOMAIN m_details : m_details[x] = detailsDB[x]) /\ Consistent
  BY <1>4, Zenon DEF ChildrenInv
<1>6. details(p) = detailsDB[p]
  BY <1>5, Zenon DEF details
<1>7. b \notin DOMAIN detailsDB
  <2> SUFFICES ASSUME b \in DOMAIN detailsDB PROVE FALSE
    OBVIOUS
  <2>1. b \in Node /\ Number[b] \in Nat /\ Number[b] # 0 /\ Line[b][Number[b]] = b
    BY ParentFacts, LineFacts
  <2>2. Number[b] \in 1 .. Number[b]
    BY <2>1
  <2>3. b \in blocksDB
    BY <2>1, <2>2, Zenon DEF IInv, DiskClosed
  <2>4. ~(Number[b] <= Number[durable])
    BY <2>3, <1>1, Zenon DEF isKnownCurrent, isKnown, hasDetails
  <2>5. events \cap {"torn", "rewound"} = {} /\ job.step = "idle"
    BY <1>1
  <2>6. NoBetter(b, durable)
    BY <2>5, Zenon DEF BestInv
  <2> QED
    BY <2>4, <2>6, Zenon DEF NoBetter
<1>8. PICK S : m_details' = With(Fetched(S), [x \in {p} |-> kids])
  BY <1>2, Zenon
<1>9. job'.extras[p] = kids
  BY <1>2, Zenon
<1>10. /\ p \in DOMAIN m_details' /\ m_details'[p] = kids
       /\ \A x \in DOMAIN m_details' :
            x # p => x \in DOMAIN Fetched(S) /\ m_details'[x] = Fetched(S)[x]
  <2> HIDE DEF p, kids
  <2> QED
    BY <1>8 DEF With
<1>11. \A x \in DOMAIN Fetched(S) : Fetched(S)[x] = detailsDB[x]
  BY <1>5, Zenon DEF Fetched, With, Only
<1>12. Consistent'
  BY <1>1, <1>5, Zenon DEF Consistent
<1>13. \A x \in DOMAIN m_details' :
         m_details'[x] = IF x = p THEN job'.extras[x] ELSE detailsDB'[x]
  BY <1>1, <1>9, <1>10, <1>11, Zenon
<1>14. detailsDB'[p] \cup {b} \subseteq job'.extras[p]
  BY <1>1, <1>6, <1>9, Zenon
<1>15. b \notin DOMAIN detailsDB' /\ p \in DOMAIN m_details'
  BY <1>1, <1>7, <1>10, Zenon
<1> HIDE DEF p, kids
<1>16. p = Parent[job'.block]
  BY <1>2, Zenon DEF p
<1> QED
  BY <1>2, <1>4, <1>12, <1>13, <1>14, <1>15, <1>16, ZenonT(30) DEF ChildrenInv

LEMMA FillChildren ==
  ASSUME NEW r \in Readers PROVE IInv /\ ChildrenInv /\ fill(r) => ChildrenInv'
<1> SUFFICES ASSUME IInv, ChildrenInv, fill(r), events' = {} PROVE ChildrenInv'
  BY Zenon DEF ChildrenInv
<1> DEFINE k == reader[r].key
<1>1. /\ events = {} /\ blocksDB' = blocksDB /\ detailsDB' = detailsDB /\ job' = job
  BY Zenon DEF fill, Note, disk
<1>2. writing' = writing /\ Consistent' = Consistent
  BY <1>1, Zenon DEF writing, Consistent
<1>3. CASE reader[r].of = "hash"
  <2>1. m_details' = m_details
    BY <1>3, Zenon DEF fill
  <2> QED
    BY <2>1, <1>1, <1>2, ZenonT(30) DEF ChildrenInv
<1>4. CASE reader[r].of # "hash"
  <2>1. /\ m_details' = With([x \in {k} |-> reader[r].value], m_details)
        /\ reader[r] # NoRead
    BY <1>4, Zenon DEF fill
  <2>2. /\ DOMAIN m_details' = (DOMAIN m_details) \cup {k}
        /\ \A x \in DOMAIN m_details : m_details'[x] = m_details[x]
        /\ k \notin DOMAIN m_details => m_details'[k] = reader[r].value
    <3> HIDE DEF k
    <3> QED
      BY <2>1, Zenon DEF With
  <2>3. k \notin DOMAIN m_details => m_details'[k] = detailsDB[k]
    <3>1. reader[r].of = "details"
      BY <1>4, <2>1, Zenon DEF IInv, ReaderInv, NoRead
    <3> QED
      BY <2>2, <3>1, Zenon DEF fill, Note
  <2>4. writing => Parent[job.block] \in DOMAIN m_details
    BY <1>1, Zenon DEF ChildrenInv
  <2> HIDE DEF k
  <2>5. ASSUME NEW x \in DOMAIN m_details'
        PROVE  m_details'[x] = IF writing /\ x = Parent[job.block]
                               THEN job.extras[x] ELSE detailsDB[x]
    <3>1. CASE x \in DOMAIN m_details
      BY <3>1, <2>2, <1>1, Zenon DEF ChildrenInv
    <3>2. CASE x \notin DOMAIN m_details
      BY <3>2, <2>2, <2>3, <2>4, Zenon
    <3> QED
      BY <3>1, <3>2, Zenon
  <2> QED
    BY <1>1, <1>2, <2>2, <2>5, ZenonT(30) DEF ChildrenInv
<1> QED
  BY <1>3, <1>4, Zenon

LEMMA CollectChildren ==
  ASSUME NEW b \in Node PROVE IInv /\ ChildrenInv /\ garbageCollect(b) => ChildrenInv'
<1> SUFFICES ASSUME IInv, ChildrenInv, garbageCollect(b), events = {} PROVE ChildrenInv'
  BY Zenon DEF ChildrenInv, garbageCollect
<1>1. /\ blocksDB' = blocksDB /\ detailsDB' = detailsDB /\ job' = job /\ job.step = "idle"
      /\ m_details' = Only(m_details, DOMAIN m_details \ {b})
  BY Zenon DEF garbageCollect, disk, Idle
<1>2. ~writing /\ ~writing'
  BY <1>1 DEF writing
<1>3. \A x \in DOMAIN m_details' : x \in DOMAIN m_details /\ m_details'[x] = m_details[x]
  BY <1>1 DEF Only
<1> QED
  BY <1>1, <1>2, <1>3, Zenon DEF ChildrenInv, Consistent

LEMMA SameChildren ==
  ChildrenInv /\ UNCHANGED <<blocksDB, detailsDB, m_details, job, events>> => ChildrenInv'
BY ZenonT(30) DEF ChildrenInv, Consistent, writing

LEMMA NextChildren == IInv /\ BestInv /\ ChildrenInv /\ [Next]_vars => ChildrenInv'
<1> SUFFICES ASSUME IInv, BestInv, ChildrenInv, [Next]_vars PROVE ChildrenInv'
  OBVIOUS
<1>1. ASSUME NEW b \in Node, garbageCollect(b) PROVE ChildrenInv'
  BY <1>1, CollectChildren
<1>2. ASSUME NEW b \in Block, import(b) PROVE ChildrenInv'
  BY <1>2, ImportChildren
<1>3. ASSUME NEW n \in Height, rewind(n) PROVE ChildrenInv'
  <2>1. "rewound" \in events'
    BY <1>3 DEF rewind
  <2> QED
    BY <2>1, Zenon DEF ChildrenInv
<1>4. ASSUME NEW r \in Readers, fill(r) PROVE ChildrenInv'
  BY <1>4, FillChildren
<1>5. ASSUME NEW r \in Readers, NEW n \in Height, lookupHash(r, n) PROVE ChildrenInv'
  BY <1>5, SameChildren, Zenon DEF lookupHash, disk, cache
<1>6. ASSUME NEW r \in Readers, NEW b \in Node, lookupDetails(r, b) PROVE ChildrenInv'
  BY <1>6, SameChildren, Zenon DEF lookupDetails, disk, cache
<1>7. CASE UNCHANGED vars
  BY <1>7, SameChildren DEF vars, disk, cache
<1> QED
  BY <1>1, <1>2, <1>3, <1>4, <1>5, <1>6, <1>7, OpenChildren, CloseChildren,
     CommitBlocksChildren, CommitExtrasChildren, SetBestChildren, Zenon DEF Next

(***************************************************************************)
(* No child is lost from the list of its parent, which import rewrites as  *)
(* a whole from the cache: the cached list is the one on disk, and the     *)
(* block of an import is not in the database yet.                          *)
(***************************************************************************)
THEOREM ChildrenStay == Spec => []ChildrenKept
<1>1. Init => IInv /\ BestInv /\ ChildrenInv
  BY InitInv, InitBest, InitChildren
<1>2. IInv /\ BestInv /\ ChildrenInv /\ [Next]_vars => IInv' /\ BestInv' /\ ChildrenInv'
  BY NextInv, NextBest, NextChildren
<1>3. ChildrenInv => ChildrenKept
  BY Zenon DEF ChildrenInv, ChildrenKept
<1> QED
  BY <1>1, <1>2, <1>3, PTL DEF Spec
=============================================================================
