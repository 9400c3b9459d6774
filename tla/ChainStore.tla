----------------------------- MODULE ChainStore -----------------------------
(***************************************************************************)
(* The databases and the caches of BlockChain (libbrcdchain/BlockChain.cpp *)
(* and .h): what an import writes, in which order, and what is left of it  *)
(* when the process ends between two writes.                               *)
(*                                                                         *)
(* On disk: m_blocksDB (blocksDB), and of m_extrasDB the details of a      *)
(* block (detailsDB), the hash of a number (hashDB) and "best" (best).     *)
(* In memory: m_details, m_blockHashes, m_lastBlockHash, m_lastBlockNumber *)
(* and the import the main thread is in the middle of (job).  Readers are  *)
(* the threads of the RPC and of the network: they call numberHash and     *)
(* details, which fill the caches.                                         *)
(*                                                                         *)
(* A block is a model value.  What its header fixes is a constant: its     *)
(* parent, its number, the line of its ancestors and the standing of its   *)
(* author among the miners (0 a super miner, k the k-th standby miner).    *)
(***************************************************************************)
EXTENDS Integers, FiniteSets

CONSTANTS
  Block,          \* the blocks that may arrive
  Genesis,        \* m_genesisHash
  Parent,         \* parentHash of a block
  Number,         \* number of a block
  Line,           \* Line[b][n]: the ancestor of b with number n
  Rank,           \* the standing of the author, see above
  replaceHeight,  \* config::replaceMinerHeight
  Readers         \* threads that call numberHash and details

Node == Block \cup {Genesis}

NoBlock == "no block"    \* the null hash

ASSUME TreeAssumption ==
  /\ Genesis \notin Block
  /\ NoBlock \notin Node
  /\ Parent \in [Block -> Node]
  /\ Number \in [Node -> Nat]
  /\ Rank \in [Node -> Nat]
  /\ replaceHeight \in Nat

Height == {Number[b] : b \in Node}

ASSUME LineAssumption ==
  \A b \in Node :
    /\ Line[b] \in [0 .. Number[b] -> Node]
    /\ Line[b][0] = Genesis
    /\ Line[b][Number[b]] = b
    /\ b = Genesis => Number[b] = 0
    /\ b # Genesis => /\ Number[b] = Number[Parent[b]] + 1
                      /\ Line[b][Number[b] - 1] = Parent[b]
    /\ \A n \in 0 .. Number[b] :
         /\ Number[Line[b][n]] = n
         /\ \A m \in 0 .. n : Line[Line[b][n]][m] = Line[b][m]

VARIABLES
  blocksDB, detailsDB, hashDB, best,
  m_details, m_blockHashes, m_lastBlockHash, m_lastBlockNumber,
  job,        \* the import in progress
  reader,     \* what each reader has looked up and not yet put in the cache
  up,         \* whether the databases are open
  events      \* history: what happened that a property has to name

disk  == <<blocksDB, detailsDB, hashDB, best>>
cache == <<m_details, m_blockHashes>>
head  == <<m_lastBlockHash, m_lastBlockNumber>>
vars  == <<disk, cache, head, job, reader, up, events>>

(***************************************************************************)
(* torn: a crash between the commit of the extras and the write of "best"; *)
(* rewound: rewind moved the head;                                         *)
(* stale: rewind used a cached hash that the database no longer has;       *)
(* outdated: details were cached that the database no longer has.          *)
(***************************************************************************)
Event == {"torn", "rewound", "stale", "outdated"}

Note(e, happened) == events' = IF happened THEN events \cup {e} ELSE events

(***************************************************************************)
(* Partial functions: the tables and the caches.                           *)
(***************************************************************************)
Empty == [x \in {} |-> NoBlock]

With(f, g) == [x \in (DOMAIN f) \cup (DOMAIN g) |->
                 IF x \in DOMAIN g THEN g[x] ELSE f[x]]

Only(f, S) == [x \in (DOMAIN f) \cap S |-> f[x]]

Idle == [step |-> "idle", block |-> NoBlock, extras |-> Empty,
         hashes |-> Empty, isBest |-> FALSE]

NoRead == [of |-> "nothing", key |-> NoBlock, value |-> NoBlock]

Init ==
  /\ blocksDB = {}
  /\ detailsDB = Empty
  /\ hashDB = Empty
  /\ best = NoBlock
  /\ m_details = Empty
  /\ m_blockHashes = Empty
  /\ m_lastBlockHash = Genesis
  /\ m_lastBlockNumber = 0
  /\ job = Idle
  /\ reader = [r \in Readers |-> NoRead]
  /\ up = FALSE
  /\ events = {}

(***************************************************************************)
(* queryExtras: the cache, then the database, whose answer is cached.      *)
(***************************************************************************)
details(b) == IF b \in DOMAIN m_details THEN m_details[b] ELSE detailsDB[b]

numberHash(n) ==
  IF n = 0 THEN Genesis
  ELSE IF n \in DOMAIN m_blockHashes THEN m_blockHashes[n]
  ELSE IF n \in DOMAIN hashDB THEN hashDB[n] ELSE NoBlock

hasDetails(b) == b \in DOMAIN m_details \cup DOMAIN detailsDB

isKnown(b) == b = Genesis \/ (b \in blocksDB /\ hasDetails(b))

isKnownCurrent(b) ==
  b = Genesis \/ (isKnown(b) /\ Number[b] <= m_lastBlockNumber)

(***************************************************************************)
(* m_details after details() was called on the blocks of S.                *)
(***************************************************************************)
Fetched(S) == With(Only(detailsDB, S), m_details)

durable == IF best = NoBlock THEN Genesis ELSE best    \* what open finds

(***************************************************************************)
(* open: the details of the genesis block are written if they are missing, *)
(* and the head is what "best" says.                                       *)
(***************************************************************************)
open ==
  /\ ~up
  /\ detailsDB' = IF Genesis \in DOMAIN detailsDB THEN detailsDB
                  ELSE With(detailsDB, [b \in {Genesis} |-> {}])
  /\ m_lastBlockHash' = durable
  /\ m_lastBlockNumber' = Number[m_lastBlockHash']
  /\ m_details' = Only(detailsDB', {Genesis, m_lastBlockHash'})
  /\ up' = TRUE
  /\ UNCHANGED <<blocksDB, hashDB, best, m_blockHashes, job, reader, events>>

(***************************************************************************)
(* The process ends, by close or by a crash at any step of an import: what *)
(* is in memory is gone.  A crash after the extras were committed and      *)
(* before "best" was written leaves hashDB ahead of best.                  *)
(***************************************************************************)
close ==
  /\ up
  /\ m_details' = Empty
  /\ m_blockHashes' = Empty
  /\ m_lastBlockHash' = Genesis
  /\ m_lastBlockNumber' = 0
  /\ job' = Idle
  /\ reader' = [r \in Readers |-> NoRead]
  /\ up' = FALSE
  /\ Note("torn", job.step = "extras" /\ job.isBest)
  /\ UNCHANGED disk

\* mutant: at equal height any legitimate miner replaces the head
verifyReplaceMiner_Any(b) ==
  \/ m_lastBlockHash = Genesis
  \/ Number[b] \in {Number[m_lastBlockHash], Number[m_lastBlockHash] + 1}

(***************************************************************************)
(* verifyReplaceMiner: whether a block with a legitimate author may become *)
(* the head.  Below replaceHeight its answer is not used.                  *)
(***************************************************************************)
verifyReplaceMiner(b) ==
  LET last == m_lastBlockHash
  IN \/ last = Genesis
     \/ Number[b] < replaceHeight
     \/ Parent[b] = last
     \/ /\ Number[b] = Number[last]
        /\ Rank[last] # 0
        /\ Rank[b] <= Rank[last]
     \/ Number[b] = Number[last] + 1

\* mutant: the parent of the new block is taken for the common ancestor
IsCommon_Parent(a, b, c) == c = Number[b]

(***************************************************************************)
(* treeRoute(a, b): the number of the latest common ancestor, and the      *)
(* blocks whose details the walk reads.                                    *)
(***************************************************************************)
IsCommon(a, b, c) ==
  /\ c <= Number[a] /\ c <= Number[b]
  /\ Line[a][c] = Line[b][c]
  /\ \A n \in c + 1 .. Number[a] : n <= Number[b] => Line[a][n] # Line[b][n]

Walked(a, b, c) ==
  {Line[a][n] : n \in c .. Number[a]} \cup {Line[b][n] : n \in c .. Number[b]}

(***************************************************************************)
(* clearCachesDuringChainReversion: the block hashes from n to the head.   *)
(***************************************************************************)
clearCachesDuringChainReversion(n) ==
  Only(m_blockHashes, {k \in DOMAIN m_blockHashes :
                         k < n \/ k > m_lastBlockNumber})

(***************************************************************************)
(* import, execute_block and insertBlockAndExtras up to the commits: the   *)
(* child is put in the cached details of the parent, the batches are       *)
(* filled, and on a reversion the caches are cleared.                      *)
(***************************************************************************)
import(b) ==
  /\ up /\ job = Idle
  /\ ~isKnownCurrent(b)
  /\ isKnown(Parent[b])
  /\ LET p     == Parent[b]
         last  == m_lastBlockHash
         kids  == details(p) \cup {b}
         above == Number[b] >= Number[last] /\ verifyReplaceMiner(b)
     IN \E c \in 0 .. Number[p] :
          /\ IsCommon(last, p, c)
          /\ job' = [step   |-> "begun", block |-> b,
                     extras |-> [x \in {p, b} |-> IF x = p THEN kids ELSE {}],
                     hashes |-> IF above THEN [n \in c + 1 .. Number[b] |-> Line[b][n]]
                                ELSE Empty,
                     isBest |-> above]
          /\ m_details' = With(Fetched({p, last} \cup
                                       (IF above THEN Walked(last, p, c) ELSE {})),
                               [x \in {p} |-> kids])
          /\ m_blockHashes' = IF above /\ c # Number[last]
                              THEN clearCachesDuringChainReversion(c + 1)
                              ELSE m_blockHashes
  /\ UNCHANGED <<disk, head, reader, up, events>>

commitBlocks ==
  /\ job.step = "begun"
  /\ blocksDB' = blocksDB \cup {job.block}
  /\ job' = [job EXCEPT !.step = "blocks"]
  /\ UNCHANGED <<detailsDB, hashDB, best, cache, head, reader, up, events>>

\* mutant: the extras are committed in place of the block
commitExtras_Early ==
  /\ job.step = "begun"
  /\ detailsDB' = With(detailsDB, job.extras)
  /\ hashDB' = With(hashDB, job.hashes)
  /\ job' = [job EXCEPT !.step = "extras"]
  /\ UNCHANGED <<blocksDB, best, cache, head, reader, up, events>>

\* mutant: the details of the parent are not in the batch
commitExtras_NoParent ==
  /\ job.step = "blocks"
  /\ detailsDB' = With(detailsDB, Only(job.extras, {job.block}))
  /\ hashDB' = With(hashDB, job.hashes)
  /\ job' = [job EXCEPT !.step = "extras"]
  /\ UNCHANGED <<blocksDB, best, cache, head, reader, up, events>>

commitExtras ==
  /\ job.step = "blocks"
  /\ detailsDB' = With(detailsDB, job.extras)
  /\ hashDB' = With(hashDB, job.hashes)
  /\ job' = [job EXCEPT !.step = "extras"]
  /\ UNCHANGED <<blocksDB, best, cache, head, reader, up, events>>

(***************************************************************************)
(* The end of insertBlockAndExtras: the head moves and "best" is written.  *)
(***************************************************************************)
setBest ==
  /\ job.step = "extras"
  /\ IF job.isBest
     THEN /\ m_lastBlockHash' = job.block
          /\ m_lastBlockNumber' = Number[job.block]
          /\ best' = job.block
     ELSE UNCHANGED <<head, best>>
  /\ job' = Idle
  /\ UNCHANGED <<blocksDB, detailsDB, hashDB, cache, reader, up, events>>

(***************************************************************************)
(* rewind, on the main thread like import (Client::rewind); rescue chooses *)
(* a number and ends in it.                                                *)
(***************************************************************************)
rewind(n) ==
  /\ up /\ job = Idle
  /\ n < m_lastBlockNumber
  /\ LET kept == clearCachesDuringChainReversion(n + 1)
         h    == numberHash(n)
     IN /\ m_lastBlockHash' = h
        /\ m_lastBlockNumber' = n
        /\ best' = h
        /\ m_blockHashes' = With(Only(hashDB, {n}), kept)
        /\ events' = events \cup {"rewound"} \cup
                     {e \in {"stale"} : n # 0 /\ h # hashDB[n]}
  /\ UNCHANGED <<blocksDB, detailsDB, hashDB, m_details, job, reader, up>>

(***************************************************************************)
(* queryExtras on another thread: a lookup in the database without a lock, *)
(* then an insertion in the cache that does not replace an entry.          *)
(***************************************************************************)
lookupHash(r, n) ==
  /\ up /\ reader[r] = NoRead
  /\ n \in DOMAIN hashDB \ DOMAIN m_blockHashes
  /\ reader' = [reader EXCEPT ![r] = [of |-> "hash", key |-> n, value |-> hashDB[n]]]
  /\ UNCHANGED <<disk, cache, head, job, up, events>>

lookupDetails(r, b) ==
  /\ up /\ reader[r] = NoRead
  /\ b \in DOMAIN detailsDB \ DOMAIN m_details
  /\ reader' = [reader EXCEPT ![r] = [of |-> "details", key |-> b, value |-> detailsDB[b]]]
  /\ UNCHANGED <<disk, cache, head, job, up, events>>

fill(r) ==
  /\ reader[r] # NoRead
  /\ LET entry == [x \in {reader[r].key} |-> reader[r].value]
     IN IF reader[r].of = "hash"
        THEN m_blockHashes' = With(entry, m_blockHashes) /\ UNCHANGED m_details
        ELSE m_details' = With(entry, m_details) /\ UNCHANGED m_blockHashes
  /\ reader' = [reader EXCEPT ![r] = NoRead]
  /\ Note("outdated", /\ reader[r].of = "details"
                       /\ reader[r].key \notin DOMAIN m_details
                       /\ reader[r].value # detailsDB[reader[r].key])
  /\ UNCHANGED <<disk, head, job, up>>

(***************************************************************************)
(* garbageCollect, on the main thread: details that were not used lately   *)
(* leave the cache; m_blockHashes is never collected.                      *)
(***************************************************************************)
garbageCollect(b) ==
  /\ up /\ job = Idle
  /\ b \in DOMAIN m_details
  /\ m_details' = Only(m_details, DOMAIN m_details \ {b})
  /\ UNCHANGED <<disk, m_blockHashes, head, job, reader, up, events>>

Next ==
  \/ open \/ close
  \/ commitBlocks \/ commitExtras \/ setBest
  \/ \E b \in Block : import(b)
  \/ \E n \in Height : rewind(n)
  \/ \E b \in Node : garbageCollect(b)
  \/ \E r \in Readers : \/ fill(r)
                        \/ \E n \in Height : lookupHash(r, n)
                        \/ \E b \in Node : lookupDetails(r, b)

Spec == Init /\ [][Next]_vars

(***************************************************************************)
(* TypeOK: the tables hold blocks under the numbers and keys they are for. *)
(***************************************************************************)
TypeOK ==
  /\ blocksDB \subseteq Block
  /\ DOMAIN detailsDB \subseteq Node
  /\ DOMAIN m_details \subseteq DOMAIN detailsDB
  /\ \A n \in DOMAIN hashDB : hashDB[n] \in Block /\ Number[hashDB[n]] = n
  /\ \A n \in DOMAIN m_blockHashes :
       m_blockHashes[n] \in Block /\ Number[m_blockHashes[n]] = n
  /\ best \in Node \cup {NoBlock}
  /\ m_lastBlockHash \in Node
  /\ m_lastBlockNumber = Number[m_lastBlockHash]
  /\ job.step \in {"idle", "begun", "blocks", "extras"}
  /\ events \subseteq Event

(***************************************************************************)
(* Wherever the process ends, what is on disk can be walked: a block with  *)
(* details is stored, and so is the whole line of its ancestors; "best",   *)
(* the head and every hash by number, on disk or cached, have details.     *)
(***************************************************************************)
DiskClosed ==
  /\ \A b \in DOMAIN detailsDB : \A n \in 1 .. Number[b] :
       Line[b][n] \in blocksDB \cap DOMAIN detailsDB
  /\ best # NoBlock => best \in DOMAIN detailsDB
  /\ up => m_lastBlockHash \in DOMAIN detailsDB
  /\ \A n \in DOMAIN hashDB : hashDB[n] \in DOMAIN detailsDB
  /\ \A n \in DOMAIN m_blockHashes : m_blockHashes[n] \in DOMAIN detailsDB

(***************************************************************************)
(* The head a restart finds is the head the running node has.              *)
(***************************************************************************)
HeadDurable == up => m_lastBlockHash = durable

(***************************************************************************)
(* The hashes by number are the line of the head, unless a crash came      *)
(* between the commit of the extras and "best", or rewind used a cached    *)
(* hash that the database no longer had.                                   *)
(***************************************************************************)
IndexExplained ==
  up /\ events \cap {"torn", "stale"} = {} =>
    LET h == IF job.step = "extras" /\ job.isBest THEN job.block ELSE m_lastBlockHash
    IN \A n \in 1 .. Number[h] : n \in DOMAIN hashDB /\ hashDB[n] = Line[h][n]

(***************************************************************************)
(* Between imports, no stored block of the head's height, from             *)
(* replaceHeight on, has a miner of better rank than the head's (a head of *)
(* rank 0 stays), unless a write was torn or the chain was rewound.        *)
(***************************************************************************)
BestMiner ==
  up /\ job = Idle /\ events \cap {"torn", "rewound"} = {} =>
    \A b \in DOMAIN detailsDB :
      Number[b] = m_lastBlockNumber /\ Number[b] >= replaceHeight =>
        Rank[m_lastBlockHash] = 0 \/ Rank[m_lastBlockHash] <= Rank[b]

(***************************************************************************)
(* What checkConsistency asserts of the database: a block with details is  *)
(* among the children of its parent.                                       *)
(***************************************************************************)
Consistent ==
  \A b \in blocksDB \cap DOMAIN detailsDB :
    Parent[b] # Genesis => b \in detailsDB[Parent[b]]

(***************************************************************************)
(* Whatever the order of imports and readers, no child is lost from the    *)
(* list of its parent, which import writes back as a whole, until a torn   *)
(* write, a rewind or outdated details in the cache.                       *)
(***************************************************************************)
ChildrenKept == events = {} => Consistent

(***************************************************************************)
(* rewind moves the head to a block along the chain of the old head        *)
(* (BlockChain.h:292).                                                     *)
(***************************************************************************)
RewindAlong ==
  [][\A n \in Height : rewind(n) => m_lastBlockHash' = Line[m_lastBlockHash][n]]_vars

(***************************************************************************)
(* The same, unless a torn write or a stale cached hash came before.       *)
(***************************************************************************)
StepAlong ==
  events' \cap {"torn", "stale"} = {} =>
    \A n \in Height : rewind(n) => m_lastBlockHash' = Line[m_lastBlockHash][n]

(***************************************************************************)
(* Every step of rewind keeps to the chain, with the exceptions above.     *)
(***************************************************************************)
RewindExplained == [][StepAlong]_vars

=============================================================================
