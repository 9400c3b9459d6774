----------------------------- MODULE BlockQueue -----------------------------
(***************************************************************************)
(* The block queue of libbrcdchain/BlockQueue.{h,cpp} with its two users   *)
(* that matter: the threads that import blocks (network, sealing, RPC and  *)
(* the client's tick) and BlockChain::sync, which drains it.               *)
(*                                                                         *)
(* A block is its hash; what the queue reads from a header is given by the *)
(* constant functions Parent, Number, Difficulty and Timestamp.            *)
(*                                                                         *)
(* Locks.  m_lock (general, exclusive for every writer) and m_verification *)
(* (the three deques) are modelled by the variable lock: it names the      *)
(* multi-step critical section somebody is in, "free" when there is none.  *)
(* Loops that run under both locks are taken one iteration per step.       *)
(***************************************************************************)
EXTENDS Integers, Sequences, FiniteSets, FiniteSetsExt, Functions

CONSTANTS
  Hash,          \* the blocks that may be offered to the queue
  Genesis,       \* the block the chain starts from
  NoHash,        \* h256(): what a verifier without work holds
  EmptyListSHA3, \* the uncles hash of every block (no block here has uncles)
  Parent, Number, Difficulty, Timestamp,  \* header fields, by hash
  Ours,          \* blocks this node may seal itself
  Unsound,       \* blocks whose OutOfOrderChecks verification fails
  Invalid,       \* blocks BlockChain::import rejects with an Exception
  Flaky,         \* blocks BlockChain::import may reject with TransientError
  Verifiers,     \* the verification threads
  Junk,          \* values m_now_height, which no constructor sets, may start with
  MaxDrain,      \* bound on the client's m_syncAmount
  MaxNow         \* bound on the clock

ASSUME HashAssumption ==
  /\ IsFiniteSet(Hash)
  /\ Genesis \notin Hash /\ NoHash \notin Hash /\ EmptyListSHA3 \notin Hash
  /\ Genesis # NoHash /\ Genesis # EmptyListSHA3

ASSUME HeaderAssumption ==
  /\ Parent \in [Hash -> Hash \cup {Genesis}]
  /\ Number \in [Hash -> Nat]
  /\ Difficulty \in [Hash -> Nat]
  /\ Timestamp \in [Hash -> Nat]

ASSUME BoundAssumption == MaxDrain \in Nat \ {0} /\ MaxNow \in Nat /\ Junk \subseteq Int

VARIABLES
  m_readySet, m_drainingSet, m_unknownSet, m_knownBad, m_futureSet,
  m_unknown,     \* the multimap parent |-> block: a set, the key is Parent[h]
  m_future,      \* the multimap time |-> block: a set, the key is Timestamp[h]
  m_verified,    \* sequence of hashes
  m_verifying,   \* sequence of [hash, done]; done iff blockData is not empty
  m_unverified,  \* sequence of hashes
  m_difficulty, m_drainingDifficulty, m_now_height,
  m_deleting,
  lock,          \* the critical section in progress
  badTodo,       \* the arguments of the updateBad_WITH_LOCK calls to come
  moreBad,       \* the local of updateBad_WITH_LOCK
  pc, work,      \* verifier threads: where each is and the hash it works on
  clientPc,      \* the client thread: "idle", "tick", "import" or "doneDrain"
  todo,          \* tick: the past-future blocks still to import
  blocks,        \* BlockChain::sync: the drained blocks still to import
  badBlocks,     \* BlockChain::sync: the ones found bad
  m_bc,          \* the blocks BlockChain::isKnown
  abandoned,     \* history: blocks sync gave up on without calling them bad
  now            \* the wall clock

sets     == <<m_readySet, m_drainingSet, m_unknownSet, m_knownBad, m_futureSet>>
maps     == <<m_unknown, m_future>>
deques   == <<m_verified, m_verifying, m_unverified>>
accounts == <<m_difficulty, m_drainingDifficulty, m_now_height>>
section  == <<lock, badTodo, moreBad>>
threads  == <<pc, work, m_deleting>>
client   == <<clientPc, todo, blocks, badBlocks>>
world    == <<m_bc, abandoned, now>>
vars == <<sets, maps, deques, accounts, section, threads, client, world>>

Sections == {"free", "drainVerified", "updateBad",
             "badVerified", "badUnverified", "badVerifying"}

Entry == [hash : Hash, done : BOOLEAN]

-----------------------------------------------------------------------------
(* Helpers *)

\* The hashes of a sequence of m_verifying entries.
Hashes(q) == [i \in DOMAIN q |-> q[i].hash]

\* verified.info.sha3Uncles(): a placeholder carries its own hash there.
Sha3Uncles(e) == IF e.done THEN EmptyListSHA3 ELSE e.hash

SumDifficulty(S) == SumFunctionOnSet(Difficulty, S)

\* The sequences over a finite set that are no longer than the set.
Arrangements(S) == UNION {[1..n -> S] : n \in 0..Cardinality(S)}

\* The increasing enumerations of a finite set of positions (there is one).
Enumerations(I) ==
  {f \in Arrangements(I) :
     Range(f) = I /\ \A i, j \in DOMAIN f : i < j => f[i] < f[j]}

\* std::remove_if moves the survivors to the front and leaves the last k
\* positions as they were, k the number of elements removed: removeIf returns
\* those last k elements, not the ones the predicate selected.
TailPositions(q, I) == {i \in DOMAIN q : i > Len(q) - Cardinality(I)}

\* Blocks of m_unknown whose ancestry within m_unknown reaches a block of S.
UnknownDescendants(S) ==
  {u \in m_unknown :
     \A T \in SUBSET m_unknown :
        (\A c \in m_unknown : Parent[c] \in S \cup T => c \in T) => u \in T}

\* Mutant: the descendants are released in any order.
ReleaseAnyOrder(h, D) == {s \in Arrangements(D) : IsInjective(s) /\ Range(s) = D}

\* The orders in which the breadth-first loop of noteReady_WITH_LOCK may release the
\* descendants D of h: every block once, after its parent, and the children of an
\* earlier block before those of a later one.
ReleaseOrders(h, D) ==
  {s \in Arrangements(D) :
     /\ IsInjective(s) /\ Range(s) = D
     /\ \A i \in DOMAIN s : Parent[s[i]] = h \/ \E j \in 1..(i - 1) : s[j] = Parent[s[i]]
     /\ \A i, j \in DOMAIN s : i < j =>
          /\ Parent[s[j]] = h => Parent[s[i]] = h
          /\ \A k, l \in DOMAIN s : s[k] = Parent[s[i]] /\ s[l] = Parent[s[j]] => k <= l}

\* The order in which retryAllUnknown releases m_unknown: by parent hash.
RetryOrders ==
  {s \in Arrangements(m_unknown) :
     /\ IsInjective(s) /\ Range(s) = m_unknown
     /\ \A i, j, k \in DOMAIN s :
          i < j /\ j < k /\ Parent[s[i]] = Parent[s[k]] => Parent[s[j]] = Parent[s[i]]}

\* QueueStatus other than Unknown, or waiting for its time.
Queued(h) == h \in m_readySet \cup m_drainingSet \cup m_unknownSet
                     \cup m_knownBad \cup m_futureSet

-----------------------------------------------------------------------------
Init ==
  /\ m_readySet = {} /\ m_drainingSet = {} /\ m_unknownSet = {}
  /\ m_knownBad = {} /\ m_futureSet = {}
  /\ m_unknown = {} /\ m_future = {}
  /\ m_verified = <<>> /\ m_verifying = <<>> /\ m_unverified = <<>>
  /\ m_difficulty = 0 /\ m_drainingDifficulty = 0 /\ m_now_height \in Junk
  /\ lock = "free" /\ badTodo = <<>> /\ moreBad = FALSE
  /\ pc = [v \in Verifiers |-> "wait"] /\ work = [v \in Verifiers |-> NoHash]
  /\ m_deleting = FALSE
  /\ clientPc = "idle" /\ todo = {} /\ blocks = <<>> /\ badBlocks = <<>>
  /\ m_bc = {Genesis} /\ abandoned = {} /\ now = 0

-----------------------------------------------------------------------------
(* BlockQueue::import, once the early returns for a block that is queued   *)
(* already or in the chain are passed.                                     *)

\* Every branch that accepts h adds it to the two accounts.
Count(h) ==
  /\ m_difficulty' = m_difficulty + Difficulty[h]
  /\ m_now_height' = Max({m_now_height, Number[h]})
  /\ UNCHANGED m_drainingDifficulty

ImportFuture(h) ==
  /\ m_future' = m_future \cup {h}
  /\ m_futureSet' = m_futureSet \cup {h}
  /\ Count(h)
  /\ UNCHANGED <<m_readySet, m_drainingSet, m_unknownSet, m_knownBad, m_unknown,
                 deques, section>>

\* A known bad parent: updateBad_WITH_LOCK runs before m_lock is released.
ImportBadChain(h) ==
  /\ m_knownBad' = m_knownBad \cup {h}
  /\ lock' = "updateBad" /\ badTodo' = <<h>>
  /\ UNCHANGED <<m_readySet, m_drainingSet, m_unknownSet, m_futureSet, maps,
                 deques, accounts, moreBad>>

ImportUnknown(h) ==
  /\ m_unknown' = m_unknown \cup {h}
  /\ m_unknownSet' = m_unknownSet \cup {h}
  /\ Count(h)
  /\ UNCHANGED <<m_readySet, m_drainingSet, m_knownBad, m_futureSet, m_future,
                 deques, section>>

\* noteReady_WITH_LOCK: the waiting descendants of h follow queue.
NoteReady(h, ready, queue) ==
  LET released == UnknownDescendants({h})
  IN /\ \E s \in ReleaseOrders(h, released) : m_unverified' = queue \o s
     /\ m_unknown' = m_unknown \ released
     /\ m_unknownSet' = m_unknownSet \ released
     /\ m_readySet' = ready \cup released

\* Mutant: the block itself is not entered in m_readySet.
ImportReadyUnlisted(h) ==
  /\ NoteReady(h, m_readySet, Append(m_unverified, h))
  /\ Count(h)
  /\ UNCHANGED <<m_drainingSet, m_knownBad, m_futureSet, m_future,
                 m_verified, m_verifying, section>>

\* Mutant: noteReady_WITH_LOCK is not called.
ImportReadyAlone(h) ==
  /\ m_readySet' = m_readySet \cup {h} /\ m_unverified' = Append(m_unverified, h)
  /\ Count(h)
  /\ UNCHANGED <<m_drainingSet, m_unknownSet, m_knownBad, m_futureSet, maps,
                 m_verified, m_verifying, section>>

ImportReady(h) ==
  /\ NoteReady(h, m_readySet \cup {h}, Append(m_unverified, h))
  /\ Count(h)
  /\ UNCHANGED <<m_drainingSet, m_knownBad, m_futureSet, m_future,
                 m_verified, m_verifying, section>>

ImportNew(h, isOurs) ==
  IF Timestamp[h] > now /\ ~isOurs THEN ImportFuture(h)
  ELSE IF Parent[h] \in m_knownBad THEN ImportBadChain(h)
  ELSE IF Parent[h] \notin m_readySet \cup m_drainingSet \cup m_bc THEN ImportUnknown(h)
  ELSE ImportReady(h)

\* A caller offers block h; isOurs only from Client::submitSealed.
Import(h, isOurs) ==
  /\ lock = "free"
  /\ isOurs => h \in Ours
  /\ ~Queued(h) /\ h \notin m_bc
  /\ ImportNew(h, isOurs)
  /\ UNCHANGED <<threads, client, world>>

-----------------------------------------------------------------------------
(* BlockQueue::tick, called by the client thread between two syncs.        *)

\* Mutant: m_future keeps the blocks.
TickCollectCopy ==
  LET due == {h \in m_future : Timestamp[h] <= now}
  IN /\ clientPc = "idle" /\ lock = "free" /\ due # {}
     /\ todo' = due /\ clientPc' = "tick"
     /\ m_futureSet' = m_futureSet \ due
     /\ UNCHANGED <<m_readySet, m_drainingSet, m_unknownSet, m_knownBad, maps,
                    deques, accounts, section, threads, blocks, badBlocks, world>>

\* Under m_lock: take the blocks whose time has come.
TickCollect ==
  LET due == {h \in m_future : Timestamp[h] <= now}
  IN /\ clientPc = "idle" /\ lock = "free" /\ due # {}
     /\ todo' = due /\ clientPc' = "tick"
     /\ m_future' = m_future \ due /\ m_futureSet' = m_futureSet \ due
     /\ UNCHANGED <<m_readySet, m_drainingSet, m_unknownSet, m_knownBad, m_unknown,
                    deques, accounts, section, threads, blocks, badBlocks, world>>

\* Without it: import them one by one, in the order of their timestamps.
TickImport(h) ==
  /\ clientPc = "tick" /\ lock = "free"
  /\ h \in todo /\ \A g \in todo : Timestamp[h] <= Timestamp[g]
  /\ todo' = todo \ {h}
  /\ clientPc' = IF todo' = {} THEN "idle" ELSE "tick"
  /\ IF Queued(h) \/ h \in m_bc
     THEN UNCHANGED <<sets, maps, deques, accounts, section>>
     ELSE ImportNew(h, FALSE)
  /\ UNCHANGED <<threads, blocks, badBlocks, world>>

-----------------------------------------------------------------------------
(* BlockQueue::verifierBody, one thread v.                                 *)

\* m_verification is free unless a section that holds both locks is running.
VerificationFree == lock \in {"free", "updateBad"}

Take(v) ==
  /\ pc[v] = "wait" /\ ~m_deleting
  /\ VerificationFree /\ m_unverified # <<>>
  /\ work' = [work EXCEPT ![v] = Head(m_unverified)]
  /\ pc' = [pc EXCEPT ![v] = "verify"]
  /\ m_unverified' = Tail(m_unverified)
  /\ m_verifying' = Append(m_verifying, [hash |-> Head(m_unverified), done |-> FALSE])
  /\ UNCHANGED <<sets, maps, m_verified, accounts, section, m_deleting, client, world>>

\* Mutant: m_deleting is only looked at when there is no work.
ExitWhenIdle(v) ==
  /\ pc[v] = "wait" /\ m_deleting /\ m_unverified = <<>>
  /\ pc' = [pc EXCEPT ![v] = "exited"]
  /\ UNCHANGED <<sets, maps, deques, accounts, section, work, m_deleting, client, world>>

Exit(v) ==
  /\ pc[v] = "wait" /\ m_deleting
  /\ pc' = [pc EXCEPT ![v] = "exited"]
  /\ UNCHANGED <<sets, maps, deques, accounts, section, work, m_deleting, client, world>>

\* verifyBlock threw: the block is bad, its placeholder goes.
VerifyFail(v) ==
  LET h == work[v]
      kept == {i \in DOMAIN m_verifying : Sha3Uncles(m_verifying[i]) # h}
  IN /\ pc[v] = "verify" /\ h \in Unsound /\ lock = "free"
     /\ m_readySet' = m_readySet \ {h}
     /\ m_knownBad' = m_knownBad \cup {h}
     /\ \E f \in Enumerations(kept) :
           m_verifying' = [i \in DOMAIN f |-> m_verifying[f[i]]]
     /\ lock' = "drainVerified"
     /\ pc' = [pc EXCEPT ![v] = "drainBad"] /\ work' = [work EXCEPT ![v] = NoHash]
     /\ UNCHANGED <<m_drainingSet, m_unknownSet, m_futureSet, maps, m_verified,
                    m_unverified, accounts, badTodo, moreBad, m_deleting, client, world>>

\* Mutant: the block is put at the front of m_verified.
FinishFirst(h) ==
  /\ m_verifying' = Tail(m_verifying)
  /\ m_verified' = <<h>> \o m_verified
  /\ UNCHANGED <<m_readySet, m_knownBad>>

\* A verified block leaves m_verifying: to m_verified, unless its parent is bad.
Finish(h) ==
  /\ m_verifying' = Tail(m_verifying)
  /\ IF Parent[h] \in m_knownBad
     THEN /\ m_readySet' = m_readySet \ {h}
          /\ m_knownBad' = m_knownBad \cup {h}
          /\ UNCHANGED m_verified
     ELSE /\ m_verified' = Append(m_verified, h)
          /\ UNCHANGED <<m_readySet, m_knownBad>>

\* verifyBlock succeeded and "we're next!".
VerifyNext(v) ==
  /\ pc[v] = "verify" /\ work[v] \notin Unsound /\ lock = "free"
  /\ m_verifying # <<>> /\ Sha3Uncles(Head(m_verifying)) = work[v]
  /\ Finish(work[v])
  /\ lock' = "drainVerified"
  /\ pc' = [pc EXCEPT ![v] = "drainOk"] /\ work' = [work EXCEPT ![v] = NoHash]
  /\ UNCHANGED <<m_drainingSet, m_unknownSet, m_futureSet, maps, m_unverified,
                 accounts, badTodo, moreBad, m_deleting, client, world>>

\* verifyBlock succeeded out of turn: fill the placeholder, if it is still there.
VerifyReplace(v) ==
  LET mine == {i \in DOMAIN m_verifying : Sha3Uncles(m_verifying[i]) = work[v]}
  IN /\ pc[v] = "verify" /\ work[v] \notin Unsound /\ lock = "free"
     /\ 1 \notin mine
     /\ m_verifying' = [i \in DOMAIN m_verifying |->
                          IF i \in mine /\ \A j \in mine : i <= j
                          THEN [m_verifying[i] EXCEPT !.done = TRUE] ELSE m_verifying[i]]
     /\ pc' = [pc EXCEPT ![v] = "wait"] /\ work' = [work EXCEPT ![v] = NoHash]
     /\ UNCHANGED <<sets, maps, m_verified, m_unverified, accounts, section,
                    m_deleting, client, world>>

FrontDone == m_verifying # <<>> /\ Head(m_verifying).done

\* One iteration of drainVerified_WITH_BOTH_LOCKS.
DrainVerified ==
  /\ lock = "drainVerified"
  /\ FrontDone
  /\ Finish(Head(m_verifying).hash)
  /\ UNCHANGED <<m_drainingSet, m_unknownSet, m_futureSet, maps, m_unverified,
                 accounts, section, threads, client, world>>

\* Mutant: the loop may end early.
DrainVerifiedEndEarly(v) ==
  /\ lock = "drainVerified" /\ pc[v] \in {"drainOk", "drainBad"}
  /\ lock' = "free"
  /\ pc' = [pc EXCEPT ![v] = IF @ = "drainOk" THEN "notify" ELSE "wait"]
  /\ UNCHANGED <<sets, maps, deques, accounts, badTodo, moreBad, work, m_deleting,
                 client, world>>

\* Its loop is over: the verifier releases both locks.
DrainVerifiedEnd(v) ==
  /\ lock = "drainVerified" /\ pc[v] \in {"drainOk", "drainBad"}
  /\ ~FrontDone
  /\ lock' = "free"
  /\ pc' = [pc EXCEPT ![v] = IF @ = "drainOk" THEN "notify" ELSE "wait"]
  /\ UNCHANGED <<sets, maps, deques, accounts, badTodo, moreBad, work, m_deleting,
                 client, world>>

\* m_onReady(), called without a lock.
Notify(v) ==
  /\ pc[v] = "notify"
  /\ pc' = [pc EXCEPT ![v] = "wait"]
  /\ UNCHANGED <<sets, maps, deques, accounts, section, work, m_deleting, client, world>>

Stop ==
  /\ VerificationFree /\ ~m_deleting
  /\ m_deleting' = TRUE
  /\ UNCHANGED <<sets, maps, deques, accounts, section, pc, work, client, world>>

-----------------------------------------------------------------------------
(* updateBad_WITH_LOCK, run by the thread that holds m_lock for each       *)
(* element of badTodo in turn.                                             *)

\* The bookkeeping of every hash in blamed, collectUnknownBad included.
Blame(blamed) ==
  LET orphans == UnknownDescendants(blamed)
  IN /\ m_knownBad' = m_knownBad \cup blamed \cup orphans
     /\ m_readySet' = m_readySet \ blamed
     /\ m_unknown' = m_unknown \ orphans
     /\ m_unknownSet' = m_unknownSet \ orphans
     /\ UNCHANGED <<m_drainingSet, m_futureSet, m_future>>

\* collectUnknownBad for the argument, then m_verification is taken.
UpdateBad ==
  /\ lock = "updateBad" /\ badTodo # <<>>
  /\ LET orphans == UnknownDescendants({Head(badTodo)})
     IN /\ m_knownBad' = m_knownBad \cup orphans
        /\ m_unknown' = m_unknown \ orphans
        /\ m_unknownSet' = m_unknownSet \ orphans
  /\ lock' = "badVerified" /\ badTodo' = Tail(badTodo) /\ moreBad' = FALSE
  /\ UNCHANGED <<m_readySet, m_drainingSet, m_futureSet, m_future, deques,
                 accounts, threads, client, world>>

\* Mutant: only blocks that are bad themselves are looked for.
BadVerifiedSelf ==
  LET removed == {i \in DOMAIN m_verified : m_verified[i] \in m_knownBad}
  IN /\ lock = "badVerified"
     /\ \E f \in Enumerations(DOMAIN m_verified \ removed) :
           m_verified' = [i \in DOMAIN f |-> m_verified[f[i]]]
     /\ Blame({m_verified[i] : i \in TailPositions(m_verified, removed)})
     /\ moreBad' = (removed # {})
     /\ lock' = "badUnverified"
     /\ UNCHANGED <<badTodo, m_verifying, m_unverified, accounts, threads, client, world>>

\* The three removeIf rounds of one iteration of the while loop.
BadVerified ==
  LET removed == {i \in DOMAIN m_verified :
                    {m_verified[i], Parent[m_verified[i]]} \cap m_knownBad # {}}
  IN /\ lock = "badVerified"
     /\ \E f \in Enumerations(DOMAIN m_verified \ removed) :
           m_verified' = [i \in DOMAIN f |-> m_verified[f[i]]]
     /\ Blame({m_verified[i] : i \in TailPositions(m_verified, removed)})
     /\ moreBad' = (removed # {})
     /\ lock' = "badUnverified"
     /\ UNCHANGED <<badTodo, m_verifying, m_unverified, accounts, threads, client, world>>

BadUnverified ==
  LET removed == {i \in DOMAIN m_unverified :
                    {m_unverified[i], Parent[m_unverified[i]]} \cap m_knownBad # {}}
  IN /\ lock = "badUnverified"
     /\ \E f \in Enumerations(DOMAIN m_unverified \ removed) :
           m_unverified' = [i \in DOMAIN f |-> m_unverified[f[i]]]
     /\ Blame({m_unverified[i] : i \in TailPositions(m_unverified, removed)})
     /\ moreBad' = (moreBad \/ removed # {})
     /\ lock' = "badVerifying"
     /\ UNCHANGED <<badTodo, m_verified, m_verifying, accounts, threads, client, world>>

\* An entry of the tail that survived was moved from: its blockData is empty and
\* it is taken for a placeholder, so its uncles hash is blamed.
BadVerifying ==
  LET removed == {i \in DOMAIN m_verifying :
                    {Sha3Uncles(m_verifying[i]), Parent[m_verifying[i].hash]}
                       \cap m_knownBad # {}}
      HashOf(i) == IF i \in removed /\ m_verifying[i].done
                   THEN m_verifying[i].hash ELSE Sha3Uncles(m_verifying[i])
  IN /\ lock = "badVerifying"
     /\ \E f \in Enumerations(DOMAIN m_verifying \ removed) :
           m_verifying' = [i \in DOMAIN f |-> m_verifying[f[i]]]
     /\ Blame({HashOf(i) : i \in TailPositions(m_verifying, removed)})
     /\ moreBad' = FALSE
     /\ lock' = IF moreBad \/ removed # {} THEN "badVerified" ELSE "updateBad"
     /\ UNCHANGED <<badTodo, m_verified, m_unverified, accounts, threads, client, world>>

\* The last call returned: m_lock is released.
UpdateBadEnd ==
  /\ lock = "updateBad" /\ badTodo = <<>>
  /\ lock' = "free"
  /\ clientPc' = IF clientPc = "doneDrain" THEN "idle" ELSE clientPc
  /\ UNCHANGED <<sets, maps, deques, accounts, badTodo, moreBad, threads,
                 todo, blocks, badBlocks, world>>

-----------------------------------------------------------------------------
(* BlockChain::sync, on the client thread: drain, import each block into   *)
(* the chain, doneDrain.                                                   *)

Drain(max) ==
  LET n == IF m_drainingSet = {} THEN Min({max, Len(m_verified)}) ELSE 0
      out == SubSeq(m_verified, 1, n)
  IN /\ clientPc = "idle" /\ lock = "free"
     /\ blocks' = out /\ badBlocks' = <<>> /\ clientPc' = "import"
     /\ m_verified' = SubSeq(m_verified, n + 1, Len(m_verified))
     /\ m_drainingSet' = m_drainingSet \cup Range(out)
     /\ m_drainingDifficulty' =
           IF m_drainingSet = {} THEN SumDifficulty(Range(out)) ELSE m_drainingDifficulty
     /\ m_readySet' = m_readySet \ Range(out)
     /\ UNCHANGED <<m_unknownSet, m_knownBad, m_futureSet, maps, m_verifying,
                    m_unverified, m_difficulty, m_now_height, section, threads,
                    todo, world>>

Rest(chain, bad, lost) ==
  /\ blocks' = Tail(blocks)
  /\ m_bc' = chain /\ badBlocks' = bad /\ abandoned' = lost
  /\ UNCHANGED <<sets, maps, deques, accounts, section, threads, clientPc, todo, now>>

\* Mutant: the parent is not looked up.
OutcomesOrphan(b) ==
  IF b \in m_bc THEN {"AlreadyHaveBlock"}
  ELSE (IF b \in Invalid THEN {"Exception"} ELSE {"imported"})

\* What BlockChain::import(b) may end with: its checks and those of execute_block,
\* in their order.  verifyReplaceMiner may throw before checkBlockTimestamp does.
Outcomes(b) ==
  IF b \in m_bc THEN {"AlreadyHaveBlock"}
  ELSE IF Parent[b] \notin m_bc THEN {"UnknownParent"}
  ELSE (IF b \in Invalid THEN {"Exception"} ELSE {})
         \cup (IF Timestamp[b] > now THEN {"FutureTime"} ELSE {})
         \cup (IF b \in Flaky THEN {"TransientError"} ELSE {})
         \cup (IF b \notin Invalid /\ Timestamp[b] <= now THEN {"imported"} ELSE {})

\* What the catch clauses of sync make of it; "continue" does not repeat the import.
ImportDrained ==
  LET b == Head(blocks)
  IN /\ clientPc = "import" /\ blocks # <<>>
     /\ \E o \in Outcomes(b) :
          \/ o = "imported" /\ Rest(m_bc \cup {b}, badBlocks, abandoned)
          \/ o = "AlreadyHaveBlock" /\ Rest(m_bc, badBlocks, abandoned)
          \/ o \in {"UnknownParent", "Exception"} /\ Rest(m_bc, Append(badBlocks, b), abandoned)
          \/ o \in {"FutureTime", "TransientError"} /\ Rest(m_bc, badBlocks, abandoned \cup {b})

DoneDrain ==
  /\ clientPc = "import" /\ blocks = <<>> /\ lock = "free"
  /\ m_drainingSet' = {}
  /\ m_difficulty' = m_difficulty - m_drainingDifficulty
  /\ m_drainingDifficulty' = 0
  /\ m_knownBad' = m_knownBad \cup Range(badBlocks)
  /\ badTodo' = badBlocks /\ badBlocks' = <<>>
  /\ IF badBlocks = <<>> THEN clientPc' = "idle" /\ UNCHANGED lock
     ELSE clientPc' = "doneDrain" /\ lock' = "updateBad"
  /\ UNCHANGED <<m_readySet, m_unknownSet, m_futureSet, maps, deques, m_now_height,
                 moreBad, threads, todo, blocks, world>>

-----------------------------------------------------------------------------
(* Operations of the whole queue, by other threads.                        *)

\* Mutant: the difficulty being drained is not reset.
ClearDraining ==
  /\ lock = "free"
  /\ m_readySet' = {} /\ m_drainingSet' = {} /\ m_unknownSet' = {} /\ m_futureSet' = {}
  /\ m_unknown' = {} /\ m_future' = {}
  /\ m_verified' = <<>> /\ m_verifying' = <<>> /\ m_unverified' = <<>>
  /\ m_difficulty' = 0 /\ m_now_height' = 0
  /\ UNCHANGED <<m_knownBad, m_drainingDifficulty, section, threads, client, world>>

\* Everything but m_knownBad; the verifiers keep the work they hold.
Clear ==
  /\ lock = "free"
  /\ m_readySet' = {} /\ m_drainingSet' = {} /\ m_unknownSet' = {} /\ m_futureSet' = {}
  /\ m_unknown' = {} /\ m_future' = {}
  /\ m_verified' = <<>> /\ m_verifying' = <<>> /\ m_unverified' = <<>>
  /\ m_difficulty' = 0 /\ m_now_height' = 0 /\ m_drainingDifficulty' = 0
  /\ UNCHANGED <<m_knownBad, section, threads, client, world>>

RetryAllUnknown ==
  /\ lock = "free" /\ m_unknown # {}
  /\ \E s \in RetryOrders : m_unverified' = m_unverified \o s
  /\ m_readySet' = m_readySet \cup m_unknown
  /\ m_unknownSet' = m_unknownSet \ m_unknown
  /\ m_unknown' = {}
  /\ UNCHANGED <<m_drainingSet, m_knownBad, m_futureSet, m_future, m_verified,
                 m_verifying, accounts, section, threads, client, world>>

\* The public noteReady(h): a block of the chain.
NoteReadyCall(h) ==
  /\ lock = "free" /\ h \in m_bc
  /\ NoteReady(h, m_readySet, m_unverified)
  /\ UNCHANGED <<m_drainingSet, m_knownBad, m_futureSet, m_future, m_verified,
                 m_verifying, accounts, section, threads, client, world>>

Clock ==
  /\ now < MaxNow /\ now' = now + 1
  /\ UNCHANGED <<sets, maps, deques, accounts, section, threads, client, m_bc, abandoned>>

-----------------------------------------------------------------------------
Verify(v) == Take(v) \/ VerifyFail(v) \/ VerifyNext(v) \/ VerifyReplace(v)
               \/ DrainVerifiedEnd(v) \/ Notify(v) \/ Exit(v)

Sync == (\E max \in 1..MaxDrain : Drain(max)) \/ ImportDrained \/ DoneDrain

UpdateBadLoop == UpdateBad \/ BadVerified \/ BadUnverified \/ BadVerifying \/ UpdateBadEnd

Tick == TickCollect \/ \E h \in todo : TickImport(h)

\* What the node does to the queue, short of BlockChainSync::restartSync.
SteadyNext ==
  \/ \E h \in Hash, isOurs \in BOOLEAN : Import(h, isOurs)
  \/ \E v \in Verifiers : Verify(v)
  \/ DrainVerified \/ UpdateBadLoop \/ Sync \/ Tick \/ Clock \/ Stop

\* The calls the node makes.
Next == SteadyNext \/ Clear

\* With retryAllUnknown (the admin RPC) and the public noteReady (no caller).
ApiNext == Next \/ RetryAllUnknown \/ \E h \in Hash \cup {Genesis} : NoteReadyCall(h)

SteadySpec == Init /\ [][SteadyNext]_vars
Spec       == Init /\ [][Next]_vars
ApiSpec    == Init /\ [][ApiNext]_vars

-----------------------------------------------------------------------------
(* Properties *)

\* The blocks of the three deques, in the order they will reach the chain.
Pipeline == m_verified \o Hashes(m_verifying) \o m_unverified

SetsOK ==
  /\ m_readySet \subseteq Hash /\ m_drainingSet \subseteq Hash
  /\ m_unknownSet \subseteq Hash /\ m_futureSet \subseteq Hash
  /\ m_knownBad \subseteq Hash \cup {EmptyListSHA3}
  /\ m_unknown \subseteq Hash /\ m_future \subseteq Hash /\ todo \subseteq Hash
  /\ m_bc \subseteq Hash \cup {Genesis} /\ abandoned \subseteq Hash

DequesOK ==
  /\ m_verified \in Seq(Hash) /\ m_verifying \in Seq(Entry) /\ m_unverified \in Seq(Hash)
  /\ blocks \in Seq(Hash) /\ badBlocks \in Seq(Hash) /\ badTodo \in Seq(Hash)

ThreadsOK ==
  /\ pc \in [Verifiers -> {"wait", "verify", "drainOk", "drainBad", "notify", "exited"}]
  /\ work \in [Verifiers -> Hash \cup {NoHash}]
  /\ \A v \in Verifiers : pc[v] = "verify" => work[v] \in Hash
  /\ clientPc \in {"idle", "tick", "import", "doneDrain"}
  /\ lock \in Sections

FlagsOK == moreBad \in BOOLEAN /\ m_deleting \in BOOLEAN

\* Type invariant: what the members of BlockQueue and the locals of its threads
\* may hold.
TypeOK == SetsOK /\ DequesOK /\ ThreadsOK /\ FlagsOK /\ now \in Nat

\* BlockQueue::invariants() as the code states it (BlockQueue.cpp:447): m_readySet
\* has as many elements as the three deques together, whenever m_lock is free.
ReadySizeIsKnownCount == lock = "free" => Cardinality(m_readySet) = Len(Pipeline)

\* As long as no block was found bad, m_readySet is exactly what the deques hold
\* and no block is in them twice, at every step of import, tick, verifierBody,
\* drain and clear (the invariants() of BlockQueue, made precise).
ReadyMatchesKnown ==
  m_knownBad = {} => IsInjective(Pipeline) /\ Range(Pipeline) = m_readySet

\* Bad blocks included, but without clear(): what the deques hold is in m_readySet
\* once m_lock is free, so a queued block is never offered to the queue again.
QueuedAreReady ==
  lock = "free" => IsInjective(Pipeline) /\ Range(Pipeline) \subseteq m_readySet

\* The hash sets and the multimaps they index agree, through import, tick,
\* noteReady_WITH_LOCK, collectUnknownBad and clear; and no block is waiting for
\* its parent, for its time and for verification at once.
IndexesAgree ==
  /\ m_unknownSet = m_unknown /\ m_futureSet = m_future
  /\ m_unknown \cap m_future = {} /\ m_readySet \cap (m_unknown \cup m_future) = {}

\* A block waits in m_unknown only while its parent is not there: noteReady is
\* called whenever a parent becomes ready ("Set of all blocks whose parents are
\* not ready/in-chain", BlockQueue.h:322).
UnknownParentsAbsent ==
  lock = "free" =>
    \A u \in m_unknown : Parent[u] \notin m_readySet \cup m_drainingSet \cup m_bc

\* Nothing in m_verified, and nothing waiting in m_unknown, is known to be bad or
\* has a bad parent once m_lock is free: updateBad and drainVerified caught it.
NoBadWaiting ==
  lock = "free" =>
    \A h \in Range(m_verified) \cup m_unknown : {h, Parent[h]} \cap m_knownBad = {}

\* As long as nothing went wrong, a block's parent reaches the chain before it
\* ("the queue should guarantee everything in the right order", BlockChain.cpp:702).
ParentsFirst ==
  m_knownBad = {} /\ badBlocks = <<>> /\ abandoned = {} =>
    LET feed == blocks \o Pipeline
    IN \A i \in DOMAIN feed :
          Parent[feed[i]] \in m_bc \cup {feed[j] : j \in 1..(i - 1)}

\* The chain has the parent of every block it has.
ChainClosed == \A h \in m_bc \ {Genesis} : Parent[h] \in m_bc

\* doneDrain subtracts m_drainingDifficulty from the unsigned m_difficulty, which
\* clear() may have reset and imports may have raised since the drain.
NoDifficultyUnderflow == m_drainingDifficulty <= m_difficulty

\* Where every block is good and none is sealed here, none is ever called bad,
\* whatever clear(), the clock and the verifiers do ("Set of blocks that we know
\* will never be valid", BlockQueue.h:324).
NeverBad == m_knownBad = {} /\ badBlocks = <<>>

\* The blocks that are not valid: the rejected ones and their descendants.
Tainted ==
  {h \in Hash : \A T \in SUBSET Hash :
     (\A c \in Hash : c \in Unsound \cup Invalid \/ Parent[c] \in T => c \in T) => h \in T}

\* When m_lock is free no block at the front of m_verifying is verified already: a
\* verifier that finishes out of turn leaves its block to the one before it, whose
\* drainVerified_WITH_BOTH_LOCKS moves it on ("List of blocks being verified; as long
\* as the block component (bytes) is empty, it's not finished", BlockQueue.h:333).
NoFinishedFront == lock = "free" => ~FrontDone

\* Only blocks that are not valid are called bad ("Set of blocks that we know will
\* never be valid", BlockQueue.h:324).
OnlyTaintedBad == m_knownBad \subseteq Tainted

\* Progress of the verifiers: a block that is being verified, or waits for it,
\* leaves m_unverified and m_verifying, unless the queue is being stopped.
VerificationProgress ==
  \A h \in Hash :
    h \in Range(m_unverified) \cup Range(Hashes(m_verifying))
      ~> h \notin Range(m_unverified) \cup Range(Hashes(m_verifying)) \/ m_deleting

\* A future block leaves m_future once its time has come (tick).
FutureReleased == \A h \in Hash : h \in m_future ~> h \notin m_future

\* stop() returns: every verifier thread ends, so that join() does.
VerifiersStop == m_deleting ~> \A v \in Verifiers : pc[v] = "exited"

=============================================================================
