--------------------------- MODULE BlockChainSync ---------------------------
(***************************************************************************)
(* The download of blocks from peers: class BlockChainSync, the part of    *)
(* BrcdChainCapability and BrcdChainPeer that tracks what each peer is     *)
(* asked for, and the environment they run in: peers that answer, announce *)
(* blocks and disappear, the block queue, and the client thread that       *)
(* drains the queue into the chain.                                        *)
(*                                                                         *)
(* Every handler of BlockChainSync runs under the lock x_sync, and is one  *)
(* action.  A handler calls others (continueSync calls syncPeer for every  *)
(* peer, which calls requestBlocks), so each is an operator from the state *)
(* of the downloader to its next state, and `sync' is that state:          *)
(*   state, common   m_state, m_haveCommonHeader                           *)
(*   last, lastHash  m_lastImportedBlock, m_lastImportedBlockHash          *)
(*   headers, bodies m_headers, m_bodies: the block stored for a number    *)
(*                   (the chunks of the maps are the runs of numbers)      *)
(*   dlHeaders, dlBodies        m_downloadingHeaders, m_downloadingBodies  *)
(*   headerPeers, bodyPeers     m_headerSyncPeers, m_bodySyncPeers         *)
(*   ids             m_headerIdToNumber: blocks whose body is awaited      *)
(*   asking, wire    per peer: m_asking, and the requests and announce-    *)
(*                   ments between us and the peer not yet dealt with      *)
(*   latest, height  per peer: m_latestHash, m_height                      *)
(*   ready, unknown, draining, bad   the sets of BlockQueue                *)
(*   wrapped         the byte size of m_unknown wrapped around: insert adds  *)
(*                   the size of data it has moved away, zero, and removal *)
(*                   subtracts the real one; clear sets it to zero         *)
(*   stop            a handler met one of its returns; FALSE between steps *)
(***************************************************************************)
EXTENDS Integers, Sequences, FiniteSets, SequencesExt

CONSTANTS Block, Genesis, NoBlock,
          Parent,        \* Parent[b]: the parent of b
          Number,        \* Number[b]: its height
          Line,          \* Line[b]: b and its ancestors
          EmptyBody,     \* blocks without transactions and uncles
          Own,           \* blocks this node may seal itself
          Invalid,       \* blocks our chain refuses to import
          PeerOrder,     \* the peers, in the order of foreachPeer
          FirstHead,     \* FirstHead[p]: the head of p's chain at the start
          Starts,        \* heads our chain may have at the start
          c_maxRequest,  \* c_maxRequestHeaders and c_maxRequestBodies
          c_maxKnownCount,  \* blocks the queue holds before it is full
          MaxDisconnects \* bound on the connections that break

VARIABLES sync, connected,
          known, head,   \* our chain: the blocks stored, and the best one
          batch, client, \* what the client thread drained, and where it is
          passed,        \* a NewBlock past the unlocked test of isSyncing
          peerHead,      \* the head of each peer's chain
          delivered,     \* per peer: changes with each packet handled
          disconnects

vars == <<sync, connected, known, head, batch, client, passed, peerHead,
          delivered, disconnects>>

Node == Block \cup {Genesis}
Peer == {PeerOrder[i] : i \in DOMAIN PeerOrder}
numberHash(n) == IF \E b \in Line[head] : Number[b] = n
                 THEN CHOOSE b \in Line[head] : Number[b] = n ELSE NoBlock

Least(S) == CHOOSE n \in S : \A m \in S : n <= m
\* The chunk of m_headers or m_bodies that begins with the number n.
Run(f, n) == {m \in DOMAIN f : n..m \subseteq DOMAIN f /\ n <= m}
Without(f, S) == [n \in DOMAIN f \ S |-> f[n]]
Put(f, n, b) == [m \in DOMAIN f \cup {n} |-> IF m = n THEN b ELSE f[m]]
Nothing == [n \in {} |-> NoBlock]

Init ==
    /\ head \in Starts /\ known = Line[head]
    /\ sync = [state |-> "Idle", common |-> FALSE,
               last |-> Number[head], lastHash |-> head,
               headers |-> Nothing, bodies |-> Nothing, dlHeaders |-> {}, dlBodies |-> {},
               headerPeers |-> [p \in Peer |-> {}], bodyPeers |-> [p \in Peer |-> {}],
               ids |-> {}, asking |-> [p \in Peer |-> "Nothing"], wire |-> [p \in Peer |-> <<>>],
               latest |-> [p \in Peer |-> NoBlock], height |-> [p \in Peer |-> 0],
               ready |-> {}, unknown |-> {}, draining |-> {}, bad |-> {},
               wrapped |-> FALSE, stop |-> FALSE]
    /\ connected = {}
    /\ batch = NoBlock /\ client = "idle" /\ passed = <<>>
    /\ peerHead = FirstHead
    /\ delivered = [p \in Peer |-> FALSE] /\ disconnects = 0

-----------------------------------------------------------------------------
(* BlockQueue, as BlockChainSync uses it.                                  *)

knownFull(s) == Cardinality(s.ready) > c_maxKnownCount

\* The bound on the number of blocks (100000) is never reached here.
unknownFull(s) == s.wrapped

\* removeByKeyEqual of m_unknown, for all of S.
removeUnknown(s, S) == [s EXCEPT !.unknown = @ \ S, !.wrapped = @ \/ S # {}]

\* The result of bq().import for the header of b with the body of d.
importResult(s, b, d) ==
    IF b \in s.ready \cup s.draining \cup s.unknown \cup s.bad THEN "AlreadyKnown"
    ELSE IF b # d THEN "Malformed"
    ELSE IF b \in known THEN "AlreadyInChain"
    ELSE IF Parent[b] \in s.bad THEN "BadChain"
    ELSE IF Parent[b] \notin s.ready \cup s.draining \cup known THEN "UnknownParent"
    ELSE "Success"

Descendants(b, S) == {c \in S : b \in Line[c]}

noteBad(s, b) ==
    [removeUnknown(s, Descendants(b, s.unknown)) EXCEPT
        !.ready = @ \ Descendants(b, @),
        !.bad = @ \cup {b} \cup Descendants(b, s.ready \cup s.unknown)]

\* The queue after import.  noteReady makes the descendants of b that wait in
\* m_unknown ready too; updateBad gives up what descends from a bad block.
imported(s, b, r) ==
    CASE r = "Success" ->
            LET freed == {c \in s.unknown : b \in Line[c] /\ Line[c] \ Line[b] \subseteq s.unknown}
            IN  [removeUnknown(s, freed) EXCEPT !.ready = @ \cup {b} \cup freed]
      [] r = "UnknownParent" -> [s EXCEPT !.unknown = @ \cup {b}]
      [] r = "BadChain" -> noteBad(s, b)
      [] OTHER -> s

-----------------------------------------------------------------------------
(* Resetting.                                                              *)

resetSync(s) ==
    [s EXCEPT !.dlHeaders = {}, !.dlBodies = {}, !.headers = Nothing, !.bodies = Nothing,
              !.headerPeers = [p \in Peer |-> {}], !.bodyPeers = [p \in Peer |-> {}],
              !.ids = {}, !.state = "NotSynced"]

\* Clears the block queue as well, and starts from the head of our chain.
restartSync(s) ==
    [resetSync(s) EXCEPT !.common = FALSE, !.ready = {}, !.unknown = {}, !.draining = {},
                         !.wrapped = FALSE, !.last = Number[head], !.lastHash = head]

\* Mutant: completes without the reset.
completeSync_Keep(s) == [s EXCEPT !.state = "Idle"]

completeSync(s) == [resetSync(s) EXCEPT !.state = "Idle"]

\* clearPeerDownload(_peerID): what p was asked for may be asked of another.
clearPeerDownload(s, p) ==
    [s EXCEPT !.dlHeaders = @ \ s.headerPeers[p], !.dlBodies = @ \ s.bodyPeers[p],
              !.headerPeers[p] = {}, !.bodyPeers[p] = {}]

-----------------------------------------------------------------------------
(* Asking a peer.                                                          *)

ask(s, p, kind, request) ==
    [s EXCEPT !.asking[p] = kind, !.wire[p] = Append(@, request)]

askHeaders(s, p, start, count) ==
    ask(s, p, "BlockHeaders", [type |-> "numbers", start |-> start, count |-> count])

\* Mutant: a body is asked for while another peer is asked for it.
NeededBodies_Twice(s) ==
    LET first == s.last + 1
        wanted == {n \in Run(s.headers, first) : n \notin DOMAIN s.bodies}
    IN  IF s.common /\ DOMAIN s.headers # {} /\ Least(DOMAIN s.headers) = first
        THEN {n \in wanted : Cardinality({m \in wanted : m < n}) < c_maxRequest}
        ELSE {}

\* requestBlocks, the first part: the numbers of the first chunk of headers,
\* in order and at most c_maxRequestBodies, whose body nobody downloads yet.
NeededBodies(s) ==
    LET first == s.last + 1
        wanted == {n \in Run(s.headers, first) : n \notin s.dlBodies /\ n \notin DOMAIN s.bodies}
    IN  IF s.common /\ DOMAIN s.headers # {} /\ Least(DOMAIN s.headers) = first
        THEN {n \in wanted : Cardinality({m \in wanted : m < n}) < c_maxRequest}
        ELSE {}

\* The second part, with a common header known: the gaps before the chunks
\* of headers, at most c_maxRequestHeaders numbers at a time, until one has a
\* number that nobody downloads yet.
RECURSIVE GapFrom(_, _)
GapFrom(s, start) ==
    LET later == {n \in DOMAIN s.headers : n >= start}
        next == Least(later)
        stop == IF next - start > c_maxRequest THEN start + c_maxRequest ELSE next
        needed == (start..(stop - 1)) \ s.dlHeaders
    IN  IF later = {} THEN {}
        ELSE IF needed # {} THEN needed
        ELSE GapFrom(s, IF stop = next THEN next + Cardinality(Run(s.headers, next)) ELSE stop)

NeededHeaders(s) ==
    LET first == Least(DOMAIN s.headers)
    IN  IF DOMAIN s.headers # {} /\ s.last + 1 >= first
        THEN GapFrom(s, first + Cardinality(Run(s.headers, first)))
        ELSE GapFrom(s, s.last + 1)

requestHeaders(s, p) ==
    LET needed == NeededHeaders(s)
    IN  IF needed = {} THEN s
        ELSE askHeaders([s EXCEPT !.headerPeers[p] = needed, !.dlHeaders = @ \cup needed],
                        p, Least(needed), Cardinality(needed))

\* Mutant: does not step below the first header.
requestBack_Stay(s, p) ==
    LET start == s.last
        t == [s EXCEPT !.last = start, !.lastHash = numberHash(start), !.common = (start <= 1)]
    IN  IF t.common THEN requestHeaders(t, p) ELSE askHeaders(t, p, start, 1)

\* Without a common header: go back one block at a time.
requestBack(s, p) ==
    LET start == IF DOMAIN s.headers = {} \/ s.last < Least(DOMAIN s.headers) - 1
                 THEN s.last ELSE Least(DOMAIN s.headers) - 1
        t == [s EXCEPT !.last = start, !.lastHash = numberHash(start), !.common = (start <= 1)]
    IN  IF t.common THEN requestHeaders(t, p) ELSE askHeaders(t, p, start, 1)

requestBlocks(s, p) ==
    LET t == clearPeerDownload(s, p)
        needed == NeededBodies(t)
    IN  IF knownFull(t) THEN [t EXCEPT !.state = "Waiting"]
        ELSE IF needed # {}
        THEN ask([t EXCEPT !.bodyPeers[p] = needed, !.dlBodies = @ \cup needed],
                 p, "BlockBodies", [type |-> "bodies", blocks |-> {t.headers[n] : n \in needed}])
        ELSE IF t.common THEN requestHeaders(t, p) ELSE requestBack(t, p)

-----------------------------------------------------------------------------
(* Which peer to ask.                                                      *)

\* A peer whose status has not arrived has no genesis hash: ignore_sync.
syncPeer(s, p, force) ==
    LET ahead == force \/ (Number[head] < s.height[p] /\ s.last < s.height[p])
    IN  IF s.asking[p] # "Nothing" \/ s.state = "Waiting" THEN s
        ELSE IF ahead /\ s.state # "Blocks" /\ s.latest[p] # NoBlock
        THEN ask([s EXCEPT !.state = "Blocks"],
                 p, "BlockHeaders", [type |-> "hash", block |-> s.latest[p]])
        ELSE IF s.state = "Blocks" THEN requestBlocks(s, p) ELSE s

continueSync(s, peers) ==
    LET next(t, p) ==
            IF p \notin peers THEN t
            ELSE IF t.height[p] < t.last /\ t.state = "Blocks" /\ t.asking[p] = "Nothing"
            THEN ask(t, p, "UpdateStatus", [type |-> "update"])
            ELSE syncPeer(t, p, FALSE)
    IN  FoldLeft(next, s, PeerOrder)

-----------------------------------------------------------------------------
(* What peers send.                                                        *)

\* collectBlocks: hands the blocks that are complete to the queue.
importCollected(s, n) ==
    LET b == s.headers[n]
        r == importResult(s, b, s.bodies[n])
        t == imported(s, b, r)
    IN  CASE s.stop -> s
          [] ~s.stop /\ r = "Success" ->
                IF n > t.last THEN [t EXCEPT !.last = n, !.lastHash = b] ELSE t
          [] ~s.stop /\ r = "AlreadyInChain" -> t
          [] ~s.stop /\ r \in {"Malformed", "BadChain"} ->
                [restartSync(t) EXCEPT !.stop = TRUE]
          [] ~s.stop /\ r \in {"AlreadyKnown", "UnknownParent"} ->
                IF n > t.last
                THEN [resetSync(t) EXCEPT !.common = FALSE, !.stop = TRUE]
                ELSE [t EXCEPT !.stop = TRUE]

\* If the queue then says that it holds too many unknown blocks, p is asked
\* for more and everything starts again.
collectBlocks(s, p) ==
    LET first == s.last + 1
        complete == Run(s.headers, first) \cap Run(s.bodies, first)
        t == FoldLeft(importCollected, s, [i \in 1..Cardinality(complete) |-> s.last + i])
        rest == [t EXCEPT !.headers = Without(@, complete), !.bodies = Without(@, complete)]
    IN  IF \/ ~s.common \/ DOMAIN s.headers = {} \/ DOMAIN s.bodies = {}
           \/ Least(DOMAIN s.headers) # first \/ Least(DOMAIN s.bodies) # first
        THEN s
        ELSE IF t.stop THEN [t EXCEPT !.stop = FALSE]
        ELSE IF unknownFull(t) THEN restartSync(syncPeer(t, p, TRUE))
        ELSE IF DOMAIN rest.headers = {} THEN completeSync(rest) ELSE rest

\* Mutant: the bodies of the dropped headers stay.
dropFollowing_KeepBodies(s, b) ==
    LET n == Number[b] + 1
        later(f) == {m \in DOMAIN f : m >= n}
    IN  [s EXCEPT !.dlHeaders = @ \ Run(s.headers, n), !.dlBodies = @ \ Run(s.headers, n),
                  !.ids = @ \ {b},
                  !.headers = Without(@, later(@))]

\* The headers that follow number n were of another fork.
dropFollowing(s, b) ==
    LET n == Number[b] + 1
        later(f) == {m \in DOMAIN f : m >= n}
    IN  [s EXCEPT !.dlHeaders = @ \ Run(s.headers, n), !.dlBodies = @ \ Run(s.headers, n),
                  !.ids = @ \ {b},
                  !.headers = Without(@, later(@)), !.bodies = Without(@, later(@))]

storeHeader(s, b) ==
    LET t == [s EXCEPT !.headers = Put(@, Number[b], b)]
    IN  IF b \in EmptyBody THEN [t EXCEPT !.bodies = Put(@, Number[b], b)]
        ELSE [t EXCEPT !.ids = @ \cup {b}]

\* One header of onPeerBlockHeaders.
takeHeader(s, b) ==
    LET n == Number[b]
        common == [s EXCEPT !.common = TRUE, !.last = n, !.lastHash = b]
        otherFork == n + 1 \in DOMAIN s.headers /\ Parent[s.headers[n + 1]] # b
        mismatch == \/ n - 1 \in DOMAIN s.headers /\ s.headers[n - 1] # Parent[b]
                    \/ n = s.last + 1 /\ Parent[b] # s.lastHash
    IN  IF s.stop \/ n \in DOMAIN s.headers \/ (n <= s.last /\ s.common) THEN s
        ELSE IF b \in s.ready \cup s.draining \cup known
        THEN IF otherFork /\ Least(DOMAIN s.headers) = n + 1
             THEN [restartSync(common) EXCEPT !.stop = TRUE] ELSE common
        ELSE IF s.common /\ mismatch THEN [restartSync(s) EXCEPT !.stop = TRUE]
        ELSE storeHeader(IF s.common /\ otherFork THEN dropFollowing(s, b) ELSE s, b)

onPeerBlockHeaders(s, p, answer) ==
    LET t == FoldLeft(takeHeader, clearPeerDownload(s, p), answer)
    IN  IF s.state # "Blocks" THEN clearPeerDownload(s, p)
        ELSE IF t.stop THEN [t EXCEPT !.stop = FALSE]
        ELSE continueSync(collectBlocks(t, p), connected)

takeBody(s, d) ==
    LET n == Number[d]
    IN  IF d \in s.ids /\ n \in DOMAIN s.headers /\ n \notin DOMAIN s.bodies
        THEN [s EXCEPT !.ids = @ \ {d}, !.bodies = Put(@, n, d)] ELSE s

\* Mutant: does not continue after the blocks are collected.
onPeerBlockBodies_Silent(s, p, answer) ==
    LET t == clearPeerDownload(s, p)
    IN  IF s.state # "Blocks" THEN t
        ELSE collectBlocks(FoldLeft(takeBody, t, answer), p)

onPeerBlockBodies(s, p, answer) ==
    LET t == clearPeerDownload(s, p)
    IN  IF s.state # "Blocks" THEN t
        ELSE continueSync(collectBlocks(FoldLeft(takeBody, t, answer), p), connected)

onPeerNewHashes(s, p, b) ==
    IF \/ s.asking[p] # "Nothing"
       \/ b \in s.ready \cup s.draining \cup s.unknown \cup s.bad \cup known
    THEN s ELSE syncPeer([s EXCEPT !.latest[p] = b], p, TRUE)

\* onPeerNewBlock after its test of isSyncing, which is outside the lock.
onPeerNewBlock(s, p, b) ==
    LET n == Number[b]
        r == importResult(s, b, b)
        t == imported(s, b, r)
        u == [t EXCEPT !.last = IF n > @ THEN n ELSE @, !.lastHash = IF n > t.last THEN b ELSE @,
                       !.dlHeaders = @ \ {n}, !.dlBodies = @ \ {n},
                       !.headers = Without(@, Run(@, n)), !.bodies = Without(@, Run(@, n))]
        done == IF DOMAIN u.headers = {} THEN completeSync(u) ELSE u
    IN  IF n > s.last + 1 THEN syncPeer([s EXCEPT !.latest[p] = b], p, TRUE)
        ELSE CASE r = "Success" -> [done EXCEPT !.height[p] = u.last]
               [] r \in {"AlreadyInChain", "AlreadyKnown"} ->
                     [t EXCEPT !.height[p] = IF n > @ THEN n ELSE @]
               [] r = "UnknownParent" ->
                     IF n > s.height[p] /\ n > Number[head]
                     THEN syncPeer([t EXCEPT !.common = FALSE], p, TRUE) ELSE t
               [] r = "BadChain" -> t    \* the peer is disconnected later

-----------------------------------------------------------------------------
(* The network thread.                                                     *)

Pop(s, p) == [s EXCEPT !.wire[p] = Tail(@)]
setIdle(s, p) == [s EXCEPT !.asking[p] = "Nothing"]

setStatus(s, p) == [s EXCEPT !.latest[p] = peerHead[p], !.height[p] = Number[peerHead[p]]]

\* The headers and bodies an honest peer answers with.
blockHeaders(p, m) ==
    LET top == Number[peerHead[p]]
        end == IF m.start + m.count - 1 > top THEN top ELSE m.start + m.count - 1
        at(n) == CHOOSE b \in Line[peerHead[p]] : Number[b] = n
    IN  IF m.type = "hash" THEN IF m.block \in Line[peerHead[p]] THEN <<m.block>> ELSE <<>>
        ELSE [i \in 1..(end - m.start + 1) |-> at(m.start + i - 1)]

blockBodies(p, m) ==
    SetToSortSeq(m.blocks \cap Line[peerHead[p]], LAMBDA a, b : Number[a] < Number[b])

\* interpretCapabilityPacket: the next packet of p, whatever it is but a new
\* block.  An answer counts only if p is being asked for that kind.
receive(p) ==
    LET m == Head(sync.wire[p])
        s == Pop(sync, p)
        idle == setIdle(s, p)
        accepted(kind) == s.asking[p] = kind
    IN  /\ p \in connected /\ passed = <<>>
        /\ sync.wire[p] # <<>> /\ m.type # "newBlock"
        /\ sync' = CASE m.type = "status" -> syncPeer(setStatus(idle, p), p, FALSE)
                     [] m.type = "update" ->
                           IF accepted("UpdateStatus") THEN syncPeer(setStatus(idle, p), p, FALSE) ELSE s
                     [] m.type \in {"hash", "numbers"} ->
                           IF accepted("BlockHeaders")
                           THEN onPeerBlockHeaders(idle, p, blockHeaders(p, m)) ELSE s
                     [] m.type = "bodies" ->
                           IF accepted("BlockBodies")
                           THEN onPeerBlockBodies(idle, p, blockBodies(p, m)) ELSE s
                     [] m.type = "newHash" -> onPeerNewHashes(s, p, m.block)
        /\ UNCHANGED <<connected, known, head, batch, client, passed, peerHead, disconnects>>
        /\ delivered' = [delivered EXCEPT ![p] = ~@]

\* onPeerNewBlock: the test of isSyncing, and then the rest under the lock.
testSyncing(p) ==
    /\ p \in connected /\ passed = <<>>
    /\ sync.wire[p] # <<>> /\ Head(sync.wire[p]).type = "newBlock"
    /\ sync' = Pop(sync, p)
    /\ passed' = IF sync.state # "Idle" THEN <<>> ELSE <<p, Head(sync.wire[p]).block>>
    /\ UNCHANGED <<connected, known, head, batch, client, peerHead, disconnects>>
    /\ delivered' = [delivered EXCEPT ![p] = ~@]

newBlock ==
    /\ passed # <<>>
    /\ sync' = onPeerNewBlock(sync, passed[1], passed[2])
    /\ passed' = <<>>
    /\ UNCHANGED <<connected, known, head, batch, client, peerHead, delivered, disconnects>>

onConnect(p) ==
    /\ p \notin connected /\ passed = <<>>
    /\ connected' = connected \cup {p}
    /\ sync' = [sync EXCEPT !.wire[p] = <<[type |-> "status"]>>]
    /\ UNCHANGED <<known, head, batch, client, passed, peerHead, delivered, disconnects>>

\* The session ends, by itself or because an answer took more than 10 seconds:
\* onPeerAborting, and then the peer is erased.
forgetPeer(s, p) ==
    [s EXCEPT !.asking[p] = "Nothing", !.wire[p] = <<>>, !.latest[p] = NoBlock, !.height[p] = 0]

\* Mutant: what the peer was asked for stays marked.
onDisconnect_KeepDownloads(p) ==
    /\ p \in connected /\ passed = <<>> /\ disconnects < MaxDisconnects
    /\ connected' = connected \ {p}
    /\ sync' = forgetPeer(continueSync(sync, connected'), p)
    /\ disconnects' = disconnects + 1
    /\ UNCHANGED <<known, head, batch, client, passed, peerHead, delivered>>

onDisconnect(p) ==
    /\ p \in connected /\ passed = <<>> /\ disconnects < MaxDisconnects
    /\ connected' = connected \ {p}
    /\ sync' = forgetPeer(continueSync(clearPeerDownload(sync, p), connected'), p)
    /\ disconnects' = disconnects + 1
    /\ UNCHANGED <<known, head, batch, client, passed, peerHead, delivered>>

\* A peer imports a block on its head, and announces it in one way or the other.
announce(p, b) ==
    /\ Parent[b] = peerHead[p] /\ Line[b] \cap Invalid = {}
    /\ peerHead' = [peerHead EXCEPT ![p] = b]
    /\ \E type \in {"newHash", "newBlock"} :
          sync' = IF p \in connected
                  THEN [sync EXCEPT !.wire[p] = Append(@, [type |-> type, block |-> b])] ELSE sync
    /\ UNCHANGED <<connected, known, head, batch, client, passed, delivered, disconnects>>

-----------------------------------------------------------------------------
(* The client thread: BlockChain::sync of one block, and sealing.          *)

ClientStates == {"idle", "room", "import", "bad", "done", "seal"}

\* drain takes a block out of the queue ...
drain(b) ==
    /\ client = "idle" /\ b \in sync.ready /\ Parent[b] \notin sync.ready
    /\ batch' = b
    /\ sync' = [sync EXCEPT !.ready = @ \ {b}, !.draining = {b}]
    /\ client' = IF knownFull(sync) /\ ~knownFull(sync') THEN "room" ELSE "import"
    /\ UNCHANGED <<connected, known, head, passed, peerHead, delivered, disconnects>>

\* Mutant: continues without leaving Waiting.
roomAvailable_Waiting ==
    /\ client = "room"
    /\ sync' = continueSync(sync, connected)
    /\ client' = "import"
    /\ UNCHANGED <<connected, known, head, batch, passed, peerHead, delivered, disconnects>>

\* ... and m_onRoomAvailable resumes the download if that ended its being full.
roomAvailable ==
    /\ client = "room"
    /\ sync' = continueSync([sync EXCEPT !.state = "Blocks"], connected)
    /\ client' = "import"
    /\ UNCHANGED <<connected, known, head, batch, passed, peerHead, delivered, disconnects>>

onBlockImported(s, b) ==
    IF Number[b] > s.last THEN [s EXCEPT !.last = Number[b], !.lastHash = b] ELSE s

import ==
    /\ client = "import"
    /\ IF batch \in Invalid \/ Parent[batch] \notin known
       THEN client' = "bad" /\ UNCHANGED <<known, head, sync>>
       ELSE /\ known' = known \cup {batch}
            /\ IF Number[batch] > Number[head]
               THEN head' = batch /\ sync' = onBlockImported(sync, batch)
               ELSE UNCHANGED <<head, sync>>
            /\ client' = "done"
    /\ UNCHANGED <<connected, batch, passed, peerHead, delivered, disconnects>>

doneDrain ==
    /\ client \in {"bad", "done"}
    /\ sync' = LET s == [sync EXCEPT !.draining = {}]
               IN  IF client = "bad" THEN noteBad(s, batch) ELSE s
    /\ client' = "idle" /\ batch' = NoBlock
    /\ UNCHANGED <<connected, known, head, passed, peerHead, delivered, disconnects>>

\* rejigSealing begins a block on our head only while no sync is going on, but
\* that may change before the block reaches the queue.  A block sealed and not
\* yet imported is not sealed again.
rejigSealing(b) ==
    /\ client = "idle" /\ sync.state = "Idle"
    /\ b \in Own \ sync.ready /\ Parent[b] = head
    /\ batch' = b /\ client' = "seal"
    /\ UNCHANGED <<sync, connected, known, head, passed, peerHead, delivered, disconnects>>

submitSealed ==
    /\ client = "seal"
    /\ sync' = imported(sync, batch, importResult(sync, batch, batch))
    /\ client' = "idle" /\ batch' = NoBlock
    /\ UNCHANGED <<connected, known, head, passed, peerHead, delivered, disconnects>>

-----------------------------------------------------------------------------
Client == \/ \E b \in Block : drain(b)
          \/ roomAvailable \/ import \/ doneDrain
          \/ (\E b \in Block : rejigSealing(b)) \/ submitSealed

Next ==
    \/ \E p \in Peer : receive(p) \/ testSyncing(p) \/ onConnect(p) \/ onDisconnect(p)
    \/ newBlock
    \/ \E p \in Peer, b \in Block : announce(p, b)
    \/ Client

Spec == Init /\ [][Next]_vars

\* Packets are handled and the client thread runs; no peer need connect or announce
\* anything, nobody need seal and no connection need break.
\* Each of these names the guard of the actions it stands for and a change only
\* they make.
Handles(p) == /\ p \in connected /\ passed = <<>> /\ sync.wire[p] # <<>>
              /\ delivered' = [delivered EXCEPT ![p] = ~@]
Finishes == passed # <<>> /\ passed' = <<>>
Works == (client # "idle" \/ sync.ready # {}) /\ client' \in ClientStates \ {client}

Fairness == /\ WF_client(Works) /\ WF_passed(Finishes)
            /\ \A p \in Peer : WF_delivered(Handles(p))

FairSpec == Spec /\ Fairness

-----------------------------------------------------------------------------
Numbers == {Number[b] : b \in Node} \cup {0}
Held == UNION {[S -> Block] : S \in SUBSET Numbers}

\* Types; a handler that returned early has cleared its mark.
TypeOK ==
    /\ sync.state \in {"NotSynced", "Idle", "Waiting", "Blocks"} /\ sync.common \in BOOLEAN
    /\ sync.last \in Numbers /\ sync.lastHash \in Node \cup {NoBlock}
    /\ sync.headers \in Held /\ sync.bodies \in Held
    /\ sync.dlHeaders \cup sync.dlBodies \subseteq Numbers
    /\ \A p \in Peer : sync.headerPeers[p] \cup sync.bodyPeers[p] \subseteq Numbers
    /\ sync.ids \cup sync.ready \cup sync.unknown \cup sync.draining \cup sync.bad \subseteq Block
    /\ sync.wrapped \in BOOLEAN /\ ~sync.stop /\ known \subseteq Node /\ head \in known
    /\ client \in ClientStates

\* Nothing is marked as being downloaded unless it is on the list of a connected
\* peer, which is being asked for it while blocks are downloaded: a number that
\* a lost peer or a dropped answer leaves behind can be asked for again.
DownloadsOwned ==
    /\ \A n \in sync.dlHeaders : \E p \in connected :
          n \in sync.headerPeers[p] /\ (sync.state = "Blocks" => sync.asking[p] = "BlockHeaders")
    /\ \A n \in sync.dlBodies : \E p \in connected :
          n \in sync.bodyPeers[p] /\ (sync.state = "Blocks" => sync.asking[p] = "BlockBodies")

\* No two peers are asked for the same number.
AskedOnce ==
    \A p, q \in Peer : p # q => /\ sync.headerPeers[p] \cap sync.headerPeers[q] = {}
                                /\ sync.bodyPeers[p] \cap sync.bodyPeers[q] = {}

\* Once a common header is known, neighbouring headers are parent and child.
HeadersLinked ==
    sync.common => \A n \in DOMAIN sync.headers :
        n + 1 \in DOMAIN sync.headers => Parent[sync.headers[n + 1]] = sync.headers[n]

\* A stored body belongs to the header stored for the number.
BodyMatches ==
    \A n \in DOMAIN sync.bodies : n \in DOMAIN sync.headers /\ sync.bodies[n] = sync.headers[n]

\* Idle holds nothing half downloaded.
IdleIsClean ==
    sync.state = "Idle" => /\ DOMAIN sync.headers = {} /\ DOMAIN sync.bodies = {}
                           /\ sync.dlHeaders = {} /\ sync.dlBodies = {} /\ sync.ids = {}

\* invariants() of BlockChainSync, "Header is too old": while a sync is going on,
\* the stored headers are above the last imported block.
HeadersAhead ==
    sync.state # "Idle" /\ DOMAIN sync.headers # {} => sync.last < Least(DOMAIN sync.headers)

\* Nobody is asked and nobody has anything to say.
Quiet == connected # {} /\ \A p \in connected : sync.wire[p] = <<>>

\* While the state is Blocks, somebody is being asked.
Downloading == sync.state = "Blocks" => ~Quiet

\* It is not so in four cases only: no header is left to go on from, or the
\* first is not above m_lastImportedBlock, or the search for a common header
\* has just ended at the start of the chain, or the next block is complete:
\* nothing is left to ask for, and only an answer makes collectBlocks run.
StallExplained ==
    sync.state = "Blocks" /\ Quiet =>
        /\ sync.common
        /\ \/ DOMAIN sync.headers = {}
           \/ Least(DOMAIN sync.headers) <= sync.last
           \/ sync.last <= 1
           \/ sync.last + 1 \in DOMAIN sync.headers \cap DOMAIN sync.bodies

\* With one peer, whose chain we accept, connected for good, and a queue that was
\* never full, our chain reaches the height the peer told.
CatchesUp ==
    \A p \in {q \in Peer : Line[FirstHead[q]] \cap Invalid = {}} :
        /\ [](connected \subseteq {p} /\ disconnects = 0 /\ client # "room") /\ <>(connected = {p})
        => <>[](Number[head] >= sync.height[p] /\ sync.height[p] > 0)

\* A paused download is resumed.
Resumes == sync.state = "Waiting" ~> sync.state # "Waiting"
=============================================================================
