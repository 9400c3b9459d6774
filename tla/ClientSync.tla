----------------------------- MODULE ClientSync -----------------------------
(***************************************************************************)
(* Client::doWork and SHDposClient::doWork with the block queue: the       *)
(* client thread drains the queue only after m_syncBlockQueue was set,     *)
(* either by onBlockQueueReady (called by the verifier threads) or by the  *)
(* result of the last sync.                                                *)
(*                                                                         *)
(* Every step of BlockQueue is here; the ones that touch the flag are      *)
(* constrained further.                                                    *)
(***************************************************************************)
EXTENDS BlockQueue

VARIABLES
  m_syncBlockQueue,
  result,   \* what doneDrain returned, until syncBlockQueue assigns it:
            \* "none", "more" (m_readySet was not empty) or "empty"
  missed    \* history: the reason why a signal is owed to the client, if any

clientVars == <<m_syncBlockQueue, result, missed>>
syncVars   == <<vars, clientVars>>

\* How a signal can get lost.
Reasons == {"none", "overwritten", "failedVerification"}

InitSync == Init /\ m_syncBlockQueue = FALSE /\ result = "none" /\ missed = "none"

-----------------------------------------------------------------------------
\* m_onReady(), connected to Client::onBlockQueueReady.
OnBlockQueueReady(v) ==
  /\ Notify(v)
  /\ m_syncBlockQueue' = TRUE /\ missed' = "none"
  /\ UNCHANGED result

\* compare_exchange_strong(true, false) succeeded: bc().sync starts.
SyncBlockQueue ==
  /\ m_syncBlockQueue /\ result = "none"
  /\ \E max \in 1..MaxDrain : Drain(max)
  /\ m_syncBlockQueue' = FALSE /\ missed' = "none"
  /\ UNCHANGED result

\* Mutants: doneDrain never asks for another sync; it counts blocks that wait for
\* their parent or their time.
ReturnNothing == result' = "empty"
ReturnQueued == result' = IF m_readySet \cup m_unknownSet \cup m_futureSet # {}
                          THEN "more" ELSE "empty"

\* doneDrain returns !m_readySet.empty(), read before m_lock is released.
ReturnReady == result' = IF m_readySet # {} THEN "more" ELSE "empty"

SyncDone ==
  /\ DoneDrain
  /\ IF badBlocks = <<>> THEN ReturnReady ELSE UNCHANGED result
  /\ UNCHANGED <<m_syncBlockQueue, missed>>

SyncUpdateBadEnd ==
  /\ UpdateBadEnd
  /\ IF clientPc = "doneDrain" THEN ReturnReady ELSE UNCHANGED result
  /\ UNCHANGED <<m_syncBlockQueue, missed>>

\* tie(ir, m_syncBlockQueue, count) = ...: the flag takes the result, whatever
\* onBlockQueueReady wrote to it in the meantime.
AssignResult ==
  /\ result # "none"
  /\ m_syncBlockQueue' = (result = "more")
  /\ missed' = IF m_syncBlockQueue /\ result = "empty" THEN "overwritten" ELSE missed
  /\ result' = "none"
  /\ UNCHANGED vars

\* The verifier's failure path moves finished blocks to m_verified, and does not
\* call m_onReady.
DrainVerifiedStep ==
  /\ DrainVerified
  /\ missed' = IF ~m_syncBlockQueue /\ \E v \in Verifiers : pc[v] = "drainBad"
               THEN "failedVerification" ELSE missed
  /\ UNCHANGED <<m_syncBlockQueue, result>>

\* The rest of doWork, between two syncs.
ClientTick == result = "none" /\ TickCollect /\ UNCHANGED clientVars

OtherSteps ==
  /\ \/ \E h \in Hash, isOurs \in BOOLEAN : Import(h, isOurs)
     \/ \E v \in Verifiers :
          Take(v) \/ VerifyFail(v) \/ VerifyNext(v) \/ VerifyReplace(v)
            \/ DrainVerifiedEnd(v) \/ Exit(v)
     \/ UpdateBad \/ BadVerified \/ BadUnverified \/ BadVerifying
     \/ ImportDrained \/ Clock \/ Stop \/ \E h \in todo : TickImport(h)
  /\ UNCHANGED clientVars

SteadyNextSync ==
  \/ \E v \in Verifiers : OnBlockQueueReady(v)
  \/ SyncBlockQueue \/ SyncDone \/ SyncUpdateBadEnd \/ AssignResult
  \/ DrainVerifiedStep \/ ClientTick \/ OtherSteps

\* With BlockChainSync::restartSync, which clears the queue.
NextSync == SteadyNextSync \/ (Clear /\ UNCHANGED clientVars)

\* Every thread runs on; a block need never be offered, the node need never stop.
FairnessSync ==
  /\ \A v \in Verifiers : WF_syncVars(Verify(v) /\ SteadyNextSync)
  /\ WF_syncVars(DrainVerifiedStep) /\ WF_syncVars(SyncUpdateBadEnd)
  /\ WF_syncVars((UpdateBad \/ BadVerified \/ BadUnverified \/ BadVerifying)
                   /\ UNCHANGED clientVars)
  /\ WF_syncVars((ImportDrained \/ \E h \in todo : TickImport(h)) /\ UNCHANGED clientVars)
  /\ WF_syncVars(SyncDone) /\ WF_syncVars(AssignResult)
  /\ SF_syncVars(SyncBlockQueue) /\ SF_syncVars(ClientTick)
  /\ WF_syncVars(Clock /\ UNCHANGED clientVars)

SteadySpecSync == InitSync /\ [][SteadyNextSync]_syncVars
SpecSync       == InitSync /\ [][NextSync]_syncVars
FairSpecSync   == SteadySpecSync /\ FairnessSync

-----------------------------------------------------------------------------
\* Type invariant of the variables Client adds; the result of doneDrain is assigned
\* before the client thread does anything else.
TypeOKSync ==
  /\ m_syncBlockQueue \in BOOLEAN /\ result \in {"none", "more", "empty"}
  /\ missed \in Reasons
  /\ result # "none" => clientPc = "idle"

\* No thread is about to set the flag.
Quiet == lock = "free" /\ result = "none" /\ clientPc = "idle"
           /\ \A v \in Verifiers : pc[v] \notin {"drainOk", "drainBad", "notify"}

\* A verified block waits without m_syncBlockQueue set only after one of two
\* events: syncBlockQueue overwrote a signal (Client.cpp:386), or the failure path
\* of verifierBody released the block (BlockQueue.cpp:100).
UnsignalledExplained ==
  Quiet /\ m_verified # <<>> /\ ~m_syncBlockQueue => missed # "none"

\* Verified blocks are signalled: m_onReady is "Called when a subsequent call to
\* import blocks will return a non-empty container" (BlockQueue.h:327).
VerifiedSignalled == Quiet /\ m_verified # <<>> => m_syncBlockQueue

\* doneDrain "returns true iff there are additional blocks ready to be processed"
\* (BlockQueue.h:232): when it says there are, some deque holds a block.
MoreMeansQueued ==
  [][result = "none" /\ result' = "more" => Pipeline' # <<>>]_syncVars

\* The client does not spin on blocks it cannot import: again and again doWork finds
\* the flag down, or the verifiers are being stopped.
ClientSettles ==
  []<>(m_deleting \/ (~m_syncBlockQueue /\ result = "none" /\ clientPc = "idle"))

\* A verified block is drained (Client::doWork), or an event that loses signals
\* happened.
VerifiedDrained ==
  \A h \in Hash : h \in Range(m_verified) ~> h \notin Range(m_verified) \/ missed # "none"
=============================================================================
