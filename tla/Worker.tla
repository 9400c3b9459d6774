-------------------------------- MODULE Worker --------------------------------
(***************************************************************************)
(* Worker of libdevcore/Worker.{h,cpp}: the thread behind Client, Host and *)
(* the seal engines, and its startWorking, stopWorking and terminate.      *)
(*                                                                         *)
(* Every write of m_state holds x_work; a section that holds it from end   *)
(* to end is one step, and a wait on m_state_notifier divides a call into  *)
(* the part before it and one re-check per notification.  The reads that   *)
(* do not hold it (the head of the thread's loop, workLoop) are steps of   *)
(* their own.  Notifications are modelled: a waiter that no notify_all     *)
(* reaches stays asleep.                                                   *)
(***************************************************************************)
EXTENDS Naturals

CONSTANTS
  Callers,   \* the threads that call the three operations
  Overlap    \* whether a call may begin while another one has not returned

ASSUME OverlapAssumption == Overlap \in BOOLEAN

VARIABLES
  m_state,
  m_work,   \* the thread object exists
  thread,   \* where the worker thread is, "none" if there is none running
  pc        \* where each caller is

vars == <<m_state, m_work, thread, pc>>

WorkerState == {"Starting", "Started", "Stopping", "Stopped", "Killing"}

Thread == {"none", "head", "set", "announce", "work", "mark", "stopped", "check", "wait"}

Pc == {"idle", "startCheck", "startWait", "stopCheck", "stopWait",
       "killNotify", "join", "reset"}

\* notify_all: every waiter goes on to check its condition again.
Notified ==
  [c \in Callers |-> CASE pc[c] = "startWait" -> "startCheck"
                       [] pc[c] = "stopWait" -> "stopCheck"
                       [] OTHER -> pc[c]]

NotifiedThread == IF thread = "wait" THEN "check" ELSE thread

\* Caller c may begin a call.
Begins(c) == pc[c] = "idle" /\ (Overlap \/ \A d \in Callers : pc[d] = "idle")

Goto(c, l) == pc' = [pc EXCEPT ![c] = l]

Init ==
  /\ m_state = "Starting" /\ m_work = FALSE
  /\ thread = "none" /\ pc = [c \in Callers |-> "idle"]

-----------------------------------------------------------------------------
(* The callers *)

startWorking(c) ==
  /\ Begins(c)
  /\ m_work' = TRUE
  /\ \/ /\ m_work
        /\ m_state' = IF m_state = "Stopped" THEN "Starting" ELSE m_state
        /\ thread' = NotifiedThread
     \/ /\ ~m_work
        /\ m_state' = "Starting"
        /\ thread' = "head"
  /\ pc' = [Notified EXCEPT ![c] = IF m_state' = "Starting" THEN "startWait" ELSE "idle"]

startRecheck(c) ==
  /\ pc[c] = "startCheck"
  /\ Goto(c, IF m_state = "Starting" THEN "startWait" ELSE "idle")
  /\ UNCHANGED <<m_state, m_work, thread>>

\* Without a thread, or when it is not Started, stopWorking changes nothing.
stopWorking(c) ==
  /\ Begins(c) /\ m_work /\ m_state = "Started"
  /\ m_state' = "Stopping"
  /\ pc' = [Notified EXCEPT ![c] = "stopWait"]
  /\ thread' = NotifiedThread
  /\ UNCHANGED m_work

stopRecheck(c) ==
  /\ pc[c] = "stopCheck"
  /\ Goto(c, IF m_state # "Stopped" THEN "stopWait" ELSE "idle")
  /\ UNCHANGED <<m_state, m_work, thread>>

\* Without a thread, or when somebody else is killing it, terminate returns.
terminate(c) ==
  /\ Begins(c) /\ m_work /\ m_state # "Killing"
  /\ m_state' = "Killing"
  /\ Goto(c, "killNotify")
  /\ UNCHANGED <<m_work, thread>>

killNotify(c) ==
  /\ pc[c] = "killNotify"
  /\ pc' = [Notified EXCEPT ![c] = "join"]
  /\ thread' = NotifiedThread
  /\ UNCHANGED <<m_state, m_work>>

\* Mutant: the thread is not joined.
join_Detach(c) ==
  /\ pc[c] = "join"
  /\ Goto(c, "reset")
  /\ UNCHANGED <<m_state, m_work, thread>>

join(c) ==
  /\ pc[c] = "join" /\ thread = "none"
  /\ Goto(c, "reset")
  /\ UNCHANGED <<m_state, m_work, thread>>

reset(c) ==
  /\ pc[c] = "reset"
  /\ m_work' = FALSE
  /\ Goto(c, "idle")
  /\ UNCHANGED <<m_state, thread>>

-----------------------------------------------------------------------------
(* The worker thread *)

At(l, m) == thread = l /\ thread' = m

loopHead ==
  /\ At("head", IF m_state = "Killing" THEN "none" ELSE "set")
  /\ UNCHANGED <<m_state, m_work, pc>>

setStarted ==
  /\ At("set", "announce")
  /\ m_state' = "Started"
  /\ UNCHANGED <<m_work, pc>>

\* Mutant: startWorking's wait is not notified.
announceStarted_Silent ==
  /\ At("announce", "work")
  /\ UNCHANGED <<m_state, m_work, pc>>

announceStarted ==
  /\ At("announce", "work")
  /\ pc' = Notified
  /\ UNCHANGED <<m_state, m_work>>

\* workLoop returns when it sees that it should stop.
workLoop ==
  /\ m_state # "Started"
  /\ At("work", "mark")
  /\ UNCHANGED <<m_state, m_work, pc>>

\* startedWorking, workLoop or doneWorking throws.
workThrows ==
  /\ At("work", "mark")
  /\ UNCHANGED <<m_state, m_work, pc>>

\* Mutant: a request to terminate is lost.
markStopped_Forget ==
  /\ At("mark", "stopped")
  /\ m_state' = IF m_state = "Starting" THEN m_state ELSE "Stopped"
  /\ UNCHANGED <<m_work, pc>>

markStopped ==
  /\ At("mark", "stopped")
  /\ m_state' = IF m_state \in {"Killing", "Starting"} THEN m_state ELSE "Stopped"
  /\ UNCHANGED <<m_work, pc>>

announceStopped ==
  /\ At("stopped", "check")
  /\ pc' = Notified
  /\ UNCHANGED <<m_state, m_work>>

waitStopped ==
  /\ At("check", IF m_state = "Stopped" THEN "wait" ELSE "head")
  /\ UNCHANGED <<m_state, m_work, pc>>

-----------------------------------------------------------------------------

threadSteps ==
  \/ loopHead \/ setStarted \/ announceStarted \/ workLoop
  \/ markStopped \/ announceStopped \/ waitStopped

callerSteps(c) ==
  startRecheck(c) \/ stopRecheck(c) \/ killNotify(c) \/ join(c) \/ reset(c)

Next ==
  \/ threadSteps \/ workThrows
  \/ \E c \in Callers :
       startWorking(c) \/ stopWorking(c) \/ terminate(c) \/ callerSteps(c)

\* The scheduler runs the worker thread and every caller that is not
\* waiting, and workLoop polls shouldStop, as its contract says.  Nothing
\* makes anybody call an operation.
Fairness == WF_vars(threadSteps) /\ \A c \in Callers : WF_vars(callerSteps(c))

Spec == Init /\ [][Next]_vars /\ Fairness

-----------------------------------------------------------------------------
(* Properties *)

\* The variables have their types.
TypeOK ==
  /\ m_state \in WorkerState /\ m_work \in BOOLEAN
  /\ thread \in Thread /\ pc \in [Callers -> Pc]

\* While the state is Stopped the thread is outside the work of the derived
\* class, whatever was called since: when stopWorking returns on that state,
\* doWork is not running and will not run before the next startWorking.
StoppedIsQuiet == m_state = "Stopped" => thread \in {"stopped", "check", "wait"}

\* A running thread is always owned by m_work, so startWorking never makes a
\* second one and no destructor leaves one behind.
ThreadOwned == thread # "none" => m_work

\* Once terminate has asked for it, nothing takes the worker out of Killing
\* while its thread is there.
KillSticks == [][m_state = "Killing" /\ m_work => m_state' = "Killing"]_vars

\* Every call of startWorking, stopWorking and terminate returns.
CallsReturn == \A c \in Callers : pc[c] # "idle" ~> pc[c] = "idle"
=============================================================================
