----------------------------- MODULE WorkerProofs -----------------------------
(***************************************************************************)
(* Safety of Worker for every set of callers.  That a stopped worker is    *)
(* quiet needs no discipline of the callers.  That its thread is owned and *)
(* that a kill sticks is proved for calls that do not overlap: there a     *)
(* worker that is Starting has its starter waiting, so no terminate can    *)
(* come between the thread's check of Killing and its write of Started.    *)
(***************************************************************************)
EXTENDS Worker, TLAPS

USE DEF WorkerState, Thread, Pc

LEMMA TypeStep == TypeOK /\ [Next]_vars => TypeOK'
  <1> SUFFICES ASSUME TypeOK, [Next]_vars PROVE TypeOK' OBVIOUS
  <1> USE DEF TypeOK
  <1>1. Notified \in [Callers -> Pc] BY DEF Notified
  <1>2. NotifiedThread \in Thread BY DEF NotifiedThread
  <1>3. CASE threadSteps \/ workThrows
    BY <1>1, <1>3 DEF threadSteps, workThrows, loopHead, setStarted, announceStarted,
       workLoop, markStopped, announceStopped, waitStopped, At
  <1>4. ASSUME NEW c \in Callers, startWorking(c) PROVE TypeOK'
    BY <1>1, <1>2, <1>4 DEF startWorking
  <1>5. ASSUME NEW c \in Callers, stopWorking(c) \/ killNotify(c) PROVE TypeOK'
    BY <1>1, <1>2, <1>5 DEF stopWorking, killNotify
  <1>6. ASSUME NEW c \in Callers,
               terminate(c) \/ startRecheck(c) \/ stopRecheck(c) \/ join(c) \/ reset(c)
        PROVE  TypeOK'
    BY <1>6, Zenon DEF terminate, startRecheck, stopRecheck, join, reset, Goto
  <1>7. CASE UNCHANGED vars BY <1>7 DEF vars
  <1> QED BY <1>3, <1>4, <1>5, <1>6, <1>7 DEF Next, callerSteps

LEMMA QuietStep == TypeOK /\ StoppedIsQuiet /\ [Next]_vars => StoppedIsQuiet'
  <1> SUFFICES ASSUME TypeOK, StoppedIsQuiet, [Next]_vars PROVE StoppedIsQuiet' OBVIOUS
  <1> USE DEF TypeOK, StoppedIsQuiet
  <1>1. CASE threadSteps \/ workThrows
    BY <1>1 DEF threadSteps, workThrows, loopHead, setStarted, announceStarted,
       workLoop, markStopped, announceStopped, waitStopped, At
  <1>2. ASSUME NEW c \in Callers,
               startWorking(c) \/ stopWorking(c) \/ terminate(c) \/ callerSteps(c)
        PROVE  StoppedIsQuiet'
    BY <1>2 DEF startWorking, stopWorking, terminate, callerSteps, startRecheck, stopRecheck,
       killNotify, join, reset, NotifiedThread
  <1>3. CASE UNCHANGED vars BY <1>3 DEF vars
  <1> QED BY <1>1, <1>2, <1>3 DEF Next

\* Type correctness.
THEOREM WorkerTypes == Spec => []TypeOK
  <1>1. Init => TypeOK BY Zenon DEF Init, TypeOK
  <1> QED BY <1>1, TypeStep, PTL DEF Spec

\* A stopped worker is quiet, whoever calls it and when.
THEOREM Quiet == Spec => []StoppedIsQuiet
  <1>1. Init => StoppedIsQuiet BY DEF Init, StoppedIsQuiet
  <1> QED BY <1>1, QuietStep, WorkerTypes, PTL DEF Spec

-----------------------------------------------------------------------------
(* Calls that do not overlap *)

Starter == {"startWait", "startCheck"}
Killer  == {"killNotify", "join", "reset"}

Inv ==
  /\ TypeOK /\ ThreadOwned
  /\ \A c, d \in Callers : pc[c] # "idle" /\ pc[d] # "idle" => c = d
  /\ thread = "set" => m_state = "Starting"
  /\ thread = "head" => m_state \in {"Starting", "Killing"}
  /\ thread \in {"stopped", "check", "wait"} => m_state \in {"Stopped", "Starting", "Killing"}
  /\ m_work /\ m_state = "Starting" => \E c \in Callers : pc[c] \in Starter
  /\ \A c \in Callers : pc[c] \in Killer => m_work /\ m_state = "Killing"
  /\ \A c \in Callers : pc[c] = "reset" => thread = "none"

LEMMA InvInit == Init => Inv
  BY Zenon DEF Init, Inv, TypeOK, ThreadOwned, Starter, Killer

LEMMA InvStep ==
  ASSUME ~Overlap
  PROVE  Inv /\ [Next]_vars => Inv'
  <1> SUFFICES ASSUME Inv, [Next]_vars PROVE Inv' OBVIOUS
  <1>0. TypeOK' BY TypeStep DEF Inv
  <1> USE DEF Inv, TypeOK, ThreadOwned, Starter, Killer
  <1>a. /\ Notified \in [Callers -> Pc]
        /\ \A c \in Callers : /\ (Notified[c] = "idle") <=> (pc[c] = "idle")
                              /\ (Notified[c] \in Starter) <=> (pc[c] \in Starter)
                              /\ Notified[c] \in Killer => Notified[c] = pc[c]
                              /\ pc[c] \in Killer => Notified[c] = pc[c]
    BY DEF Notified
  <1>1. CASE loopHead BY <1>0, <1>1 DEF loopHead, At
  <1>2. CASE setStarted BY <1>0, <1>2 DEF setStarted, At
  <1>3. CASE announceStarted BY <1>0, <1>a, <1>3 DEF announceStarted, At
  <1>4. CASE workLoop \/ workThrows BY <1>0, <1>4 DEF workLoop, workThrows, At
  <1>5. CASE markStopped BY <1>0, <1>5 DEF markStopped, At
  <1>6. CASE announceStopped BY <1>0, <1>a, <1>6 DEF announceStopped, At
  <1>7. CASE waitStopped BY <1>0, <1>7 DEF waitStopped, At
  <1>8. ASSUME NEW c \in Callers, startWorking(c) PROVE Inv'
    <2>1. \A d \in Callers : pc[d] = "idle" /\ Notified[d] = "idle"
      BY <1>8, <1>a DEF startWorking, Begins
    <2> QED BY <1>0, <1>a, <1>8, <2>1 DEF startWorking, NotifiedThread
  <1>9. ASSUME NEW c \in Callers, stopWorking(c) PROVE Inv'
    <2>1. \A d \in Callers : pc[d] = "idle" /\ Notified[d] = "idle"
      BY <1>9, <1>a DEF stopWorking, Begins
    <2> QED BY <1>0, <1>a, <1>9, <2>1 DEF stopWorking, NotifiedThread
  <1>10. ASSUME NEW c \in Callers, terminate(c) PROVE Inv'
    <2>1. \A d \in Callers : pc[d] = "idle" BY <1>10 DEF terminate, Begins
    <2>2. thread # "set"
      BY <1>10, <2>1 DEF terminate
    <2> QED BY <1>0, <1>10, <2>1, <2>2 DEF terminate, Goto
  <1>11. ASSUME NEW c \in Callers, startRecheck(c) PROVE Inv'
    BY <1>0, <1>11 DEF startRecheck, Goto
  <1>12. ASSUME NEW c \in Callers, stopRecheck(c) PROVE Inv'
    BY <1>0, <1>12 DEF stopRecheck, Goto
  <1>13. ASSUME NEW c \in Callers, killNotify(c) PROVE Inv'
    BY <1>0, <1>a, <1>13 DEF killNotify, NotifiedThread
  <1>14. ASSUME NEW c \in Callers, join(c) PROVE Inv'
    BY <1>0, <1>14 DEF join, Goto
  <1>15. ASSUME NEW c \in Callers, reset(c) PROVE Inv'
    BY <1>0, <1>15 DEF reset, Goto
  <1>16. CASE UNCHANGED vars BY <1>16 DEF vars
  <1> QED BY <1>1, <1>2, <1>3, <1>4, <1>5, <1>6, <1>7, <1>8, <1>9, <1>10, <1>11, <1>12,
             <1>13, <1>14, <1>15, <1>16 DEF Next, threadSteps, callerSteps

\* When calls do not overlap, a running thread is owned by m_work.
THEOREM Owned ==
  ASSUME ~Overlap
  PROVE  Spec => []ThreadOwned
  <1>1. Inv => ThreadOwned BY DEF Inv
  <1> QED BY <1>1, InvInit, InvStep, PTL DEF Spec

\* A step that leaves Killing does so when the thread object is gone.
KeepsKilling == m_state = "Killing" /\ m_work => m_state' = "Killing"

LEMMA KillStep == Inv /\ [Next]_vars => [KeepsKilling]_vars
  BY DEF Inv, TypeOK, ThreadOwned, Next, threadSteps, callerSteps, loopHead, setStarted,
     announceStarted, workLoop, workThrows, markStopped, announceStopped, waitStopped, At,
     startWorking, stopWorking, terminate, startRecheck, stopRecheck, killNotify, join, reset,
     KeepsKilling, vars

\* When calls do not overlap, a kill sticks.
THEOREM KillIsFinal ==
  ASSUME ~Overlap
  PROVE  Spec => KillSticks
  <1>1. Spec => [][KeepsKilling]_vars BY InvInit, InvStep, KillStep, PTL DEF Spec
  <1> QED BY <1>1 DEF KeepsKilling, KillSticks
=============================================================================
