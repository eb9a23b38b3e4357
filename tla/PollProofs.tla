----------------------------- MODULE PollProofs -----------------------------
(***************************************************************************)
(* Proofs about Poll, for any threads, objects, descriptors and programs.    *)
(* What stays registered after a poll was registered through a descriptor    *)
(* that was closed meanwhile.  As long as no object has two parents, no      *)
(* event is lost between the test and the sleep.  (With two parents that is  *)
(* false: signal passes the event on to the first one only.)  For programs   *)
(* in which nobody polls the signalfd, locks are taken in one order.  (With  *)
(* such a poller two threads can wait for each other's locks.)               *)
(***************************************************************************)
EXTENDS Poll, WellFoundedInduction, TLAPS

\* No object has two parents, and none had no slot for one.
SoleParent ==
    /\ ~panicked
    /\ \A o \in Objects : \A t, u \in Parents(o) : t = u

Polling == {"register", "pollLock", "pollTest", "pollParked", "clear"}

Registered == {"pollLock", "pollTest", "pollParked", "clear"}

\* Where a thread works with the lock of its object.
Locked == {"eval", "signal", "signalParent", "notify", "echo", "echoParent"}

Scanning == {"signal", "signalParent", "echo", "echoParent"}

\* What a thread's locals hold, by where it is.
CtlOK(t) ==
    /\ pc[t] \in Polling <=> op[t] = "poll"
    /\ pc[t] \in {"lock", "eval"} => op[t] \in {"read", "write"}
    /\ pc[t] \in {"echo", "echoParent", "parked"} => op[t] \in {"read", "write", "sigread"}
    /\ pc[t] \in {"fdLock", "killLock"} => op[t] = "kill"
    /\ pc[t] = "alloc" => op[t] = "dup"
    /\ op[t] = "dup" => obj[t] \in EventFds
    /\ pc[t] \in {"check", "sigLock"} => op[t] = "sigread"
    /\ op[t] \in {"read", "write"} => obj[t] \in EventFds
    /\ op[t] = "kill" => obj[t] = SignalFd
    /\ pc[t] \notin Scanning => slot[t] = 1
    /\ pc[t] \in {"signalParent", "echoParent"} => slot[t] <= MaxParents

CtlInv == \A t \in Threads : CtlOK(t)

\* What a thread polls is in its program.
MayInv ==
    \A t \in Threads : op[t] = "poll" => \E c \in May[t] : c[1] = "poll" /\ c[2] = polled[t]

\* A thread holds the lock of one object, and where it works with it.
LockInv ==
    \A t \in Threads :
       /\ pc[t] \in Locked => lockCond[obj[t]] = t
       /\ \A o \in Objects : lockCond[o] = t => pc[t] \in Locked /\ obj[t] = o

\* What a thread found when it registered is what its descriptors still name.
FoundInv ==
    \A t \in Threads : \A p \in found[t] :
       /\ pc[t] \in Registered /\ fds[p[1]] = p[2]
       /\ \E i \in polled[t] : i[1] = p[1]

\* A parent registered through a descriptor it still holds, or that was closed.
StrayInv ==
    \A o \in Objects : \A t \in Parents(o) :
       o \in loose[t] \/ \E p \in found[t] : p[2] = o

\* A thread is a parent of all that it found.
RegInv == \A t \in Threads : \A p \in found[t] : t \in Parents(p[2])

\* What holds of any program.
Inv == TypeOK /\ CtlInv /\ MayInv /\ LockInv /\ FoundInv /\ StrayInv

----------------------------------------------------------------------------
(* The steps of a thread.                                                   *)

\* One step of thread t, or of somebody that disturbs it.
Step(t) ==
    \/ PollCall(t)
    \/ SigreadCall(t)
    \/ Kill(t)
    \/ \E f \in Fds : EventCall(t, f)
    \/ Register(t)
    \/ PollLock(t)
    \/ PollTest(t)
    \/ PollWake(t)
    \/ Clear(t)
    \/ Scan(t)
    \/ SignalParent(t)
    \/ ScanEnd(t)
    \/ NotifyOne(t)
    \/ Lock(t)
    \/ Eval(t)
    \/ Wake(t)
    \/ SigreadCheck(t)
    \/ SigreadLock(t)
    \/ KillFds(t)
    \/ KillSignal(t)
    \/ PollTimeout(t)
    \/ Terminate(t)
    \/ TerminateSignal(t)
    \/ SignalThread(t)
    \/ \E f \in Fds : Close(t, f)
    \/ \E f \in Fds : DupCall(t, f)
    \/ DupAlloc(t)
    \/ Gone(t)

\* The locals of the other threads stay as they are.
Others(t) ==
    \A u \in Threads \ {t} :
       /\ pc'[u] = pc[u] /\ op'[u] = op[u] /\ obj'[u] = obj[u]
       /\ polled'[u] = polled[u] /\ slot'[u] = slot[u] /\ target'[u] = target[u]

\* The parents of an object are pollers' conditions.
LEMMA ParentsAreThreads ==
    ASSUME TableTypes, NEW o \in Objects
    PROVE  Parents(o) \subseteq Threads
  <1>1. parents[o] \in [1..MaxParents -> Threads \cup {None}]
    BY DEF TableTypes
  <1> QED
    BY <1>1 DEF Parents

\* A step changes no other thread's locals.
LEMMA StepOthers ==
    ASSUME TypeOK, NEW t \in Threads, Step(t)
    PROVE  Others(t)
  <1>1. CASE PollCall(t)
    BY <1>1 DEF PollCall, Goto, Others, TypeOK, CallTypes, calls, scan
  <1>2. CASE SigreadCall(t)
    BY <1>2 DEF SigreadCall, Goto, Others, TypeOK, CallTypes, calls, scan
  <1>3. CASE Kill(t)
    BY <1>3 DEF Kill, Goto, Others, TypeOK, CallTypes, calls, scan
  <1>4. CASE \E f \in Fds : EventCall(t, f)
    BY <1>4 DEF EventCall, Goto, Others, TypeOK, CallTypes, calls, scan
  <1>5. CASE Register(t)
    BY <1>5 DEF Register, Goto, Others, TypeOK, CallTypes, calls, scan
  <1>6. CASE PollLock(t)
    BY <1>6 DEF PollLock, Goto, Others, TypeOK, CallTypes, calls, scan
  <1>7. CASE PollTest(t)
    BY <1>7 DEF PollTest, Goto, Others, TypeOK, CallTypes, calls, scan
  <1>8. CASE PollWake(t)
    BY <1>8 DEF PollWake, Goto, Others, TypeOK, CallTypes, calls, scan
  <1>9. CASE Clear(t)
    BY <1>9 DEF Clear, Goto, Others, TypeOK, CallTypes, calls, scan
  <1>10. CASE Scan(t)
    BY <1>10 DEF Scan, Goto, Others, TypeOK, CallTypes, calls, scan
  <1>11. CASE SignalParent(t)
    BY <1>11 DEF SignalParent, Goto, Others, TypeOK, CallTypes, calls, scan
  <1>12. CASE ScanEnd(t)
    BY <1>12 DEF ScanEnd, Goto, Others, TypeOK, CallTypes, calls, scan
  <1>13. CASE NotifyOne(t)
    BY <1>13 DEF NotifyOne, Goto, Others, TypeOK, CallTypes, calls, scan
  <1>14. CASE Lock(t)
    BY <1>14 DEF Lock, Goto, Others, TypeOK, CallTypes, calls, scan
  <1>15. CASE Eval(t)
    BY <1>15 DEF Eval, Goto, Others, TypeOK, CallTypes, calls, scan
  <1>16. CASE Wake(t)
    BY <1>16 DEF Wake, Goto, Others, TypeOK, CallTypes, calls, scan
  <1>17. CASE SigreadCheck(t)
    BY <1>17 DEF SigreadCheck, Goto, Others, TypeOK, CallTypes, calls, scan
  <1>18. CASE SigreadLock(t)
    BY <1>18 DEF SigreadLock, Goto, Others, TypeOK, CallTypes, calls, scan
  <1>19. CASE KillFds(t)
    BY <1>19 DEF KillFds, Goto, Others, TypeOK, CallTypes, calls, scan
  <1>20. CASE KillSignal(t)
    BY <1>20 DEF KillSignal, Goto, Others, TypeOK, CallTypes, calls, scan
  <1>21. CASE PollTimeout(t)
    BY <1>21 DEF PollTimeout, Goto, Others, TypeOK, CallTypes, calls, scan
  <1>22. CASE Terminate(t)
    BY <1>22 DEF Terminate, Goto, Others, TypeOK, CallTypes, calls, scan
  <1>23. CASE TerminateSignal(t)
    BY <1>23 DEF TerminateSignal, Goto, Others, TypeOK, CallTypes, calls, scan
  <1>24. CASE SignalThread(t)
    BY <1>24 DEF SignalThread, Goto, Others, TypeOK, CallTypes, calls, scan
  <1>25. CASE \E f \in Fds : Close(t, f)
    BY <1>25 DEF Close, Goto, Others, TypeOK, CallTypes, calls, scan
  <1>26. CASE \E f \in Fds : DupCall(t, f)
    BY <1>26 DEF DupCall, Goto, Others, TypeOK, CallTypes, calls, scan
  <1>27. CASE DupAlloc(t)
    BY <1>27 DEF DupAlloc, Goto, Others, TypeOK, CallTypes, calls, scan
  <1>28. CASE Gone(t)
    BY <1>28 DEF Gone, Goto, Others, TypeOK, CallTypes, calls, scan
  <1> QED
    BY <1>1, <1>2, <1>3, <1>4, <1>5, <1>6, <1>7, <1>8, <1>9, <1>10, <1>11, <1>12,
       <1>13, <1>14, <1>15, <1>16, <1>17, <1>18, <1>19, <1>20, <1>21, <1>22, <1>23,
       <1>24, <1>25, <1>26, <1>27, <1>28 DEF Step

\* The thread that steps keeps its own locals in order.
LEMMA StepCtl ==
    ASSUME TypeOK, CtlInv, NEW t \in Threads, Step(t)
    PROVE  CtlOK(t)'
  <1> USE DEF CtlInv, CtlOK, Polling, Scanning
  <1>1. CASE PollCall(t)
    BY <1>1, PollConstants DEF PollCall, Goto, TypeOK, CallTypes, calls, scan
  <1>2. CASE SigreadCall(t)
    BY <1>2, PollConstants DEF SigreadCall, Goto, TypeOK, CallTypes, calls, scan
  <1>3. CASE Kill(t)
    BY <1>3, PollConstants DEF Kill, Goto, TypeOK, CallTypes, calls, scan
  <1>4. CASE \E f \in Fds : EventCall(t, f)
    BY <1>4, PollConstants DEF EventCall, Goto, TypeOK, CallTypes, calls, scan
  <1>5. CASE Register(t)
    BY <1>5, PollConstants DEF Register, Goto, TypeOK, CallTypes, calls, scan
  <1>6. CASE PollLock(t)
    BY <1>6, PollConstants DEF PollLock, Goto, TypeOK, CallTypes, calls, scan
  <1>7. CASE PollTest(t)
    BY <1>7, PollConstants DEF PollTest, Goto, TypeOK, CallTypes, calls, scan
  <1>8. CASE PollWake(t)
    BY <1>8, PollConstants DEF PollWake, Goto, TypeOK, CallTypes, calls, scan
  <1>9. CASE Clear(t)
    BY <1>9, PollConstants DEF Clear, Goto, TypeOK, CallTypes, calls, scan
  <1>10. CASE Scan(t)
    BY <1>10, PollConstants DEF Scan, Goto, TypeOK, CallTypes, calls, scan
  <1>11. CASE SignalParent(t)
    BY <1>11, PollConstants DEF SignalParent, Goto, TypeOK, CallTypes, calls, scan
  <1>12. CASE ScanEnd(t)
    BY <1>12, PollConstants DEF ScanEnd, Goto, TypeOK, CallTypes, calls, scan
  <1>13. CASE NotifyOne(t)
    BY <1>13, PollConstants DEF NotifyOne, Goto, TypeOK, CallTypes, calls, scan
  <1>14. CASE Lock(t)
    BY <1>14, PollConstants DEF Lock, Goto, TypeOK, CallTypes, calls, scan
  <1>15. CASE Eval(t)
    BY <1>15, PollConstants DEF Eval, Goto, TypeOK, CallTypes, calls, scan
  <1>16. CASE Wake(t)
    BY <1>16, PollConstants DEF Wake, Goto, TypeOK, CallTypes, calls, scan
  <1>17. CASE SigreadCheck(t)
    BY <1>17, PollConstants DEF SigreadCheck, Goto, TypeOK, CallTypes, calls, scan
  <1>18. CASE SigreadLock(t)
    BY <1>18, PollConstants DEF SigreadLock, Goto, TypeOK, CallTypes, calls, scan
  <1>19. CASE KillFds(t)
    BY <1>19, PollConstants DEF KillFds, Goto, TypeOK, CallTypes, calls, scan
  <1>20. CASE KillSignal(t)
    BY <1>20, PollConstants DEF KillSignal, Goto, TypeOK, CallTypes, calls, scan
  <1>21. CASE PollTimeout(t)
    BY <1>21, PollConstants DEF PollTimeout, Goto, TypeOK, CallTypes, calls, scan
  <1>22. CASE Terminate(t)
    BY <1>22, PollConstants DEF Terminate, Goto, TypeOK, CallTypes, calls, scan
  <1>23. CASE TerminateSignal(t)
    BY <1>23, PollConstants DEF TerminateSignal, Goto, TypeOK, CallTypes, calls,
       scan
  <1>24. CASE SignalThread(t)
    BY <1>24, PollConstants DEF SignalThread, Goto, TypeOK, CallTypes, calls, scan
  <1>25. CASE \E f \in Fds : Close(t, f)
    BY <1>25, PollConstants DEF Close, Goto, TypeOK, CallTypes, calls, scan
  <1>26. CASE \E f \in Fds : DupCall(t, f)
    BY <1>26, PollConstants DEF DupCall, Goto, TypeOK, CallTypes, calls, scan
  <1>27. CASE DupAlloc(t)
    BY <1>27, PollConstants DEF DupAlloc, Goto, TypeOK, CallTypes, calls, scan
  <1>28. CASE Gone(t)
    BY <1>28, PollConstants DEF Gone, Goto, TypeOK, CallTypes, calls, scan
  <1> QED
    BY <1>1, <1>2, <1>3, <1>4, <1>5, <1>6, <1>7, <1>8, <1>9, <1>10, <1>11, <1>12,
       <1>13, <1>14, <1>15, <1>16, <1>17, <1>18, <1>19, <1>20, <1>21, <1>22, <1>23,
       <1>24, <1>25, <1>26, <1>27, <1>28 DEF Step

\* The objects keep their types.
LEMMA StepObjects ==
    ASSUME TypeOK, CtlInv, NEW t \in Threads, Step(t)
    PROVE  ObjectTypes'
  <1>1. CASE PollCall(t)
    BY <1>1 DEF PollCall, Goto, TypeOK, ObjectTypes
  <1>2. CASE SigreadCall(t)
    BY <1>2 DEF SigreadCall, Goto, TypeOK, ObjectTypes
  <1>3. CASE Kill(t)
    BY <1>3 DEF Kill, Goto, TypeOK, ObjectTypes
  <1>4. CASE \E f \in Fds : EventCall(t, f)
    BY <1>4 DEF EventCall, Goto, TypeOK, ObjectTypes
  <1>5. CASE Register(t)
    BY <1>5 DEF Register, Goto, TypeOK, ObjectTypes
  <1>6. CASE PollLock(t)
    BY <1>6 DEF PollLock, Goto, TypeOK, ObjectTypes
  <1>7. CASE PollTest(t)
    BY <1>7 DEF PollTest, Goto, TypeOK, ObjectTypes
  <1>8. CASE PollWake(t)
    BY <1>8 DEF PollWake, Goto, TypeOK, ObjectTypes
  <1>9. CASE Clear(t)
    BY <1>9 DEF Clear, Goto, TypeOK, ObjectTypes
  <1>10. CASE Scan(t)
    BY <1>10 DEF Scan, Goto, TypeOK, ObjectTypes
  <1>11. CASE SignalParent(t)
    BY <1>11 DEF SignalParent, Goto, TypeOK, ObjectTypes
  <1>12. CASE ScanEnd(t)
    BY <1>12 DEF ScanEnd, Goto, TypeOK, ObjectTypes
  <1>13. CASE NotifyOne(t)
    BY <1>13 DEF NotifyOne, Goto, TypeOK, ObjectTypes
  <1>14. CASE Lock(t)
    BY <1>14 DEF Lock, Goto, TypeOK, ObjectTypes
  <1>15. CASE Eval(t)
    <2>1. obj[t] \in EventFds /\ op[t] \in {"read", "write"}
      BY <1>15 DEF Eval, CtlInv, CtlOK
    <2>2. counter' \in [EventFds -> 0..MaxCount]
      BY <1>15, <2>1, PollConstants DEF Eval, CanMove, TypeOK, ObjectTypes
    <2> QED
      BY <1>15, <2>2 DEF Eval, TypeOK, ObjectTypes
  <1>16. CASE Wake(t)
    BY <1>16 DEF Wake, Goto, TypeOK, ObjectTypes
  <1>17. CASE SigreadCheck(t)
    BY <1>17 DEF SigreadCheck, Goto, TypeOK, ObjectTypes
  <1>18. CASE SigreadLock(t)
    BY <1>18 DEF SigreadLock, Goto, TypeOK, ObjectTypes
  <1>19. CASE KillFds(t)
    BY <1>19 DEF KillFds, Goto, TypeOK, ObjectTypes
  <1>20. CASE KillSignal(t)
    BY <1>20 DEF KillSignal, Goto, TypeOK, ObjectTypes
  <1>21. CASE PollTimeout(t)
    BY <1>21 DEF PollTimeout, Goto, TypeOK, ObjectTypes
  <1>22. CASE Terminate(t)
    BY <1>22 DEF Terminate, Goto, TypeOK, ObjectTypes
  <1>23. CASE TerminateSignal(t)
    BY <1>23 DEF TerminateSignal, Goto, TypeOK, ObjectTypes
  <1>24. CASE SignalThread(t)
    BY <1>24 DEF SignalThread, Goto, TypeOK, ObjectTypes
  <1>25. CASE \E f \in Fds : Close(t, f)
    BY <1>25 DEF Close, Goto, TypeOK, ObjectTypes
  <1>26. CASE \E f \in Fds : DupCall(t, f)
    BY <1>26 DEF DupCall, Goto, TypeOK, ObjectTypes
  <1>27. CASE DupAlloc(t)
    BY <1>27 DEF DupAlloc, Goto, TypeOK, ObjectTypes
  <1>28. CASE Gone(t)
    BY <1>28 DEF Gone, Goto, TypeOK, ObjectTypes
  <1> QED
    BY <1>1, <1>2, <1>3, <1>4, <1>5, <1>6, <1>7, <1>8, <1>9, <1>10, <1>11, <1>12,
       <1>13, <1>14, <1>15, <1>16, <1>17, <1>18, <1>19, <1>20, <1>21, <1>22, <1>23,
       <1>24, <1>25, <1>26, <1>27, <1>28 DEF Step

\* So do the locks ...
LEMMA StepLocks ==
    ASSUME TypeOK, NEW t \in Threads, Step(t)
    PROVE  LockTypes'
  <1>1. CASE PollCall(t)
    BY <1>1 DEF PollCall, Goto, TypeOK, LockTypes, CallTypes, locks
  <1>2. CASE SigreadCall(t)
    BY <1>2 DEF SigreadCall, Goto, TypeOK, LockTypes, CallTypes, locks
  <1>3. CASE Kill(t)
    BY <1>3 DEF Kill, Goto, TypeOK, LockTypes, CallTypes, locks
  <1>4. CASE \E f \in Fds : EventCall(t, f)
    BY <1>4 DEF EventCall, Goto, TypeOK, LockTypes, CallTypes, locks
  <1>5. CASE Register(t)
    BY <1>5 DEF Register, Goto, TypeOK, LockTypes, CallTypes, locks
  <1>6. CASE PollLock(t)
    BY <1>6 DEF PollLock, Goto, TypeOK, LockTypes, CallTypes, locks
  <1>7. CASE PollTest(t)
    BY <1>7 DEF PollTest, Goto, TypeOK, LockTypes, CallTypes, locks
  <1>8. CASE PollWake(t)
    BY <1>8 DEF PollWake, Goto, TypeOK, LockTypes, CallTypes, locks
  <1>9. CASE Clear(t)
    BY <1>9 DEF Clear, Goto, TypeOK, LockTypes, CallTypes, locks
  <1>10. CASE Scan(t)
    BY <1>10 DEF Scan, Goto, TypeOK, LockTypes, CallTypes, locks
  <1>11. CASE SignalParent(t)
    BY <1>11 DEF SignalParent, Goto, TypeOK, LockTypes, CallTypes, locks
  <1>12. CASE ScanEnd(t)
    BY <1>12 DEF ScanEnd, Goto, TypeOK, LockTypes, CallTypes, locks
  <1>13. CASE NotifyOne(t)
    BY <1>13 DEF NotifyOne, Goto, TypeOK, LockTypes, CallTypes, locks
  <1>14. CASE Lock(t)
    BY <1>14 DEF Lock, Goto, TypeOK, LockTypes, CallTypes, locks
  <1>15. CASE Eval(t)
    BY <1>15 DEF Eval, Goto, TypeOK, LockTypes, CallTypes, locks
  <1>16. CASE Wake(t)
    BY <1>16 DEF Wake, Goto, TypeOK, LockTypes, CallTypes, locks
  <1>17. CASE SigreadCheck(t)
    BY <1>17 DEF SigreadCheck, Goto, TypeOK, LockTypes, CallTypes, locks
  <1>18. CASE SigreadLock(t)
    BY <1>18 DEF SigreadLock, Goto, TypeOK, LockTypes, CallTypes, locks
  <1>19. CASE KillFds(t)
    BY <1>19 DEF KillFds, Goto, TypeOK, LockTypes, CallTypes, locks
  <1>20. CASE KillSignal(t)
    BY <1>20 DEF KillSignal, Goto, TypeOK, LockTypes, CallTypes, locks
  <1>21. CASE PollTimeout(t)
    BY <1>21 DEF PollTimeout, Goto, TypeOK, LockTypes, CallTypes, locks
  <1>22. CASE Terminate(t)
    BY <1>22 DEF Terminate, Goto, TypeOK, LockTypes, CallTypes, locks
  <1>23. CASE TerminateSignal(t)
    BY <1>23 DEF TerminateSignal, Goto, TypeOK, LockTypes, CallTypes, locks
  <1>24. CASE SignalThread(t)
    BY <1>24 DEF SignalThread, Goto, TypeOK, LockTypes, CallTypes, locks
  <1>25. CASE \E f \in Fds : Close(t, f)
    BY <1>25 DEF Close, Goto, TypeOK, LockTypes, CallTypes, locks
  <1>26. CASE \E f \in Fds : DupCall(t, f)
    BY <1>26 DEF DupCall, Goto, TypeOK, LockTypes, CallTypes, locks
  <1>27. CASE DupAlloc(t)
    BY <1>27 DEF DupAlloc, Goto, TypeOK, LockTypes, CallTypes, locks
  <1>28. CASE Gone(t)
    BY <1>28 DEF Gone, Goto, TypeOK, LockTypes, CallTypes, locks
  <1> QED
    BY <1>1, <1>2, <1>3, <1>4, <1>5, <1>6, <1>7, <1>8, <1>9, <1>10, <1>11, <1>12,
       <1>13, <1>14, <1>15, <1>16, <1>17, <1>18, <1>19, <1>20, <1>21, <1>22, <1>23,
       <1>24, <1>25, <1>26, <1>27, <1>28 DEF Step

\* ... the locals of the calls ...
LEMMA StepCalls ==
    ASSUME TypeOK, CtlInv, NEW t \in Threads, Step(t)
    PROVE  CallTypes'
  <1> USE DEF TypeOK, CallTypes
  <1>1. CASE PollCall(t)
    <2>1. PICK c \in May[t] : /\ c[1] = "poll"
                              /\ polled' = [polled EXCEPT ![t] = c[2]]
                              /\ timeout' = [timeout EXCEPT ![t] = c[3]]
      BY <1>1 DEF PollCall
    <2>2. c \in Calls
      BY PollConstants
    <2>3. c[2] \in SUBSET Interests /\ c[3] \in {"zero", "finite", "forever"}
      BY <2>1, <2>2 DEF Calls
    <2> QED
      BY <1>1, <2>1, <2>3 DEF PollCall, Goto, PC, scan
  <1>2. CASE SigreadCall(t)
    BY <1>2, PollConstants DEF SigreadCall, Goto, PC, calls, scan, Objects
  <1>3. CASE Kill(t)
    BY <1>3, PollConstants DEF Kill, Goto, PC, calls, scan, Objects
  <1>4. CASE \E f \in Fds : EventCall(t, f)
    BY <1>4, PollConstants DEF EventCall, Goto, PC, calls, scan, Objects
  <1>5. CASE Register(t)
    BY <1>5, PollConstants DEF Register, Goto, PC, calls, scan, Objects
  <1>6. CASE PollLock(t)
    BY <1>6, PollConstants DEF PollLock, Goto, PC, calls, scan, Objects
  <1>7. CASE PollTest(t)
    BY <1>7, PollConstants DEF PollTest, Goto, PC, calls, scan, Objects
  <1>8. CASE PollWake(t)
    BY <1>8, PollConstants DEF PollWake, Goto, PC, calls, scan, Objects
  <1>9. CASE Clear(t)
    BY <1>9, PollConstants DEF Clear, Goto, PC, calls, scan, Objects
  <1>10. CASE Scan(t)
    <2>1. obj[t] \in Objects /\ slot[t] \in 1..MaxParents
      BY <1>10, PollConstants DEF Scan
    <2>a. parents[obj[t]] \in [1..MaxParents -> Threads \cup {None}]
      BY <2>1 DEF TableTypes
    <2>2. parents[obj[t]][slot[t]] \in Threads \cup {None}
      BY <2>1, <2>a
    <2>3. slot[t] + 1 \in 1..(MaxParents + 1)
      BY <2>1, PollConstants
    <2> QED
      BY <1>10, <2>2, <2>3 DEF Scan, Goto, PC, calls
  <1>11. CASE SignalParent(t)
    <2>1. slot[t] \in 1..MaxParents
      BY <1>11, PollConstants DEF SignalParent, CtlInv, CtlOK
    <2>2. slot[t] + 1 \in 1..(MaxParents + 1) /\ 1 \in 1..(MaxParents + 1)
      BY <2>1, PollConstants
    <2> QED
      BY <1>11, <2>2 DEF SignalParent, Goto, PC, calls
  <1>12. CASE ScanEnd(t)
    BY <1>12, PollConstants DEF ScanEnd, Goto, PC, calls, scan, Objects
  <1>13. CASE NotifyOne(t)
    BY <1>13, PollConstants DEF NotifyOne, Goto, PC, calls, scan, Objects
  <1>14. CASE Lock(t)
    BY <1>14, PollConstants DEF Lock, Goto, PC, calls, scan, Objects
  <1>15. CASE Eval(t)
    BY <1>15, PollConstants DEF Eval, Goto, PC, calls, scan, Objects
  <1>16. CASE Wake(t)
    BY <1>16, PollConstants DEF Wake, Goto, PC, calls, scan, Objects
  <1>17. CASE SigreadCheck(t)
    BY <1>17, PollConstants DEF SigreadCheck, Goto, PC, calls, scan, Objects
  <1>18. CASE SigreadLock(t)
    BY <1>18, PollConstants DEF SigreadLock, Goto, PC, calls, scan, Objects
  <1>19. CASE KillFds(t)
    BY <1>19, PollConstants DEF KillFds, Goto, PC, calls, scan, Objects
  <1>20. CASE KillSignal(t)
    BY <1>20, PollConstants DEF KillSignal, Goto, PC, calls, scan, Objects
  <1>21. CASE PollTimeout(t)
    BY <1>21, PollConstants DEF PollTimeout, Goto, PC, calls, scan, Objects
  <1>22. CASE Terminate(t)
    BY <1>22, PollConstants DEF Terminate, Goto, PC, calls, scan, Objects
  <1>23. CASE TerminateSignal(t)
    BY <1>23, PollConstants DEF TerminateSignal, Goto, PC, calls, scan, Objects
  <1>24. CASE SignalThread(t)
    BY <1>24, PollConstants DEF SignalThread, Goto, PC, calls, scan, Objects
  <1>25. CASE \E f \in Fds : Close(t, f)
    BY <1>25, PollConstants DEF Close, Goto, PC, calls, scan, Objects
  <1>26. CASE \E f \in Fds : DupCall(t, f)
    BY <1>26, PollConstants DEF DupCall, Goto, PC, calls, scan, Objects
  <1>27. CASE DupAlloc(t)
    BY <1>27, PollConstants DEF DupAlloc, Goto, PC, calls, scan, Objects
  <1>28. CASE Gone(t)
    BY <1>28, PollConstants DEF Gone, Goto, PC, calls, scan, Objects
  <1> QED
    BY <1>1, <1>2, <1>3, <1>4, <1>5, <1>6, <1>7, <1>8, <1>9, <1>10, <1>11, <1>12,
       <1>13, <1>14, <1>15, <1>16, <1>17, <1>18, <1>19, <1>20, <1>21, <1>22, <1>23,
       <1>24, <1>25, <1>26, <1>27, <1>28 DEF Step

\* ... and the waits.
LEMMA StepWaits ==
    ASSUME TypeOK, NEW t \in Threads, Step(t)
    PROVE  WaitTypes'
  <1>1. CASE PollCall(t)
    BY <1>1 DEF PollCall, Goto, TypeOK, WaitTypes, CallTypes, waits
  <1>2. CASE SigreadCall(t)
    BY <1>2 DEF SigreadCall, Goto, TypeOK, WaitTypes, CallTypes, waits
  <1>3. CASE Kill(t)
    BY <1>3 DEF Kill, Goto, TypeOK, WaitTypes, CallTypes, waits
  <1>4. CASE \E f \in Fds : EventCall(t, f)
    BY <1>4 DEF EventCall, Goto, TypeOK, WaitTypes, CallTypes, waits
  <1>5. CASE Register(t)
    BY <1>5 DEF Register, Goto, TypeOK, WaitTypes, CallTypes, waits
  <1>6. CASE PollLock(t)
    BY <1>6 DEF PollLock, Goto, TypeOK, WaitTypes, CallTypes, waits
  <1>7. CASE PollTest(t)
    BY <1>7 DEF PollTest, Goto, TypeOK, WaitTypes, CallTypes, waits
  <1>8. CASE PollWake(t)
    BY <1>8 DEF PollWake, Goto, TypeOK, WaitTypes, CallTypes, waits
  <1>9. CASE Clear(t)
    BY <1>9 DEF Clear, Goto, TypeOK, WaitTypes, CallTypes, waits
  <1>10. CASE Scan(t)
    BY <1>10 DEF Scan, Goto, TypeOK, WaitTypes, CallTypes, waits
  <1>11. CASE SignalParent(t)
    BY <1>11 DEF SignalParent, Goto, TypeOK, WaitTypes, CallTypes, waits
  <1>12. CASE ScanEnd(t)
    BY <1>12 DEF ScanEnd, Goto, TypeOK, WaitTypes, CallTypes, waits
  <1>13. CASE NotifyOne(t)
    BY <1>13 DEF NotifyOne, Goto, TypeOK, WaitTypes, CallTypes, waits
  <1>14. CASE Lock(t)
    BY <1>14 DEF Lock, Goto, TypeOK, WaitTypes, CallTypes, waits
  <1>15. CASE Eval(t)
    BY <1>15 DEF Eval, Goto, TypeOK, WaitTypes, CallTypes, waits
  <1>16. CASE Wake(t)
    BY <1>16 DEF Wake, Goto, TypeOK, WaitTypes, CallTypes, waits
  <1>17. CASE SigreadCheck(t)
    BY <1>17 DEF SigreadCheck, Goto, TypeOK, WaitTypes, CallTypes, waits
  <1>18. CASE SigreadLock(t)
    BY <1>18 DEF SigreadLock, Goto, TypeOK, WaitTypes, CallTypes, waits
  <1>19. CASE KillFds(t)
    BY <1>19 DEF KillFds, Goto, TypeOK, WaitTypes, CallTypes, waits
  <1>20. CASE KillSignal(t)
    BY <1>20 DEF KillSignal, Goto, TypeOK, WaitTypes, CallTypes, waits
  <1>21. CASE PollTimeout(t)
    BY <1>21 DEF PollTimeout, Goto, TypeOK, WaitTypes, CallTypes, waits
  <1>22. CASE Terminate(t)
    BY <1>22 DEF Terminate, Goto, TypeOK, WaitTypes, CallTypes, waits
  <1>23. CASE TerminateSignal(t)
    BY <1>23 DEF TerminateSignal, Goto, TypeOK, WaitTypes, CallTypes, waits
  <1>24. CASE SignalThread(t)
    BY <1>24 DEF SignalThread, Goto, TypeOK, WaitTypes, CallTypes, waits
  <1>25. CASE \E f \in Fds : Close(t, f)
    BY <1>25 DEF Close, Goto, TypeOK, WaitTypes, CallTypes, waits
  <1>26. CASE \E f \in Fds : DupCall(t, f)
    BY <1>26 DEF DupCall, Goto, TypeOK, WaitTypes, CallTypes, waits
  <1>27. CASE DupAlloc(t)
    BY <1>27 DEF DupAlloc, Goto, TypeOK, WaitTypes, CallTypes, waits
  <1>28. CASE Gone(t)
    BY <1>28 DEF Gone, Goto, TypeOK, WaitTypes, CallTypes, waits
  <1> QED
    BY <1>1, <1>2, <1>3, <1>4, <1>5, <1>6, <1>7, <1>8, <1>9, <1>10, <1>11, <1>12,
       <1>13, <1>14, <1>15, <1>16, <1>17, <1>18, <1>19, <1>20, <1>21, <1>22, <1>23,
       <1>24, <1>25, <1>26, <1>27, <1>28 DEF Step

\* A poll is of what the program says.
LEMMA StepMay ==
    ASSUME TypeOK, CtlInv, MayInv, NEW t \in Threads, Step(t)
    PROVE  MayInv'
  <1>0. Others(t)
    BY StepOthers
  <1> SUFFICES ASSUME op'[t] = "poll"
               PROVE  \E c \in May[t] : c[1] = "poll" /\ c[2] = polled'[t]
    BY <1>0 DEF MayInv, Others
  <1> USE DEF TypeOK, CallTypes, MayInv
  <1>1. CASE PollCall(t)
    BY <1>1 DEF PollCall, Goto, calls
  <1>2. CASE SigreadCall(t)
    BY <1>2 DEF SigreadCall, Goto, calls
  <1>3. CASE Kill(t)
    BY <1>3 DEF Kill, Goto, calls
  <1>4. CASE \E f \in Fds : EventCall(t, f)
    BY <1>4 DEF EventCall, Goto, calls
  <1>5. CASE Register(t)
    BY <1>5 DEF Register, Goto, calls
  <1>6. CASE PollLock(t)
    BY <1>6 DEF PollLock, Goto, calls
  <1>7. CASE PollTest(t)
    BY <1>7 DEF PollTest, Goto, calls
  <1>8. CASE PollWake(t)
    BY <1>8 DEF PollWake, Goto, calls
  <1>9. CASE Clear(t)
    BY <1>9 DEF Clear, Goto, calls
  <1>10. CASE Scan(t)
    BY <1>10 DEF Scan, Goto, calls
  <1>11. CASE SignalParent(t)
    BY <1>11 DEF SignalParent, Goto, calls
  <1>12. CASE ScanEnd(t)
    BY <1>12 DEF ScanEnd, Goto, calls
  <1>13. CASE NotifyOne(t)
    BY <1>13 DEF NotifyOne, Goto, calls
  <1>14. CASE Lock(t)
    BY <1>14 DEF Lock, Goto, calls
  <1>15. CASE Eval(t)
    BY <1>15 DEF Eval, Goto, calls
  <1>16. CASE Wake(t)
    BY <1>16 DEF Wake, Goto, calls
  <1>17. CASE SigreadCheck(t)
    BY <1>17 DEF SigreadCheck, Goto, calls
  <1>18. CASE SigreadLock(t)
    BY <1>18 DEF SigreadLock, Goto, calls
  <1>19. CASE KillFds(t)
    BY <1>19 DEF KillFds, Goto, calls
  <1>20. CASE KillSignal(t)
    BY <1>20 DEF KillSignal, Goto, calls
  <1>21. CASE PollTimeout(t)
    BY <1>21 DEF PollTimeout, Goto, calls
  <1>22. CASE Terminate(t)
    BY <1>22 DEF Terminate, Goto, calls
  <1>23. CASE TerminateSignal(t)
    BY <1>23 DEF TerminateSignal, Goto, calls
  <1>24. CASE SignalThread(t)
    BY <1>24 DEF SignalThread, Goto, calls
  <1>25. CASE \E f \in Fds : Close(t, f)
    BY <1>25 DEF Close, Goto, calls
  <1>26. CASE \E f \in Fds : DupCall(t, f)
    BY <1>26 DEF DupCall, Goto, calls
  <1>27. CASE DupAlloc(t)
    BY <1>27 DEF DupAlloc, Goto, calls
  <1>28. CASE Gone(t)
    BY <1>28 DEF Gone, Goto, calls
  <1> QED
    BY <1>1, <1>2, <1>3, <1>4, <1>5, <1>6, <1>7, <1>8, <1>9, <1>10, <1>11, <1>12,
       <1>13, <1>14, <1>15, <1>16, <1>17, <1>18, <1>19, <1>20, <1>21, <1>22, <1>23,
       <1>24, <1>25, <1>26, <1>27, <1>28 DEF Step

\* A step takes and gives up locks for its own thread only.
LEMMA StepOwners ==
    ASSUME TypeOK, CtlInv, LockInv, NEW t \in Threads, Step(t)
    PROVE  /\ pc'[t] \in Locked => lockCond'[obj'[t]] = t
           /\ \A o \in Objects : lockCond'[o] = t => pc'[t] \in Locked /\ obj'[t] = o
           /\ \A o \in Objects, u \in Threads \ {t} : lockCond'[o] = u <=> lockCond[o] = u
  <1>0. None \notin Threads /\ SignalFd \in Objects
    BY PollConstants DEF Objects
  <1> USE DEF LockInv, Locked, CtlInv, CtlOK, TypeOK, CallTypes, LockTypes
  <1>1. CASE PollCall(t)
    BY <1>1, <1>0 DEF PollCall, Goto, calls, locks
  <1>2. CASE SigreadCall(t)
    <2>1. /\ lockCond' = lockCond /\ pc[t] = "idle" /\ pc'[t] = "check"
      BY <1>2 DEF SigreadCall, Goto, locks
    <2> QED
      BY <2>1
  <1>3. CASE Kill(t)
    <2>1. /\ lockCond' = lockCond /\ pc[t] = "idle" /\ pc'[t] = "fdLock"
      BY <1>3 DEF Kill, Goto, locks
    <2> QED
      BY <2>1
  <1>4. CASE \E f \in Fds : EventCall(t, f)
    <2>1. /\ lockCond' = lockCond /\ pc[t] = "idle" /\ pc'[t] = "lock"
      BY <1>4 DEF EventCall, Goto, locks
    <2> QED
      BY <2>1
  <1>5. CASE Register(t)
    BY <1>5, <1>0 DEF Register, Goto, calls, locks
  <1>6. CASE PollLock(t)
    BY <1>6, <1>0 DEF PollLock, Goto, calls, locks
  <1>7. CASE PollTest(t)
    BY <1>7, <1>0 DEF PollTest, Goto, calls, locks
  <1>8. CASE PollWake(t)
    BY <1>8, <1>0 DEF PollWake, Goto, calls, locks
  <1>9. CASE Clear(t)
    BY <1>9, <1>0 DEF Clear, Goto, calls, locks
  <1>10. CASE Scan(t)
    BY <1>10, <1>0 DEF Scan, Goto, calls, locks
  <1>11. CASE SignalParent(t)
    BY <1>11, <1>0 DEF SignalParent, Goto, calls, locks
  <1>12. CASE ScanEnd(t)
    BY <1>12, <1>0 DEF ScanEnd, Goto, calls, locks
  <1>13. CASE NotifyOne(t)
    BY <1>13, <1>0 DEF NotifyOne, Goto, calls, locks
  <1>14. CASE Lock(t)
    BY <1>14, <1>0 DEF Lock, Goto, calls, locks
  <1>15. CASE Eval(t)
    BY <1>15, <1>0 DEF Eval, Goto, calls, locks
  <1>16. CASE Wake(t)
    BY <1>16, <1>0 DEF Wake, Goto, calls, locks
  <1>17. CASE SigreadCheck(t)
    BY <1>17, <1>0 DEF SigreadCheck, Goto, calls, locks
  <1>18. CASE SigreadLock(t)
    BY <1>18, <1>0 DEF SigreadLock, Goto, calls, locks
  <1>19. CASE KillFds(t)
    BY <1>19, <1>0 DEF KillFds, Goto, calls, locks
  <1>20. CASE KillSignal(t)
    BY <1>20, <1>0 DEF KillSignal, Goto, calls, locks
  <1>21. CASE PollTimeout(t)
    BY <1>21, <1>0 DEF PollTimeout, Goto, calls, locks
  <1>22. CASE Terminate(t)
    BY <1>22, <1>0 DEF Terminate, Goto, calls, locks
  <1>23. CASE TerminateSignal(t)
    BY <1>23, <1>0 DEF TerminateSignal, Goto, calls, locks
  <1>24. CASE SignalThread(t)
    BY <1>24, <1>0 DEF SignalThread, Goto, calls, locks
  <1>25. CASE \E f \in Fds : Close(t, f)
    BY <1>25, <1>0 DEF Close, Goto, calls, locks
  <1>26. CASE \E f \in Fds : DupCall(t, f)
    BY <1>26, <1>0 DEF DupCall, Goto, calls, locks
  <1>27. CASE DupAlloc(t)
    BY <1>27, <1>0 DEF DupAlloc, Goto, calls, locks
  <1>28. CASE Gone(t)
    BY <1>28, <1>0 DEF Gone, Goto, calls, locks
  <1> QED
    BY <1>1, <1>2, <1>3, <1>4, <1>5, <1>6, <1>7, <1>8, <1>9, <1>10, <1>11, <1>12,
       <1>13, <1>14, <1>15, <1>16, <1>17, <1>18, <1>19, <1>20, <1>21, <1>22, <1>23,
       <1>24, <1>25, <1>26, <1>27, <1>28 DEF Step

\* Whoever works with an object holds its lock, and no other.
LEMMA StepLockInv ==
    ASSUME TypeOK, CtlInv, LockInv, NEW t \in Threads, Step(t)
    PROVE  LockInv'
  <1> SUFFICES ASSUME NEW u \in Threads \ {t}
               PROVE  /\ pc'[u] \in Locked => lockCond'[obj'[u]] = u
                      /\ \A o \in Objects :
                            lockCond'[o] = u => pc'[u] \in Locked /\ obj'[u] = o
    BY StepOwners DEF LockInv
  <1>1. pc'[u] = pc[u] /\ obj'[u] = obj[u] /\ obj[u] \in Objects
    BY StepOthers DEF Others, TypeOK, CallTypes
  <1> QED
    BY <1>1, StepOwners DEF LockInv

\* The steps that change the descriptor table or a registration.
TableStep(t) ==
    Register(t) \/ Clear(t) \/ (\E f \in Fds : Close(t, f)) \/ DupAlloc(t) \/ Gone(t)

\* The other steps leave both alone.
LEMMA StepTable ==
    ASSUME NEW t \in Threads, Step(t)
    PROVE  TableStep(t) \/ UNCHANGED table
  <1> USE DEF TableStep
  <1>1. CASE PollCall(t)
    BY <1>1 DEF PollCall, Goto
  <1>2. CASE SigreadCall(t)
    BY <1>2 DEF SigreadCall, Goto
  <1>3. CASE Kill(t)
    BY <1>3 DEF Kill, Goto
  <1>4. CASE \E f \in Fds : EventCall(t, f)
    BY <1>4 DEF EventCall, Goto
  <1>5. CASE Register(t)
    BY <1>5
  <1>6. CASE PollLock(t)
    BY <1>6 DEF PollLock, Goto
  <1>7. CASE PollTest(t)
    BY <1>7 DEF PollTest, Goto
  <1>8. CASE PollWake(t)
    BY <1>8 DEF PollWake, Goto
  <1>9. CASE Clear(t)
    BY <1>9
  <1>10. CASE Scan(t)
    BY <1>10 DEF Scan, Goto
  <1>11. CASE SignalParent(t)
    BY <1>11 DEF SignalParent, Goto
  <1>12. CASE ScanEnd(t)
    BY <1>12 DEF ScanEnd, Goto
  <1>13. CASE NotifyOne(t)
    BY <1>13 DEF NotifyOne, Goto
  <1>14. CASE Lock(t)
    BY <1>14 DEF Lock, Goto
  <1>15. CASE Eval(t)
    BY <1>15 DEF Eval, Goto
  <1>16. CASE Wake(t)
    BY <1>16 DEF Wake, Goto
  <1>17. CASE SigreadCheck(t)
    BY <1>17 DEF SigreadCheck, Goto
  <1>18. CASE SigreadLock(t)
    BY <1>18 DEF SigreadLock, Goto
  <1>19. CASE KillFds(t)
    BY <1>19 DEF KillFds, Goto
  <1>20. CASE KillSignal(t)
    BY <1>20 DEF KillSignal, Goto
  <1>21. CASE PollTimeout(t)
    BY <1>21 DEF PollTimeout, Goto
  <1>22. CASE Terminate(t)
    BY <1>22 DEF Terminate, Goto
  <1>23. CASE TerminateSignal(t)
    BY <1>23 DEF TerminateSignal, Goto
  <1>24. CASE SignalThread(t)
    BY <1>24 DEF SignalThread, Goto
  <1>25. CASE \E f \in Fds : Close(t, f)
    BY <1>25
  <1>26. CASE \E f \in Fds : DupCall(t, f)
    BY <1>26 DEF DupCall, Goto
  <1>27. CASE DupAlloc(t)
    BY <1>27
  <1>28. CASE Gone(t)
    BY <1>28
  <1> QED
    BY <1>1, <1>2, <1>3, <1>4, <1>5, <1>6, <1>7, <1>8, <1>9, <1>10, <1>11, <1>12,
       <1>13, <1>14, <1>15, <1>16, <1>17, <1>18, <1>19, <1>20, <1>21, <1>22, <1>23,
       <1>24, <1>25, <1>26, <1>27, <1>28 DEF Step

\* A poll that is under way polls the same descriptors until Clear.
LEMMA StepPolling ==
    ASSUME TypeOK, CtlInv, NEW t \in Threads, Step(t), op[t] = "poll"
    PROVE  \/ Clear(t)
           \/ /\ op'[t] = "poll" /\ polled'[t] = polled[t]
              /\ pc[t] \in Registered => pc'[t] \in Registered
  <1> USE DEF CtlInv, CtlOK, Polling, Registered, TypeOK, CallTypes
  <1>1. CASE PollCall(t)
    BY <1>1 DEF PollCall, Goto, calls
  <1>2. CASE SigreadCall(t)
    BY <1>2 DEF SigreadCall, Goto, calls
  <1>3. CASE Kill(t)
    BY <1>3 DEF Kill, Goto, calls
  <1>4. CASE \E f \in Fds : EventCall(t, f)
    BY <1>4 DEF EventCall, Goto, calls
  <1>5. CASE Register(t)
    BY <1>5 DEF Register, Goto, calls
  <1>6. CASE PollLock(t)
    BY <1>6 DEF PollLock, Goto, calls
  <1>7. CASE PollTest(t)
    BY <1>7 DEF PollTest, Goto, calls
  <1>8. CASE PollWake(t)
    BY <1>8 DEF PollWake, Goto, calls
  <1>9. CASE Clear(t)
    BY <1>9
  <1>10. CASE Scan(t)
    BY <1>10 DEF Scan, Goto, calls
  <1>11. CASE SignalParent(t)
    BY <1>11 DEF SignalParent, Goto, calls
  <1>12. CASE ScanEnd(t)
    BY <1>12 DEF ScanEnd, Goto, calls
  <1>13. CASE NotifyOne(t)
    BY <1>13 DEF NotifyOne, Goto, calls
  <1>14. CASE Lock(t)
    BY <1>14 DEF Lock, Goto, calls
  <1>15. CASE Eval(t)
    BY <1>15 DEF Eval, Goto, calls
  <1>16. CASE Wake(t)
    BY <1>16 DEF Wake, Goto, calls
  <1>17. CASE SigreadCheck(t)
    BY <1>17 DEF SigreadCheck, Goto, calls
  <1>18. CASE SigreadLock(t)
    BY <1>18 DEF SigreadLock, Goto, calls
  <1>19. CASE KillFds(t)
    BY <1>19 DEF KillFds, Goto, calls
  <1>20. CASE KillSignal(t)
    BY <1>20 DEF KillSignal, Goto, calls
  <1>21. CASE PollTimeout(t)
    BY <1>21 DEF PollTimeout, Goto, calls
  <1>22. CASE Terminate(t)
    BY <1>22 DEF Terminate, Goto, calls
  <1>23. CASE TerminateSignal(t)
    BY <1>23 DEF TerminateSignal, Goto, calls
  <1>24. CASE SignalThread(t)
    BY <1>24 DEF SignalThread, Goto, calls
  <1>25. CASE \E f \in Fds : Close(t, f)
    BY <1>25 DEF Close, Goto, calls
  <1>26. CASE \E f \in Fds : DupCall(t, f)
    BY <1>26 DEF DupCall, Goto, calls
  <1>27. CASE DupAlloc(t)
    BY <1>27 DEF DupAlloc, Goto, calls
  <1>28. CASE Gone(t)
    BY <1>28 DEF Gone, Goto, calls
  <1> QED
    BY <1>1, <1>2, <1>3, <1>4, <1>5, <1>6, <1>7, <1>8, <1>9, <1>10, <1>11, <1>12,
       <1>13, <1>14, <1>15, <1>16, <1>17, <1>18, <1>19, <1>20, <1>21, <1>22, <1>23,
       <1>24, <1>25, <1>26, <1>27, <1>28 DEF Step

\* The slots of an object stay slots when a thread is removed.
LEMMA RemoveTypes ==
    ASSUME TableTypes, NEW t \in Threads
    PROVE  \A o \in Objects : RemoveParent(o, t) \in [1..MaxParents -> Threads \cup {None}]
  <1> SUFFICES ASSUME NEW o \in Objects
               PROVE  RemoveParent(o, t) \in [1..MaxParents -> Threads \cup {None}]
    OBVIOUS
  <1>1. parents[o] \in [1..MaxParents -> Threads \cup {None}]
    BY DEF TableTypes
  <1>2. \A i \in 1..MaxParents :
           (IF parents[o][i] = t THEN None ELSE parents[o][i]) \in Threads \cup {None}
    BY <1>1
  <1> QED
    BY <1>2 DEF RemoveParent

\* Registrations and what is found keep their types.
LEMMA StepTableTypes ==
    ASSUME TypeOK, CtlInv, NEW t \in Threads, Step(t)
    PROVE  TableTypes'
  <1> USE DEF TypeOK, TableTypes
  <1>1. CASE Register(t)
    <2>1. \A o \in Objects : AddParent(o, t) \in [1..MaxParents -> Threads \cup {None}]
      BY DEF AddParent
    <2>2. parents' \in [Objects -> [1..MaxParents -> Threads \cup {None}]]
      BY <1>1, <2>1 DEF Register
    <2>3. \A i \in polled[t] : i[1] \in Fds
      BY DEF CallTypes, Interests
    <2>4. {<<i[1], fds[i[1]]>> : i \in {j \in polled[t] : fds[j[1]] # None}} \subseteq Fds \X Objects
      BY <2>3
    <2>5. fds' = fds /\ nval' \in [Threads -> SUBSET Fds] /\ loose' \in [Threads -> SUBSET Objects]
      BY <1>1 DEF Register
    <2>6. found' \in [Threads -> SUBSET (Fds \X Objects)]
      BY <1>1, <2>4 DEF Register
    <2> QED
      BY <2>2, <2>5, <2>6
  <1>2. CASE Clear(t)
    <2>1. \A o \in Objects : RemoveParent(o, t) \in [1..MaxParents -> Threads \cup {None}]
      BY RemoveTypes
    <2>2. parents' \in [Objects -> [1..MaxParents -> Threads \cup {None}]]
      BY <1>2, <2>1 DEF Clear
    <2> QED
      BY <1>2, <2>2 DEF Clear
  <1>3. CASE \E f \in Fds : Close(t, f)
    <2>1. PICK f \in Fds : Close(t, f)
      BY <1>3
    <2>2. \A u \in Threads : {i[2] : i \in {j \in found[u] : j[1] = f}} \subseteq Objects
      OBVIOUS
    <2>3. loose' \in [Threads -> SUBSET Objects]
      BY <2>1, <2>2 DEF Close
    <2>4. found' \in [Threads -> SUBSET (Fds \X Objects)]
      BY <2>1 DEF Close
    <2> QED
      BY <2>1, <2>3, <2>4 DEF Close
  <1>4. CASE DupAlloc(t)
    <2>1. obj[t] \in Objects
      BY DEF CallTypes
    <2> QED
      BY <1>4, <2>1 DEF DupAlloc
  <1>5. CASE Gone(t)
    <2>1. \A o \in Objects : RemoveParent(o, t) \in [1..MaxParents -> Threads \cup {None}]
      BY RemoveTypes
    <2> QED
      BY <1>5, <2>1 DEF Gone
  <1>6. CASE UNCHANGED table
    BY <1>6 DEF table
  <1> QED
    BY <1>1, <1>2, <1>3, <1>4, <1>5, <1>6, StepTable DEF TableStep

\* Only Register adds to what a thread found.
LEMMA FoundShrinks ==
    ASSUME TypeOK, NEW t \in Threads, Step(t), NEW u \in Threads, ~(u = t /\ Register(t))
    PROVE  found'[u] \subseteq found[u]
  <1>0. found \in [Threads -> SUBSET (Fds \X Objects)]
    BY DEF TypeOK, TableTypes
  <1>1. CASE Register(t)
    <2>1. u # t
      BY <1>1
    <2>2. found'[u] = found[u]
      BY <1>0, <1>1, <2>1 DEF Register
    <2> QED
      BY <2>2
  <1>2. CASE Clear(t)
    BY <1>0, <1>2 DEF Clear
  <1>3. CASE \E f \in Fds : Close(t, f)
    BY <1>0, <1>3 DEF Close
  <1>4. CASE DupAlloc(t) \/ Gone(t) \/ UNCHANGED table
    <2>1. found' = found
      BY <1>4 DEF DupAlloc, Gone, table
    <2> QED
      BY <2>1
  <1> QED
    BY <1>1, <1>2, <1>3, <1>4, StepTable DEF TableStep

\* What a thread found stays what its descriptors name, until they are closed.
LEMMA StepFound ==
    ASSUME TypeOK, CtlInv, FoundInv, NEW t \in Threads, Step(t)
    PROVE  FoundInv'
  <1> SUFFICES ASSUME NEW u \in Threads, NEW p \in found'[u]
               PROVE  /\ pc'[u] \in Registered /\ fds'[p[1]] = p[2]
                      /\ \E i \in polled'[u] : i[1] = p[1]
    BY DEF FoundInv
  <1> USE DEF TypeOK, TableTypes
  <1>1. CASE u = t /\ Register(t)
    <2>1. /\ pc'[t] = "pollLock" /\ fds' = fds /\ polled' = polled
          /\ found'[t] = {<<i[1], fds[i[1]]>> : i \in {j \in polled[t] : fds[j[1]] # None}}
      BY <1>1 DEF Register, Goto, calls, CallTypes
    <2>2. PICK i \in polled[t] : p = <<i[1], fds[i[1]]>>
      BY <1>1, <2>1
    <2> QED
      BY <1>1, <2>1, <2>2 DEF Registered
  <1>2. CASE ~(u = t /\ Register(t))
    <2>1. p \in found[u]
      BY <1>2, FoundShrinks
    <2>2. ~(u = t /\ Clear(t))
      BY DEF Clear
    <2>3. /\ pc[u] \in Registered /\ fds[p[1]] = p[2]
          /\ \E i \in polled[u] : i[1] = p[1]
      BY <2>1 DEF FoundInv
    <2>4. op[u] = "poll"
      BY <2>3 DEF CtlInv, CtlOK, Polling, Registered
    <2>5. pc'[u] \in Registered /\ polled'[u] = polled[u]
      BY <2>2, <2>3, <2>4, StepPolling, StepOthers DEF Others
    <2>6. p \in Fds \X Objects
      BY <2>1
    <2>7. p[1] \in Fds /\ p[2] # None
      BY <2>6, PollConstants
    <2>8. ASSUME \E f \in Fds : Close(t, f)
         PROVE  fds'[p[1]] = p[2]
      <3>1. PICK f \in Fds : Close(t, f)
        BY <2>8
      <3>2. p[1] # f
        BY <3>1 DEF Close
      <3>3. fds' = [fds EXCEPT ![f] = None]
        BY <3>1 DEF Close
      <3>4. fds'[p[1]] = fds[p[1]]
        BY <2>7, <3>2, <3>3
      <3> QED
        BY <2>3, <3>4
    <2>9. ASSUME DupAlloc(t)
         PROVE  fds'[p[1]] = p[2]
      <3>1. PICK f \in Fds : fds[f] = None /\ fds' = [fds EXCEPT ![f] = obj[t]]
        BY <2>9 DEF DupAlloc
      <3>2. p[1] # f
        BY <2>3, <2>7, <3>1
      <3>3. fds'[p[1]] = fds[p[1]]
        BY <2>7, <3>1, <3>2
      <3> QED
        BY <2>3, <3>3
    <2>10. ASSUME Register(t) \/ Clear(t) \/ Gone(t) \/ UNCHANGED table
         PROVE  fds'[p[1]] = p[2]
      <3>1. fds' = fds
        BY <2>10 DEF Register, Clear, Gone, table
      <3> QED
        BY <2>3, <3>1
    <2>11. fds'[p[1]] = p[2]
      BY <2>8, <2>9, <2>10, StepTable DEF TableStep
    <2> QED
      BY <2>3, <2>5, <2>11
  <1> QED
    BY <1>1, <1>2

\* Only a close makes a registration a stray one.
LEMMA StepStray ==
    ASSUME TypeOK, CtlInv, FoundInv, StrayInv, NEW t \in Threads, Step(t)
    PROVE  StrayInv'
  <1> SUFFICES ASSUME NEW o \in Objects, NEW u \in Parents(o)'
               PROVE  o \in loose'[u] \/ \E p \in found'[u] : p[2] = o
    BY DEF StrayInv, Parents
  <1> USE DEF TypeOK, TableTypes
  <1>0. u # None /\ Parents(o) \subseteq Threads /\ t # None
    BY ParentsAreThreads, PollConstants DEF Parents
  <1>1. CASE Register(t)
    <2>1. u \in Parents(o) \/ (u = t /\ o \in Named(t))
      BY <1>1 DEF Register, AddParent, Parents
    <2>2. CASE u = t /\ o \in Named(t)
      <3>1. PICK i \in polled[t] : o = fds[i[1]] /\ fds[i[1]] # None
        BY <2>2 DEF Named
      <3>2. <<i[1], o>> \in found'[t]
        BY <1>1, <3>1 DEF Register
      <3> QED
        BY <2>2, <3>2
    <2>3. CASE u \in Parents(o) /\ ~(u = t /\ o \in Named(t))
      <3>1. o \in loose[u] \/ \E p \in found[u] : p[2] = o
        BY <2>3 DEF StrayInv
      <3>2. u = t => found[t] = {}
        BY <1>1 DEF Register, FoundInv, Registered
      <3> QED
        BY <1>0, <1>1, <2>3, <3>1, <3>2 DEF Register
    <2> QED
      BY <2>1, <2>2, <2>3
  <1>2. CASE Clear(t)
    <2>1. u \in Parents(o) /\ (u = t => o \notin Named(t))
      BY <1>0, <1>2 DEF Clear, RemoveParent, Parents
    <2>2. o \in loose[u] \/ \E p \in found[u] : p[2] = o
      BY <2>1 DEF StrayInv
    <2>3. CASE u # t
      BY <1>0, <1>2, <2>1, <2>2, <2>3 DEF Clear
    <2>4. CASE u = t
      <3>1. ASSUME NEW p \in found[t], p[2] = o PROVE o \in Named(t)
        <4>1. PICK i \in polled[t] : i[1] = p[1]
          BY <3>1 DEF FoundInv
        <4>2. fds[i[1]] = o
          BY <3>1, <4>1 DEF FoundInv
        <4> QED
          BY <4>2, PollConstants DEF Named
      <3>2. o \in loose[t]
        BY <2>1, <2>2, <2>4, <3>1
      <3> QED
        BY <1>2, <2>1, <2>4, <3>2 DEF Clear
    <2> QED
      BY <2>3, <2>4
  <1>3. CASE \E f \in Fds : Close(t, f)
    <2>1. PICK f \in Fds : Close(t, f)
      BY <1>3
    <2>2. u \in Parents(o)
      BY <2>1 DEF Close, Parents
    <2>3. CASE o \in loose[u]
      BY <1>0, <2>1, <2>2, <2>3 DEF Close
    <2>4. CASE \E p \in found[u] : p[2] = o
      <3>1. PICK p \in found[u] : p[2] = o
        BY <2>4
      <3>2. CASE p[1] = f
        BY <1>0, <2>1, <2>2, <3>1, <3>2 DEF Close
      <3>3. CASE p[1] # f
        BY <1>0, <2>1, <2>2, <3>1, <3>3 DEF Close
      <3> QED
        BY <3>2, <3>3
    <2> QED
      BY <2>2, <2>3, <2>4 DEF StrayInv
  <1>4. CASE DupAlloc(t)
    BY <1>4 DEF DupAlloc, Parents, StrayInv
  <1>5. CASE Gone(t)
    <2>1. u \in Parents(o) /\ u # t
      BY <1>0, <1>5 DEF Gone, RemoveParent, Parents
    <2> QED
      BY <1>0, <1>5, <2>1 DEF Gone, StrayInv
  <1>6. CASE UNCHANGED table
    BY <1>6 DEF table, Parents, StrayInv
  <1> QED
    BY <1>1, <1>2, <1>3, <1>4, <1>5, <1>6, StepTable DEF TableStep

\* The invariant is kept by every step.
LEMMA StepInv ==
    ASSUME Inv, NEW t \in Threads, Step(t)
    PROVE  Inv'
  <1>1. TypeOK'
    BY StepObjects, StepTableTypes, StepLocks, StepCalls, StepWaits DEF Inv, TypeOK
  <1>2. CtlInv'
    <2>1. Others(t) /\ CtlOK(t)'
      BY StepOthers, StepCtl DEF Inv
    <2>2. ASSUME NEW u \in Threads \ {t} PROVE CtlOK(u)'
      BY <2>1 DEF Inv, CtlInv, CtlOK, Others
    <2> QED
      BY <2>1, <2>2 DEF CtlInv
  <1> QED
    BY <1>1, <1>2, StepMay, StepLockInv, StepFound, StepStray DEF Inv

\* The initial state.
LEMMA InitInv == Init => Inv
  <1> SUFFICES ASSUME Init PROVE Inv
    OBVIOUS
  <1>1. TypeOK
    <2>0. [i \in 1..MaxParents |-> None] \in [1..MaxParents -> Threads \cup {None}]
      OBVIOUS
    <2>a. parents \in [Objects -> [1..MaxParents -> Threads \cup {None}]]
      BY <2>0 DEF Init
    <2>b. counter \in [EventFds -> 0..MaxCount]
      BY PollConstants DEF Init
    <2>1. ObjectTypes /\ TableTypes
      BY <2>a, <2>b, PollConstants DEF Init, ObjectTypes, TableTypes
    <2>2. LockTypes /\ WaitTypes
      BY DEF Init, LockTypes, WaitTypes
    <2>3. slot \in [Threads -> 1..(MaxParents + 1)]
      BY PollConstants DEF Init
    <2>4. CallTypes
      BY <2>3 DEF Init, CallTypes, PC, Objects
    <2> QED
      BY <2>1, <2>2, <2>4 DEF TypeOK
  <1>2. CtlInv /\ MayInv /\ LockInv
    BY PollConstants DEF Init, CtlInv, CtlOK, MayInv, LockInv, Polling, Scanning, Locked
  <1>3. FoundInv /\ StrayInv
    BY DEF Init, FoundInv, StrayInv, Parents
  <1> QED
    BY <1>1, <1>2, <1>3 DEF Inv

\* The next-state relation has no other steps.
LEMMA NextIsStep == Next => \E t \in Threads : Step(t)
  BY DEF Next, Call, Continue, Step

\* A stuttering step.
LEMMA StutterInv ==
    ASSUME Inv, UNCHANGED vars
    PROVE  Inv'
  <1> USE DEF vars, table, locks, calls, scan, waits
  <1>1. TypeOK'
    BY DEF Inv, TypeOK, ObjectTypes, TableTypes, LockTypes, CallTypes, WaitTypes
  <1>2. CtlInv' /\ MayInv' /\ LockInv'
    BY DEF Inv, CtlInv, CtlOK, MayInv, LockInv
  <1>3. FoundInv' /\ StrayInv'
    BY DEF Inv, FoundInv, StrayInv, Parents
  <1> QED
    BY <1>1, <1>2, <1>3 DEF Inv

\* The invariant holds in every behaviour.
THEOREM Invariance == Spec => []Inv
  <1>1. Inv /\ [Next]_vars => Inv'
    BY NextIsStep, StepInv, StutterInv
  <1> QED
    BY <1>1, InitInv, PTL DEF Spec

\* Type correctness; above all, an eventfd's counter stays in its range.
THEOREM TypeCorrect == Spec => []TypeOK
  <1>1. Inv => TypeOK
    BY DEF Inv
  <1> QED
    BY <1>1, Invariance, PTL

\* A thread stays registered with an object after its poll has cleared its
\* registrations only if the descriptor was closed before.
THEOREM OnlyCloseLeavesStrays == Spec => []StrayWasClosed
  <1>1. ASSUME Inv PROVE StrayWasClosed
    <2> SUFFICES ASSUME NEW o \in Objects, NEW t \in Parents(o), o \notin loose[t]
                 PROVE  op[t] = "poll" /\ o \in Named(t)
      BY DEF StrayWasClosed
    <2>1. t \in Threads
      BY <1>1, ParentsAreThreads DEF Inv, TypeOK
    <2>2. PICK p \in found[t] : p[2] = o
      BY <1>1 DEF Inv, StrayInv
    <2>3. pc[t] \in Registered /\ fds[p[1]] = o /\ \E i \in polled[t] : i[1] = p[1]
      BY <1>1, <2>1, <2>2 DEF Inv, FoundInv
    <2> QED
      BY <1>1, <2>1, <2>3, PollConstants DEF Inv, CtlInv, CtlOK, Polling, Registered, Named
  <1> QED
    BY <1>1, Invariance, PTL

----------------------------------------------------------------------------
(* Events, as long as no object has two parents.                            *)

\* A non-empty set of naturals has a least element.
LEMMA LeastIndex ==
    ASSUME NEW S \in SUBSET Nat, S # {}
    PROVE  \E m \in S : \A k \in S : m <= k
  <1> DEFINE R == OpToRel(<, Nat)
  <1>1. IsWellFoundedOn(R, Nat)
    BY NatLessThanWellFounded
  <1>2. \A x, y \in Nat : y < x => <<y, x>> \in R
    BY DEF OpToRel
  <1> HIDE DEF R
  <1>3. PICK m \in S : \A k \in S : ~(<<k, m>> \in R)
    BY <1>1, WFMin
  <1>4. ASSUME NEW k \in S PROVE m <= k
    <2>1. k \in Nat /\ m \in Nat
      OBVIOUS
    <2>2. ~(k < m)
      BY <2>1, <1>2, <1>3, Zenon
    <2> QED
      BY <2>1, <2>2
  <1> QED
    BY <1>4

\* An object that is not full has a first free slot.
LEMMA FirstFreeIsFree ==
    ASSUME NEW o \in Objects, NEW i \in 1..MaxParents, parents[o][i] = None
    PROVE  FirstFree(o) \in 1..MaxParents /\ parents[o][FirstFree(o)] = None
  <1> DEFINE S == {j \in 1..MaxParents : parents[o][j] = None}
  <1>1. S \in SUBSET Nat /\ S # {}
    BY PollConstants
  <1>2. PICK m \in S : \A k \in S : m <= k
    BY <1>1, LeastIndex
  <1>3. m \in 1..MaxParents /\ parents[o][m] = None
    OBVIOUS
  <1>4. \A j \in 1..(m - 1) : parents[o][j] # None
    <2> SUFFICES ASSUME NEW j \in 1..(m - 1), parents[o][j] = None PROVE FALSE
      OBVIOUS
    <2>1. j \in S /\ j < m
      BY <1>3, PollConstants
    <2> QED
      BY <1>2, <1>3, <2>1, PollConstants
  <1> QED
    BY <1>3, <1>4 DEF FirstFree

\* Where there is room, addParentCondition adds the parent and keeps the others.
LEMMA AddParentAdds ==
    ASSUME TableTypes, NEW o \in Objects, NEW t \in Threads, ~Full(o, t),
           parents'[o] = AddParent(o, t)
    PROVE  t \in Parents(o)' /\ Parents(o) \subseteq Parents(o)'
  <1>0. t # None
    BY PollConstants
  <1>1. CASE t \in Parents(o)
    BY <1>1 DEF AddParent, Parents
  <1>2. CASE t \notin Parents(o)
    <2>1. PICK i \in 1..MaxParents : parents[o][i] = None
      BY <1>2 DEF Full
    <2>2. FirstFree(o) \in 1..MaxParents /\ parents[o][FirstFree(o)] = None
      BY <2>1, FirstFreeIsFree
    <2>3. parents[o] \in [1..MaxParents -> Threads \cup {None}]
      BY DEF TableTypes
    <2>4. parents'[o] = [parents[o] EXCEPT ![FirstFree(o)] = t]
      BY <1>2 DEF AddParent
    <2> HIDE DEF FirstFree
    <2>5. t \in Parents(o)'
      BY <1>0, <2>2, <2>3, <2>4 DEF Parents
    <2>6. ASSUME NEW p \in Parents(o) PROVE p \in Parents(o)'
      <3>1. PICK j \in 1..MaxParents : parents[o][j] = p /\ p # None
        BY DEF Parents
      <3>2. parents'[o][j] = p
        BY <2>2, <2>3, <2>4, <3>1
      <3> QED
        BY <3>1, <3>2 DEF Parents
    <2> QED
      BY <2>5, <2>6
  <1> QED
    BY <1>1, <1>2

\* removeParentCondition keeps the others.
LEMMA RemoveParentKeeps ==
    ASSUME TableTypes, NEW o \in Objects, NEW t \in Threads,
           parents'[o] = RemoveParent(o, t)
    PROVE  /\ \A p \in Parents(o) : p # t => p \in Parents(o)'
           /\ Parents(o)' \subseteq Parents(o)
           /\ t \notin Parents(o) => parents'[o] = parents[o]
  <1>0. t # None
    BY PollConstants
  <1>1. parents[o] \in [1..MaxParents -> Threads \cup {None}]
    BY DEF TableTypes
  <1>2. \A i \in 1..MaxParents :
           parents'[o][i] = IF parents[o][i] = t THEN None ELSE parents[o][i]
    BY DEF RemoveParent
  <1>3. ASSUME t \notin Parents(o) PROVE parents'[o] = parents[o]
    <2>1. \A i \in 1..MaxParents : parents[o][i] # t
      BY <1>0, <1>3 DEF Parents
    <2>2. RemoveParent(o, t) = [i \in 1..MaxParents |-> parents[o][i]]
      BY <2>1 DEF RemoveParent
    <2> QED
      BY <1>1, <2>2
  <1>4. \A p \in Parents(o) : p # t => p \in Parents(o)'
    BY <1>2 DEF Parents
  <1>5. Parents(o)' \subseteq Parents(o)
    BY <1>2 DEF Parents
  <1> QED
    BY <1>3, <1>4, <1>5

\* A poller stays a parent of what it found.
LEMMA StepReg ==
    ASSUME Inv, RegInv, ~panicked', NEW t \in Threads, Step(t)
    PROVE  RegInv'
  <1> SUFFICES ASSUME NEW u \in Threads, NEW p \in found'[u]
               PROVE  u \in Parents(p[2])'
    BY DEF RegInv, Parents
  <1>0. TypeOK /\ TableTypes /\ FoundInv
    BY DEF Inv, TypeOK
  <1>1. CASE u = t /\ Register(t)
    <2>1. PICK i \in polled[t] : fds[i[1]] # None /\ p = <<i[1], fds[i[1]]>>
      BY <1>0, <1>1 DEF Register, TableTypes
    <2>2. p[2] \in Named(t) /\ p[2] = fds[i[1]]
      BY <2>1 DEF Named
    <2>3. p[2] \in Objects
      BY <1>0, <2>1, <2>2 DEF TypeOK, CallTypes, TableTypes, Interests
    <2>4. parents'[p[2]] = AddParent(p[2], t) /\ ~Full(p[2], t)
      BY <1>1, <2>2, <2>3 DEF Register
    <2> QED
      BY <1>0, <1>1, <2>3, <2>4, AddParentAdds
  <1>2. CASE ~(u = t /\ Register(t))
    <2>1. p \in found[u]
      BY <1>0, <1>2, FoundShrinks
    <2>2. pc[u] \in Registered /\ u \in Parents(p[2])
      BY <2>1, <1>0 DEF FoundInv, RegInv
    <2>3. p[2] \in Objects
      BY <1>0, <2>1 DEF TableTypes
    <2>4. CASE Register(t)
      <3>1. parents'[p[2]] = parents[p[2]]
               \/ (parents'[p[2]] = AddParent(p[2], t) /\ ~Full(p[2], t))
        BY <2>3, <2>4 DEF Register
      <3> QED
        BY <1>0, <2>2, <2>3, <3>1, AddParentAdds DEF Parents
    <2>5. CASE Clear(t)
      <3>1. u # t
        BY <1>0, <2>5 DEF Clear, TableTypes
      <3>2. parents'[p[2]] = parents[p[2]] \/ parents'[p[2]] = RemoveParent(p[2], t)
        BY <2>3, <2>5 DEF Clear
      <3> QED
        BY <1>0, <2>2, <2>3, <3>1, <3>2, RemoveParentKeeps DEF Parents
    <2>6. CASE Gone(t)
      <3>1. u # t
        BY <2>2, <2>6 DEF Gone, Registered
      <3>2. parents'[p[2]] = RemoveParent(p[2], t)
        BY <2>3, <2>6 DEF Gone
      <3> QED
        BY <1>0, <2>2, <2>3, <3>1, <3>2, RemoveParentKeeps
    <2>7. CASE (\E f \in Fds : Close(t, f)) \/ DupAlloc(t) \/ UNCHANGED table
      <3>1. parents' = parents
        BY <2>7 DEF Close, DupAlloc, table
      <3> QED
        BY <2>2, <3>1 DEF Parents
    <2> QED
      BY <2>4, <2>5, <2>6, <2>7, StepTable DEF TableStep
  <1> QED
    BY <1>1, <1>2

\* An object whose one parent is asleep keeps its slots as they are.
LEMMA SoleKeepsParent ==
    ASSUME Inv, SoleParent, SoleParent', NEW t \in Threads, Step(t), NEW u \in Threads,
           pc[u] = "pollParked", NEW o \in Objects, u \in Parents(o), u \in Parents(o)'
    PROVE  parents'[o] = parents[o]
  <1>0. TypeOK /\ TableTypes
    BY DEF Inv, TypeOK
  <1>1. CASE Register(t)
    <2>1. t # u
      BY <1>1 DEF Register
    <2>2. ASSUME o \in Named(t) PROVE FALSE
      <3>1. parents'[o] = AddParent(o, t) /\ ~Full(o, t)
        BY <1>1, <2>2 DEF Register, SoleParent
      <3>2. t \in Parents(o)'
        BY <1>0, <3>1, AddParentAdds
      <3> QED
        BY <2>1, <3>2 DEF SoleParent
    <2> QED
      BY <1>1, <2>2 DEF Register
  <1>2. CASE Clear(t) \/ Gone(t)
    <2>1. t # u
      BY <1>2 DEF Clear, Gone
    <2>2. t \notin Parents(o)
      BY <2>1 DEF SoleParent
    <2>3. parents'[o] = parents[o] \/ parents'[o] = RemoveParent(o, t)
      BY <1>2 DEF Clear, Gone
    <2> QED
      BY <1>0, <2>2, <2>3, RemoveParentKeeps
  <1>3. CASE (\E f \in Fds : Close(t, f)) \/ DupAlloc(t) \/ UNCHANGED table
    BY <1>3 DEF Close, DupAlloc, table
  <1> QED
    BY <1>1, <1>2, <1>3, StepTable DEF TableStep

\* Only Eval moves a counter, and then it goes on to tell.
LEMMA StepCounter ==
    ASSUME NEW t \in Threads, Step(t), TypeOK, CtlInv
    PROVE  \/ counter' = counter
           \/ /\ Eval(t) /\ pc'[t] = "signal" /\ obj'[t] = obj[t]
              /\ \A e \in EventFds : e # obj[t] => counter'[e] = counter[e]
  <1> USE DEF TypeOK, CallTypes, ObjectTypes
  <1>1. CASE PollCall(t)
    BY <1>1 DEF PollCall, Goto
  <1>2. CASE SigreadCall(t)
    BY <1>2 DEF SigreadCall, Goto
  <1>3. CASE Kill(t)
    BY <1>3 DEF Kill, Goto
  <1>4. CASE \E f \in Fds : EventCall(t, f)
    BY <1>4 DEF EventCall, Goto
  <1>5. CASE Register(t)
    BY <1>5 DEF Register, Goto
  <1>6. CASE PollLock(t)
    BY <1>6 DEF PollLock, Goto
  <1>7. CASE PollTest(t)
    BY <1>7 DEF PollTest, Goto
  <1>8. CASE PollWake(t)
    BY <1>8 DEF PollWake, Goto
  <1>9. CASE Clear(t)
    BY <1>9 DEF Clear, Goto
  <1>10. CASE Scan(t)
    BY <1>10 DEF Scan, Goto
  <1>11. CASE SignalParent(t)
    BY <1>11 DEF SignalParent, Goto
  <1>12. CASE ScanEnd(t)
    BY <1>12 DEF ScanEnd, Goto
  <1>13. CASE NotifyOne(t)
    BY <1>13 DEF NotifyOne, Goto
  <1>14. CASE Lock(t)
    BY <1>14 DEF Lock, Goto
  <1>15. CASE Eval(t)
    BY <1>15 DEF Eval, Goto
  <1>16. CASE Wake(t)
    BY <1>16 DEF Wake, Goto
  <1>17. CASE SigreadCheck(t)
    BY <1>17 DEF SigreadCheck, Goto
  <1>18. CASE SigreadLock(t)
    BY <1>18 DEF SigreadLock, Goto
  <1>19. CASE KillFds(t)
    BY <1>19 DEF KillFds, Goto
  <1>20. CASE KillSignal(t)
    BY <1>20 DEF KillSignal, Goto
  <1>21. CASE PollTimeout(t)
    BY <1>21 DEF PollTimeout, Goto
  <1>22. CASE Terminate(t)
    BY <1>22 DEF Terminate, Goto
  <1>23. CASE TerminateSignal(t)
    BY <1>23 DEF TerminateSignal, Goto
  <1>24. CASE SignalThread(t)
    BY <1>24 DEF SignalThread, Goto
  <1>25. CASE \E f \in Fds : Close(t, f)
    BY <1>25 DEF Close, Goto
  <1>26. CASE \E f \in Fds : DupCall(t, f)
    BY <1>26 DEF DupCall, Goto
  <1>27. CASE DupAlloc(t)
    BY <1>27 DEF DupAlloc, Goto
  <1>28. CASE Gone(t)
    BY <1>28 DEF Gone, Goto
  <1> QED
    BY <1>1, <1>2, <1>3, <1>4, <1>5, <1>6, <1>7, <1>8, <1>9, <1>10, <1>11, <1>12,
       <1>13, <1>14, <1>15, <1>16, <1>17, <1>18, <1>19, <1>20, <1>21, <1>22, <1>23,
       <1>24, <1>25, <1>26, <1>27, <1>28 DEF Step

\* A poller goes to sleep when its test found nothing, and stays asleep only
\* if it was not told.
LEMMA StepSleeps ==
    ASSUME TypeOK, CtlInv, NEW t \in Threads, Step(t), NEW u \in Threads,
           pc'[u] = "pollParked", ~notified'[u]
    PROVE  \/ /\ u = t /\ polled' = polled /\ counter' = counter /\ fds' = fds
              /\ \A i \in polled[t] : fds[i[1]] = None \/ ~Ready(i)
           \/ pc[u] = "pollParked" /\ ~notified[u]
  <1> USE DEF TypeOK, CallTypes, WaitTypes
  <1>1. CASE PollCall(t)
    BY <1>1 DEF PollCall, Goto, calls, waits
  <1>2. CASE SigreadCall(t)
    BY <1>2 DEF SigreadCall, Goto, calls, waits
  <1>3. CASE Kill(t)
    BY <1>3 DEF Kill, Goto, calls, waits
  <1>4. CASE \E f \in Fds : EventCall(t, f)
    BY <1>4 DEF EventCall, Goto, calls, waits
  <1>5. CASE Register(t)
    BY <1>5 DEF Register, Goto, calls, waits
  <1>6. CASE PollLock(t)
    BY <1>6 DEF PollLock, Goto, calls, waits
  <1>7. CASE PollTest(t)
    BY <1>7 DEF PollTest, Goto, waits, table
  <1>8. CASE PollWake(t)
    BY <1>8 DEF PollWake, Goto, calls, waits
  <1>9. CASE Clear(t)
    BY <1>9 DEF Clear, Goto, calls, waits
  <1>10. CASE Scan(t)
    BY <1>10 DEF Scan, Goto, calls, waits
  <1>11. CASE SignalParent(t)
    BY <1>11 DEF SignalParent, Goto, calls, waits
  <1>12. CASE ScanEnd(t)
    BY <1>12 DEF ScanEnd, Goto, calls, waits
  <1>13. CASE NotifyOne(t)
    BY <1>13 DEF NotifyOne, Goto, calls, waits
  <1>14. CASE Lock(t)
    BY <1>14 DEF Lock, Goto, calls, waits
  <1>15. CASE Eval(t)
    BY <1>15 DEF Eval, Goto, calls, waits
  <1>16. CASE Wake(t)
    BY <1>16 DEF Wake, Goto, calls, waits
  <1>17. CASE SigreadCheck(t)
    BY <1>17 DEF SigreadCheck, Goto, calls, waits
  <1>18. CASE SigreadLock(t)
    BY <1>18 DEF SigreadLock, Goto, calls, waits
  <1>19. CASE KillFds(t)
    BY <1>19 DEF KillFds, Goto, calls, waits
  <1>20. CASE KillSignal(t)
    BY <1>20 DEF KillSignal, Goto, calls, waits
  <1>21. CASE PollTimeout(t)
    BY <1>21 DEF PollTimeout, Goto, calls, waits
  <1>22. CASE Terminate(t)
    BY <1>22 DEF Terminate, Goto, calls, waits
  <1>23. CASE TerminateSignal(t)
    BY <1>23 DEF TerminateSignal, Goto, calls, waits
  <1>24. CASE SignalThread(t)
    BY <1>24 DEF SignalThread, Goto, calls, waits
  <1>25. CASE \E f \in Fds : Close(t, f)
    BY <1>25 DEF Close, Goto, calls, waits
  <1>26. CASE \E f \in Fds : DupCall(t, f)
    BY <1>26 DEF DupCall, Goto, calls, waits
  <1>27. CASE DupAlloc(t)
    BY <1>27 DEF DupAlloc, Goto, calls, waits
  <1>28. CASE Gone(t)
    BY <1>28 DEF Gone, Goto, calls, waits
  <1> QED
    BY <1>1, <1>2, <1>3, <1>4, <1>5, <1>6, <1>7, <1>8, <1>9, <1>10, <1>11, <1>12,
       <1>13, <1>14, <1>15, <1>16, <1>17, <1>18, <1>19, <1>20, <1>21, <1>22, <1>23,
       <1>24, <1>25, <1>26, <1>27, <1>28 DEF Step

\* The thread that tells goes on until it has told.
LEMMA TellerGoesOn ==
    ASSUME TypeOK, NEW t \in Threads, Step(t), pc[t] \in {"signal", "signalParent"}
    PROVE  \/ pc[t] = "signal" /\ (Scan(t) \/ ScanEnd(t))
           \/ pc[t] = "signalParent" /\ SignalParent(t)
           \/ UNCHANGED <<pc, slot, target>>
  <1>1. CASE PollCall(t)
    BY <1>1 DEF PollCall, Goto, scan
  <1>2. CASE SigreadCall(t)
    BY <1>2 DEF SigreadCall, Goto, scan
  <1>3. CASE Kill(t)
    BY <1>3 DEF Kill, Goto, scan
  <1>4. CASE \E f \in Fds : EventCall(t, f)
    BY <1>4 DEF EventCall, Goto, scan
  <1>5. CASE Register(t)
    BY <1>5 DEF Register, Goto, scan
  <1>6. CASE PollLock(t)
    BY <1>6 DEF PollLock, Goto, scan
  <1>7. CASE PollTest(t)
    BY <1>7 DEF PollTest, Goto, scan
  <1>8. CASE PollWake(t)
    BY <1>8 DEF PollWake, Goto, scan
  <1>9. CASE Clear(t)
    BY <1>9 DEF Clear, Goto, scan
  <1>10. CASE Scan(t)
    BY <1>10 DEF Scan, Goto, scan
  <1>11. CASE SignalParent(t)
    BY <1>11 DEF SignalParent, Goto, scan
  <1>12. CASE ScanEnd(t)
    BY <1>12 DEF ScanEnd, Goto, scan
  <1>13. CASE NotifyOne(t)
    BY <1>13 DEF NotifyOne, Goto, scan
  <1>14. CASE Lock(t)
    BY <1>14 DEF Lock, Goto, scan
  <1>15. CASE Eval(t)
    BY <1>15 DEF Eval, Goto, scan
  <1>16. CASE Wake(t)
    BY <1>16 DEF Wake, Goto, scan
  <1>17. CASE SigreadCheck(t)
    BY <1>17 DEF SigreadCheck, Goto, scan
  <1>18. CASE SigreadLock(t)
    BY <1>18 DEF SigreadLock, Goto, scan
  <1>19. CASE KillFds(t)
    BY <1>19 DEF KillFds, Goto, scan
  <1>20. CASE KillSignal(t)
    BY <1>20 DEF KillSignal, Goto, scan
  <1>21. CASE PollTimeout(t)
    BY <1>21 DEF PollTimeout, Goto, scan
  <1>22. CASE Terminate(t)
    BY <1>22 DEF Terminate, Goto, scan
  <1>23. CASE TerminateSignal(t)
    BY <1>23 DEF TerminateSignal, Goto, scan
  <1>24. CASE SignalThread(t)
    BY <1>24 DEF SignalThread, Goto, scan
  <1>25. CASE \E f \in Fds : Close(t, f)
    BY <1>25 DEF Close, Goto, scan
  <1>26. CASE \E f \in Fds : DupCall(t, f)
    BY <1>26 DEF DupCall, Goto, scan
  <1>27. CASE DupAlloc(t)
    BY <1>27 DEF DupAlloc, Goto, scan
  <1>28. CASE Gone(t)
    BY <1>28 DEF Gone, Goto, scan
  <1> QED
    BY <1>1, <1>2, <1>3, <1>4, <1>5, <1>6, <1>7, <1>8, <1>9, <1>10, <1>11, <1>12,
       <1>13, <1>14, <1>15, <1>16, <1>17, <1>18, <1>19, <1>20, <1>21, <1>22, <1>23,
       <1>24, <1>25, <1>26, <1>27, <1>28 DEF Step

\* A thread that stays where it is stays with its object.
LEMMA StepObj ==
    ASSUME TypeOK, NEW t \in Threads, Step(t), pc'[t] = pc[t],
           pc[t] \in {"signal", "signalParent"}
    PROVE  obj'[t] = obj[t]
  <1> USE DEF TypeOK, CallTypes
  <1>1. CASE PollCall(t)
    BY <1>1 DEF PollCall, Goto, calls
  <1>2. CASE SigreadCall(t)
    BY <1>2 DEF SigreadCall, Goto, calls
  <1>3. CASE Kill(t)
    BY <1>3 DEF Kill, Goto, calls
  <1>4. CASE \E f \in Fds : EventCall(t, f)
    BY <1>4 DEF EventCall, Goto, calls
  <1>5. CASE Register(t)
    BY <1>5 DEF Register, Goto, calls
  <1>6. CASE PollLock(t)
    BY <1>6 DEF PollLock, Goto, calls
  <1>7. CASE PollTest(t)
    BY <1>7 DEF PollTest, Goto, calls
  <1>8. CASE PollWake(t)
    BY <1>8 DEF PollWake, Goto, calls
  <1>9. CASE Clear(t)
    BY <1>9 DEF Clear, Goto, calls
  <1>10. CASE Scan(t)
    BY <1>10 DEF Scan, Goto, calls
  <1>11. CASE SignalParent(t)
    BY <1>11 DEF SignalParent, Goto, calls
  <1>12. CASE ScanEnd(t)
    BY <1>12 DEF ScanEnd, Goto, calls
  <1>13. CASE NotifyOne(t)
    BY <1>13 DEF NotifyOne, Goto, calls
  <1>14. CASE Lock(t)
    BY <1>14 DEF Lock, Goto, calls
  <1>15. CASE Eval(t)
    BY <1>15 DEF Eval, Goto, calls
  <1>16. CASE Wake(t)
    BY <1>16 DEF Wake, Goto, calls
  <1>17. CASE SigreadCheck(t)
    BY <1>17 DEF SigreadCheck, Goto, calls
  <1>18. CASE SigreadLock(t)
    BY <1>18 DEF SigreadLock, Goto, calls
  <1>19. CASE KillFds(t)
    BY <1>19 DEF KillFds, Goto, calls
  <1>20. CASE KillSignal(t)
    BY <1>20 DEF KillSignal, Goto, calls
  <1>21. CASE PollTimeout(t)
    BY <1>21 DEF PollTimeout, Goto, calls
  <1>22. CASE Terminate(t)
    BY <1>22 DEF Terminate, Goto, calls
  <1>23. CASE TerminateSignal(t)
    BY <1>23 DEF TerminateSignal, Goto, calls
  <1>24. CASE SignalThread(t)
    BY <1>24 DEF SignalThread, Goto, calls
  <1>25. CASE \E f \in Fds : Close(t, f)
    BY <1>25 DEF Close, Goto, calls
  <1>26. CASE \E f \in Fds : DupCall(t, f)
    BY <1>26 DEF DupCall, Goto, calls
  <1>27. CASE DupAlloc(t)
    BY <1>27 DEF DupAlloc, Goto, calls
  <1>28. CASE Gone(t)
    BY <1>28 DEF Gone, Goto, calls
  <1> QED
    BY <1>1, <1>2, <1>3, <1>4, <1>5, <1>6, <1>7, <1>8, <1>9, <1>10, <1>11, <1>12,
       <1>13, <1>14, <1>15, <1>16, <1>17, <1>18, <1>19, <1>20, <1>21, <1>22, <1>23,
       <1>24, <1>25, <1>26, <1>27, <1>28 DEF Step

\* No event is lost.
LEMMA StepEvents ==
    ASSUME Inv, SoleParent, SoleParent', RegInv, RegInv', NoLostEvent,
           NEW t \in Threads, Step(t)
    PROVE  NoLostEvent'
  <1> DEFINE Tells(w, e, u) ==
        /\ lockCond[e] = w
        /\ \/ pc[w] = "signal" /\ \A j \in 1..(slot[w] - 1) : parents[e][j] # u
           \/ pc[w] = "signalParent" /\ target[w] = u
  <1> SUFFICES ASSUME NEW u \in Threads, NEW i \in polled'[u], pc'[u] = "pollParked",
                      ~notified'[u], NEW e \in EventFds, e = fds'[i[1]],
                      Ready(i)', <<i[1], e>> \in found'[u]
               PROVE  \E w \in Threads : Tells(w, e, u)'
    BY DEF NoLostEvent, Due
  <1>0. e \in Objects /\ e # SignalFd /\ e # None
    BY PollConstants DEF Objects
  <1>1. pc[u] = "pollParked" /\ ~notified[u]
    <2>1. ASSUME counter' = counter, fds' = fds, ~Ready(i) PROVE FALSE
      BY <1>0, <2>1 DEF Ready
    <2> QED
      BY <1>0, <2>1, StepSleeps DEF Inv
  <1>2. op[u] = "poll" /\ polled'[u] = polled[u] /\ i \in polled[u]
    <2>1. op[u] = "poll"
      BY <1>1 DEF Inv, CtlInv, CtlOK, Polling
    <2>2. ~(u = t /\ Clear(t))
      BY <1>1 DEF Clear
    <2> QED
      BY <2>1, <2>2, StepPolling, StepOthers DEF Inv, Others
  <1>3. <<i[1], e>> \in found[u] /\ fds[i[1]] = e
    <2>1. ~(u = t /\ Register(t))
      BY <1>1 DEF Register
    <2>2. <<i[1], e>> \in found[u]
      BY <1>0, <2>1, FoundShrinks DEF Inv
    <2>3. fds[<<i[1], e>>[1]] = <<i[1], e>>[2]
      BY <2>2 DEF Inv, FoundInv
    <2> QED
      BY <2>2, <2>3
  <1>a. u \in Parents(e) /\ u \in Parents(e)'
    <2>1. u \in Parents(<<i[1], e>>[2])
      BY <1>3 DEF RegInv
    <2>2. u \in Parents(<<i[1], e>>[2])'
      BY <1>0 DEF RegInv
    <2> QED
      BY <2>1, <2>2 DEF Parents
  <1>4. parents'[e] = parents[e]
    BY <1>0, <1>1, <1>a, SoleKeepsParent
  <1>5. CASE ~Ready(i)
    <2>1. counter'[e] # counter[e]
      BY <1>0, <1>3, <1>5 DEF Ready
    <2>2. Eval(t) /\ pc'[t] = "signal" /\ obj[t] = e /\ obj'[t] = e
      BY <2>1, StepCounter DEF Inv
    <2>3. lockCond'[e] = t
      BY <2>2, StepOwners DEF Inv, Locked
    <2>4. slot'[t] = 1
      BY <2>2 DEF Eval, scan, Inv, CtlInv, CtlOK, Scanning
    <2>5. \A j \in 1..(slot'[t] - 1) : parents'[e][j] # u
      BY <2>4
    <2> QED
      BY <2>2, <2>3, <2>5
  <1>6. CASE Ready(i)
    <2>1. PICK w \in Threads : Tells(w, e, u)
      BY <1>0, <1>1, <1>2, <1>3, <1>6 DEF NoLostEvent, Due
    <2>2. CASE w # t
      <3>1. lockCond'[e] = w
        BY <1>0, <2>1, <2>2, StepOwners DEF Inv
      <3>2. pc'[w] = pc[w] /\ slot'[w] = slot[w] /\ target'[w] = target[w]
        BY <2>2, StepOthers DEF Inv, Others
      <3> QED
        BY <1>4, <2>1, <3>1, <3>2
    <2>3. CASE w = t
      <3>0. obj[t] = e /\ pc[t] \in {"signal", "signalParent"}
        BY <1>0, <2>1, <2>3 DEF Inv, LockInv
      <3>1. CASE UNCHANGED <<pc, slot, target>>
        <4>1. obj'[t] = e => lockCond'[e] = t
          BY <3>0, <3>1, StepOwners DEF Inv, Locked
        <4>2. obj'[t] = obj[t]
          BY <3>0, <3>1, StepObj DEF Inv
        <4> QED
          BY <1>4, <2>1, <2>3, <3>0, <3>1, <4>1, <4>2
      <3>2. CASE pc[t] = "signal" /\ Scan(t)
        <4>1. /\ lockCond' = lockCond
              /\ slot[t] \in 1..MaxParents
              /\ \A j \in 1..(slot[t] - 1) : parents[e][j] # u
          BY <2>1, <2>3, <3>2, PollConstants DEF Scan, locks, Inv, TypeOK, CallTypes
        <4>2. CASE parents[e][slot[t]] = None
          <5>1. pc'[t] = "signal" /\ slot'[t] = slot[t] + 1
            BY <3>0, <3>2, <4>2 DEF Scan, Inv, TypeOK, CallTypes
          <5>2. \A j \in 1..(slot'[t] - 1) : j \in 1..(slot[t] - 1) \/ j = slot[t]
            BY <4>1, <5>1
          <5>3. u # None
            BY PollConstants
          <5>4. \A j \in 1..(slot'[t] - 1) : parents'[e][j] # u
            BY <1>4, <4>1, <4>2, <5>2, <5>3
          <5> QED
            BY <2>1, <2>3, <4>1, <5>1, <5>4
        <4>3. CASE parents[e][slot[t]] # None
          <5>1. parents[e][slot[t]] \in Parents(e)
            BY <4>1, <4>3 DEF Parents
          <5>2. parents[e][slot[t]] = u
            BY <1>0, <1>a, <5>1 DEF SoleParent
          <5>3. pc'[t] = "signalParent" /\ target'[t] = u
            BY <3>0, <3>2, <4>3, <5>2 DEF Scan, Goto, Inv, TypeOK, CallTypes
          <5> QED
            BY <2>1, <2>3, <4>1, <5>3
        <4> QED
          BY <4>2, <4>3
      <3>3. CASE pc[t] = "signal" /\ ScanEnd(t)
        <4>1. \A j \in 1..MaxParents : j \in 1..(slot[t] - 1)
          BY <3>3, PollConstants DEF ScanEnd, Inv, TypeOK, CallTypes
        <4>2. u \notin Parents(e)
          BY <2>1, <2>3, <3>3, <4>1 DEF Parents
        <4> QED
          BY <1>a, <4>2
      <3>4. CASE pc[t] = "signalParent" /\ SignalParent(t)
        <4>1. target[t] = u
          BY <2>1, <2>3, <3>4
        <4>2. notified'[u]
          BY <1>1, <3>4, <4>1 DEF SignalParent, Inv, TypeOK, WaitTypes
        <4> QED
          BY <4>2
      <3> QED
        BY <3>0, <3>1, <3>2, <3>3, <3>4, TellerGoesOn DEF Inv
    <2> QED
      BY <2>2, <2>3
  <1> QED
    BY <1>5, <1>6

EventInv == RegInv /\ NoLostEvent

\* No event is lost between the test of a poll and its sleep, as long as no object
\* has two parents: one poller at a time, and no registration left behind.
THEOREM NoEventLost == Spec /\ []SoleParent => []NoLostEvent
  <1>1. Init => EventInv
    BY DEF Init, EventInv, RegInv, NoLostEvent
  <1>2. Inv /\ SoleParent /\ SoleParent' /\ EventInv /\ [Next]_vars => EventInv'
    <2> SUFFICES ASSUME Inv, SoleParent, SoleParent', EventInv, [Next]_vars PROVE EventInv'
      OBVIOUS
    <2>1. ASSUME NEW t \in Threads, Step(t) PROVE EventInv'
      <3>1. RegInv'
        BY <2>1, StepReg DEF EventInv, SoleParent
      <3> QED
        BY <2>1, <3>1, StepEvents DEF EventInv
    <2>2. CASE UNCHANGED vars
      BY <2>2 DEF EventInv, RegInv, NoLostEvent, Due, Parents, Ready, vars, table, locks,
         calls, scan, waits
    <2> QED
      BY <2>1, <2>2, NextIsStep
  <1>3. EventInv => NoLostEvent
    BY DEF EventInv
  <1> QED
    BY <1>1, <1>2, <1>3, Invariance, PTL DEF Spec

----------------------------------------------------------------------------
(* The order of the locks, when nobody polls the signalfd.                  *)

\* No program contains a poll of the signalfd; it may still be read and signalled.
NoSignalPoller ==
    \A t \in Threads : \A c \in May[t] :
       c[1] = "poll" => \A i \in c[2] : Names[i[1]] # SignalFd

\* The signalfd stays where it was opened (dup is of eventfds), and has no parents.
SigInv ==
    /\ \A f \in Fds : fds[f] = SignalFd => Names[f] = SignalFd
    /\ Parents(SignalFd) = {}

\* Which locks a thread has, by where it is, and that it tells no parent of the signalfd.
HoldOK(t) ==
    /\ fdsMutex = t =>
          op[t] = "kill" /\ pc[t] \in {"killLock", "signal", "signalParent", "notify"}
    /\ pendingSignalsMutex = t =>
          /\ op[t] = "kill"
          /\ pc[t] \in {"fdLock", "killLock", "signal", "signalParent", "notify"}
    /\ \A u \in Threads : pollCond[u] = t => u = t /\ pc[t] = "pollTest"
    /\ pc[t] \in {"signalParent", "echoParent"} =>
          target[t] \in Threads /\ obj[t] # SignalFd

HoldInv == \A t \in Threads : HoldOK(t)

\* The order: a thread that waits for a lock has only locks that come before it.
Rank(l) ==
    CASE l[1] = "pending" -> 1
      [] l[1] = "object" -> IF l[2] = SignalFd THEN 5 ELSE 2
      [] l[1] = "poll" -> 3
      [] l[1] = "fds" -> 4
      [] OTHER -> 0

LocksInOrder ==
    \A t \in Threads : Wants(t) # <<"none">> =>
       \A l \in Holds(t) : Rank(l) < Rank(Wants(t))

\* Nobody registers with the signalfd.
LEMMA StepSig ==
    ASSUME NoSignalPoller, Inv, SigInv, NEW t \in Threads, Step(t)
    PROVE  SigInv'
  <1>0. TypeOK /\ TableTypes /\ SignalFd \in Objects
    BY DEF Inv, TypeOK, Objects
  <1>1. CASE Register(t)
    <2>1. ASSUME NEW i \in polled[t], fds[i[1]] = SignalFd PROVE FALSE
      <3>1. op[t] = "poll" /\ i[1] \in Fds
        BY <1>1 DEF Register, Inv, CtlInv, CtlOK, Polling, TypeOK, CallTypes, Interests
      <3>2. PICK c \in May[t] : c[1] = "poll" /\ c[2] = polled[t]
        BY <3>1 DEF Inv, MayInv
      <3>3. Names[i[1]] # SignalFd
        BY <3>2 DEF NoSignalPoller
      <3> QED
        BY <2>1, <3>1, <3>3 DEF SigInv
    <2>2. SignalFd \notin Named(t)
      BY <2>1 DEF Named
    <2>3. fds' = fds /\ parents'[SignalFd] = parents[SignalFd]
      BY <1>0, <1>1, <2>2 DEF Register
    <2> QED
      BY <2>3 DEF SigInv, Parents
  <1>2. CASE Clear(t) \/ Gone(t)
    <2>1. /\ fds' = fds
          /\ \/ parents'[SignalFd] = parents[SignalFd]
             \/ parents'[SignalFd] = RemoveParent(SignalFd, t)
      BY <1>0, <1>2 DEF Clear, Gone
    <2>2. Parents(SignalFd)' \subseteq Parents(SignalFd)
      BY <1>0, <2>1, RemoveParentKeeps DEF Parents
    <2> QED
      BY <2>1, <2>2 DEF SigInv
  <1>3. CASE \E f \in Fds : Close(t, f)
    <2>1. PICK f \in Fds : Close(t, f)
      BY <1>3
    <2>2. fds' = [fds EXCEPT ![f] = None] /\ parents' = parents /\ SignalFd # None
      BY <2>1, PollConstants DEF Close, Objects
    <2> QED
      BY <1>0, <2>2 DEF SigInv, Parents, TableTypes
  <1>4. CASE DupAlloc(t)
    <2>1. obj[t] \in EventFds /\ obj[t] # SignalFd
      BY <1>4, PollConstants DEF DupAlloc, Inv, CtlInv, CtlOK
    <2>2. PICK f \in Fds : fds' = [fds EXCEPT ![f] = obj[t]]
      BY <1>4 DEF DupAlloc
    <2>3. parents' = parents
      BY <1>4 DEF DupAlloc
    <2> QED
      BY <1>0, <2>1, <2>2, <2>3 DEF SigInv, Parents, TableTypes
  <1>5. CASE UNCHANGED table
    BY <1>5 DEF table, SigInv, Parents
  <1> QED
    BY <1>1, <1>2, <1>3, <1>4, <1>5, StepTable DEF TableStep

\* A step gives locks to nobody but its thread.
NoGift(t) ==
    \A u \in Threads \ {t} :
       /\ fdsMutex' = u => fdsMutex = u
       /\ pendingSignalsMutex' = u => pendingSignalsMutex = u
       /\ \A v \in Threads : pollCond'[v] = u => pollCond[v] = u

\* Every step takes and releases locks as HoldOK says.
LEMMA StepHolds ==
    ASSUME Inv, SigInv, HoldInv, NEW t \in Threads, Step(t)
    PROVE  HoldOK(t)' /\ NoGift(t)
  <1>0. TypeOK /\ CtlOK(t) /\ HoldOK(t)
    BY DEF Inv, CtlInv, HoldInv
  <1> USE <1>0 DEF CtlOK, HoldOK, NoGift, Polling, Scanning
  <1>1. CASE PollCall(t)
    BY <1>1, PollConstants DEF PollCall, Goto, TypeOK, CallTypes, LockTypes, locks,
       calls, scan
  <1>2. CASE SigreadCall(t)
    BY <1>2, PollConstants DEF SigreadCall, Goto, TypeOK, CallTypes, LockTypes, locks,
       calls, scan
  <1>3. CASE Kill(t)
    BY <1>3, PollConstants DEF Kill, Goto, TypeOK, CallTypes, LockTypes, locks,
       calls, scan
  <1>4. CASE \E f \in Fds : EventCall(t, f)
    BY <1>4, PollConstants DEF EventCall, Goto, TypeOK, CallTypes, LockTypes, locks,
       calls, scan
  <1>5. CASE Register(t)
    BY <1>5, PollConstants DEF Register, Goto, TypeOK, CallTypes, LockTypes, locks,
       calls, scan
  <1>6. CASE PollLock(t)
    BY <1>6, PollConstants DEF PollLock, Goto, TypeOK, CallTypes, LockTypes, locks,
       calls, scan
  <1>7. CASE PollTest(t)
    BY <1>7, PollConstants DEF PollTest, Goto, TypeOK, CallTypes, LockTypes, locks,
       calls, scan
  <1>8. CASE PollWake(t)
    BY <1>8, PollConstants DEF PollWake, Goto, TypeOK, CallTypes, LockTypes, locks,
       calls, scan
  <1>9. CASE Clear(t)
    BY <1>9, PollConstants DEF Clear, Goto, TypeOK, CallTypes, LockTypes, locks,
       calls, scan
  <1>10. CASE Scan(t)
    <2>1. obj[t] \in Objects /\ slot[t] \in 1..MaxParents
      BY <1>10 DEF Scan, TypeOK, CallTypes
    <2>2. CASE parents[obj[t]][slot[t]] = None
      BY <1>10, <2>2 DEF Scan, TypeOK, CallTypes, LockTypes, locks, calls
    <2>3. CASE parents[obj[t]][slot[t]] # None
      <3> DEFINE p == parents[obj[t]][slot[t]]
      <3>1. p \in Parents(obj[t])
        BY <2>1, <2>3 DEF Parents
      <3>2. p \in Threads
        BY <2>1, <3>1, ParentsAreThreads DEF TypeOK
      <3>3. obj[t] # SignalFd
        BY <3>1 DEF SigInv
      <3>5. /\ target'[t] = p /\ obj'[t] = obj[t] /\ op'[t] = op[t]
            /\ UNCHANGED <<fdsMutex, pendingSignalsMutex, pollCond>>
            /\ pc'[t] = IF pc[t] = "signal" THEN "signalParent" ELSE "echoParent"
            /\ pc[t] \in {"signal", "echo"}
        BY <1>10, <2>3 DEF Scan, Goto, TypeOK, CallTypes, locks, calls
      <3> QED
        BY <3>2, <3>3, <3>5
    <2> QED
      BY <2>2, <2>3
  <1>11. CASE SignalParent(t)
    BY <1>11, PollConstants DEF SignalParent, Goto, TypeOK, CallTypes, LockTypes, locks,
       calls, scan
  <1>12. CASE ScanEnd(t)
    BY <1>12, PollConstants DEF ScanEnd, Goto, TypeOK, CallTypes, LockTypes, locks,
       calls, scan
  <1>13. CASE NotifyOne(t)
    BY <1>13, PollConstants DEF NotifyOne, Goto, TypeOK, CallTypes, LockTypes, locks,
       calls, scan
  <1>14. CASE Lock(t)
    BY <1>14, PollConstants DEF Lock, Goto, TypeOK, CallTypes, LockTypes, locks,
       calls, scan
  <1>15. CASE Eval(t)
    BY <1>15, PollConstants DEF Eval, Goto, TypeOK, CallTypes, LockTypes, locks,
       calls, scan
  <1>16. CASE Wake(t)
    BY <1>16, PollConstants DEF Wake, Goto, TypeOK, CallTypes, LockTypes, locks,
       calls, scan
  <1>17. CASE SigreadCheck(t)
    BY <1>17, PollConstants DEF SigreadCheck, Goto, TypeOK, CallTypes, LockTypes, locks,
       calls, scan
  <1>18. CASE SigreadLock(t)
    BY <1>18, PollConstants DEF SigreadLock, Goto, TypeOK, CallTypes, LockTypes, locks,
       calls, scan
  <1>19. CASE KillFds(t)
    BY <1>19, PollConstants DEF KillFds, Goto, TypeOK, CallTypes, LockTypes, locks,
       calls, scan
  <1>20. CASE KillSignal(t)
    BY <1>20, PollConstants DEF KillSignal, Goto, TypeOK, CallTypes, LockTypes, locks,
       calls, scan
  <1>21. CASE PollTimeout(t)
    BY <1>21, PollConstants DEF PollTimeout, Goto, TypeOK, CallTypes, LockTypes, locks,
       calls, scan
  <1>22. CASE Terminate(t)
    BY <1>22, PollConstants DEF Terminate, Goto, TypeOK, CallTypes, LockTypes, locks,
       calls, scan
  <1>23. CASE TerminateSignal(t)
    BY <1>23, PollConstants DEF TerminateSignal, Goto, TypeOK, CallTypes, LockTypes, locks,
       calls, scan
  <1>24. CASE SignalThread(t)
    BY <1>24, PollConstants DEF SignalThread, Goto, TypeOK, CallTypes, LockTypes, locks,
       calls, scan
  <1>25. CASE \E f \in Fds : Close(t, f)
    BY <1>25, PollConstants DEF Close, Goto, TypeOK, CallTypes, LockTypes, locks,
       calls, scan
  <1>26. CASE \E f \in Fds : DupCall(t, f)
    BY <1>26, PollConstants DEF DupCall, Goto, TypeOK, CallTypes, LockTypes, locks,
       calls, scan
  <1>27. CASE DupAlloc(t)
    BY <1>27, PollConstants DEF DupAlloc, Goto, TypeOK, CallTypes, LockTypes, locks,
       calls, scan
  <1>28. CASE Gone(t)
    BY <1>28, PollConstants DEF Gone, Goto, TypeOK, CallTypes, LockTypes, locks,
       calls, scan
  <1> QED
    BY <1>1, <1>2, <1>3, <1>4, <1>5, <1>6, <1>7, <1>8, <1>9, <1>10, <1>11, <1>12,
       <1>13, <1>14, <1>15, <1>16, <1>17, <1>18, <1>19, <1>20, <1>21, <1>22, <1>23,
       <1>24, <1>25, <1>26, <1>27, <1>28 DEF Step

\* The locks of the other threads stay where they are.
LEMMA StepHoldInv ==
    ASSUME Inv, SigInv, HoldInv, NEW t \in Threads, Step(t)
    PROVE  HoldInv'
  <1> SUFFICES ASSUME NEW u \in Threads \ {t} PROVE HoldOK(u)'
    BY StepHolds DEF HoldInv
  <1>1. pc'[u] = pc[u] /\ op'[u] = op[u] /\ obj'[u] = obj[u] /\ target'[u] = target[u]
    BY StepOthers DEF Inv, Others
  <1>2. NoGift(t) /\ HoldOK(u)
    BY StepHolds DEF HoldInv
  <1> QED
    BY <1>1, <1>2 DEF HoldOK, NoGift

\* What a thread holds, lock by lock.
LEMMA HeldLocks ==
    ASSUME Inv, HoldInv, NEW t \in Threads, NEW l \in Holds(t)
    PROVE  \/ /\ l = <<"fds">> /\ op[t] = "kill"
              /\ pc[t] \in {"killLock", "signal", "signalParent", "notify"}
           \/ /\ l = <<"pending">> /\ op[t] = "kill"
              /\ pc[t] \in {"fdLock", "killLock", "signal", "signalParent", "notify"}
           \/ \E o \in Objects : l = <<"object", o>> /\ obj[t] = o /\ pc[t] \in Locked
           \/ l = <<"poll", t>> /\ pc[t] = "pollTest"
  BY DEF Holds, Inv, LockInv, HoldInv, HoldOK

\* From where it is to what it waits for: up.
LEMMA HoldsAreOrdered ==
    ASSUME Inv, HoldInv
    PROVE  LocksInOrder
  <1> SUFFICES ASSUME NEW t \in Threads, Wants(t) # <<"none">>, NEW l \in Holds(t)
               PROVE  Rank(l) < Rank(Wants(t))
    BY DEF LocksInOrder
  <1>0. CtlOK(t) /\ HoldOK(t)
    BY DEF Inv, CtlInv, HoldInv
  <1>1. pc[t] \in {"signalParent", "echoParent"} =>
          /\ Wants(t) = <<"poll", target[t]>> /\ obj[t] # SignalFd /\ op[t] # "kill"
    BY <1>0 DEF Wants, CtlOK, HoldOK
  <1>2. /\ pc[t] = "fdLock" => Wants(t) = <<"fds">>
        /\ pc[t] = "pollTest" => Wants(t) = <<"fds">>
        /\ pc[t] = "killLock" => Wants(t) = <<"object", SignalFd>>
        /\ pc[t] \in {"signal", "notify", "eval", "echo"} => Wants(t) = <<"none">>
    BY <1>0 DEF Wants, CtlOK
  <1>3. /\ Rank(<<"fds">>) = 4 /\ Rank(<<"pending">>) = 1
        /\ Rank(<<"object", SignalFd>>) = 5
        /\ \A o : o # SignalFd => Rank(<<"object", o>>) = 2
        /\ \A u : Rank(<<"poll", u>>) = 3
    BY DEF Rank
  <1> QED
    BY <1>1, <1>2, <1>3, HeldLocks DEF Locked

\* The locks of poll, of the objects and of signalFd are taken in one order, in a
\* program in which nobody polls the signalfd: no number of threads can wait for
\* each other in a ring.
THEOREM LocksAreOrdered ==
    ASSUME NoSignalPoller
    PROVE  Spec => []LocksInOrder
  <1>1. Init => HoldInv /\ SigInv
    BY PollConstants DEF Init, HoldInv, HoldOK, SigInv, Parents, Objects
  <1>2. Inv /\ HoldInv /\ SigInv /\ [Next]_vars => HoldInv' /\ SigInv'
    <2>1. ASSUME Inv, HoldInv, SigInv, UNCHANGED vars PROVE HoldInv' /\ SigInv'
      BY <2>1 DEF HoldInv, HoldOK, SigInv, Parents, vars, table, locks, calls, scan
    <2> QED
      BY <2>1, NextIsStep, StepHoldInv, StepSig
  <1>3. Inv /\ HoldInv => LocksInOrder
    BY HoldsAreOrdered
  <1> QED
    BY <1>1, <1>2, <1>3, Invariance, PTL DEF Spec

\* No two threads each hold what the other waits for, and none waits for itself.
THEOREM LocksHaveNoCycle ==
    ASSUME NoSignalPoller
    PROVE  Spec => []NoLockCycle
  <1>1. ASSUME LocksInOrder, NEW t \in Threads, NEW u \in Threads,
               Wants(t) \in Holds(u), Wants(u) \in Holds(t)
        PROVE  FALSE
    <2>1. Wants(t) # <<"none">> /\ Wants(u) # <<"none">>
      BY <1>1 DEF Holds
    <2>2. Rank(Wants(t)) < Rank(Wants(u)) /\ Rank(Wants(u)) < Rank(Wants(t))
      BY <1>1, <2>1 DEF LocksInOrder
    <2>3. \A l : Rank(l) \in Nat
      BY DEF Rank
    <2> QED
      BY <2>2, <2>3
  <1>2. LocksInOrder => NoLockCycle
    BY <1>1 DEF NoLockCycle
  <1> QED
    BY <1>2, LocksAreOrdered, PTL
=============================================================================
