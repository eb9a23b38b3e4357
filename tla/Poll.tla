-------------------------------- MODULE Poll --------------------------------
(***************************************************************************)
(* poll, select and epoll_wait over eventfds and a signalfd of one process:  *)
(* internal_poll (kpoll.cpp), the conditions with parent conditions          *)
(* (util/synchronization.cpp), KEvent (kevent.cpp), KSignal (ksignal.cpp),   *)
(* the end of KProcess::signal with signalFd, close and dup (kprocess.cpp),  *)
(* and terminateOtherThread.                                                 *)
(*                                                                         *)
(* A poller registers its own condition, pollCond, as a parent of the        *)
(* conditions of the objects it polls; whoever signals an object passes the  *)
(* event on to a parent, with the object's lock held and the parent's taken. *)
(* The locks are therefore state: fdsMutex of the process, lockCond of each  *)
(* object, pollCond of each thread, pendingSignalsMutex.  A step that needs  *)
(* a lock and releases it again, with no other lock taken inside, is one     *)
(* step that is enabled when the lock is free.                               *)
(*                                                                         *)
(* A poll names descriptors and looks each one up three times: to register,  *)
(* to test and to clear.  Other threads close and dup in between, so that    *)
(* the three may find different objects, or none.                            *)
(***************************************************************************)
EXTENDS Naturals, FiniteSets

CONSTANTS
    Threads,
    EventFds,    \* eventfds of the process
    SignalFd,    \* its signalfd, whose mask holds the signal that is sent
    MaxFd,       \* the largest descriptor
    Names,       \* [Fds -> Objects \cup {None}]: the descriptors at the start
    MaxParents,  \* MAX_PARENTS of synchronization.h
    MaxCount,    \* stands for UINT64_MAX - 1
    Semaphores,  \* eventfds made with EFD_SEMAPHORE
    Nonblocking, \* objects with O_NONBLOCK
    May,         \* [Threads -> SUBSET Calls]
    None         \* nullptr, a closed descriptor, and the owner of a free lock

Objects == EventFds \cup {SignalFd}

Fds == 0..MaxFd

Interests == Fds \X {"in", "out"}

\* <<"poll", interests, timeout>>, a call on a descriptor, a signal that is sent,
\* or a disturbance.
Calls ==
    ({"poll"} \X (SUBSET Interests) \X {"zero", "finite", "forever"})
       \cup ({"read", "write", "sigread", "close", "dup"} \X Fds)
       \cup {<<"kill">>, <<"end">>, <<"signal">>}

ASSUME PollConstants ==
    /\ SignalFd \notin EventFds
    /\ MaxParents \in Nat \ {0} /\ MaxCount \in Nat \ {0} /\ MaxFd \in Nat
    /\ Names \in [Fds -> Objects \cup {None}]
    /\ Semaphores \subseteq EventFds /\ Nonblocking \subseteq Objects
    /\ \A t \in Threads : May[t] \subseteq Calls
    /\ Threads \cap Objects = {} /\ None \notin Threads \cup Objects

VARIABLES
    counter,             \* [EventFds -> Nat]
    pending,             \* the signal is in the process's pendingSignals
    fds,                 \* [Fds -> Objects \cup {None}], the descriptor table
    parents,             \* [Objects -> [1..MaxParents -> Threads \cup {None}]]
    nval,                \* the descriptors of its poll that were closed (POLLNVAL)
    found,               \* history: <<f, o>> when its poll registered with o through
                         \* f, and f has not been closed since
    loose,               \* history: the objects with which it registered through a
                         \* descriptor that was closed before it was cleared
    fdsMutex,            \* the thread that holds it
    pendingSignalsMutex, \* likewise, as far as it is held over other steps
    lockCond,            \* [Objects -> Threads \cup {None}]
    pollCond,            \* [Threads -> Threads \cup {None}]
    pc,
    op,                  \* the call a thread is in
    obj,                 \* the object it works on (SignalFd when it has none)
    polled,              \* the interests of its poll
    timeout,             \* "zero", "finite" or "forever"; "zero" when expired
    complete,            \* the local of internal_poll
    slot,                \* the loop variable of signal and of wait
    target,              \* the parent the loop found and is about to lock
    notified,            \* the condition it waits on has been signalled
    startSignal,
    terminating,
    killCond,            \* the condition terminateOtherThread found and will signal:
                         \* an object's, or the thread itself for its pollCond
    panicked             \* kpanic

locks == <<fdsMutex, pendingSignalsMutex, lockCond, pollCond>>
calls == <<op, obj, polled, timeout, complete>>
scan == <<slot, target>>
waits == <<notified, startSignal, terminating, killCond>>
table == <<fds, parents, nval, found, loose>>
vars == <<counter, pending, table, locks, pc, calls, scan, waits, panicked>>

PC == {"idle", "register", "pollLock", "pollTest", "pollParked", "clear",
       "lock", "eval", "signal", "signalParent", "notify", "parked", "echo",
       "echoParent", "fdLock", "killLock", "check", "sigLock", "alloc"}

ObjectTypes ==
    /\ counter \in [EventFds -> 0..MaxCount]
    /\ pending \in BOOLEAN
    /\ panicked \in BOOLEAN

TableTypes ==
    /\ fds \in [Fds -> Objects \cup {None}]
    /\ parents \in [Objects -> [1..MaxParents -> Threads \cup {None}]]
    /\ nval \in [Threads -> SUBSET Fds]
    /\ found \in [Threads -> SUBSET (Fds \X Objects)]
    /\ loose \in [Threads -> SUBSET Objects]

LockTypes ==
    /\ fdsMutex \in Threads \cup {None}
    /\ pendingSignalsMutex \in Threads \cup {None}
    /\ lockCond \in [Objects -> Threads \cup {None}]
    /\ pollCond \in [Threads -> Threads \cup {None}]

CallTypes ==
    /\ pc \in [Threads -> PC]
    /\ op \in [Threads -> {"none", "poll", "read", "write", "sigread", "kill", "dup"}]
    /\ obj \in [Threads -> Objects]
    /\ polled \in [Threads -> SUBSET Interests]
    /\ timeout \in [Threads -> {"zero", "finite", "forever"}]
    /\ complete \in [Threads -> BOOLEAN]
    /\ slot \in [Threads -> 1..(MaxParents + 1)]
    /\ target \in [Threads -> Threads \cup {None}]

WaitTypes ==
    /\ notified \in [Threads -> BOOLEAN]
    /\ startSignal \in [Threads -> BOOLEAN]
    /\ terminating \in [Threads -> BOOLEAN]
    /\ killCond \in [Threads -> Threads \cup Objects \cup {None}]

TypeOK == ObjectTypes /\ TableTypes /\ LockTypes /\ CallTypes /\ WaitTypes

Init ==
    /\ counter = [e \in EventFds |-> 0]
    /\ pending = FALSE
    /\ fds = Names
    /\ nval = [t \in Threads |-> {}]
    /\ found = [t \in Threads |-> {}]
    /\ loose = [t \in Threads |-> {}]
    /\ parents = [o \in Objects |-> [i \in 1..MaxParents |-> None]]
    /\ fdsMutex = None /\ pendingSignalsMutex = None
    /\ lockCond = [o \in Objects |-> None]
    /\ pollCond = [t \in Threads |-> None]
    /\ pc = [t \in Threads |-> "idle"]
    /\ op = [t \in Threads |-> "none"]
    /\ obj = [t \in Threads |-> SignalFd]
    /\ polled = [t \in Threads |-> {}]
    /\ timeout = [t \in Threads |-> "zero"]
    /\ complete = [t \in Threads |-> FALSE]
    /\ slot = [t \in Threads |-> 1]
    /\ target = [t \in Threads |-> None]
    /\ notified = [t \in Threads |-> FALSE]
    /\ startSignal = [t \in Threads |-> FALSE]
    /\ terminating = [t \in Threads |-> FALSE]
    /\ killCond = [t \in Threads |-> None]
    /\ panicked = FALSE

Goto(t, next) == pc' = [pc EXCEPT ![t] = next]

\* The objects that the descriptors of t's poll name at this moment.
Named(t) == {fds[i[1]] : i \in polled[t]} \ {None}

----------------------------------------------------------------------------
(* Parent conditions.                                                      *)

Parents(o) == {parents[o][i] : i \in 1..MaxParents} \ {None}

FirstFree(o) ==
    CHOOSE i \in 1..MaxParents :
       parents[o][i] = None /\ \A j \in 1..(i - 1) : parents[o][j] # None

Full(o, t) == t \notin Parents(o) /\ \A i \in 1..MaxParents : parents[o][i] # None

\* addParentCondition
AddParent(o, t) ==
    IF t \in Parents(o) \/ Full(o, t) THEN parents[o]
    ELSE [parents[o] EXCEPT ![FirstFree(o)] = t]

\* removeParentCondition
RemoveParent(o, t) ==
    [i \in 1..MaxParents |-> IF parents[o][i] = t THEN None ELSE parents[o][i]]

----------------------------------------------------------------------------
(* internal_poll.                                                          *)

\* isReadReady and isWriteReady of the object that is found now, read without its
\* lock.  (isWriteReady of a signalfd is a kpanic.)
Ready(i) ==
    LET o == fds[i[1]] IN
    CASE o \in EventFds -> IF i[2] = "in" THEN counter[o] > 0 ELSE counter[o] < MaxCount
      [] o = SignalFd -> i[2] = "in" /\ pending
      [] OTHER -> FALSE

PollCall(t) ==
    /\ pc[t] = "idle" /\ ~terminating[t]
    /\ \E c \in May[t] :
          /\ c[1] = "poll"
          /\ polled' = [polled EXCEPT ![t] = c[2]]
          /\ timeout' = [timeout EXCEPT ![t] = c[3]]
    /\ op' = [op EXCEPT ![t] = "poll"]
    /\ Goto(t, "register")
    /\ UNCHANGED <<counter, pending, table, locks, obj, complete, scan, waits, panicked>>

\* Seeded fault: the registration is made with every object of the process.
FaultRegisterAll(t) ==
    /\ pc[t] = "register" /\ fdsMutex = None
    /\ parents' = [o \in Objects |-> AddParent(o, t)]
    /\ panicked' = (panicked \/ \E o \in Objects : Full(o, t))
    /\ nval' = [nval EXCEPT ![t] = {}]
    /\ found' = [found EXCEPT ![t] = {i \in Fds \X Objects : fds[i[1]] = i[2]}]
    /\ loose' = [loose EXCEPT ![t] = {}]
    /\ Goto(t, "pollLock")
    /\ UNCHANGED <<counter, pending, fds, locks, calls, scan, waits>>

\* Seeded fault: the loop does not advance, only the first descriptor is registered.
FaultRegisterFirst(t) ==
    LET first == {fds[i[1]] : i \in {j \in polled[t] : \A k \in polled[t] : j[1] <= k[1]}} IN
    /\ pc[t] = "register" /\ fdsMutex = None
    /\ parents' = [o \in Objects |-> IF o \in first THEN AddParent(o, t) ELSE parents[o]]
    /\ panicked' = (panicked \/ \E o \in first : o # None /\ Full(o, t))
    /\ nval' = [nval EXCEPT ![t] = {}]
    /\ found' = [found EXCEPT ![t] = {<<i[1], fds[i[1]]>> :
                                         i \in {j \in polled[t] : fds[j[1]] # None}}]
    /\ loose' = [loose EXCEPT ![t] = @ \ Named(t)]
    /\ Goto(t, "pollLock")
    /\ UNCHANGED <<counter, pending, fds, locks, calls, scan, waits>>

\* waitForEvents of every object that the descriptors name, under fdsMutex; a
\* descriptor that is closed gets POLLNVAL.  kpanic when an object has no slot,
\* and when a signalfd is to be polled for output.
Register(t) ==
    /\ pc[t] = "register" /\ fdsMutex = None
    /\ parents' = [o \in Objects |->
                     IF o \in Named(t) THEN AddParent(o, t) ELSE parents[o]]
    /\ panicked' = \/ panicked
                    \/ \E o \in Named(t) : Full(o, t)
                    \/ \E i \in polled[t] : i[2] = "out" /\ fds[i[1]] = SignalFd
    /\ nval' = [nval EXCEPT ![t] = {f \in Fds : fds[f] = None /\ \E i \in polled[t] : i[1] = f}]
    /\ found' = [found EXCEPT ![t] = {<<i[1], fds[i[1]]>> :
                                         i \in {j \in polled[t] : fds[j[1]] # None}}]
    /\ loose' = [loose EXCEPT ![t] = @ \ Named(t)]
    /\ Goto(t, "pollLock")
    /\ UNCHANGED <<counter, pending, fds, locks, calls, scan, waits>>

PollLock(t) ==
    /\ pc[t] = "pollLock" /\ pollCond[t] = None
    /\ pollCond' = [pollCond EXCEPT ![t] = t]
    /\ Goto(t, "pollTest")
    /\ UNCHANGED <<counter, pending, table, fdsMutex, pendingSignalsMutex, lockCond,
                   calls, scan, waits, panicked>>

\* With pollCond held, fdsMutex is taken for the test, in which POLLNVAL counts
\* if the descriptor has been opened again since; then the call is complete, or
\* the thread sleeps on pollCond.  A wait that begins after the thread was
\* terminated returns at once.
PollTest(t) ==
    LET done == \/ timeout[t] = "zero"
                \/ \E i \in polled[t] :
                      fds[i[1]] # None /\ (Ready(i) \/ i[1] \in nval[t])
    IN
    /\ pc[t] = "pollTest" /\ fdsMutex = None
    /\ complete' = [complete EXCEPT ![t] = done]
    /\ pollCond' = [pollCond EXCEPT ![t] = None]
    /\ Goto(t, IF done \/ terminating[t] THEN "clear" ELSE "pollParked")
    /\ UNCHANGED <<counter, pending, table, fdsMutex, pendingSignalsMutex, lockCond,
                   op, obj, polled, timeout, scan, waits, panicked>>

PollWake(t) ==
    /\ pc[t] = "pollParked" /\ notified[t] /\ pollCond[t] = None
    /\ notified' = [notified EXCEPT ![t] = FALSE]
    /\ Goto(t, "clear")
    /\ UNCHANGED <<counter, pending, table, locks, calls, scan, startSignal, terminating,
                   killCond, panicked>>

\* The time is up: the next turn finds diff >= timeout.
PollTimeout(t) ==
    /\ pc[t] = "pollParked" /\ timeout[t] = "finite" /\ pollCond[t] = None
    /\ timeout' = [timeout EXCEPT ![t] = "zero"]
    /\ notified' = [notified EXCEPT ![t] = FALSE]
    /\ Goto(t, "clear")
    /\ UNCHANGED <<counter, pending, table, locks, op, obj, polled, complete, scan,
                   startSignal, terminating, killCond, panicked>>

\* Seeded fault: only a poll that found something clears its registrations.
FaultClearComplete(t) ==
    LET leave == complete[t] \/ terminating[t] \/ startSignal[t] IN
    /\ pc[t] = "clear" /\ fdsMutex = None
    /\ parents' = [o \in Objects |->
                     IF complete[t] /\ o \in Named(t) THEN RemoveParent(o, t) ELSE parents[o]]
    /\ loose' = [loose EXCEPT ![t] = IF complete[t] THEN @ \ Named(t) ELSE @]
    /\ nval' = [nval EXCEPT ![t] = {}]
    /\ found' = [found EXCEPT ![t] = {}]
    /\ complete' = [complete EXCEPT ![t] = FALSE]
    /\ startSignal' = [startSignal EXCEPT ![t] = @ /\ (complete[t] \/ terminating[t])]
    /\ IF leave THEN /\ op' = [op EXCEPT ![t] = "none"]
                     /\ polled' = [polled EXCEPT ![t] = {}]
                     /\ timeout' = [timeout EXCEPT ![t] = "zero"]
                     /\ Goto(t, "idle")
                ELSE /\ Goto(t, "register")
                     /\ UNCHANGED <<op, polled, timeout>>
    /\ UNCHANGED <<counter, pending, fds, locks, obj, scan, notified, terminating,
                   killCond, panicked>>

\* clearPollData looks every descriptor up again and takes the thread off the
\* object it finds, if any; then: the result, EINTR, another turn, or the
\* handler, after which the call is made again or ends with EINTR (`interrupted`).
Clear(t) ==
    LET leave == complete[t] \/ terminating[t] \/ startSignal[t] IN
    /\ pc[t] = "clear" /\ fdsMutex = None
    /\ parents' = [o \in Objects |->
                     IF o \in Named(t) THEN RemoveParent(o, t) ELSE parents[o]]
    /\ loose' = [loose EXCEPT ![t] = @ \ Named(t)]
    /\ nval' = [nval EXCEPT ![t] = {}]
    /\ found' = [found EXCEPT ![t] = {}]
    /\ complete' = [complete EXCEPT ![t] = FALSE]
    /\ startSignal' = [startSignal EXCEPT ![t] = @ /\ (complete[t] \/ terminating[t])]
    /\ IF leave THEN /\ op' = [op EXCEPT ![t] = "none"]
                     /\ polled' = [polled EXCEPT ![t] = {}]
                     /\ timeout' = [timeout EXCEPT ![t] = "zero"]
                     /\ Goto(t, "idle")
                ELSE /\ Goto(t, "register")
                     /\ UNCHANGED <<op, polled, timeout>>
    /\ UNCHANGED <<counter, pending, fds, locks, obj, scan, notified, terminating,
                   killCond, panicked>>

----------------------------------------------------------------------------
(* signal() and the rest of wait(), by a thread that holds the object's lock: *)
(* signal passes the event on to the first parent it finds, wait to all.     *)

\* One slot is read; the parent found may be gone when it is locked.
Scan(t) ==
    /\ pc[t] \in {"signal", "echo"} /\ slot[t] <= MaxParents
    /\ LET p == parents[obj[t]][slot[t]] IN
       IF p = None
       THEN /\ slot' = [slot EXCEPT ![t] = @ + 1]
            /\ UNCHANGED <<pc, target>>
       ELSE /\ target' = [target EXCEPT ![t] = p]
            /\ Goto(t, IF pc[t] = "signal" THEN "signalParent" ELSE "echoParent")
            /\ UNCHANGED slot
    /\ UNCHANGED <<counter, pending, table, locks, calls, waits, panicked>>

\* The parent is locked, signalled and unlocked.
SignalParent(t) ==
    /\ pc[t] \in {"signalParent", "echoParent"} /\ pollCond[target[t]] = None
    /\ notified' = [notified EXCEPT ![target[t]] = @ \/ pc[target[t]] = "pollParked"]
    /\ target' = [target EXCEPT ![t] = None]
    /\ slot' = [slot EXCEPT ![t] = IF pc[t] = "signalParent" THEN 1 ELSE @ + 1]
    /\ Goto(t, IF pc[t] = "signalParent" THEN "notify" ELSE "echo")
    /\ UNCHANGED <<counter, pending, table, locks, calls, startSignal, terminating,
                   killCond, panicked>>

\* No parent (left).  KEvent goes on with its loop; KSignal releases its lock
\* and looks at terminating and startSignal.
ScanEnd(t) ==
    LET sig == pc[t] = "echo" /\ op[t] = "sigread"
        leave == sig /\ (terminating[t] \/ startSignal[t])
    IN
    /\ pc[t] \in {"signal", "echo"} /\ slot[t] > MaxParents
    /\ slot' = [slot EXCEPT ![t] = 1]
    /\ Goto(t, IF pc[t] = "signal" THEN "notify"
               ELSE IF ~sig THEN "eval"
               ELSE IF leave THEN "idle" ELSE "check")
    /\ lockCond' = [lockCond EXCEPT ![obj[t]] = IF sig THEN None ELSE @]
    /\ op' = [op EXCEPT ![t] = IF leave THEN "none" ELSE @]
    /\ startSignal' = [startSignal EXCEPT ![t] = @ /\ (~sig \/ terminating[t])]
    /\ UNCHANGED <<counter, pending, table, fdsMutex, pendingSignalsMutex, pollCond, obj,
                   polled, timeout, complete, target, notified, terminating, killCond,
                   panicked>>

ParkedOn(o) == {u \in Threads : pc[u] = "parked" /\ obj[u] = o}

\* notify_one, and the locks are released: KEvent's, or the three of signalFd.
NotifyOne(t) ==
    /\ pc[t] = "notify"
    /\ \/ /\ \A u \in ParkedOn(obj[t]) : notified[u]
          /\ UNCHANGED notified
       \/ \E u \in ParkedOn(obj[t]) :
             /\ ~notified[u]
             /\ notified' = [notified EXCEPT ![u] = TRUE]
    /\ lockCond' = [lockCond EXCEPT ![obj[t]] = None]
    /\ fdsMutex' = IF op[t] = "kill" THEN None ELSE fdsMutex
    /\ pendingSignalsMutex' = IF op[t] = "kill" THEN None ELSE pendingSignalsMutex
    /\ op' = [op EXCEPT ![t] = "none"]
    /\ obj' = [obj EXCEPT ![t] = SignalFd]
    /\ Goto(t, "idle")
    /\ UNCHANGED <<counter, pending, table, pollCond, polled, timeout, complete,
                   scan, startSignal, terminating, killCond, panicked>>

----------------------------------------------------------------------------
(* KEvent::readNative and writeNative.                                      *)

EventCall(t, f) ==
    /\ pc[t] = "idle" /\ ~terminating[t] /\ fdsMutex = None /\ fds[f] \in EventFds
    /\ \E kind \in {"read", "write"} :
          /\ <<kind, f>> \in May[t]
          /\ op' = [op EXCEPT ![t] = kind]
    /\ obj' = [obj EXCEPT ![t] = fds[f]]
    /\ Goto(t, "lock")
    /\ UNCHANGED <<counter, pending, table, locks, polled, timeout, complete, scan, waits,
                   panicked>>

Lock(t) ==
    /\ pc[t] = "lock" /\ lockCond[obj[t]] = None
    /\ lockCond' = [lockCond EXCEPT ![obj[t]] = t]
    /\ Goto(t, "eval")
    /\ UNCHANGED <<counter, pending, table, fdsMutex, pendingSignalsMutex, pollCond,
                   calls, scan, waits, panicked>>

CanMove(t) ==
    IF op[t] = "read" THEN counter[obj[t]] > 0 ELSE counter[obj[t]] < MaxCount

\* With the lock: the counter moves, or EAGAIN, or the thread sleeps.  The
\* loop does not look at `terminating`: the wait of a terminated thread returns
\* at once and the loop goes round for ever with the lock held.
Eval(t) ==
    LET e == obj[t] IN
    /\ pc[t] = "eval"
    /\ \/ /\ CanMove(t)
          /\ counter' = [counter EXCEPT ![e] =
                IF op[t] = "write" THEN @ + 1 ELSE IF e \in Semaphores THEN @ - 1 ELSE 0]
          /\ Goto(t, "signal")
          /\ UNCHANGED <<lockCond, op, obj>>
       \/ /\ ~CanMove(t) /\ e \in Nonblocking
          /\ lockCond' = [lockCond EXCEPT ![e] = None]
          /\ op' = [op EXCEPT ![t] = "none"]
          /\ obj' = [obj EXCEPT ![t] = SignalFd]
          /\ Goto(t, "idle")
          /\ UNCHANGED counter
       \/ /\ ~CanMove(t) /\ e \notin Nonblocking /\ ~terminating[t]
          /\ lockCond' = [lockCond EXCEPT ![e] = None]
          /\ Goto(t, "parked")
          /\ UNCHANGED <<counter, op, obj>>
    /\ UNCHANGED <<pending, table, fdsMutex, pendingSignalsMutex, pollCond, polled, timeout,
                    complete, scan, waits, panicked>>

\* The wait returns with the lock, and passes the event on to every parent.
Wake(t) ==
    /\ pc[t] = "parked" /\ notified[t] /\ lockCond[obj[t]] = None
    /\ notified' = [notified EXCEPT ![t] = FALSE]
    /\ lockCond' = [lockCond EXCEPT ![obj[t]] = t]
    /\ Goto(t, "echo")
    /\ UNCHANGED <<counter, pending, table, fdsMutex, pendingSignalsMutex, pollCond,
                   calls, scan, startSignal, terminating, killCond, panicked>>

----------------------------------------------------------------------------
(* KSignal::readNative, and the end of KProcess::signal.                    *)

SigreadCall(t) ==
    /\ pc[t] = "idle" /\ ~terminating[t] /\ fdsMutex = None
    /\ \E f \in Fds : fds[f] = SignalFd /\ <<"sigread", f>> \in May[t]
    /\ op' = [op EXCEPT ![t] = "sigread"]
    /\ obj' = [obj EXCEPT ![t] = SignalFd]
    /\ Goto(t, "check")
    /\ UNCHANGED <<counter, pending, table, locks, polled, timeout, complete, scan, waits,
                   panicked>>

\* The pending set is looked at under its own mutex, before lockCond.
SigreadCheck(t) ==
    LET return == pending \/ SignalFd \in Nonblocking IN
    /\ pc[t] = "check" /\ pendingSignalsMutex = None
    /\ pending' = FALSE
    /\ Goto(t, IF return THEN "idle" ELSE "sigLock")
    /\ op' = [op EXCEPT ![t] = IF return THEN "none" ELSE @]
    /\ UNCHANGED <<counter, table, locks, obj, polled, timeout, complete, scan, waits,
                   panicked>>

SigreadLock(t) ==
    /\ pc[t] = "sigLock" /\ lockCond[SignalFd] = None
    /\ Goto(t, IF terminating[t] THEN "idle" ELSE "parked")
    /\ op' = [op EXCEPT ![t] = IF terminating[t] THEN "none" ELSE @]
    /\ UNCHANGED <<counter, pending, table, locks, obj, polled, timeout, complete, scan,
                   waits, panicked>>

\* No thread takes the signal: it becomes pending, and with that mutex held ...
Kill(t) ==
    /\ pc[t] = "idle" /\ ~terminating[t] /\ <<"kill">> \in May[t]
    /\ pendingSignalsMutex = None
    /\ pendingSignalsMutex' = t
    /\ pending' = TRUE
    /\ op' = [op EXCEPT ![t] = "kill"]
    /\ obj' = [obj EXCEPT ![t] = SignalFd]
    /\ Goto(t, "fdLock")
    /\ UNCHANGED <<counter, table, fdsMutex, lockCond, pollCond, polled, timeout, complete,
                   scan, waits, panicked>>

\* ... signalFd takes fdsMutex and looks for the signalfd in the table ...
KillFds(t) ==
    LET there == \E f \in Fds : fds[f] = SignalFd IN
    /\ pc[t] = "fdLock" /\ fdsMutex = None
    /\ fdsMutex' = IF there THEN t ELSE None
    /\ pendingSignalsMutex' = IF there THEN t ELSE None
    /\ op' = [op EXCEPT ![t] = IF there THEN @ ELSE "none"]
    /\ Goto(t, IF there THEN "killLock" ELSE "idle")
    /\ UNCHANGED <<counter, pending, table, lockCond, pollCond, obj, polled, timeout,
                   complete, scan, waits, panicked>>

\* ... and signals it under its lock.
KillSignal(t) ==
    /\ pc[t] = "killLock" /\ lockCond[SignalFd] = None
    /\ lockCond' = [lockCond EXCEPT ![SignalFd] = t]
    /\ Goto(t, "signal")
    /\ UNCHANGED <<counter, pending, table, fdsMutex, pendingSignalsMutex, pollCond, calls,
                   scan, waits, panicked>>

----------------------------------------------------------------------------
(* The descriptor table.                                                   *)

\* KProcess::close.  The polls that registered through f are noted.
Close(t, f) ==
    /\ pc[t] = "idle" /\ ~terminating[t] /\ <<"close", f>> \in May[t]
    /\ fdsMutex = None /\ fds[f] # None
    /\ fds' = [fds EXCEPT ![f] = None]
    /\ found' = [u \in Threads |-> {i \in found[u] : i[1] # f}]
    /\ loose' = [u \in Threads |-> loose[u] \cup {i[2] : i \in {j \in found[u] : j[1] = f}}]
    /\ UNCHANGED <<counter, pending, parents, nval, locks, pc, calls, scan, waits, panicked>>

\* KProcess::dup of an eventfd: it is looked up, and in another critical section
\* gets the lowest descriptor that is free.
DupCall(t, f) ==
    /\ pc[t] = "idle" /\ ~terminating[t] /\ <<"dup", f>> \in May[t]
    /\ fdsMutex = None /\ fds[f] \in EventFds
    /\ op' = [op EXCEPT ![t] = "dup"]
    /\ obj' = [obj EXCEPT ![t] = fds[f]]
    /\ Goto(t, "alloc")
    /\ UNCHANGED <<counter, pending, table, locks, polled, timeout, complete, scan, waits,
                   panicked>>

DupAlloc(t) ==
    /\ pc[t] = "alloc" /\ fdsMutex = None
    /\ \E f \in Fds :
          /\ fds[f] = None /\ \A g \in 0..(f - 1) : fds[g] # None
          /\ fds' = [fds EXCEPT ![f] = obj[t]]
    /\ op' = [op EXCEPT ![t] = "none"]
    /\ obj' = [obj EXCEPT ![t] = SignalFd]
    /\ Goto(t, "idle")
    /\ UNCHANGED <<counter, pending, parents, nval, found, loose, locks, polled, timeout,
                   complete, scan, waits, panicked>>

\* The thread object is gone and its pollCond with it: parents has weak pointers.
Gone(t) ==
    /\ pc[t] = "idle" /\ terminating[t] /\ loose[t] # {}
    /\ parents' = [o \in Objects |-> RemoveParent(o, t)]
    /\ loose' = [loose EXCEPT ![t] = {}]
    /\ UNCHANGED <<counter, pending, fds, nval, found, locks, pc, calls, scan, waits,
                   panicked>>

----------------------------------------------------------------------------
(* What disturbs a sleeping thread.                                        *)

Waiting(t) == pc[t] \in {"pollParked", "parked"}

\* terminateOtherThread: the flag, and whether there is a condition to signal.
Terminate(t) ==
    /\ <<"end">> \in May[t] /\ ~terminating[t]
    /\ terminating' = [terminating EXCEPT ![t] = TRUE]
    /\ killCond' = [killCond EXCEPT ![t] =
                      IF pc[t] = "pollParked" THEN t
                      ELSE IF pc[t] = "parked" THEN obj[t] ELSE None]
    /\ UNCHANGED <<counter, pending, table, locks, pc, calls, scan, notified, startSignal,
                   panicked>>

\* Seeded fault: the flag is set and the sleeper is left asleep.
FaultTerminateSilent(t) ==
    /\ killCond[t] # None
    /\ killCond' = [killCond EXCEPT ![t] = None]
    /\ UNCHANGED <<counter, pending, table, locks, pc, calls, scan, notified, startSignal,
                   terminating, panicked>>

\* signalAll of that condition: of a pollCond, which has no parents, or of an
\* object's lockCond and, one by one, of all its parents.  (The thread that
\* does this is not one of Threads: its locks are taken in one step.)
TerminateSignal(t) ==
    LET o == killCond[t]
        all == IF o \in Objects THEN ParkedOn(o) \cup Parents(o) ELSE {t}
    IN
    /\ o # None
    /\ o \in Objects => lockCond[o] = None /\ \A p \in Parents(o) : pollCond[p] = None
    /\ o \notin Objects => pollCond[t] = None
    /\ killCond' = [killCond EXCEPT ![t] = None]
    /\ notified' = [u \in Threads |->
          notified[u] \/ (u \in ParkedOn(o)) \/ (u \in all /\ pc[u] = "pollParked")]
    /\ UNCHANGED <<counter, pending, table, locks, pc, calls, scan, startSignal,
                   terminating, panicked>>

\* KThread::signal for a handler of a thread that sleeps in poll.
SignalThread(t) ==
    /\ pc[t] = "pollParked" /\ pollCond[t] = None /\ ~startSignal[t]
    /\ <<"signal">> \in May[t]
    /\ startSignal' = [startSignal EXCEPT ![t] = TRUE]
    /\ notified' = [notified EXCEPT ![t] = TRUE]
    /\ UNCHANGED <<counter, pending, table, locks, pc, calls, scan, terminating, killCond,
                   panicked>>

----------------------------------------------------------------------------
Continue(t) ==
    \/ Register(t) \/ PollLock(t) \/ PollTest(t) \/ PollWake(t) \/ Clear(t)
    \/ Scan(t) \/ SignalParent(t) \/ ScanEnd(t) \/ NotifyOne(t)
    \/ Lock(t) \/ Eval(t) \/ Wake(t)
    \/ SigreadCheck(t) \/ SigreadLock(t)
    \/ KillFds(t) \/ KillSignal(t) \/ DupAlloc(t)

Call(t) ==
    \/ PollCall(t) \/ SigreadCall(t) \/ Kill(t)
    \/ \E f \in Fds : EventCall(t, f) \/ Close(t, f) \/ DupCall(t, f)

Next ==
    \E t \in Threads :
       \/ Call(t) \/ Continue(t) \/ PollTimeout(t)
       \/ Terminate(t) \/ TerminateSignal(t) \/ SignalThread(t) \/ Gone(t)

\* A thread whose next step stays possible takes it, and a timeout that is up
\* is noticed.  Nothing is assumed about who gets a contended lock.
Spec ==
    /\ Init /\ [][Next]_vars
    /\ \A t \in Threads :
          WF_vars(Continue(t)) /\ WF_vars(TerminateSignal(t)) /\ WF_vars(PollTimeout(t))

----------------------------------------------------------------------------
(* Properties.                                                             *)

Holds(t) ==
    {<<"fds">> : x \in {t} \cap {fdsMutex}}
       \cup {<<"pending">> : x \in {t} \cap {pendingSignalsMutex}}
       \cup {<<"object", o>> : o \in {o \in Objects : lockCond[o] = t}}
       \cup {<<"poll", u>> : u \in {u \in Threads : pollCond[u] = t}}

Wants(t) ==
    CASE pc[t] \in {"register", "pollTest", "clear", "fdLock", "alloc"} -> <<"fds">>
      [] pc[t] = "pollLock" -> <<"poll", t>>
      [] pc[t] \in {"lock", "killLock", "sigLock"} -> <<"object", obj[t]>>
      [] pc[t] \in {"signalParent", "echoParent"} -> <<"poll", target[t]>>
      [] pc[t] = "check" -> <<"pending">>
      [] OTHER -> <<"none">>

\* No two threads each hold the lock the other one is waiting for.  poll is
\* written for that: "Register before locking pollCond", "clear registrations
\* after releasing pollCond as well".
NoLockCycle ==
    \A t, u \in Threads : ~(Wants(t) \in Holds(u) /\ Wants(u) \in Holds(t))

\* The object that the descriptor of interest i names is ready, and it is the
\* one with which this turn of t's poll registered.
Due(t, i) ==
    /\ fds[i[1]] \in EventFds /\ Ready(i)
    /\ <<i[1], fds[i[1]]>> \in found[t]

\* poll reads readiness without the object's lock: when it sleeps on an
\* eventfd that is ready, the thread that made it ready is still on its way to
\* the poller, with the object's lock in its hand.
NoLostEvent ==
    \A t \in Threads : \A i \in polled[t] :
       pc[t] = "pollParked" /\ ~notified[t] /\ Due(t, i) =>
          LET o == fds[i[1]] IN
          \E u \in Threads :
             /\ lockCond[o] = u
             /\ \/ pc[u] = "signal" /\ \A j \in 1..(slot[u] - 1) : parents[o][j] # t
                \/ pc[u] = "signalParent" /\ target[u] = t

\* clearPollData removes the thread from what its descriptors name then, not
\* from what it registered with.  What stays behind is the registrations made
\* through a descriptor that was closed meanwhile, and no others: neither a
\* timeout, a handler or a kill nor the reuse of a descriptor leaves one.
StrayWasClosed ==
    \A o \in Objects : \A t \in Parents(o) :
       o \in loose[t] \/ (op[t] = "poll" /\ o \in Named(t))

\* A poll that sleeps while what it polls is ready ends.
PollReturns ==
    \A t \in Threads :
       pc[t] = "pollParked" /\ (\E i \in polled[t] : Due(t, i))
          ~> pc[t] # "pollParked" \/ ~\E i \in polled[t] : Due(t, i)

\* A thread that is terminated while it sleeps in poll or in a read of the
\* signalfd is woken, once no more signals are sent: each one takes the lock that
\* it needs.  (A sleeper on an eventfd is, if the terminating thread gets the locks
\* of the object and of its pollers, for which they compete.)
KilledSleeperWakes ==
    <>[](\A u \in Threads : op[u] # "kill") =>
       \A t \in Threads :
          terminating[t] /\ Waiting(t) /\ op[t] \in {"poll", "sigread"} ~> ~Waiting(t)
=============================================================================
