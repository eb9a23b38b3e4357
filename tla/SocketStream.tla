---------------------------- MODULE SocketStream ----------------------------
(***************************************************************************)
(* A connected pair of stream sockets (source/kernel/kunixsocket.cpp, made   *)
(* by createSocketPair of ksocket.cpp): read, readNative, recvmsg, write,    *)
(* writeNative, sendmsg, shutdown, close and the destructor, by several      *)
(* threads on both ends.                                                     *)
(*                                                                         *)
(* An end is told of its peer's death by the peer's destructor, which runs   *)
(* on the thread that drops the last reference: a descriptor, a call that    *)
(* still uses the descriptor, or a `con` that a call locked.  References are  *)
(* therefore state, and the destructor is a step of its own: between the     *)
(* last drop and that step the peer is gone and nobody has been told.        *)
(*                                                                         *)
(* Grain of atomicity: one step per critical section of a lockCond; what a   *)
(* call reads before it takes the lock is a step before it.                  *)
(***************************************************************************)
EXTENDS Naturals, FiniteSets

CONSTANTS
    Threads,    \* the threads that use the pair
    Ends,       \* the two sockets
    Peer,       \* [Ends -> Ends]: the `connection` of each
    May,        \* [Threads -> SUBSET (Operations \X Ends)]: what a program does
    MaxQueued,  \* bound: no write is begun when this much is queued
    None        \* nullptr

Operations == {"read", "recvmsg", "write", "writeNative", "sendmsg",
               "shutdown", "close", "setBlocking", "end", "signal"}

ASSUME SocketConstants ==
    /\ Peer \in [Ends -> Ends]
    /\ \A e \in Ends : Peer[e] # e /\ Peer[Peer[e]] = e
    /\ May \in [Threads -> SUBSET (Operations \X Ends)]
    /\ MaxQueued \in Nat
    /\ None \notin Ends /\ None \notin Threads

VARIABLES
    open,        \* [Ends -> BOOLEAN]: a descriptor refers to the socket
    inClosed,    \* [Ends -> BOOLEAN]
    outClosed,   \* [Ends -> BOOLEAN]
    blocking,    \* [Ends -> BOOLEAN]
    recvBuffer,  \* [Ends -> Nat]: how many writes' bytes are in the ring buffer
    msgs,        \* [Ends -> Nat]: messages with control data
    pc,          \* [Threads -> PC]
    self,        \* the socket of the call a thread is in
    con,         \* the `con` it has locked
    how,         \* the argument of its shutdown
    victim,      \* the socket whose destructor the thread runs
    resume,      \* where it goes on after that
    notified,    \* the condition it waits on has been signalled
    startSignal, \* KThread::startSignal
    terminating, \* KThread::terminating
    killCond,    \* the condition terminateOtherThread found and will signal
    ownRead      \* history: the end itself gave up reading (SHUT_RD, SHUT_RDWR)

streams == <<open, inClosed, outClosed, blocking, recvBuffer, msgs, ownRead>>
calls == <<pc, self, con, how, victim, resume>>
waits == <<notified, startSignal, terminating, killCond>>
vars == <<streams, calls, waits>>

PC == {"idle", "readDrop", "read", "parked", "write", "writeNative", "sendmsg",
       "shutOwn", "shutPeer", "drop", "ret", "destroy"}

How == {"RD", "WR", "RDWR"}

StreamTypes ==
    /\ open \in [Ends -> BOOLEAN]
    /\ inClosed \in [Ends -> BOOLEAN]
    /\ outClosed \in [Ends -> BOOLEAN]
    /\ blocking \in [Ends -> BOOLEAN]
    /\ recvBuffer \in [Ends -> Nat]
    /\ msgs \in [Ends -> Nat]
    /\ ownRead \in [Ends -> BOOLEAN]

CallTypes ==
    /\ pc \in [Threads -> PC]
    /\ self \in [Threads -> Ends \cup {None}]
    /\ con \in [Threads -> Ends \cup {None}]
    /\ how \in [Threads -> How \cup {"msg", "bytes"}]
    /\ victim \in [Threads -> Ends \cup {None}]
    /\ resume \in [Threads -> PC]

WaitTypes ==
    /\ notified \in [Threads -> BOOLEAN]
    /\ startSignal \in [Threads -> BOOLEAN]
    /\ terminating \in [Threads -> BOOLEAN]
    /\ killCond \in [Threads -> Ends \cup {None}]

TypeOK == StreamTypes /\ CallTypes /\ WaitTypes

Init ==
    /\ open = [e \in Ends |-> TRUE]
    /\ inClosed = [e \in Ends |-> FALSE]
    /\ outClosed = [e \in Ends |-> FALSE]
    /\ blocking = [e \in Ends |-> TRUE]
    /\ recvBuffer = [e \in Ends |-> 0]
    /\ msgs = [e \in Ends |-> 0]
    /\ ownRead = [e \in Ends |-> FALSE]
    /\ pc = [t \in Threads |-> "idle"]
    /\ self = [t \in Threads |-> None]
    /\ con = [t \in Threads |-> None]
    /\ how = [t \in Threads |-> "bytes"]
    /\ victim = [t \in Threads |-> None]
    /\ resume = [t \in Threads |-> "idle"]
    /\ notified = [t \in Threads |-> FALSE]
    /\ startSignal = [t \in Threads |-> FALSE]
    /\ terminating = [t \in Threads |-> FALSE]
    /\ killCond = [t \in Threads |-> None]

----------------------------------------------------------------------------
(* References and conditions.                                              *)

Uses(t, e) == self[t] = e \/ con[t] = e

\* A weak_ptr to the socket can still be locked.
Alive(e) == open[e] \/ \E t \in Threads : Uses(t, e)

LastUser(t, e) == ~open[e] /\ \A u \in Threads \ {t} : ~Uses(u, e)

\* connection.lock()
LockConnection(e) == IF Alive(Peer[e]) THEN Peer[e] ELSE None

\* The thread lets go of socket e and goes on at `next`: by way of the
\* destructor when it was the last one.
LetGo(t, e, next) ==
    /\ IF LastUser(t, e)
       THEN /\ pc' = [pc EXCEPT ![t] = "destroy"]
            /\ victim' = [victim EXCEPT ![t] = e]
            /\ resume' = [resume EXCEPT ![t] = next]
       ELSE /\ pc' = [pc EXCEPT ![t] = next]
            /\ UNCHANGED <<victim, resume>>

Goto(t, next) == pc' = [pc EXCEPT ![t] = next]

ParkedOn(e) == {t \in Threads : pc[t] = "parked" /\ self[t] = e}

\* BOXEDWINE_CONDITION_SIGNAL_ALL of the socket's lockCond.
SignalAll(e) ==
    notified' = [t \in Threads |-> notified[t] \/ t \in ParkedOn(e)]

----------------------------------------------------------------------------
(* The beginning of a call: the descriptor is looked up and kept.           *)

Begin(t, op, e) ==
    /\ pc[t] = "idle" /\ ~terminating[t]
    /\ <<op, e>> \in May[t]
    /\ open[e]
    /\ self' = [self EXCEPT ![t] = e]

\* read, readNative: the peer is looked up, and a socket that has neither a
\* peer nor been told that it has none answers EPIPE.
Read(t, e) ==
    /\ Begin(t, "read", e)
    /\ con' = [con EXCEPT ![t] = LockConnection(e)]
    /\ Goto(t, IF ~inClosed[e] /\ LockConnection(e) = None THEN "ret" ELSE "readDrop")
    /\ UNCHANGED <<streams, how, victim, resume, waits>>

\* con = nullptr: "don't hold a strong reference", but it may be the last one.
ReadDrop(t) ==
    /\ pc[t] = "readDrop"
    /\ con' = [con EXCEPT ![t] = None]
    /\ IF con[t] = None THEN Goto(t, "read") /\ UNCHANGED <<victim, resume>>
                        ELSE LetGo(t, con[t], "read")
    /\ UNCHANGED <<streams, self, how, waits>>

Recvmsg(t, e) ==
    /\ Begin(t, "recvmsg", e)
    /\ how' = [how EXCEPT ![t] = "msg"]
    /\ Goto(t, "read")
    /\ UNCHANGED <<streams, con, victim, resume, waits>>

\* What recvmsg takes first and read does not look at.
HasMessage(t) == how[t] = "msg" /\ msgs[self[t]] > 0

\* The body of the loop, under the socket's own lock.  A wait that a thread
\* enters after terminating was set returns at once, and the call with it.
\* (MSG_PEEK takes nothing.)
Receive(t) ==
    LET e == self[t] IN
    \/ /\ HasMessage(t)
       /\ msgs' = [msgs EXCEPT ![e] = @ - 1]
       /\ IF Alive(Peer[e]) THEN SignalAll(e) ELSE UNCHANGED notified
       /\ Goto(t, "ret")
       /\ UNCHANGED recvBuffer
    \/ /\ ~HasMessage(t) /\ recvBuffer[e] > 0
       /\ \E n \in 0..recvBuffer[e] : recvBuffer' = [recvBuffer EXCEPT ![e] = @ - n]
       /\ IF how[t] = "bytes" /\ Alive(Peer[e]) THEN SignalAll(e) ELSE UNCHANGED notified
       /\ Goto(t, "ret")
       /\ UNCHANGED msgs
    \/ /\ ~HasMessage(t) /\ recvBuffer[e] = 0
       /\ Goto(t, IF inClosed[e] \/ ~blocking[e] \/ terminating[t] THEN "ret" ELSE "parked")
       /\ notified' = [notified EXCEPT ![t] = FALSE]
       /\ UNCHANGED <<recvBuffer, msgs>>

ReceiveBody(t) ==
    /\ pc[t] = "read"
    /\ Receive(t)
    /\ UNCHANGED <<open, inClosed, outClosed, blocking, ownRead, self, con, how,
                   victim, resume, startSignal, terminating, killCond>>

\* The wait ends: EINTR, a restart for the signal handler, or another turn.
Wake(t) ==
    /\ pc[t] = "parked" /\ notified[t]
    /\ notified' = [notified EXCEPT ![t] = FALSE]
    /\ Goto(t, IF terminating[t] \/ startSignal[t] THEN "ret" ELSE "read")
    /\ startSignal' = [startSignal EXCEPT ![t] = @ /\ terminating[t]]
    /\ UNCHANGED <<streams, self, con, how, victim, resume, terminating, killCond>>

----------------------------------------------------------------------------
(* Writers.                                                                *)

Room(e) == recvBuffer[Peer[e]] + msgs[Peer[e]] < MaxQueued

\* write, writev: outClosed is looked at under the lock of the reader's end.
Write(t, e) ==
    /\ Begin(t, "write", e) /\ Room(e)
    /\ con' = [con EXCEPT ![t] = LockConnection(e)]
    /\ Goto(t, "write")
    /\ UNCHANGED <<streams, how, victim, resume, waits>>

\* Seeded fault: the write only looks for a peer, not at outClosed.
FaultWriteClosed(t) ==
    /\ pc[t] = "write"
    /\ IF con[t] = None
       THEN UNCHANGED <<recvBuffer, notified>>
       ELSE recvBuffer' = [recvBuffer EXCEPT ![con[t]] = @ + 1] /\ SignalAll(con[t])
    /\ Goto(t, "drop")
    /\ UNCHANGED <<open, inClosed, outClosed, blocking, msgs, ownRead, self, con, how,
                   victim, resume, startSignal, terminating, killCond>>

\* internal_write.  Its error is a positive U32, for which write signals the
\* condition as well; writev does not.
WriteBody(t) ==
    /\ pc[t] = "write"
    /\ IF con[t] = None \/ outClosed[self[t]]
       THEN UNCHANGED recvBuffer
       ELSE recvBuffer' = [recvBuffer EXCEPT ![con[t]] = @ + 1]
    /\ \/ con[t] # None /\ SignalAll(con[t])
       \/ (con[t] = None \/ outClosed[self[t]]) /\ UNCHANGED notified
    /\ Goto(t, "drop")
    /\ UNCHANGED <<open, inClosed, outClosed, blocking, msgs, ownRead, self, con, how,
                   victim, resume, startSignal, terminating, killCond>>

\* writeNative (the 64-bit lane): outClosed is looked at before the lock.
WriteNative(t, e) ==
    /\ Begin(t, "writeNative", e) /\ Room(e)
    /\ con' = [con EXCEPT ![t] = LockConnection(e)]
    /\ Goto(t, IF outClosed[e] \/ LockConnection(e) = None THEN "drop" ELSE "writeNative")
    /\ UNCHANGED <<streams, how, victim, resume, waits>>

WriteNativeBody(t) ==
    /\ pc[t] = "writeNative"
    /\ recvBuffer' = [recvBuffer EXCEPT ![con[t]] = @ + 1]
    /\ SignalAll(con[t])
    /\ Goto(t, "drop")
    /\ UNCHANGED <<open, inClosed, outClosed, blocking, msgs, ownRead, self, con, how,
                   victim, resume, startSignal, terminating, killCond>>

\* sendmsg: ENOTCONN without a peer; with control data it queues a message,
\* without it writes bytes.
Sendmsg(t, e) ==
    /\ Begin(t, "sendmsg", e) /\ Room(e)
    /\ con' = [con EXCEPT ![t] = LockConnection(e)]
    /\ \E kind \in {"msg", "bytes"} : how' = [how EXCEPT ![t] = kind]
    /\ Goto(t, IF LockConnection(e) = None THEN "ret" ELSE "sendmsg")
    /\ UNCHANGED <<streams, victim, resume, waits>>

SendmsgBody(t) ==
    /\ pc[t] = "sendmsg"
    /\ \/ outClosed[self[t]] /\ UNCHANGED <<recvBuffer, msgs, notified>>
       \/ /\ ~outClosed[self[t]] /\ how[t] = "msg"
          /\ msgs' = [msgs EXCEPT ![con[t]] = @ + 1]
          /\ SignalAll(con[t])
          /\ UNCHANGED recvBuffer
       \/ /\ ~outClosed[self[t]] /\ how[t] = "bytes"
          /\ recvBuffer' = [recvBuffer EXCEPT ![con[t]] = @ + 1]
          /\ SignalAll(con[t])
          /\ UNCHANGED msgs
    /\ Goto(t, "drop")
    /\ UNCHANGED <<open, inClosed, outClosed, blocking, ownRead, self, con, how,
                   victim, resume, startSignal, terminating, killCond>>

----------------------------------------------------------------------------
(* shutdown: first its own flags under its own lock, then the peer's.       *)

Shutdown(t, e) ==
    /\ Begin(t, "shutdown", e)
    /\ con' = [con EXCEPT ![t] = LockConnection(e)]
    /\ \E h \in How : how' = [how EXCEPT ![t] = h]
    /\ Goto(t, IF LockConnection(e) = None THEN "ret" ELSE "shutOwn")
    /\ UNCHANGED <<streams, victim, resume, waits>>

ShutdownOwn(t) ==
    /\ pc[t] = "shutOwn"
    /\ inClosed' = [inClosed EXCEPT ![self[t]] = @ \/ how[t] \in {"RD", "RDWR"}]
    /\ outClosed' = [outClosed EXCEPT ![self[t]] = @ \/ how[t] \in {"WR", "RDWR"}]
    /\ ownRead' = [ownRead EXCEPT ![self[t]] = @ \/ how[t] \in {"RD", "RDWR"}]
    /\ SignalAll(self[t])
    /\ Goto(t, "shutPeer")
    /\ UNCHANGED <<open, blocking, recvBuffer, msgs, self, con, how, victim, resume,
                   startSignal, terminating, killCond>>

\* Seeded fault: SHUT_RDWR tells the peer of one half only.
FaultShutdownHalf(t) ==
    /\ pc[t] = "shutPeer"
    /\ outClosed' = [outClosed EXCEPT ![con[t]] = @ \/ how[t] = "RD"]
    /\ inClosed' = [inClosed EXCEPT ![con[t]] = @ \/ how[t] \in {"WR", "RDWR"}]
    /\ SignalAll(con[t])
    /\ Goto(t, "drop")
    /\ UNCHANGED <<open, blocking, recvBuffer, msgs, ownRead, self, con, how, victim,
                   resume, startSignal, terminating, killCond>>

ShutdownPeer(t) ==
    /\ pc[t] = "shutPeer"
    /\ outClosed' = [outClosed EXCEPT ![con[t]] = @ \/ how[t] \in {"RD", "RDWR"}]
    /\ inClosed' = [inClosed EXCEPT ![con[t]] = @ \/ how[t] \in {"WR", "RDWR"}]
    /\ SignalAll(con[t])
    /\ Goto(t, "drop")
    /\ UNCHANGED <<open, blocking, recvBuffer, msgs, ownRead, self, con, how, victim,
                   resume, startSignal, terminating, killCond>>

SetBlocking(t, e, b) ==
    /\ pc[t] = "idle" /\ ~terminating[t] /\ <<"setBlocking", e>> \in May[t] /\ open[e]
    /\ blocking[e] # b
    /\ blocking' = [blocking EXCEPT ![e] = b]
    /\ UNCHANGED <<open, inClosed, outClosed, recvBuffer, msgs, ownRead, calls, waits>>

----------------------------------------------------------------------------
(* The end of a call, close, and the destructor.                            *)

\* `con` goes out of scope before the descriptor does.
Drop(t) ==
    /\ pc[t] = "drop"
    /\ con' = [con EXCEPT ![t] = None]
    /\ IF con[t] = None THEN Goto(t, "ret") /\ UNCHANGED <<victim, resume>>
                        ELSE LetGo(t, con[t], "ret")
    /\ UNCHANGED <<streams, self, how, waits>>

Return(t) ==
    /\ pc[t] = "ret"
    /\ self' = [self EXCEPT ![t] = None]
    /\ how' = [how EXCEPT ![t] = "bytes"]
    /\ LetGo(t, self[t], "idle")
    /\ UNCHANGED <<streams, con, waits>>

\* KProcess::close: the descriptor leaves the table, then close's own copy.
Close(t, e) ==
    /\ Begin(t, "close", e)
    /\ open' = [open EXCEPT ![e] = FALSE]
    /\ Goto(t, "ret")
    /\ UNCHANGED <<inClosed, outClosed, blocking, recvBuffer, msgs, ownRead, con, how,
                   victim, resume, waits>>

\* Seeded fault: the flags are set and nobody is signalled.
FaultDestroySilent(t) ==
    LET e == victim[t] IN
    /\ pc[t] = "destroy"
    /\ inClosed' = [inClosed EXCEPT ![Peer[e]] = TRUE]
    /\ outClosed' = [outClosed EXCEPT ![Peer[e]] = TRUE]
    /\ recvBuffer' = [recvBuffer EXCEPT ![e] = 0]
    /\ msgs' = [msgs EXCEPT ![e] = 0]
    /\ Goto(t, resume[t])
    /\ victim' = [victim EXCEPT ![t] = None]
    /\ resume' = [resume EXCEPT ![t] = "idle"]
    /\ UNCHANGED <<open, blocking, ownRead, self, con, how, waits>>

\* ~KUnixSocketObject: a peer that can still be locked is told.  (The pair was
\* never in a listener's queue, so the other two loops find nothing.)
Destroy(t) ==
    LET e == victim[t] IN
    /\ pc[t] = "destroy"
    /\ IF Alive(Peer[e])
       THEN /\ inClosed' = [inClosed EXCEPT ![Peer[e]] = TRUE]
            /\ outClosed' = [outClosed EXCEPT ![Peer[e]] = TRUE]
            /\ SignalAll(Peer[e])
       ELSE UNCHANGED <<inClosed, outClosed, notified>>
    /\ recvBuffer' = [recvBuffer EXCEPT ![e] = 0]
    /\ msgs' = [msgs EXCEPT ![e] = 0]
    /\ Goto(t, resume[t])
    /\ victim' = [victim EXCEPT ![t] = None]
    /\ resume' = [resume EXCEPT ![t] = "idle"]
    /\ UNCHANGED <<open, blocking, ownRead, self, con, how, startSignal, terminating,
                   killCond>>

----------------------------------------------------------------------------
(* What disturbs a parked thread.                                          *)

\* terminateOtherThread, first half: the flag, and the condition it waits on.
Terminate(t) ==
    /\ \E e \in Ends : <<"end", e>> \in May[t]
    /\ ~terminating[t]
    /\ terminating' = [terminating EXCEPT ![t] = TRUE]
    /\ killCond' = [killCond EXCEPT ![t] = IF pc[t] = "parked" THEN self[t] ELSE None]
    /\ UNCHANGED <<streams, calls, notified, startSignal>>

\* Seeded fault: the flag is set and the sleeper is left asleep.
FaultTerminateSilent(t) ==
    /\ killCond[t] # None
    /\ killCond' = [killCond EXCEPT ![t] = None]
    /\ UNCHANGED <<streams, calls, notified, startSignal, terminating>>

\* ... second half: that condition is signalled.
TerminateSignal(t) ==
    /\ killCond[t] # None
    /\ killCond' = [killCond EXCEPT ![t] = None]
    /\ SignalAll(killCond[t])
    /\ UNCHANGED <<streams, calls, startSignal, terminating>>

\* KThread::signal finds the thread still waiting, under the condition's lock,
\* and signals one waiter of that condition, whichever it is.
SignalThread(t) ==
    /\ pc[t] = "parked" /\ <<"signal", self[t]>> \in May[t] /\ ~startSignal[t]
    /\ startSignal' = [startSignal EXCEPT ![t] = TRUE]
    /\ \/ /\ \A u \in ParkedOn(self[t]) : notified[u]
          /\ UNCHANGED notified
       \/ \E u \in ParkedOn(self[t]) :
             /\ ~notified[u]
             /\ notified' = [notified EXCEPT ![u] = TRUE]
    /\ UNCHANGED <<streams, calls, terminating, killCond>>

----------------------------------------------------------------------------
Continue(t) ==
    \/ ReadDrop(t) \/ ReceiveBody(t) \/ Wake(t)
    \/ WriteBody(t) \/ WriteNativeBody(t) \/ SendmsgBody(t)
    \/ ShutdownOwn(t) \/ ShutdownPeer(t)
    \/ Drop(t) \/ Return(t) \/ Destroy(t)

Call(t, e) ==
    \/ Read(t, e) \/ Recvmsg(t, e)
    \/ Write(t, e) \/ WriteNative(t, e) \/ Sendmsg(t, e)
    \/ Shutdown(t, e) \/ Close(t, e)
    \/ \E b \in BOOLEAN : SetBlocking(t, e, b)

Next ==
    \E t \in Threads :
       \/ Continue(t)
       \/ \E e \in Ends : Call(t, e)
       \/ Terminate(t) \/ TerminateSignal(t) \/ SignalThread(t)

\* A call that has begun goes on whenever it can, and so does a termination.
Spec == Init /\ [][Next]_vars
             /\ \A t \in Threads : WF_vars(Continue(t)) /\ WF_vars(TerminateSignal(t))

----------------------------------------------------------------------------
(* Properties.                                                             *)

Owed(e) == \E t \in Threads : pc[t] = "destroy" /\ victim[t] = e

\* A reader that sleeps and has not been signalled has nothing to read, its
\* input is not closed, and its peer is alive or the thread that dropped the
\* peer is still on its way to tell it: no end of file is slept through.
NoOrphanReader ==
    \A t \in Threads :
       pc[t] = "parked" /\ ~notified[t] =>
          /\ recvBuffer[self[t]] = 0
          /\ how[t] = "msg" => msgs[self[t]] = 0
          /\ ~inClosed[self[t]]
          /\ Alive(Peer[self[t]]) \/ Owed(Peer[self[t]])

\* shutdown closes one half on both ends, in two critical sections: once no
\* shutdown is between them, the two ends agree about both halves.
HalvesAgree ==
    (\A t \in Threads : pc[t] # "shutPeer") =>
       \A e \in Ends :
          Alive(e) /\ Alive(Peer[e]) => inClosed[e] = outClosed[Peer[e]]

\* What was closed by the other end is at an end: nothing is added to an input
\* after the peer closed it, so a reader that saw end of file sees no data
\* later.  The one writer that can is a writeNative which looked at outClosed
\* before the close.
ClosedInputIsFinal ==
    [][\A e \in Ends :
          inClosed[e] /\ ~ownRead[e] /\ ~(\E t \in Threads : pc[t] = "writeNative") =>
             recvBuffer'[e] <= recvBuffer[e] /\ msgs'[e] <= msgs[e]]_vars

\* Whoever sleeps on an end whose peer is gone, or whose input is closed, wakes.
ReaderSeesClose ==
    \A t \in Threads :
       pc[t] = "parked" /\ (inClosed[self[t]] \/ ~Alive(Peer[self[t]]))
          ~> pc[t] # "parked"

\* A thread that is terminated leaves the call it is in.
KilledReaderLeaves ==
    \A t \in Threads : terminating[t] ~> pc[t] = "idle"
=============================================================================
