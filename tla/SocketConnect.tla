---------------------------- MODULE SocketConnect ----------------------------
(***************************************************************************)
(* connect, accept, close and the destructor of the stream sockets of        *)
(* source/kernel/kunixsocket.cpp around one bound, listening socket.         *)
(*                                                                         *)
(* A connector is a socket and the thread that calls connect on it; an       *)
(* acceptor is a thread that calls accept on the listener.  Both keep the    *)
(* listener alive while they are in their call: accept through the           *)
(* descriptor, connect through `kobject` and `destination`.                  *)
(*                                                                         *)
(* Grain of atomicity: one step per critical section of a lockCond, and a    *)
(* step for what connect does before it takes its own lock.                  *)
(***************************************************************************)
EXTENDS Naturals, Sequences, FiniteSets

CONSTANTS
    Connectors,   \* the sockets that connect, each with its thread
    Acceptors,    \* the threads that accept
    Nonblocking,  \* connectors with O_NONBLOCK, and acceptors if the listener has it
    Signalled,    \* threads that are sent signals they handle
    Killed,       \* threads that are terminated by another one
    None          \* nullptr

ASSUME ConnectConstants ==
    /\ Connectors \cap Acceptors = {}
    /\ Nonblocking \subseteq Connectors \cup Acceptors
    /\ Signalled \cup Killed \subseteq Connectors \cup Acceptors
    /\ None \notin Connectors

Threads == Connectors \cup Acceptors

VARIABLES
    listening,   \* a descriptor refers to the listener
    open,        \* [Connectors -> BOOLEAN]: a descriptor refers to the connector
    destroyed,   \* [Connectors -> BOOLEAN]: its destructor has run
    connecting,  \* [Connectors -> BOOLEAN]: its weak pointer names the listener
    accepted,    \* its `connection`: the socket accept made, not yet, open or gone
    connected,   \* [Connectors -> BOOLEAN]
    pending,     \* the listener's pendingConnections
    pc,          \* where each thread is
    popped,      \* the `pendingConnection` an acceptor has locked
    notified,    \* the condition the thread waits on has been signalled
    startSignal, \* KThread::startSignal
    terminating, \* KThread::terminating
    killed       \* terminateOtherThread found the thread waiting and will signal

sockets == <<listening, open, destroyed, connecting, accepted, connected, pending>>
waits == <<notified, startSignal, terminating, killed>>
vars == <<sockets, pc, popped, waits>>

ConnectPC == {"idle", "again", "push", "lock", "loop", "parked", "loopParked", "ret"}
AcceptPC == {"idle", "accept", "parked", "pair", "ret"}

TypeOK ==
    /\ listening \in BOOLEAN
    /\ open \in [Connectors -> BOOLEAN]
    /\ destroyed \in [Connectors -> BOOLEAN]
    /\ connecting \in [Connectors -> BOOLEAN]
    /\ accepted \in [Connectors -> {"none", "open", "gone"}]
    /\ connected \in [Connectors -> BOOLEAN]
    /\ pending \in Seq(Connectors)
    /\ pc \in [Threads -> ConnectPC \cup AcceptPC]
    /\ \A c \in Connectors : pc[c] \in ConnectPC
    /\ \A t \in Acceptors : pc[t] \in AcceptPC
    /\ popped \in [Acceptors -> Connectors \cup {None}]
    /\ notified \in [Threads -> BOOLEAN]
    /\ startSignal \in [Threads -> BOOLEAN]
    /\ terminating \in [Threads -> BOOLEAN]
    /\ killed \in [Threads -> BOOLEAN]

Init ==
    /\ listening = TRUE
    /\ open = [c \in Connectors |-> TRUE]
    /\ destroyed = [c \in Connectors |-> FALSE]
    /\ connecting = [c \in Connectors |-> FALSE]
    /\ accepted = [c \in Connectors |-> "none"]
    /\ connected = [c \in Connectors |-> FALSE]
    /\ pending = <<>>
    /\ pc = [t \in Threads |-> "idle"]
    /\ popped = [t \in Acceptors |-> None]
    /\ notified = [t \in Threads |-> FALSE]
    /\ startSignal = [t \in Threads |-> FALSE]
    /\ terminating = [t \in Threads |-> FALSE]
    /\ killed = [t \in Threads |-> FALSE]

----------------------------------------------------------------------------
Queued == {pending[i] : i \in 1..Len(pending)}

InCall(t) == pc[t] \notin {"idle", "again"}

ListenerAlive == listening \/ \E t \in Threads : InCall(t)

Alive(c) == open[c] \/ InCall(c) \/ \E t \in Acceptors : popped[t] = c

Waiting(t) == pc[t] \in {"parked", "loopParked"}

\* The waiters of the listener's condition, and of a connector's own.
WaitersWith(t) == {u \in Threads : Waiting(u) /\ (u = t \/ {u, t} \subseteq Acceptors)}

Goto(t, next) == pc' = [pc EXCEPT ![t] = next]

SignalAll(ts) == notified' = [t \in Threads |-> notified[t] \/ (t \in ts /\ Waiting(t))]

----------------------------------------------------------------------------
(* connect.                                                                *)

\* Seeded fault: a connect that was restarted queues the socket again.
FaultQueueAgain(c) ==
    IF accepted[c] = "open" THEN "ret" ELSE "push"

\* Up to the first lock: connected already, queued already, or to be queued.
ConnectRoute(c) ==
    IF accepted[c] = "open" THEN "ret"
    ELSE IF ~connecting[c] THEN "push"
    ELSE IF c \in Nonblocking THEN "ret"
    ELSE "loop"

\* The listener is found through the node and kept until connect returns; no
\* listener, no call: ECONNREFUSED.
Connect(c) ==
    /\ pc[c] \in {"idle", "again"} /\ ~terminating[c]
    /\ open[c] /\ ListenerAlive
    /\ connected' = [connected EXCEPT ![c] = @ \/ accepted[c] = "open"]
    /\ connecting' = [connecting EXCEPT ![c] = @ \/ ConnectRoute(c) = "push"]
    /\ Goto(c, ConnectRoute(c))
    /\ UNCHANGED <<listening, open, destroyed, accepted, pending, popped, waits>>

\* The restart of a call whose descriptor or listener is gone, or whose thread
\* is told to end, fails before it waits.
ConnectFails(c) ==
    /\ pc[c] = "again"
    /\ ~open[c] \/ ~ListenerAlive \/ terminating[c]
    /\ Goto(c, "idle")
    /\ UNCHANGED <<sockets, popped, waits>>

\* Seeded fault: the queue grows and no acceptor is told.
FaultPushSilent(c) ==
    /\ pc[c] = "push"
    /\ pending' = Append(pending, c)
    /\ Goto(c, IF c \in Nonblocking THEN "ret" ELSE "lock")
    /\ UNCHANGED <<listening, open, destroyed, connecting, accepted, connected, popped,
                   waits>>

\* Under the listener's lock.
Push(c) ==
    /\ pc[c] = "push"
    /\ pending' = Append(pending, c)
    /\ SignalAll(Acceptors)
    /\ Goto(c, IF c \in Nonblocking THEN "ret" ELSE "lock")
    /\ UNCHANGED <<listening, open, destroyed, connecting, accepted, connected, popped,
                   startSignal, terminating, killed>>

\* Under its own lock: `connecting` names a listener that this call keeps
\* alive, so it has not expired, and the thread waits: once, or in the loop of
\* a repeated call.  The wait of a terminated thread ends at once, with EINTR.
ConnectLock(c) ==
    /\ pc[c] \in {"lock", "loop"}
    /\ Goto(c, IF terminating[c] THEN "ret"
               ELSE IF pc[c] = "lock" THEN "parked" ELSE "loopParked")
    /\ UNCHANGED <<sockets, popped, waits>>

\* The end of a wait.  The first call then looks whether it was accepted; a
\* restarted one waits again for as long as `connecting` is set.
ConnectWake(c) ==
    /\ Waiting(c) /\ notified[c]
    /\ notified' = [notified EXCEPT ![c] = FALSE]
    /\ startSignal' = [startSignal EXCEPT ![c] = @ /\ terminating[c]]
    /\ LET quit == terminating[c] \/ startSignal[c]
           done == pc[c] = "parked" \/ ~connecting[c]
       IN /\ Goto(c, IF ~terminating[c] /\ startSignal[c] THEN "again"
                     ELSE IF quit \/ done THEN "ret" ELSE "loopParked")
          /\ connected' = [connected EXCEPT
                ![c] = @ \/ (~quit /\ done /\ accepted[c] = "open")]
    /\ UNCHANGED <<listening, open, destroyed, connecting, accepted, pending, popped,
                   terminating, killed>>

Return(t) ==
    /\ pc[t] = "ret"
    /\ Goto(t, "idle")
    /\ UNCHANGED <<sockets, popped, waits>>

----------------------------------------------------------------------------
(* accept.                                                                 *)

Accept(t) ==
    /\ pc[t] = "idle" /\ ~terminating[t] /\ listening
    /\ Goto(t, "accept")
    /\ UNCHANGED <<sockets, popped, waits>>

\* Under the listener's lock: sleep, or take the first entry, which is dead or
\* is locked.
AcceptTake(t) ==
    /\ pc[t] = "accept"
    /\ \/ /\ pending = <<>>
          /\ Goto(t, IF t \in Nonblocking \/ terminating[t] THEN "ret" ELSE "parked")
          /\ UNCHANGED <<pending, popped>>
       \/ /\ pending # <<>>
          /\ pending' = Tail(pending)
          /\ IF Alive(Head(pending))
             THEN /\ popped' = [popped EXCEPT ![t] = Head(pending)]
                  /\ Goto(t, "pair")
             ELSE UNCHANGED popped /\ Goto(t, "ret")
    /\ UNCHANGED <<listening, open, destroyed, connecting, accepted, connected, waits>>

AcceptWake(t) ==
    /\ pc[t] = "parked" /\ notified[t]
    /\ notified' = [notified EXCEPT ![t] = FALSE]
    /\ startSignal' = [startSignal EXCEPT ![t] = @ /\ terminating[t]]
    /\ Goto(t, IF terminating[t] \/ startSignal[t] THEN "ret" ELSE "accept")
    /\ UNCHANGED <<sockets, popped, terminating, killed>>

\* Under the connector's lock: the new socket and the connector name each
\* other, and whoever waits in connect is signalled.  `connecting` stays.
AcceptPair(t) ==
    /\ pc[t] = "pair"
    /\ accepted' = [accepted EXCEPT ![popped[t]] = "open"]
    /\ SignalAll({popped[t]})
    /\ popped' = [popped EXCEPT ![t] = None]
    /\ Goto(t, "ret")
    /\ UNCHANGED <<listening, open, destroyed, connecting, connected, pending,
                   startSignal, terminating, killed>>

----------------------------------------------------------------------------
(* close and the destructors.                                              *)

CloseListener ==
    /\ listening
    /\ listening' = FALSE
    /\ UNCHANGED <<open, destroyed, connecting, accepted, connected, pending, pc, popped,
                   waits>>

CloseConnector(c) ==
    /\ open[c]
    /\ open' = [open EXCEPT ![c] = FALSE]
    /\ UNCHANGED <<listening, destroyed, connecting, accepted, connected, pending, pc,
                   popped, waits>>

CloseAccepted(c) ==
    /\ accepted[c] = "open"
    /\ accepted' = [accepted EXCEPT ![c] = "gone"]
    /\ UNCHANGED <<listening, open, destroyed, connecting, connected, pending, pc, popped,
                   waits>>

\* The listener's destructor: every queued connector that is still alive is
\* told that nobody will accept it.
DestroyListener ==
    /\ ~ListenerAlive
    /\ \E c \in Queued : Alive(c)
    /\ connecting' = [c \in Connectors |-> connecting[c] /\ ~(c \in Queued /\ Alive(c))]
    /\ SignalAll({c \in Queued : Alive(c)})
    /\ UNCHANGED <<listening, open, destroyed, accepted, connected, pending, pc, popped,
                   startSignal, terminating, killed>>

\* A connector's destructor looks for itself in the listener's queue.  It
\* locks each entry to compare it, and its own can no longer be locked.
DestroyConnector(c) ==
    /\ ~Alive(c) /\ ~destroyed[c]
    /\ destroyed' = [destroyed EXCEPT ![c] = TRUE]
    /\ pending' = IF \E p \in Queued : Alive(p) /\ p = c
                  THEN SelectSeq(pending, LAMBDA p : p # c)
                  ELSE pending
    /\ UNCHANGED <<listening, open, connecting, accepted, connected, pc, popped, waits>>

----------------------------------------------------------------------------
(* What disturbs a waiting thread.                                         *)

Terminate(t) ==
    /\ t \in Killed /\ ~terminating[t]
    /\ terminating' = [terminating EXCEPT ![t] = TRUE]
    /\ killed' = [killed EXCEPT ![t] = Waiting(t)]
    /\ UNCHANGED <<sockets, pc, popped, notified, startSignal>>

TerminateSignal(t) ==
    /\ killed[t]
    /\ killed' = [killed EXCEPT ![t] = FALSE]
    /\ SignalAll(WaitersWith(t))
    /\ UNCHANGED <<sockets, pc, popped, startSignal, terminating>>

\* KThread::signal: one waiter of the condition is signalled, whichever.
SignalThread(t) ==
    /\ t \in Signalled /\ Waiting(t) /\ ~startSignal[t]
    /\ startSignal' = [startSignal EXCEPT ![t] = TRUE]
    /\ \/ /\ \A u \in WaitersWith(t) : notified[u]
          /\ UNCHANGED notified
       \/ \E u \in WaitersWith(t) :
             /\ ~notified[u]
             /\ notified' = [notified EXCEPT ![u] = TRUE]
    /\ UNCHANGED <<sockets, pc, popped, terminating, killed>>

----------------------------------------------------------------------------
ConnectStep(c) ==
    \/ pc[c] = "again" /\ Connect(c)
    \/ ConnectFails(c) \/ Push(c) \/ ConnectLock(c) \/ ConnectWake(c) \/ Return(c)
    \/ DestroyConnector(c)

AcceptStep(t) == AcceptTake(t) \/ AcceptWake(t) \/ AcceptPair(t) \/ Return(t)

Next ==
    \/ \E c \in Connectors :
          Connect(c) \/ ConnectStep(c) \/ CloseConnector(c) \/ CloseAccepted(c)
    \/ \E t \in Acceptors : Accept(t) \/ AcceptStep(t)
    \/ CloseListener \/ DestroyListener
    \/ \E t \in Threads : Terminate(t) \/ TerminateSignal(t) \/ SignalThread(t)

\* A call that has begun goes on whenever it can; nobody has to begin one.
Spec ==
    /\ Init /\ [][Next]_vars
    /\ \A c \in Connectors : WF_vars(ConnectStep(c))
    /\ \A t \in Acceptors : WF_vars(AcceptStep(t))
    /\ \A t \in Threads : WF_vars(TerminateSignal(t))

----------------------------------------------------------------------------
(* Properties.                                                             *)

\* A connector is queued at most once, however often its connect is restarted
\* or repeated, and never after it was accepted: accept cannot pair a socket
\* twice and cut off the peer it already has.
QueuedOnce ==
    /\ \A i, j \in 1..Len(pending) : pending[i] = pending[j] => i = j
    /\ \A c \in Queued : accepted[c] = "none" /\ \A t \in Acceptors : popped[t] # c

\* No acceptor sleeps beside a queued connection, though several acceptors
\* and several connectors share one condition.
NoIdleAcceptor ==
    \A t \in Acceptors : pc[t] = "parked" /\ ~notified[t] => pending = <<>>

\* accept leaves the rest to the connector's thread, "this will be handled when
\* the connecting thread is unblocked": a connect that was accepted returns.
AcceptedConnectReturns ==
    \A c \in Connectors : Waiting(c) /\ accepted[c] # "none" ~> ~Waiting(c)

\* pendingConnections is "weak, if object is destroyed it should remove itself
\* from this list".
DestroyedLeavesQueue == \A c \in Connectors : destroyed[c] => c \notin Queued
=============================================================================
