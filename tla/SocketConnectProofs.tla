------------------------ MODULE SocketConnectProofs ------------------------
(***************************************************************************)
(* Proofs about SocketConnect, for any connectors and acceptors.             *)
(*                                                                         *)
(* A connector passes through four stages: its connect is about to queue     *)
(* it, it is queued, an acceptor has taken it, it is paired.  It is in one   *)
(* of them at a time, and `connecting` keeps a repeated connect from         *)
(* starting over for as long as there is a listener.                         *)
(***************************************************************************)
EXTENDS SocketConnect, TLAPS

Pushing(c) == pc[c] = "push"

Taken(c) == \E t \in Acceptors : popped[t] = c

Paired(c) == accepted[c] # "none"

\* No connector is in the queue twice, and no two acceptors have the same one.
Once ==
    /\ \A i, j \in 1..Len(pending) : pending[i] = pending[j] => i = j
    /\ \A t, u \in Acceptors : popped[t] = popped[u] /\ popped[t] # None => t = u

\* A connector is in one stage at a time.
OneStage ==
    \A c \in Connectors :
       /\ Pushing(c) => c \notin Queued /\ ~Taken(c) /\ ~Paired(c)
       /\ c \in Queued => ~Taken(c) /\ ~Paired(c)
       /\ Taken(c) => ~Paired(c)

\* While the listener lives, whoever has entered the first stage says so.
Named ==
    ListenerAlive =>
       \A c \in Connectors :
          Pushing(c) \/ c \in Queued \/ Taken(c) \/ Paired(c) => connecting[c]

\* An acceptor holds a connector exactly while it is about to pair it.
PairInv == \A t \in Acceptors : pc[t] = "pair" <=> popped[t] # None

IInv == TypeOK /\ Once /\ OneStage /\ Named /\ PairInv /\ NoIdleAcceptor

----------------------------------------------------------------------------
(* The steps, one by one.                                                   *)

\* Every step is one of these.
Step ==
    \/ \E c \in Connectors : Connect(c)
    \/ \E c \in Connectors : ConnectFails(c)
    \/ \E c \in Connectors : Push(c)
    \/ \E c \in Connectors : ConnectLock(c)
    \/ \E c \in Connectors : ConnectWake(c)
    \/ \E c \in Connectors : CloseConnector(c)
    \/ \E c \in Connectors : CloseAccepted(c)
    \/ \E c \in Connectors : DestroyConnector(c)
    \/ \E t \in Acceptors : Accept(t)
    \/ \E t \in Acceptors : AcceptTake(t)
    \/ \E t \in Acceptors : AcceptWake(t)
    \/ \E t \in Acceptors : AcceptPair(t)
    \/ CloseListener
    \/ DestroyListener
    \/ \E t \in Threads : Return(t)
    \/ \E t \in Threads : Terminate(t)
    \/ \E t \in Threads : TerminateSignal(t)
    \/ \E t \in Threads : SignalThread(t)

\* The next-state relation has no other steps.
LEMMA NextIsStep == Next => Step
  BY DEF Next, Step, ConnectStep, AcceptStep, Threads

\* The types are kept.
LEMMA KeepsTypes ==
    ASSUME TypeOK, Step
    PROVE  TypeOK'
  <1> USE DEF Threads
  <1>1. CASE \E c \in Connectors : Connect(c)
    <2> SUFFICES ASSUME NEW c \in Connectors, Connect(c) PROVE TypeOK'
      BY <1>1
    <2>1. ConnectRoute(c) \in ConnectPC
      BY DEF ConnectRoute, ConnectPC
    <2>2. pc' \in [Threads -> ConnectPC \cup AcceptPC]
      BY <2>1 DEF Connect, Goto, TypeOK
    <2>3. /\ \A x \in Connectors : pc'[x] \in ConnectPC
          /\ \A t \in Acceptors : pc'[t] \in AcceptPC
      BY <2>1, ConnectConstants DEF Connect, Goto, TypeOK
    <2>4. /\ connected' \in [Connectors -> BOOLEAN]
          /\ connecting' \in [Connectors -> BOOLEAN]
      BY DEF Connect, TypeOK
    <2> QED
      BY <2>2, <2>3, <2>4 DEF Connect, TypeOK, waits
  <1>2. CASE \E c \in Connectors : ConnectFails(c)
    BY <1>2, ConnectConstants DEF ConnectFails, Goto, TypeOK, ConnectPC, AcceptPC,
       sockets, waits
  <1>3. CASE \E c \in Connectors : Push(c)
    BY <1>3, ConnectConstants DEF Push, Goto, SignalAll, TypeOK, ConnectPC,
       AcceptPC, sockets, waits
  <1>4. CASE \E c \in Connectors : ConnectLock(c)
    BY <1>4, ConnectConstants DEF ConnectLock, Goto, TypeOK, ConnectPC, AcceptPC,
       sockets, waits
  <1>5. CASE \E c \in Connectors : ConnectWake(c)
    BY <1>5, ConnectConstants DEF ConnectWake, Goto, TypeOK, ConnectPC, AcceptPC,
       sockets, waits
  <1>6. CASE \E c \in Connectors : CloseConnector(c)
    BY <1>6, ConnectConstants DEF CloseConnector, Goto, TypeOK, ConnectPC, AcceptPC,
       sockets, waits
  <1>7. CASE \E c \in Connectors : CloseAccepted(c)
    BY <1>7, ConnectConstants DEF CloseAccepted, Goto, TypeOK, ConnectPC, AcceptPC,
       sockets, waits
  <1>8. CASE \E c \in Connectors : DestroyConnector(c)
    <2> SUFFICES ASSUME NEW c \in Connectors, DestroyConnector(c) PROVE TypeOK'
      BY <1>8
    <2>1. pending' = pending
      BY DEF DestroyConnector
    <2> QED
      BY <2>1 DEF DestroyConnector, TypeOK, waits
  <1>9. CASE \E t \in Acceptors : Accept(t)
    BY <1>9, ConnectConstants DEF Accept, Goto, TypeOK, ConnectPC, AcceptPC,
       sockets, waits
  <1>10. CASE \E t \in Acceptors : AcceptTake(t)
    <2> SUFFICES ASSUME NEW t \in Acceptors, AcceptTake(t) PROVE TypeOK'
      BY <1>10
    <2>0. \A x \in Connectors : x # t
      BY ConnectConstants
    <2>1. CASE pending = <<>>
      <3>1. /\ UNCHANGED <<pending, popped>>
            /\ pc' = [pc EXCEPT ![t] = pc'[t]] /\ pc'[t] \in {"ret", "parked"}
        BY <2>1 DEF AcceptTake, Goto, TypeOK
      <3>2. /\ pc' \in [Threads -> ConnectPC \cup AcceptPC]
            /\ \A x \in Connectors : pc'[x] = pc[x]
            /\ \A u \in Acceptors : pc'[u] \in AcceptPC
        BY <2>0, <3>1 DEF TypeOK, AcceptPC
      <3> QED
        BY <3>1, <3>2 DEF AcceptTake, TypeOK, waits
    <2>2. CASE pending # <<>>
      <3>0. pending \in Seq(Connectors) /\ pending' = Tail(pending)
        BY <2>2 DEF AcceptTake, TypeOK
      <3>1. pending' \in Seq(Connectors) /\ Head(pending) \in Connectors
        BY <2>2, <3>0
      <3>2. popped' \in [Acceptors -> Connectors \cup {None}]
        BY <2>2, <3>1 DEF AcceptTake, TypeOK
      <3>3. pc' = [pc EXCEPT ![t] = pc'[t]] /\ pc'[t] \in {"ret", "pair"}
        BY <2>2 DEF AcceptTake, Goto, TypeOK
      <3>4. /\ pc' \in [Threads -> ConnectPC \cup AcceptPC]
            /\ \A x \in Connectors : pc'[x] = pc[x]
            /\ \A u \in Acceptors : pc'[u] \in AcceptPC
        BY <2>0, <3>3 DEF TypeOK, AcceptPC
      <3> QED
        BY <3>1, <3>2, <3>4 DEF AcceptTake, TypeOK, waits
    <2> QED
      BY <2>1, <2>2
  <1>11. CASE \E t \in Acceptors : AcceptWake(t)
    BY <1>11, ConnectConstants DEF AcceptWake, Goto, TypeOK, ConnectPC, AcceptPC,
       sockets, waits
  <1>12. CASE \E t \in Acceptors : AcceptPair(t)
    <2> SUFFICES ASSUME NEW t \in Acceptors, AcceptPair(t) PROVE TypeOK'
      BY <1>12
    <2>1. /\ accepted' \in [Connectors -> {"none", "open", "gone"}]
          /\ popped' \in [Acceptors -> Connectors \cup {None}]
      BY DEF AcceptPair, TypeOK
    <2>2. notified' \in [Threads -> BOOLEAN]
      BY DEF AcceptPair, SignalAll, TypeOK
    <2>3. /\ pc' \in [Threads -> ConnectPC \cup AcceptPC]
          /\ \A x \in Connectors : pc'[x] = pc[x]
          /\ \A u \in Acceptors : pc'[u] \in AcceptPC
      BY ConnectConstants DEF AcceptPair, Goto, TypeOK, AcceptPC
    <2> QED
      BY <2>1, <2>2, <2>3 DEF AcceptPair, TypeOK
  <1>13. CASE CloseListener
    BY <1>13, ConnectConstants DEF CloseListener, Goto, TypeOK, ConnectPC, AcceptPC,
       sockets, waits
  <1>14. CASE DestroyListener
    BY <1>14, ConnectConstants DEF DestroyListener, Goto, SignalAll, TypeOK,
       ConnectPC, AcceptPC, sockets, waits
  <1>15. CASE \E t \in Threads : Return(t)
    BY <1>15, ConnectConstants DEF Return, Goto, TypeOK, ConnectPC, AcceptPC,
       sockets, waits
  <1>16. CASE \E t \in Threads : Terminate(t)
    BY <1>16, ConnectConstants DEF Terminate, Goto, TypeOK, ConnectPC, AcceptPC,
       sockets, waits, Waiting
  <1>17. CASE \E t \in Threads : TerminateSignal(t)
    BY <1>17, ConnectConstants DEF TerminateSignal, Goto, SignalAll, TypeOK,
       ConnectPC, AcceptPC, sockets, waits
  <1>18. CASE \E t \in Threads : SignalThread(t)
    BY <1>18, ConnectConstants DEF SignalThread, Goto, TypeOK, ConnectPC, AcceptPC,
       sockets, waits
  <1> QED
    BY <1>1, <1>2, <1>3, <1>4, <1>5, <1>6, <1>7, <1>8, <1>9, <1>10, <1>11, <1>12,
       <1>13, <1>14, <1>15, <1>16, <1>17, <1>18 DEF Step

\* A listener that nobody can reach is not reached again.
LEMMA ListenerStaysDead ==
    ASSUME TypeOK, Step
    PROVE  ListenerAlive' => ListenerAlive
  <1> USE DEF Threads
  <1>1. CASE \E c \in Connectors : Connect(c)
    BY <1>1, ConnectConstants DEF Connect, Goto, ConnectRoute, ListenerAlive,
       InCall, TypeOK, sockets, waits
  <1>2. CASE \E c \in Connectors : ConnectFails(c)
    BY <1>2, ConnectConstants DEF ConnectFails, Goto, ListenerAlive, InCall, TypeOK,
       sockets, waits
  <1>3. CASE \E c \in Connectors : Push(c)
    BY <1>3, ConnectConstants DEF Push, Goto, SignalAll, ListenerAlive, InCall,
       TypeOK, sockets, waits
  <1>4. CASE \E c \in Connectors : ConnectLock(c)
    BY <1>4, ConnectConstants DEF ConnectLock, Goto, ListenerAlive, InCall, TypeOK,
       sockets, waits
  <1>5. CASE \E c \in Connectors : ConnectWake(c)
    BY <1>5, ConnectConstants DEF ConnectWake, Goto, ListenerAlive, InCall, TypeOK,
       sockets, waits, Waiting
  <1>6. CASE \E c \in Connectors : CloseConnector(c)
    BY <1>6, ConnectConstants DEF CloseConnector, Goto, ListenerAlive, InCall,
       TypeOK, sockets, waits
  <1>7. CASE \E c \in Connectors : CloseAccepted(c)
    BY <1>7, ConnectConstants DEF CloseAccepted, Goto, ListenerAlive, InCall,
       TypeOK, sockets, waits
  <1>8. CASE \E c \in Connectors : DestroyConnector(c)
    BY <1>8, ConnectConstants DEF DestroyConnector, Goto, ListenerAlive, InCall,
       TypeOK, sockets, waits
  <1>9. CASE \E t \in Acceptors : Accept(t)
    BY <1>9, ConnectConstants DEF Accept, Goto, ListenerAlive, InCall, TypeOK,
       sockets, waits
  <1>10. CASE \E t \in Acceptors : AcceptTake(t)
    BY <1>10, ConnectConstants DEF AcceptTake, Goto, ListenerAlive, InCall, TypeOK,
       sockets, waits
  <1>11. CASE \E t \in Acceptors : AcceptWake(t)
    BY <1>11, ConnectConstants DEF AcceptWake, Goto, ListenerAlive, InCall, TypeOK,
       sockets, waits
  <1>12. CASE \E t \in Acceptors : AcceptPair(t)
    BY <1>12, ConnectConstants DEF AcceptPair, Goto, SignalAll, ListenerAlive,
       InCall, TypeOK, sockets, waits
  <1>13. CASE CloseListener
    BY <1>13, ConnectConstants DEF CloseListener, Goto, ListenerAlive, InCall,
       TypeOK, sockets, waits
  <1>14. CASE DestroyListener
    BY <1>14, ConnectConstants DEF DestroyListener, Goto, SignalAll, ListenerAlive,
       InCall, TypeOK, sockets, waits
  <1>15. CASE \E t \in Threads : Return(t)
    BY <1>15, ConnectConstants DEF Return, Goto, ListenerAlive, InCall, TypeOK,
       sockets, waits
  <1>16. CASE \E t \in Threads : Terminate(t)
    BY <1>16, ConnectConstants DEF Terminate, Goto, ListenerAlive, InCall, TypeOK,
       sockets, waits
  <1>17. CASE \E t \in Threads : TerminateSignal(t)
    BY <1>17, ConnectConstants DEF TerminateSignal, Goto, SignalAll, ListenerAlive,
       InCall, TypeOK, sockets, waits
  <1>18. CASE \E t \in Threads : SignalThread(t)
    BY <1>18, ConnectConstants DEF SignalThread, Goto, ListenerAlive, InCall,
       TypeOK, sockets, waits
  <1> QED
    BY <1>1, <1>2, <1>3, <1>4, <1>5, <1>6, <1>7, <1>8, <1>9, <1>10, <1>11, <1>12,
       <1>13, <1>14, <1>15, <1>16, <1>17, <1>18 DEF Step

----------------------------------------------------------------------------
(* The stages.                                                             *)

\* The part of the invariant that is about stages.
Stages == Once /\ OneStage /\ Named /\ PairInv

\* A step that moves nobody from one stage to another.
Quiet ==
    /\ UNCHANGED <<pending, accepted, connecting, popped>>
    /\ \A c \in Connectors : Pushing(c)' => Pushing(c)
    /\ \A t \in Acceptors : pc'[t] = "pair" <=> pc[t] = "pair"

\* Such a step keeps the stages.
LEMMA QuietKeeps ==
    ASSUME IInv, Step, Quiet
    PROVE  Stages'
  <1>1. ListenerAlive' => ListenerAlive
    BY ListenerStaysDead DEF IInv
  <1>2. Queued' = Queued /\ \A c \in Connectors : Taken(c)' = Taken(c) /\ Paired(c)' = Paired(c)
    BY DEF Quiet, Queued, Taken, Paired
  <1>3. Once' /\ PairInv'
    BY DEF Quiet, IInv, Once, PairInv
  <1>4. OneStage'
    BY <1>2 DEF Quiet, IInv, OneStage
  <1>5. Named'
    BY <1>1, <1>2 DEF Quiet, IInv, Named
  <1> QED
    BY <1>3, <1>4, <1>5 DEF Stages

\* connect enters the first stage, when the connector is in none.
LEMMA ConnectKeeps ==
    ASSUME IInv, NEW c \in Connectors, Connect(c)
    PROVE  Stages'
  <1> USE DEF Threads
  <1>1. /\ ListenerAlive
        /\ UNCHANGED <<pending, accepted, popped>>
        /\ \A x \in Connectors : x # c => pc'[x] = pc[x] /\ connecting'[x] = connecting[x]
        /\ \A t \in Acceptors : pc'[t] = pc[t]
        /\ pc'[c] = ConnectRoute(c)
        /\ connecting'[c] = (connecting[c] \/ ConnectRoute(c) = "push")
    BY ConnectConstants DEF Connect, Goto, IInv, TypeOK
  <1>2. /\ Queued' = Queued
        /\ \A x \in Connectors : Taken(x)' = Taken(x) /\ Paired(x)' = Paired(x)
        /\ \A x \in Connectors : x # c => Pushing(x)' = Pushing(x)
    BY <1>1 DEF Queued, Taken, Paired, Pushing
  <1>3. Pushing(c)' => ~connecting[c]
    BY <1>1 DEF ConnectRoute, Pushing
  <1>4. Pushing(c)' => c \notin Queued /\ ~Taken(c) /\ ~Paired(c)
    BY <1>1, <1>3 DEF IInv, Named
  <1>5. Once' /\ PairInv'
    BY <1>1 DEF IInv, Once, PairInv
  <1>6. OneStage'
    BY <1>2, <1>4 DEF IInv, OneStage
  <1>7. \A x \in Connectors : connecting[x] => connecting'[x]
    BY <1>1
  <1>8. Pushing(c)' => connecting'[c]
    BY <1>1 DEF Pushing
  <1>9. Named'
    BY <1>1, <1>2, <1>7, <1>8 DEF IInv, Named
  <1> QED
    BY <1>5, <1>6, <1>9 DEF Stages

\* The connector goes from the first stage into the queue.
LEMMA PushKeeps ==
    ASSUME IInv, NEW c \in Connectors, Push(c)
    PROVE  Stages'
  <1> USE DEF Threads
  <1>1. pending \in Seq(Connectors) /\ pending' = Append(pending, c)
    BY DEF Push, IInv, TypeOK
  <1>2. /\ UNCHANGED <<accepted, connecting, popped, listening>>
        /\ \A x \in Connectors : x # c => pc'[x] = pc[x]
        /\ \A t \in Acceptors : pc'[t] = pc[t]
        /\ pc[c] = "push" /\ pc'[c] # "push"
    BY ConnectConstants DEF Push, Goto, IInv, TypeOK
  <1>3. /\ Len(pending') = Len(pending) + 1 /\ Len(pending) \in Nat
        /\ \A i \in 1..Len(pending) : pending'[i] = pending[i]
        /\ pending'[Len(pending) + 1] = c
    BY <1>1
  <1>4. Queued' = Queued \cup {c}
    BY <1>3 DEF Queued
  <1>5. c \notin Queued /\ ~Taken(c) /\ ~Paired(c)
    BY <1>2 DEF IInv, OneStage, Pushing
  <1>6. \A i, j \in 1..Len(pending') : pending'[i] = pending'[j] => i = j
    <2>1. \A i \in 1..Len(pending) : pending[i] # c
      BY <1>5 DEF Queued
    <2>2. \A i \in 1..Len(pending') : i \in 1..Len(pending) \/ i = Len(pending) + 1
      BY <1>3
    <2> QED
      BY <1>3, <2>1, <2>2 DEF IInv, Once
  <1>7. Once' /\ PairInv'
    BY <1>2, <1>6 DEF IInv, Once, PairInv
  <1>8. /\ \A x \in Connectors : Taken(x)' = Taken(x) /\ Paired(x)' = Paired(x)
        /\ \A x \in Connectors : x # c => Pushing(x)' = Pushing(x)
        /\ ~Pushing(c)' /\ Pushing(c)
    BY <1>2 DEF Taken, Paired, Pushing
  <1>9. OneStage'
    BY <1>4, <1>5, <1>8 DEF IInv, OneStage
  <1>10. ListenerAlive
    BY <1>2 DEF ListenerAlive, InCall
  <1>11. Named'
    BY <1>2, <1>4, <1>8, <1>10 DEF IInv, Named
  <1> QED
    BY <1>7, <1>9, <1>11 DEF Stages

\* accept takes the first connector out of the queue, and has it unless it is
\* dead.
LEMMA TakeKeeps ==
    ASSUME IInv, NEW t \in Acceptors, AcceptTake(t), pending # <<>>
    PROVE  Stages'
  <1> USE DEF Threads
  <1> DEFINE h == Head(pending)
  <1>1. pending \in Seq(Connectors) /\ pending' = Tail(pending) /\ h \in Connectors
    BY DEF AcceptTake, IInv, TypeOK
  <1>2. /\ UNCHANGED <<accepted, connecting, listening>>
        /\ \A x \in Connectors : pc'[x] = pc[x]
        /\ \A u \in Acceptors : u # t => pc'[u] = pc[u] /\ popped'[u] = popped[u]
        /\ \/ popped'[t] = h /\ pc'[t] = "pair"
           \/ popped'[t] = popped[t] /\ pc'[t] = "ret"
        /\ pc[t] = "accept"
    BY ConnectConstants DEF AcceptTake, Goto, IInv, TypeOK
  <1>3. popped[t] = None /\ h # None
    BY <1>1, <1>2, ConnectConstants DEF IInv, PairInv
  <1>4. /\ Len(pending') = Len(pending) - 1 /\ Len(pending) \in Nat \ {0}
        /\ \A i \in 1..Len(pending') : pending'[i] = pending[i + 1]
        /\ pending[1] = h
    BY <1>1
  <1>5. h \in Queued
    BY <1>4 DEF Queued
  <1>6. \A i, j \in 1..Len(pending) : pending[i] = pending[j] => i = j
    BY DEF IInv, Once
  <1>7. Queued' \subseteq Queued /\ h \notin Queued'
    <2>1. \A i \in 1..Len(pending') : i + 1 \in 1..Len(pending) /\ i + 1 # 1
      BY <1>4
    <2> QED
      BY <1>4, <1>6, <2>1 DEF Queued
  <1>8. \A i, j \in 1..Len(pending') : pending'[i] = pending'[j] => i = j
    <2>1. \A i \in 1..Len(pending') : i + 1 \in 1..Len(pending) /\ i \in Nat
      BY <1>4
    <2>2. ASSUME NEW i \in 1..Len(pending'), NEW j \in 1..Len(pending'),
                 pending'[i] = pending'[j]
          PROVE  i + 1 = j + 1
      BY <1>4, <1>6, <2>1, <2>2
    <2> QED
      BY <2>1, <2>2
  <1>9. ~Taken(h) /\ ~Paired(h)
    BY <1>1, <1>5 DEF IInv, OneStage
  <1>10. \A u \in Acceptors : popped[u] # h
    BY <1>9 DEF Taken
  <1>11. Once' /\ PairInv'
    BY <1>2, <1>3, <1>8, <1>10 DEF IInv, Once, PairInv
  <1>12. /\ \A x \in Connectors : Paired(x)' = Paired(x) /\ Pushing(x)' = Pushing(x)
         /\ \A x \in Connectors : Taken(x)' => Taken(x) \/ x = h
    BY <1>2 DEF Taken, Paired, Pushing
  <1>13. OneStage'
    BY <1>1, <1>5, <1>7, <1>9, <1>12 DEF IInv, OneStage
  <1>14. ListenerAlive
    BY <1>2 DEF ListenerAlive, InCall
  <1>15. Named'
    BY <1>1, <1>2, <1>5, <1>7, <1>12, <1>14 DEF IInv, Named
  <1> QED
    BY <1>11, <1>13, <1>15 DEF Stages

\* accept pairs the connector it has taken.
LEMMA PairKeeps ==
    ASSUME IInv, NEW t \in Acceptors, AcceptPair(t)
    PROVE  Stages'
  <1> USE DEF Threads
  <1>1. popped[t] \in Connectors /\ pc[t] = "pair"
    BY DEF AcceptPair, IInv, PairInv, TypeOK
  <1>2. /\ UNCHANGED <<pending, connecting, listening>>
        /\ \A x \in Connectors : pc'[x] = pc[x]
        /\ \A u \in Acceptors : u # t => pc'[u] = pc[u] /\ popped'[u] = popped[u]
        /\ popped'[t] = None /\ pc'[t] = "ret"
        /\ \A x \in Connectors : x # popped[t] => accepted'[x] = accepted[x]
    BY ConnectConstants DEF AcceptPair, Goto, IInv, TypeOK
  <1>3. Once' /\ PairInv'
    BY <1>2 DEF IInv, Once, PairInv
  <1>4. /\ Queued' = Queued
        /\ \A x \in Connectors : Pushing(x)' = Pushing(x)
        /\ \A x \in Connectors : Paired(x)' => Paired(x) \/ x = popped[t]
    BY <1>2 DEF Queued, Paired, Pushing
  <1>5. Taken(popped[t])
    BY DEF Taken
  <1>6. \A x \in Connectors : Taken(x)' => Taken(x) /\ x # popped[t]
    BY <1>1, <1>2, ConnectConstants DEF Taken, IInv, Once
  <1>7. OneStage'
    BY <1>1, <1>4, <1>5, <1>6 DEF IInv, OneStage
  <1>8. ListenerAlive
    BY <1>1 DEF ListenerAlive, InCall
  <1>9. Named'
    BY <1>1, <1>2, <1>4, <1>5, <1>6, <1>8 DEF IInv, Named
  <1> QED
    BY <1>3, <1>7, <1>9 DEF Stages

\* Closing the accepted socket leaves its connector paired.
LEMMA CloseKeeps ==
    ASSUME IInv, NEW c \in Connectors, CloseAccepted(c)
    PROVE  Stages'
  <1>1. /\ UNCHANGED <<pending, connecting, listening, pc, popped>>
        /\ \A x \in Connectors : Paired(x)' = Paired(x)
    BY DEF CloseAccepted, Paired, IInv, TypeOK
  <1>2. Once' /\ PairInv'
    BY <1>1 DEF IInv, Once, PairInv
  <1>3. /\ Queued' = Queued
        /\ \A x \in Connectors : Taken(x)' = Taken(x) /\ Pushing(x)' = Pushing(x)
        /\ ListenerAlive' = ListenerAlive
    BY <1>1 DEF Queued, Taken, Pushing, ListenerAlive, InCall
  <1>4. OneStage' /\ Named'
    BY <1>1, <1>3 DEF IInv, OneStage, Named
  <1> QED
    BY <1>2, <1>4 DEF Stages

\* The listener's destructor clears `connecting` when no connect can follow.
LEMMA DestroyKeeps ==
    ASSUME IInv, DestroyListener
    PROVE  Stages'
  <1>1. /\ UNCHANGED <<pending, accepted, listening, pc, popped>>
        /\ ~ListenerAlive
    BY DEF DestroyListener
  <1>2. Once' /\ PairInv'
    BY <1>1 DEF IInv, Once, PairInv
  <1>3. /\ Queued' = Queued /\ ~ListenerAlive'
        /\ \A x \in Connectors : /\ Taken(x)' = Taken(x) /\ Pushing(x)' = Pushing(x)
                                 /\ Paired(x)' = Paired(x)
    BY <1>1 DEF Queued, Taken, Pushing, Paired, ListenerAlive, InCall
  <1>4. OneStage' /\ Named'
    BY <1>3 DEF IInv, OneStage, Named
  <1> QED
    BY <1>2, <1>4 DEF Stages

\* Every other step is quiet.
LEMMA OthersAreQuiet ==
    ASSUME IInv, Step
    PROVE  \/ Quiet
           \/ \E c \in Connectors : Connect(c) \/ Push(c) \/ CloseAccepted(c)
           \/ \E t \in Acceptors : AcceptPair(t) \/ (AcceptTake(t) /\ pending # <<>>)
           \/ DestroyListener
  <1> USE DEF Threads
  <1>1. CASE \E c \in Connectors : Connect(c)
    BY <1>1
  <1>2. CASE \E c \in Connectors : ConnectFails(c)
    BY <1>2, ConnectConstants DEF ConnectFails, Goto, Quiet, Pushing, IInv, TypeOK,
       sockets
  <1>3. CASE \E c \in Connectors : Push(c)
    BY <1>3
  <1>4. CASE \E c \in Connectors : ConnectLock(c)
    BY <1>4, ConnectConstants DEF ConnectLock, Goto, Quiet, Pushing, IInv, TypeOK,
       sockets
  <1>5. CASE \E c \in Connectors : ConnectWake(c)
    BY <1>5, ConnectConstants DEF ConnectWake, Goto, Quiet, Pushing, IInv, TypeOK,
       sockets, Waiting
  <1>6. CASE \E c \in Connectors : CloseConnector(c)
    BY <1>6, ConnectConstants DEF CloseConnector, Goto, Quiet, Pushing, IInv,
       TypeOK, sockets
  <1>7. CASE \E c \in Connectors : CloseAccepted(c)
    BY <1>7
  <1>8. CASE \E c \in Connectors : DestroyConnector(c)
    BY <1>8, ConnectConstants DEF DestroyConnector, Goto, Quiet, Pushing, IInv,
       TypeOK, sockets
  <1>9. CASE \E t \in Acceptors : Accept(t)
    BY <1>9, ConnectConstants DEF Accept, Goto, Quiet, Pushing, IInv, TypeOK,
       sockets
  <1>10. CASE \E t \in Acceptors : AcceptTake(t)
    BY <1>10, ConnectConstants DEF AcceptTake, Goto, Quiet, Pushing, IInv, TypeOK,
       sockets
  <1>11. CASE \E t \in Acceptors : AcceptWake(t)
    BY <1>11, ConnectConstants DEF AcceptWake, Goto, Quiet, Pushing, IInv, TypeOK,
       sockets
  <1>12. CASE \E t \in Acceptors : AcceptPair(t)
    BY <1>12
  <1>13. CASE CloseListener
    BY <1>13, ConnectConstants DEF CloseListener, Goto, Quiet, Pushing, IInv,
       TypeOK, sockets
  <1>14. CASE DestroyListener
    BY <1>14
  <1>15. CASE \E t \in Threads : Return(t)
    BY <1>15, ConnectConstants DEF Return, Goto, Quiet, Pushing, IInv, TypeOK,
       sockets
  <1>16. CASE \E t \in Threads : Terminate(t)
    BY <1>16, ConnectConstants DEF Terminate, Goto, Quiet, Pushing, IInv, TypeOK,
       sockets
  <1>17. CASE \E t \in Threads : TerminateSignal(t)
    BY <1>17, ConnectConstants DEF TerminateSignal, Goto, SignalAll, Quiet, Pushing,
       IInv, TypeOK, sockets
  <1>18. CASE \E t \in Threads : SignalThread(t)
    BY <1>18, ConnectConstants DEF SignalThread, Goto, Quiet, Pushing, IInv, TypeOK,
       sockets
  <1> QED
    BY <1>1, <1>2, <1>3, <1>4, <1>5, <1>6, <1>7, <1>8, <1>9, <1>10, <1>11, <1>12,
       <1>13, <1>14, <1>15, <1>16, <1>17, <1>18 DEF Step

\* No step moves a connector into two stages.
LEMMA KeepsStages ==
    ASSUME IInv, Step
    PROVE  Stages'
  BY OthersAreQuiet, QuietKeeps, ConnectKeeps, PushKeeps, TakeKeeps, PairKeeps, CloseKeeps,
     DestroyKeeps

\* No step leaves an acceptor asleep beside an entry.
LEMMA KeepsAcceptors ==
    ASSUME IInv, Step
    PROVE  NoIdleAcceptor'
  <1> USE DEF Threads
  <1>1. CASE \E c \in Connectors : Connect(c)
    BY <1>1, ConnectConstants DEF Connect, Goto, ConnectRoute, NoIdleAcceptor, IInv,
       TypeOK, sockets, waits
  <1>2. CASE \E c \in Connectors : ConnectFails(c)
    BY <1>2, ConnectConstants DEF ConnectFails, Goto, NoIdleAcceptor, IInv, TypeOK,
       sockets, waits
  <1>3. CASE \E c \in Connectors : Push(c)
    <2> SUFFICES ASSUME NEW c \in Connectors, Push(c),
                        NEW t \in Acceptors, pc'[t] = "parked", ~notified'[t]
                 PROVE  FALSE
      BY <1>3 DEF NoIdleAcceptor
    <2>1. pc[t] = "parked"
      BY ConnectConstants DEF Push, Goto, IInv, TypeOK
    <2> QED
      BY <2>1 DEF Push, SignalAll, Waiting
  <1>4. CASE \E c \in Connectors : ConnectLock(c)
    BY <1>4, ConnectConstants DEF ConnectLock, Goto, NoIdleAcceptor, IInv, TypeOK,
       sockets, waits
  <1>5. CASE \E c \in Connectors : ConnectWake(c)
    BY <1>5, ConnectConstants DEF ConnectWake, Goto, NoIdleAcceptor, IInv, TypeOK,
       sockets, waits, Waiting
  <1>6. CASE \E c \in Connectors : CloseConnector(c)
    BY <1>6, ConnectConstants DEF CloseConnector, Goto, NoIdleAcceptor, IInv,
       TypeOK, sockets, waits
  <1>7. CASE \E c \in Connectors : CloseAccepted(c)
    BY <1>7, ConnectConstants DEF CloseAccepted, Goto, NoIdleAcceptor, IInv, TypeOK,
       sockets, waits
  <1>8. CASE \E c \in Connectors : DestroyConnector(c)
    BY <1>8 DEF DestroyConnector, NoIdleAcceptor, IInv, waits
  <1>9. CASE \E t \in Acceptors : Accept(t)
    BY <1>9, ConnectConstants DEF Accept, Goto, NoIdleAcceptor, IInv, TypeOK,
       sockets, waits
  <1>10. CASE \E t \in Acceptors : AcceptTake(t)
    BY <1>10, ConnectConstants DEF AcceptTake, Goto, NoIdleAcceptor, IInv, TypeOK,
       sockets, waits
  <1>11. CASE \E t \in Acceptors : AcceptWake(t)
    BY <1>11, ConnectConstants DEF AcceptWake, Goto, NoIdleAcceptor, IInv, TypeOK,
       sockets, waits
  <1>12. CASE \E t \in Acceptors : AcceptPair(t)
    BY <1>12, ConnectConstants DEF AcceptPair, Goto, SignalAll, NoIdleAcceptor,
       IInv, TypeOK, sockets, waits
  <1>13. CASE CloseListener
    BY <1>13, ConnectConstants DEF CloseListener, Goto, NoIdleAcceptor, IInv,
       TypeOK, sockets, waits
  <1>14. CASE DestroyListener
    BY <1>14, ConnectConstants DEF DestroyListener, Goto, SignalAll, NoIdleAcceptor,
       IInv, TypeOK, sockets, waits
  <1>15. CASE \E t \in Threads : Return(t)
    BY <1>15, ConnectConstants DEF Return, Goto, NoIdleAcceptor, IInv, TypeOK,
       sockets, waits
  <1>16. CASE \E t \in Threads : Terminate(t)
    BY <1>16, ConnectConstants DEF Terminate, Goto, NoIdleAcceptor, IInv, TypeOK,
       sockets, waits
  <1>17. CASE \E t \in Threads : TerminateSignal(t)
    BY <1>17, ConnectConstants DEF TerminateSignal, Goto, SignalAll, NoIdleAcceptor,
       IInv, TypeOK, sockets, waits
  <1>18. CASE \E t \in Threads : SignalThread(t)
    BY <1>18, ConnectConstants DEF SignalThread, Goto, NoIdleAcceptor, IInv, TypeOK,
       sockets, waits
  <1> QED
    BY <1>1, <1>2, <1>3, <1>4, <1>5, <1>6, <1>7, <1>8, <1>9, <1>10, <1>11, <1>12,
       <1>13, <1>14, <1>15, <1>16, <1>17, <1>18 DEF Step

----------------------------------------------------------------------------
(* The theorems.                                                           *)

\* The initial state: an empty queue and nobody in a call.
LEMMA InitIInv == Init => IInv
  <1> SUFFICES ASSUME Init PROVE IInv
    OBVIOUS
  <1>1. TypeOK
    BY DEF Init, TypeOK, Threads, ConnectPC, AcceptPC
  <1>2. Once /\ PairInv /\ NoIdleAcceptor
    BY DEF Init, Once, PairInv, NoIdleAcceptor, Threads
  <1>3. \A c \in Connectors : ~Pushing(c) /\ c \notin Queued /\ ~Taken(c) /\ ~Paired(c)
    BY ConnectConstants DEF Init, Pushing, Queued, Taken, Paired, Threads
  <1>4. OneStage /\ Named
    BY <1>3 DEF OneStage, Named
  <1> QED
    BY <1>1, <1>2, <1>4 DEF IInv

\* Every step keeps the invariant.
LEMMA StepIInv == IInv /\ [Next]_vars => IInv'
  <1> SUFFICES ASSUME IInv, [Next]_vars PROVE IInv'
    OBVIOUS
  <1>1. CASE Next
    <2>1. Step
      BY <1>1, NextIsStep
    <2>2. TypeOK'
      BY <2>1, KeepsTypes DEF IInv
    <2> QED
      BY <2>1, <2>2, KeepsStages, KeepsAcceptors DEF IInv, Stages
  <1>2. CASE UNCHANGED vars
    <2>1. TypeOK'
      BY <1>2 DEF IInv, TypeOK, vars, sockets, waits
    <2>2. Once' /\ PairInv' /\ NoIdleAcceptor'
      BY <1>2 DEF IInv, Once, PairInv, NoIdleAcceptor, vars, sockets, waits
    <2>3. OneStage' /\ Named'
      BY <1>2 DEF IInv, OneStage, Named, Pushing, Queued, Taken, Paired, ListenerAlive, InCall,
                  vars, sockets
    <2> QED
      BY <2>1, <2>2, <2>3 DEF IInv
  <1> QED
    BY <1>1, <1>2

\* The invariant holds in every behaviour.
THEOREM Invariance == Spec => []IInv
  BY InitIInv, StepIInv, PTL DEF Spec

\* Type correctness of the sockets and the calls.
THEOREM TypeCorrect == Spec => []TypeOK
  <1>1. IInv => TypeOK
    BY DEF IInv
  <1> QED
    BY <1>1, Invariance, PTL

\* A connector is queued once and paired once, however often it connects.
THEOREM QueuesOnce == Spec => []QueuedOnce
  <1>1. IInv => QueuedOnce
    <2> SUFFICES ASSUME IInv PROVE QueuedOnce
      OBVIOUS
    <2>1. Queued \subseteq Connectors
      BY DEF IInv, TypeOK, Queued
    <2> QED
      BY <2>1 DEF IInv, Once, OneStage, QueuedOnce, Taken, Paired
  <1> QED
    BY <1>1, Invariance, PTL

\* No acceptor sleeps beside a queued connection.
THEOREM AcceptorsAreTold == Spec => []NoIdleAcceptor
  <1>1. IInv => NoIdleAcceptor
    BY DEF IInv
  <1> QED
    BY <1>1, Invariance, PTL
=============================================================================
