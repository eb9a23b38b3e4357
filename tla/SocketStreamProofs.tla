------------------------- MODULE SocketStreamProofs -------------------------
(***************************************************************************)
(* Proofs about SocketStream, for any threads, any pair of ends and any      *)
(* programs.                                                                *)
(*                                                                         *)
(* The properties need to know who still holds a reference: a socket that    *)
(* is dead stays dead, and the thread that dropped it is in its destructor   *)
(* until the peer has been told.                                            *)
(***************************************************************************)
EXTENDS SocketStream, TLAPS

\* What a thread holds, by where it is in its call.
CallOK(t) ==
    /\ con[t] # None => self[t] # None /\ con[t] = Peer[self[t]]
    /\ pc[t] = "idle" => self[t] = None
    /\ pc[t] \notin {"idle", "destroy"} => self[t] # None
    /\ pc[t] \in {"writeNative", "sendmsg", "shutOwn", "shutPeer"} => con[t] # None
    /\ pc[t] \in {"idle", "read", "parked", "ret", "destroy"} => con[t] = None
    /\ pc[t] = "destroy" =>
          /\ victim[t] # None /\ resume[t] \in {"read", "ret", "idle"}
          /\ resume[t] = "idle" <=> self[t] = None

CallInv == \A t \in Threads : CallOK(t)

\* A destructor runs only for a socket nobody can reach any more ...
VictimDead == \A t \in Threads : pc[t] = "destroy" => ~Alive(victim[t])

\* ... and for every dead socket it is still to run, or the peer was told, or
\* there was no peer left to tell.
Told ==
    \A e \in Ends :
       ~Alive(e) => Owed(e) \/ inClosed[Peer[e]] \/ ~Alive(Peer[e])

\* A shutdown on its way to the peer has closed its own half already.
ShutInv ==
    \A t \in Threads : pc[t] = "shutPeer" =>
       /\ how[t] \in {"RD", "RDWR"} => inClosed[self[t]]
       /\ how[t] \in {"WR", "RDWR"} => outClosed[self[t]]

\* The shutdown that will make the two ends agree about e's input.
Covers(t, e) ==
    /\ pc[t] = "shutPeer"
    /\ \/ self[t] = e /\ how[t] \in {"RD", "RDWR"}
       \/ self[t] = Peer[e] /\ how[t] \in {"WR", "RDWR"}

HalvesInv ==
    \A e \in Ends :
       Alive(e) /\ Alive(Peer[e]) /\ inClosed[e] # outClosed[Peer[e]] =>
          \E t \in Threads : Covers(t, e)

\* An input that its own end did not close cannot be written to.
OutInv ==
    \A e \in Ends :
       inClosed[e] /\ ~ownRead[e] /\ Alive(Peer[e]) => outClosed[Peer[e]]

IInv ==
    /\ TypeOK /\ CallInv /\ VictimDead /\ Told /\ ShutInv /\ HalvesInv /\ OutInv
    /\ NoOrphanReader

----------------------------------------------------------------------------
(* A step of a call of thread t, control only.                              *)

\* One of the steps that begin a call, go on with it or end it.
InCall(t) ==
    \/ \E e \in Ends : Read(t, e)
    \/ \E e \in Ends : Recvmsg(t, e)
    \/ \E e \in Ends : Write(t, e)
    \/ \E e \in Ends : WriteNative(t, e)
    \/ \E e \in Ends : Sendmsg(t, e)
    \/ \E e \in Ends : Shutdown(t, e)
    \/ \E e \in Ends : Close(t, e)
    \/ ReadDrop(t)
    \/ ReceiveBody(t)
    \/ Wake(t)
    \/ WriteBody(t)
    \/ WriteNativeBody(t)
    \/ SendmsgBody(t)
    \/ ShutdownOwn(t)
    \/ ShutdownPeer(t)
    \/ Drop(t)
    \/ Return(t)
    \/ Destroy(t)

\* The other threads' calls stay where they are.
Others(t) ==
    \A u \in Threads \ {t} :
       /\ pc'[u] = pc[u] /\ self'[u] = self[u] /\ con'[u] = con[u]
       /\ how'[u] = how[u] /\ victim'[u] = victim[u] /\ resume'[u] = resume[u]

\* What t holds after the step could be reached before it.
Reaches(t) == \A e \in Ends : (self'[t] = e \/ con'[t] = e) => Alive(e)

\* What t, its last user, lets go of it destroys next.
Buries(t) ==
    \A e \in Ends :
       Uses(t, e) /\ LastUser(t, e) =>
          \/ self'[t] = e \/ con'[t] = e
          \/ pc'[t] = "destroy" /\ victim'[t] = e

\* A step of a call changes that call only.
LEMMA CallOthers ==
    ASSUME TypeOK, NEW t \in Threads, InCall(t)
    PROVE  Others(t)
  <1>1. CASE \E e \in Ends : Read(t, e)
    BY <1>1 DEF Read, Goto, Begin, LockConnection, Others, TypeOK, CallTypes
  <1>2. CASE \E e \in Ends : Recvmsg(t, e)
    BY <1>2 DEF Recvmsg, Goto, Begin, Others, TypeOK, CallTypes
  <1>3. CASE \E e \in Ends : Write(t, e)
    BY <1>3 DEF Write, Goto, Begin, LockConnection, Others, TypeOK, CallTypes
  <1>4. CASE \E e \in Ends : WriteNative(t, e)
    BY <1>4 DEF WriteNative, Goto, Begin, LockConnection, Others, TypeOK, CallTypes
  <1>5. CASE \E e \in Ends : Sendmsg(t, e)
    BY <1>5 DEF Sendmsg, Goto, Begin, LockConnection, Others, TypeOK, CallTypes
  <1>6. CASE \E e \in Ends : Shutdown(t, e)
    BY <1>6 DEF Shutdown, Goto, Begin, LockConnection, Others, TypeOK, CallTypes
  <1>7. CASE \E e \in Ends : Close(t, e)
    BY <1>7 DEF Close, Goto, Begin, Others, TypeOK, CallTypes
  <1>8. CASE ReadDrop(t)
    BY <1>8 DEF ReadDrop, Goto, LetGo, Others, TypeOK, CallTypes
  <1>9. CASE ReceiveBody(t)
    BY <1>9 DEF ReceiveBody, Goto, Receive, Others, TypeOK, CallTypes
  <1>10. CASE Wake(t)
    BY <1>10 DEF Wake, Goto, Others, TypeOK, CallTypes
  <1>11. CASE WriteBody(t)
    BY <1>11 DEF WriteBody, Goto, Others, TypeOK, CallTypes
  <1>12. CASE WriteNativeBody(t)
    BY <1>12 DEF WriteNativeBody, Goto, Others, TypeOK, CallTypes
  <1>13. CASE SendmsgBody(t)
    BY <1>13 DEF SendmsgBody, Goto, Others, TypeOK, CallTypes
  <1>14. CASE ShutdownOwn(t)
    BY <1>14 DEF ShutdownOwn, Goto, Others, TypeOK, CallTypes
  <1>15. CASE ShutdownPeer(t)
    BY <1>15 DEF ShutdownPeer, Goto, Others, TypeOK, CallTypes
  <1>16. CASE Drop(t)
    BY <1>16 DEF Drop, Goto, LetGo, Others, TypeOK, CallTypes
  <1>17. CASE Return(t)
    BY <1>17 DEF Return, Goto, LetGo, Others, TypeOK, CallTypes
  <1>18. CASE Destroy(t)
    BY <1>18 DEF Destroy, Goto, Others, TypeOK, CallTypes
  <1> QED
    BY <1>1, <1>2, <1>3, <1>4, <1>5, <1>6, <1>7, <1>8, <1>9, <1>10, <1>11, <1>12,
       <1>13, <1>14, <1>15, <1>16, <1>17, <1>18 DEF InCall

\* The call stays well formed.
LEMMA CallStaysOK ==
    ASSUME TypeOK, CallInv, NEW t \in Threads, InCall(t)
    PROVE  CallOK(t)'
  <1>1. CASE \E e \in Ends : Read(t, e)
    BY <1>1, SocketConstants DEF Read, Goto, Begin, LockConnection, CallInv, CallOK,
       TypeOK, CallTypes
  <1>2. CASE \E e \in Ends : Recvmsg(t, e)
    BY <1>2, SocketConstants DEF Recvmsg, Goto, Begin, CallInv, CallOK, TypeOK,
       CallTypes
  <1>3. CASE \E e \in Ends : Write(t, e)
    BY <1>3, SocketConstants DEF Write, Goto, Begin, LockConnection, CallInv,
       CallOK, TypeOK, CallTypes
  <1>4. CASE \E e \in Ends : WriteNative(t, e)
    BY <1>4, SocketConstants DEF WriteNative, Goto, Begin, LockConnection, CallInv,
       CallOK, TypeOK, CallTypes
  <1>5. CASE \E e \in Ends : Sendmsg(t, e)
    BY <1>5, SocketConstants DEF Sendmsg, Goto, Begin, LockConnection, CallInv,
       CallOK, TypeOK, CallTypes
  <1>6. CASE \E e \in Ends : Shutdown(t, e)
    BY <1>6, SocketConstants DEF Shutdown, Goto, Begin, LockConnection, CallInv,
       CallOK, TypeOK, CallTypes
  <1>7. CASE \E e \in Ends : Close(t, e)
    BY <1>7, SocketConstants DEF Close, Goto, Begin, CallInv, CallOK, TypeOK,
       CallTypes
  <1>8. CASE ReadDrop(t)
    BY <1>8, SocketConstants DEF ReadDrop, Goto, LetGo, CallInv, CallOK, TypeOK,
       CallTypes
  <1>9. CASE ReceiveBody(t)
    BY <1>9, SocketConstants DEF ReceiveBody, Goto, Receive, CallInv, CallOK,
       TypeOK, CallTypes
  <1>10. CASE Wake(t)
    BY <1>10, SocketConstants DEF Wake, Goto, CallInv, CallOK, TypeOK, CallTypes
  <1>11. CASE WriteBody(t)
    BY <1>11, SocketConstants DEF WriteBody, Goto, CallInv, CallOK, TypeOK,
       CallTypes
  <1>12. CASE WriteNativeBody(t)
    BY <1>12, SocketConstants DEF WriteNativeBody, Goto, CallInv, CallOK, TypeOK,
       CallTypes
  <1>13. CASE SendmsgBody(t)
    BY <1>13, SocketConstants DEF SendmsgBody, Goto, CallInv, CallOK, TypeOK,
       CallTypes
  <1>14. CASE ShutdownOwn(t)
    BY <1>14, SocketConstants DEF ShutdownOwn, Goto, CallInv, CallOK, TypeOK,
       CallTypes
  <1>15. CASE ShutdownPeer(t)
    BY <1>15, SocketConstants DEF ShutdownPeer, Goto, CallInv, CallOK, TypeOK,
       CallTypes
  <1>16. CASE Drop(t)
    BY <1>16, SocketConstants DEF Drop, Goto, LetGo, CallInv, CallOK, TypeOK,
       CallTypes
  <1>17. CASE Return(t)
    BY <1>17, SocketConstants DEF Return, Goto, LetGo, CallInv, CallOK, TypeOK,
       CallTypes
  <1>18. CASE Destroy(t)
    BY <1>18, SocketConstants DEF Destroy, Goto, CallInv, CallOK, TypeOK, CallTypes
  <1> QED
    BY <1>1, <1>2, <1>3, <1>4, <1>5, <1>6, <1>7, <1>8, <1>9, <1>10, <1>11, <1>12,
       <1>13, <1>14, <1>15, <1>16, <1>17, <1>18 DEF InCall

\* No dead socket is reached again.
LEMMA CallReaches ==
    ASSUME TypeOK, CallInv, NEW t \in Threads, InCall(t)
    PROVE  Reaches(t)
  <1>1. CASE \E e \in Ends : Read(t, e)
    BY <1>1, SocketConstants DEF Read, Goto, Begin, LockConnection, Reaches, Alive,
       Uses, TypeOK, CallTypes, StreamTypes
  <1>2. CASE \E e \in Ends : Recvmsg(t, e)
    BY <1>2, SocketConstants DEF Recvmsg, Goto, Begin, Reaches, Alive, Uses, TypeOK,
       CallTypes, StreamTypes
  <1>3. CASE \E e \in Ends : Write(t, e)
    BY <1>3, SocketConstants DEF Write, Goto, Begin, LockConnection, Reaches, Alive,
       Uses, TypeOK, CallTypes, StreamTypes
  <1>4. CASE \E e \in Ends : WriteNative(t, e)
    BY <1>4, SocketConstants DEF WriteNative, Goto, Begin, LockConnection, Reaches,
       Alive, Uses, TypeOK, CallTypes, StreamTypes
  <1>5. CASE \E e \in Ends : Sendmsg(t, e)
    BY <1>5, SocketConstants DEF Sendmsg, Goto, Begin, LockConnection, Reaches,
       Alive, Uses, TypeOK, CallTypes, StreamTypes
  <1>6. CASE \E e \in Ends : Shutdown(t, e)
    BY <1>6, SocketConstants DEF Shutdown, Goto, Begin, LockConnection, Reaches,
       Alive, Uses, TypeOK, CallTypes, StreamTypes
  <1>7. CASE \E e \in Ends : Close(t, e)
    BY <1>7, SocketConstants DEF Close, Goto, Begin, Reaches, Alive, Uses, TypeOK,
       CallTypes, StreamTypes
  <1>8. CASE ReadDrop(t)
    BY <1>8, SocketConstants DEF ReadDrop, Goto, LetGo, Reaches, Alive, Uses,
       TypeOK, CallTypes, StreamTypes
  <1>9. CASE ReceiveBody(t)
    BY <1>9, SocketConstants DEF ReceiveBody, Goto, Receive, Reaches, Alive, Uses,
       TypeOK, CallTypes, StreamTypes
  <1>10. CASE Wake(t)
    BY <1>10, SocketConstants DEF Wake, Goto, Reaches, Alive, Uses, TypeOK,
       CallTypes, StreamTypes
  <1>11. CASE WriteBody(t)
    BY <1>11, SocketConstants DEF WriteBody, Goto, Reaches, Alive, Uses, TypeOK,
       CallTypes, StreamTypes
  <1>12. CASE WriteNativeBody(t)
    BY <1>12, SocketConstants DEF WriteNativeBody, Goto, Reaches, Alive, Uses,
       TypeOK, CallTypes, StreamTypes
  <1>13. CASE SendmsgBody(t)
    BY <1>13, SocketConstants DEF SendmsgBody, Goto, Reaches, Alive, Uses, TypeOK,
       CallTypes, StreamTypes
  <1>14. CASE ShutdownOwn(t)
    BY <1>14, SocketConstants DEF ShutdownOwn, Goto, Reaches, Alive, Uses, TypeOK,
       CallTypes, StreamTypes
  <1>15. CASE ShutdownPeer(t)
    BY <1>15, SocketConstants DEF ShutdownPeer, Goto, Reaches, Alive, Uses, TypeOK,
       CallTypes, StreamTypes
  <1>16. CASE Drop(t)
    BY <1>16, SocketConstants DEF Drop, Goto, LetGo, Reaches, Alive, Uses, TypeOK,
       CallTypes, StreamTypes
  <1>17. CASE Return(t)
    BY <1>17, SocketConstants DEF Return, Goto, LetGo, Reaches, Alive, Uses, TypeOK,
       CallTypes, StreamTypes
  <1>18. CASE Destroy(t)
    BY <1>18, SocketConstants DEF Destroy, Goto, Reaches, Alive, Uses, TypeOK,
       CallTypes, StreamTypes
  <1> QED
    BY <1>1, <1>2, <1>3, <1>4, <1>5, <1>6, <1>7, <1>8, <1>9, <1>10, <1>11, <1>12,
       <1>13, <1>14, <1>15, <1>16, <1>17, <1>18 DEF InCall

\* The last reference is not dropped without the destructor.
LEMMA CallBuries ==
    ASSUME TypeOK, CallInv, NEW t \in Threads, InCall(t)
    PROVE  Buries(t)
  <1>1. CASE \E e \in Ends : Read(t, e)
    BY <1>1, SocketConstants DEF Read, Goto, Begin, LockConnection, Buries,
       LastUser, Uses, CallInv, CallOK, TypeOK, CallTypes, StreamTypes
  <1>2. CASE \E e \in Ends : Recvmsg(t, e)
    BY <1>2, SocketConstants DEF Recvmsg, Goto, Begin, Buries, LastUser, Uses,
       CallInv, CallOK, TypeOK, CallTypes, StreamTypes
  <1>3. CASE \E e \in Ends : Write(t, e)
    BY <1>3, SocketConstants DEF Write, Goto, Begin, LockConnection, Buries,
       LastUser, Uses, CallInv, CallOK, TypeOK, CallTypes, StreamTypes
  <1>4. CASE \E e \in Ends : WriteNative(t, e)
    BY <1>4, SocketConstants DEF WriteNative, Goto, Begin, LockConnection, Buries,
       LastUser, Uses, CallInv, CallOK, TypeOK, CallTypes, StreamTypes
  <1>5. CASE \E e \in Ends : Sendmsg(t, e)
    BY <1>5, SocketConstants DEF Sendmsg, Goto, Begin, LockConnection, Buries,
       LastUser, Uses, CallInv, CallOK, TypeOK, CallTypes, StreamTypes
  <1>6. CASE \E e \in Ends : Shutdown(t, e)
    BY <1>6, SocketConstants DEF Shutdown, Goto, Begin, LockConnection, Buries,
       LastUser, Uses, CallInv, CallOK, TypeOK, CallTypes, StreamTypes
  <1>7. CASE \E e \in Ends : Close(t, e)
    BY <1>7, SocketConstants DEF Close, Goto, Begin, Buries, LastUser, Uses,
       CallInv, CallOK, TypeOK, CallTypes, StreamTypes
  <1>8. CASE ReadDrop(t)
    BY <1>8, SocketConstants DEF ReadDrop, Goto, LetGo, Buries, LastUser, Uses,
       CallInv, CallOK, TypeOK, CallTypes, StreamTypes
  <1>9. CASE ReceiveBody(t)
    BY <1>9, SocketConstants DEF ReceiveBody, Goto, Receive, Buries, LastUser, Uses,
       CallInv, CallOK, TypeOK, CallTypes, StreamTypes
  <1>10. CASE Wake(t)
    BY <1>10, SocketConstants DEF Wake, Goto, Buries, LastUser, Uses, CallInv,
       CallOK, TypeOK, CallTypes, StreamTypes
  <1>11. CASE WriteBody(t)
    BY <1>11, SocketConstants DEF WriteBody, Goto, Buries, LastUser, Uses, CallInv,
       CallOK, TypeOK, CallTypes, StreamTypes
  <1>12. CASE WriteNativeBody(t)
    BY <1>12, SocketConstants DEF WriteNativeBody, Goto, Buries, LastUser, Uses,
       CallInv, CallOK, TypeOK, CallTypes, StreamTypes
  <1>13. CASE SendmsgBody(t)
    BY <1>13, SocketConstants DEF SendmsgBody, Goto, Buries, LastUser, Uses,
       CallInv, CallOK, TypeOK, CallTypes, StreamTypes
  <1>14. CASE ShutdownOwn(t)
    BY <1>14, SocketConstants DEF ShutdownOwn, Goto, Buries, LastUser, Uses,
       CallInv, CallOK, TypeOK, CallTypes, StreamTypes
  <1>15. CASE ShutdownPeer(t)
    BY <1>15, SocketConstants DEF ShutdownPeer, Goto, Buries, LastUser, Uses,
       CallInv, CallOK, TypeOK, CallTypes, StreamTypes
  <1>16. CASE Drop(t)
    BY <1>16, SocketConstants DEF Drop, Goto, LetGo, Buries, LastUser, Uses,
       CallInv, CallOK, TypeOK, CallTypes, StreamTypes
  <1>17. CASE Return(t)
    BY <1>17, SocketConstants DEF Return, Goto, LetGo, Buries, LastUser, Uses,
       CallInv, CallOK, TypeOK, CallTypes, StreamTypes
  <1>18. CASE Destroy(t)
    BY <1>18, SocketConstants DEF Destroy, Goto, Buries, LastUser, Uses, CallInv,
       CallOK, TypeOK, CallTypes, StreamTypes
  <1> QED
    BY <1>1, <1>2, <1>3, <1>4, <1>5, <1>6, <1>7, <1>8, <1>9, <1>10, <1>11, <1>12,
       <1>13, <1>14, <1>15, <1>16, <1>17, <1>18 DEF InCall

----------------------------------------------------------------------------
(* Types.                                                                  *)

\* Steps beside the calls: a flag of the socket, a signal, a termination.
Beside(t) ==
    \/ \E e \in Ends, b \in BOOLEAN : SetBlocking(t, e, b)
    \/ Terminate(t) \/ TerminateSignal(t) \/ SignalThread(t)

\* A step of a call keeps the types of the call ...
LEMMA CallKeepsCalls ==
    ASSUME TypeOK, NEW t \in Threads, InCall(t)
    PROVE  CallTypes'
  <1>1. CASE \E e \in Ends : Read(t, e)
    BY <1>1, SocketConstants DEF Read, Goto, Begin, LockConnection, TypeOK,
       CallTypes, PC, How
  <1>2. CASE \E e \in Ends : Recvmsg(t, e)
    BY <1>2, SocketConstants DEF Recvmsg, Goto, Begin, TypeOK, CallTypes, PC, How
  <1>3. CASE \E e \in Ends : Write(t, e)
    BY <1>3, SocketConstants DEF Write, Goto, Begin, LockConnection, TypeOK,
       CallTypes, PC, How
  <1>4. CASE \E e \in Ends : WriteNative(t, e)
    BY <1>4, SocketConstants DEF WriteNative, Goto, Begin, LockConnection, TypeOK,
       CallTypes, PC, How
  <1>5. CASE \E e \in Ends : Sendmsg(t, e)
    BY <1>5, SocketConstants DEF Sendmsg, Goto, Begin, LockConnection, TypeOK,
       CallTypes, PC, How
  <1>6. CASE \E e \in Ends : Shutdown(t, e)
    BY <1>6, SocketConstants DEF Shutdown, Goto, Begin, LockConnection, TypeOK,
       CallTypes, PC, How
  <1>7. CASE \E e \in Ends : Close(t, e)
    BY <1>7, SocketConstants DEF Close, Goto, Begin, TypeOK, CallTypes, PC, How
  <1>8. CASE ReadDrop(t)
    BY <1>8, SocketConstants DEF ReadDrop, Goto, LetGo, TypeOK, CallTypes, PC, How
  <1>9. CASE ReceiveBody(t)
    BY <1>9, SocketConstants DEF ReceiveBody, Goto, Receive, TypeOK, CallTypes, PC,
       How
  <1>10. CASE Wake(t)
    BY <1>10, SocketConstants DEF Wake, Goto, TypeOK, CallTypes, PC, How
  <1>11. CASE WriteBody(t)
    BY <1>11, SocketConstants DEF WriteBody, Goto, TypeOK, CallTypes, PC, How
  <1>12. CASE WriteNativeBody(t)
    BY <1>12, SocketConstants DEF WriteNativeBody, Goto, TypeOK, CallTypes, PC, How
  <1>13. CASE SendmsgBody(t)
    BY <1>13, SocketConstants DEF SendmsgBody, Goto, TypeOK, CallTypes, PC, How
  <1>14. CASE ShutdownOwn(t)
    BY <1>14, SocketConstants DEF ShutdownOwn, Goto, TypeOK, CallTypes, PC, How
  <1>15. CASE ShutdownPeer(t)
    BY <1>15, SocketConstants DEF ShutdownPeer, Goto, TypeOK, CallTypes, PC, How
  <1>16. CASE Drop(t)
    BY <1>16, SocketConstants DEF Drop, Goto, LetGo, TypeOK, CallTypes, PC, How
  <1>17. CASE Return(t)
    BY <1>17, SocketConstants DEF Return, Goto, LetGo, TypeOK, CallTypes, PC, How
  <1>18. CASE Destroy(t)
    BY <1>18, SocketConstants DEF Destroy, Goto, TypeOK, CallTypes, PC, How
  <1> QED
    BY <1>1, <1>2, <1>3, <1>4, <1>5, <1>6, <1>7, <1>8, <1>9, <1>10, <1>11, <1>12,
       <1>13, <1>14, <1>15, <1>16, <1>17, <1>18 DEF InCall

\* ... of the two ends ...
LEMMA CallKeepsStreams ==
    ASSUME TypeOK, CallInv, NEW t \in Threads, InCall(t)
    PROVE  StreamTypes'
  <1>1. CASE \E e \in Ends : Read(t, e)
    BY <1>1 DEF Read, Goto, Begin, LockConnection, streams, CallInv, CallOK, TypeOK,
       StreamTypes, CallTypes
  <1>2. CASE \E e \in Ends : Recvmsg(t, e)
    BY <1>2 DEF Recvmsg, Goto, Begin, streams, CallInv, CallOK, TypeOK, StreamTypes,
       CallTypes
  <1>3. CASE \E e \in Ends : Write(t, e)
    BY <1>3 DEF Write, Goto, Begin, LockConnection, streams, CallInv, CallOK,
       TypeOK, StreamTypes, CallTypes
  <1>4. CASE \E e \in Ends : WriteNative(t, e)
    BY <1>4 DEF WriteNative, Goto, Begin, LockConnection, streams, CallInv, CallOK,
       TypeOK, StreamTypes, CallTypes
  <1>5. CASE \E e \in Ends : Sendmsg(t, e)
    BY <1>5 DEF Sendmsg, Goto, Begin, LockConnection, streams, CallInv, CallOK,
       TypeOK, StreamTypes, CallTypes
  <1>6. CASE \E e \in Ends : Shutdown(t, e)
    BY <1>6 DEF Shutdown, Goto, Begin, LockConnection, streams, CallInv, CallOK,
       TypeOK, StreamTypes, CallTypes
  <1>7. CASE \E e \in Ends : Close(t, e)
    BY <1>7 DEF Close, Goto, Begin, streams, CallInv, CallOK, TypeOK, StreamTypes,
       CallTypes
  <1>8. CASE ReadDrop(t)
    BY <1>8 DEF ReadDrop, Goto, LetGo, streams, CallInv, CallOK, TypeOK,
       StreamTypes, CallTypes
  <1>9. CASE ReceiveBody(t)
    BY <1>9 DEF ReceiveBody, Goto, Receive, streams, CallInv, CallOK, TypeOK,
       StreamTypes, CallTypes, HasMessage
  <1>10. CASE Wake(t)
    BY <1>10 DEF Wake, Goto, streams, CallInv, CallOK, TypeOK, StreamTypes,
       CallTypes
  <1>11. CASE WriteBody(t)
    BY <1>11 DEF WriteBody, Goto, streams, CallInv, CallOK, TypeOK, StreamTypes,
       CallTypes
  <1>12. CASE WriteNativeBody(t)
    BY <1>12 DEF WriteNativeBody, Goto, streams, CallInv, CallOK, TypeOK,
       StreamTypes, CallTypes
  <1>13. CASE SendmsgBody(t)
    BY <1>13 DEF SendmsgBody, Goto, streams, CallInv, CallOK, TypeOK, StreamTypes,
       CallTypes
  <1>14. CASE ShutdownOwn(t)
    BY <1>14 DEF ShutdownOwn, Goto, streams, CallInv, CallOK, TypeOK, StreamTypes,
       CallTypes
  <1>15. CASE ShutdownPeer(t)
    BY <1>15 DEF ShutdownPeer, Goto, streams, CallInv, CallOK, TypeOK, StreamTypes,
       CallTypes
  <1>16. CASE Drop(t)
    BY <1>16 DEF Drop, Goto, LetGo, streams, CallInv, CallOK, TypeOK, StreamTypes,
       CallTypes
  <1>17. CASE Return(t)
    BY <1>17 DEF Return, Goto, LetGo, streams, CallInv, CallOK, TypeOK, StreamTypes,
       CallTypes
  <1>18. CASE Destroy(t)
    BY <1>18 DEF Destroy, Goto, streams, CallInv, CallOK, TypeOK, StreamTypes,
       CallTypes
  <1> QED
    BY <1>1, <1>2, <1>3, <1>4, <1>5, <1>6, <1>7, <1>8, <1>9, <1>10, <1>11, <1>12,
       <1>13, <1>14, <1>15, <1>16, <1>17, <1>18 DEF InCall

\* ... and of the waits.
LEMMA CallKeepsWaits ==
    ASSUME TypeOK, NEW t \in Threads, InCall(t)
    PROVE  WaitTypes'
  <1>1. CASE \E e \in Ends : Read(t, e)
    BY <1>1 DEF Read, Goto, Begin, LockConnection, SignalAll, waits, TypeOK,
       WaitTypes
  <1>2. CASE \E e \in Ends : Recvmsg(t, e)
    BY <1>2 DEF Recvmsg, Goto, Begin, SignalAll, waits, TypeOK, WaitTypes
  <1>3. CASE \E e \in Ends : Write(t, e)
    BY <1>3 DEF Write, Goto, Begin, LockConnection, SignalAll, waits, TypeOK,
       WaitTypes
  <1>4. CASE \E e \in Ends : WriteNative(t, e)
    BY <1>4 DEF WriteNative, Goto, Begin, LockConnection, SignalAll, waits, TypeOK,
       WaitTypes
  <1>5. CASE \E e \in Ends : Sendmsg(t, e)
    BY <1>5 DEF Sendmsg, Goto, Begin, LockConnection, SignalAll, waits, TypeOK,
       WaitTypes
  <1>6. CASE \E e \in Ends : Shutdown(t, e)
    BY <1>6 DEF Shutdown, Goto, Begin, LockConnection, SignalAll, waits, TypeOK,
       WaitTypes
  <1>7. CASE \E e \in Ends : Close(t, e)
    BY <1>7 DEF Close, Goto, Begin, SignalAll, waits, TypeOK, WaitTypes
  <1>8. CASE ReadDrop(t)
    BY <1>8 DEF ReadDrop, Goto, LetGo, SignalAll, waits, TypeOK, WaitTypes
  <1>9. CASE ReceiveBody(t)
    BY <1>9 DEF ReceiveBody, Goto, Receive, SignalAll, waits, TypeOK, WaitTypes
  <1>10. CASE Wake(t)
    BY <1>10 DEF Wake, Goto, SignalAll, waits, TypeOK, WaitTypes
  <1>11. CASE WriteBody(t)
    BY <1>11 DEF WriteBody, Goto, SignalAll, waits, TypeOK, WaitTypes
  <1>12. CASE WriteNativeBody(t)
    BY <1>12 DEF WriteNativeBody, Goto, SignalAll, waits, TypeOK, WaitTypes
  <1>13. CASE SendmsgBody(t)
    BY <1>13 DEF SendmsgBody, Goto, SignalAll, waits, TypeOK, WaitTypes
  <1>14. CASE ShutdownOwn(t)
    BY <1>14 DEF ShutdownOwn, Goto, SignalAll, waits, TypeOK, WaitTypes
  <1>15. CASE ShutdownPeer(t)
    BY <1>15 DEF ShutdownPeer, Goto, SignalAll, waits, TypeOK, WaitTypes
  <1>16. CASE Drop(t)
    BY <1>16 DEF Drop, Goto, LetGo, SignalAll, waits, TypeOK, WaitTypes
  <1>17. CASE Return(t)
    BY <1>17 DEF Return, Goto, LetGo, SignalAll, waits, TypeOK, WaitTypes
  <1>18. CASE Destroy(t)
    BY <1>18 DEF Destroy, Goto, SignalAll, waits, TypeOK, WaitTypes
  <1> QED
    BY <1>1, <1>2, <1>3, <1>4, <1>5, <1>6, <1>7, <1>8, <1>9, <1>10, <1>11, <1>12,
       <1>13, <1>14, <1>15, <1>16, <1>17, <1>18 DEF InCall

\* So does a step beside them.
LEMMA BesideTypes ==
    ASSUME TypeOK, NEW t \in Threads, Beside(t)
    PROVE  TypeOK'
  <1>1. CASE \E e \in Ends, b \in BOOLEAN : SetBlocking(t, e, b)
    BY <1>1 DEF SetBlocking, calls, waits, TypeOK, StreamTypes, CallTypes, WaitTypes
  <1>2. CASE Terminate(t)
    BY <1>2 DEF Terminate, calls, streams, TypeOK, StreamTypes, CallTypes, WaitTypes
  <1>3. CASE TerminateSignal(t)
    BY <1>3 DEF TerminateSignal, SignalAll, calls, streams, TypeOK, StreamTypes, CallTypes, WaitTypes
  <1>4. CASE SignalThread(t)
    BY <1>4 DEF SignalThread, calls, streams, TypeOK, StreamTypes, CallTypes, WaitTypes
  <1> QED
    BY <1>1, <1>2, <1>3, <1>4 DEF Beside

----------------------------------------------------------------------------
(* What the steps of a call do to references and flags.                     *)

\* Descriptors are only closed, and the closing call still holds the socket.
LEMMA CallCloses ==
    ASSUME TypeOK, NEW t \in Threads, InCall(t), NEW x \in Ends
    PROVE  /\ open'[x] => open[x]
           /\ open[x] /\ ~open'[x] => self'[t] = x
  <1>1. CASE \E e \in Ends : Read(t, e)
    BY <1>1 DEF Read, Goto, Begin, LockConnection, streams, TypeOK, StreamTypes,
       CallTypes
  <1>2. CASE \E e \in Ends : Recvmsg(t, e)
    BY <1>2 DEF Recvmsg, Goto, Begin, streams, TypeOK, StreamTypes, CallTypes
  <1>3. CASE \E e \in Ends : Write(t, e)
    BY <1>3 DEF Write, Goto, Begin, LockConnection, streams, TypeOK, StreamTypes,
       CallTypes
  <1>4. CASE \E e \in Ends : WriteNative(t, e)
    BY <1>4 DEF WriteNative, Goto, Begin, LockConnection, streams, TypeOK,
       StreamTypes, CallTypes
  <1>5. CASE \E e \in Ends : Sendmsg(t, e)
    BY <1>5 DEF Sendmsg, Goto, Begin, LockConnection, streams, TypeOK, StreamTypes,
       CallTypes
  <1>6. CASE \E e \in Ends : Shutdown(t, e)
    BY <1>6 DEF Shutdown, Goto, Begin, LockConnection, streams, TypeOK, StreamTypes,
       CallTypes
  <1>7. CASE \E e \in Ends : Close(t, e)
    BY <1>7 DEF Close, Goto, Begin, streams, TypeOK, StreamTypes, CallTypes
  <1>8. CASE ReadDrop(t)
    BY <1>8 DEF ReadDrop, Goto, LetGo, streams, TypeOK, StreamTypes, CallTypes
  <1>9. CASE ReceiveBody(t)
    BY <1>9 DEF ReceiveBody, Goto, Receive, streams, TypeOK, StreamTypes, CallTypes
  <1>10. CASE Wake(t)
    BY <1>10 DEF Wake, Goto, streams, TypeOK, StreamTypes, CallTypes
  <1>11. CASE WriteBody(t)
    BY <1>11 DEF WriteBody, Goto, streams, TypeOK, StreamTypes, CallTypes
  <1>12. CASE WriteNativeBody(t)
    BY <1>12 DEF WriteNativeBody, Goto, streams, TypeOK, StreamTypes, CallTypes
  <1>13. CASE SendmsgBody(t)
    BY <1>13 DEF SendmsgBody, Goto, streams, TypeOK, StreamTypes, CallTypes
  <1>14. CASE ShutdownOwn(t)
    BY <1>14 DEF ShutdownOwn, Goto, streams, TypeOK, StreamTypes, CallTypes
  <1>15. CASE ShutdownPeer(t)
    BY <1>15 DEF ShutdownPeer, Goto, streams, TypeOK, StreamTypes, CallTypes
  <1>16. CASE Drop(t)
    BY <1>16 DEF Drop, Goto, LetGo, streams, TypeOK, StreamTypes, CallTypes
  <1>17. CASE Return(t)
    BY <1>17 DEF Return, Goto, LetGo, streams, TypeOK, StreamTypes, CallTypes
  <1>18. CASE Destroy(t)
    BY <1>18 DEF Destroy, Goto, streams, TypeOK, StreamTypes, CallTypes
  <1> QED
    BY <1>1, <1>2, <1>3, <1>4, <1>5, <1>6, <1>7, <1>8, <1>9, <1>10, <1>11, <1>12,
       <1>13, <1>14, <1>15, <1>16, <1>17, <1>18 DEF InCall

\* A thread comes to the destructor by dropping the last reference.
LEMMA CallDestroys ==
    ASSUME TypeOK, CallInv, NEW t \in Threads, InCall(t), pc'[t] = "destroy"
    PROVE  /\ LastUser(t, victim'[t]) /\ open' = open
           /\ self'[t] # victim'[t] /\ con'[t] # victim'[t]
  <1>1. CASE \E e \in Ends : Read(t, e)
    BY <1>1, SocketConstants DEF Read, Goto, Begin, LockConnection, LastUser, Uses,
       streams, CallInv, CallOK, TypeOK, CallTypes
  <1>2. CASE \E e \in Ends : Recvmsg(t, e)
    BY <1>2, SocketConstants DEF Recvmsg, Goto, Begin, LastUser, Uses, streams,
       CallInv, CallOK, TypeOK, CallTypes
  <1>3. CASE \E e \in Ends : Write(t, e)
    BY <1>3, SocketConstants DEF Write, Goto, Begin, LockConnection, LastUser, Uses,
       streams, CallInv, CallOK, TypeOK, CallTypes
  <1>4. CASE \E e \in Ends : WriteNative(t, e)
    BY <1>4, SocketConstants DEF WriteNative, Goto, Begin, LockConnection, LastUser,
       Uses, streams, CallInv, CallOK, TypeOK, CallTypes
  <1>5. CASE \E e \in Ends : Sendmsg(t, e)
    BY <1>5, SocketConstants DEF Sendmsg, Goto, Begin, LockConnection, LastUser,
       Uses, streams, CallInv, CallOK, TypeOK, CallTypes
  <1>6. CASE \E e \in Ends : Shutdown(t, e)
    BY <1>6, SocketConstants DEF Shutdown, Goto, Begin, LockConnection, LastUser,
       Uses, streams, CallInv, CallOK, TypeOK, CallTypes
  <1>7. CASE \E e \in Ends : Close(t, e)
    BY <1>7, SocketConstants DEF Close, Goto, Begin, LastUser, Uses, streams,
       CallInv, CallOK, TypeOK, CallTypes
  <1>8. CASE ReadDrop(t)
    BY <1>8, SocketConstants DEF ReadDrop, Goto, LetGo, LastUser, Uses, streams,
       CallInv, CallOK, TypeOK, CallTypes
  <1>9. CASE ReceiveBody(t)
    BY <1>9, SocketConstants DEF ReceiveBody, Goto, Receive, LastUser, Uses,
       streams, CallInv, CallOK, TypeOK, CallTypes
  <1>10. CASE Wake(t)
    BY <1>10, SocketConstants DEF Wake, Goto, LastUser, Uses, streams, CallInv,
       CallOK, TypeOK, CallTypes
  <1>11. CASE WriteBody(t)
    BY <1>11, SocketConstants DEF WriteBody, Goto, LastUser, Uses, streams, CallInv,
       CallOK, TypeOK, CallTypes
  <1>12. CASE WriteNativeBody(t)
    BY <1>12, SocketConstants DEF WriteNativeBody, Goto, LastUser, Uses, streams,
       CallInv, CallOK, TypeOK, CallTypes
  <1>13. CASE SendmsgBody(t)
    BY <1>13, SocketConstants DEF SendmsgBody, Goto, LastUser, Uses, streams,
       CallInv, CallOK, TypeOK, CallTypes
  <1>14. CASE ShutdownOwn(t)
    BY <1>14, SocketConstants DEF ShutdownOwn, Goto, LastUser, Uses, streams,
       CallInv, CallOK, TypeOK, CallTypes
  <1>15. CASE ShutdownPeer(t)
    BY <1>15, SocketConstants DEF ShutdownPeer, Goto, LastUser, Uses, streams,
       CallInv, CallOK, TypeOK, CallTypes
  <1>16. CASE Drop(t)
    BY <1>16, SocketConstants DEF Drop, Goto, LetGo, LastUser, Uses, streams,
       CallInv, CallOK, TypeOK, CallTypes
  <1>17. CASE Return(t)
    BY <1>17, SocketConstants DEF Return, Goto, LetGo, LastUser, Uses, streams,
       CallInv, CallOK, TypeOK, CallTypes
  <1>18. CASE Destroy(t)
    BY <1>18, SocketConstants DEF Destroy, Goto, LastUser, Uses, streams, CallInv,
       CallOK, TypeOK, CallTypes
  <1> QED
    BY <1>1, <1>2, <1>3, <1>4, <1>5, <1>6, <1>7, <1>8, <1>9, <1>10, <1>11, <1>12,
       <1>13, <1>14, <1>15, <1>16, <1>17, <1>18 DEF InCall

\* The flags change in three kinds of step, one of which leads to shutPeer and
\* one of which leaves it.
LEMMA CallFlags ==
    ASSUME TypeOK, CallInv, NEW t \in Threads, InCall(t)
    PROVE  \/ ShutdownOwn(t) \/ ShutdownPeer(t) \/ Destroy(t)
           \/ /\ UNCHANGED <<inClosed, outClosed, ownRead>>
              /\ pc[t] \notin {"shutPeer", "destroy"} /\ pc'[t] # "shutPeer"
  <1>1. CASE \E e \in Ends : Read(t, e)
    BY <1>1, SocketConstants DEF Read, Goto, Begin, LockConnection, LetGo, streams,
       CallInv, CallOK, TypeOK, CallTypes
  <1>2. CASE \E e \in Ends : Recvmsg(t, e)
    BY <1>2, SocketConstants DEF Recvmsg, Goto, Begin, LetGo, streams, CallInv,
       CallOK, TypeOK, CallTypes
  <1>3. CASE \E e \in Ends : Write(t, e)
    BY <1>3, SocketConstants DEF Write, Goto, Begin, LockConnection, LetGo, streams,
       CallInv, CallOK, TypeOK, CallTypes
  <1>4. CASE \E e \in Ends : WriteNative(t, e)
    BY <1>4, SocketConstants DEF WriteNative, Goto, Begin, LockConnection, LetGo,
       streams, CallInv, CallOK, TypeOK, CallTypes
  <1>5. CASE \E e \in Ends : Sendmsg(t, e)
    BY <1>5, SocketConstants DEF Sendmsg, Goto, Begin, LockConnection, LetGo,
       streams, CallInv, CallOK, TypeOK, CallTypes
  <1>6. CASE \E e \in Ends : Shutdown(t, e)
    BY <1>6, SocketConstants DEF Shutdown, Goto, Begin, LockConnection, LetGo,
       streams, CallInv, CallOK, TypeOK, CallTypes
  <1>7. CASE \E e \in Ends : Close(t, e)
    BY <1>7, SocketConstants DEF Close, Goto, Begin, LetGo, streams, CallInv,
       CallOK, TypeOK, CallTypes
  <1>8. CASE ReadDrop(t)
    BY <1>8, SocketConstants DEF ReadDrop, Goto, LetGo, streams, CallInv, CallOK,
       TypeOK, CallTypes
  <1>9. CASE ReceiveBody(t)
    BY <1>9, SocketConstants DEF ReceiveBody, Goto, Receive, LetGo, streams,
       CallInv, CallOK, TypeOK, CallTypes
  <1>10. CASE Wake(t)
    BY <1>10, SocketConstants DEF Wake, Goto, LetGo, streams, CallInv, CallOK,
       TypeOK, CallTypes
  <1>11. CASE WriteBody(t)
    BY <1>11, SocketConstants DEF WriteBody, Goto, LetGo, streams, CallInv, CallOK,
       TypeOK, CallTypes
  <1>12. CASE WriteNativeBody(t)
    BY <1>12, SocketConstants DEF WriteNativeBody, Goto, LetGo, streams, CallInv,
       CallOK, TypeOK, CallTypes
  <1>13. CASE SendmsgBody(t)
    BY <1>13, SocketConstants DEF SendmsgBody, Goto, LetGo, streams, CallInv,
       CallOK, TypeOK, CallTypes
  <1>14. CASE ShutdownOwn(t)
    BY <1>14, SocketConstants DEF ShutdownOwn, Goto, LetGo, streams, CallInv,
       CallOK, TypeOK, CallTypes
  <1>15. CASE ShutdownPeer(t)
    BY <1>15, SocketConstants DEF ShutdownPeer, Goto, LetGo, streams, CallInv,
       CallOK, TypeOK, CallTypes
  <1>16. CASE Drop(t)
    BY <1>16, SocketConstants DEF Drop, Goto, LetGo, streams, CallInv, CallOK,
       TypeOK, CallTypes
  <1>17. CASE Return(t)
    BY <1>17, SocketConstants DEF Return, Goto, LetGo, streams, CallInv, CallOK,
       TypeOK, CallTypes
  <1>18. CASE Destroy(t)
    BY <1>18, SocketConstants DEF Destroy, Goto, LetGo, streams, CallInv, CallOK,
       TypeOK, CallTypes
  <1> QED
    BY <1>1, <1>2, <1>3, <1>4, <1>5, <1>6, <1>7, <1>8, <1>9, <1>10, <1>11, <1>12,
       <1>13, <1>14, <1>15, <1>16, <1>17, <1>18 DEF InCall

\* A flag that is set stays set.
LEMMA CallFlagsStay ==
    ASSUME TypeOK, CallInv, NEW t \in Threads, InCall(t), NEW e \in Ends
    PROVE  /\ inClosed[e] => inClosed'[e]
           /\ outClosed[e] => outClosed'[e]
           /\ ownRead[e] => ownRead'[e]
  <1>1. CASE ShutdownOwn(t)
    BY <1>1 DEF ShutdownOwn, TypeOK, StreamTypes
  <1>2. CASE ShutdownPeer(t)
    BY <1>2 DEF ShutdownPeer, TypeOK, StreamTypes
  <1>3. CASE Destroy(t)
    BY <1>3 DEF Destroy, TypeOK, StreamTypes
  <1> QED
    BY <1>1, <1>2, <1>3, CallFlags

\* Only the body of a receiving call goes to sleep.
LEMMA CallParks ==
    ASSUME TypeOK, CallInv, NEW t \in Threads, InCall(t), pc'[t] = "parked"
    PROVE  ReceiveBody(t)
  <1>1. CASE \E e \in Ends : Read(t, e)
    BY <1>1 DEF Read, Goto, Begin, LockConnection, LetGo, CallInv, CallOK, TypeOK,
       CallTypes
  <1>2. CASE \E e \in Ends : Recvmsg(t, e)
    BY <1>2 DEF Recvmsg, Goto, Begin, LetGo, CallInv, CallOK, TypeOK, CallTypes
  <1>3. CASE \E e \in Ends : Write(t, e)
    BY <1>3 DEF Write, Goto, Begin, LockConnection, LetGo, CallInv, CallOK, TypeOK,
       CallTypes
  <1>4. CASE \E e \in Ends : WriteNative(t, e)
    BY <1>4 DEF WriteNative, Goto, Begin, LockConnection, LetGo, CallInv, CallOK,
       TypeOK, CallTypes
  <1>5. CASE \E e \in Ends : Sendmsg(t, e)
    BY <1>5 DEF Sendmsg, Goto, Begin, LockConnection, LetGo, CallInv, CallOK,
       TypeOK, CallTypes
  <1>6. CASE \E e \in Ends : Shutdown(t, e)
    BY <1>6 DEF Shutdown, Goto, Begin, LockConnection, LetGo, CallInv, CallOK,
       TypeOK, CallTypes
  <1>7. CASE \E e \in Ends : Close(t, e)
    BY <1>7 DEF Close, Goto, Begin, LetGo, CallInv, CallOK, TypeOK, CallTypes
  <1>8. CASE ReadDrop(t)
    BY <1>8 DEF ReadDrop, Goto, LetGo, CallInv, CallOK, TypeOK, CallTypes
  <1>9. CASE ReceiveBody(t)
    BY <1>9 DEF ReceiveBody, Goto, Receive, LetGo, CallInv, CallOK, TypeOK,
       CallTypes
  <1>10. CASE Wake(t)
    BY <1>10 DEF Wake, Goto, LetGo, CallInv, CallOK, TypeOK, CallTypes
  <1>11. CASE WriteBody(t)
    BY <1>11 DEF WriteBody, Goto, LetGo, CallInv, CallOK, TypeOK, CallTypes
  <1>12. CASE WriteNativeBody(t)
    BY <1>12 DEF WriteNativeBody, Goto, LetGo, CallInv, CallOK, TypeOK, CallTypes
  <1>13. CASE SendmsgBody(t)
    BY <1>13 DEF SendmsgBody, Goto, LetGo, CallInv, CallOK, TypeOK, CallTypes
  <1>14. CASE ShutdownOwn(t)
    BY <1>14 DEF ShutdownOwn, Goto, LetGo, CallInv, CallOK, TypeOK, CallTypes
  <1>15. CASE ShutdownPeer(t)
    BY <1>15 DEF ShutdownPeer, Goto, LetGo, CallInv, CallOK, TypeOK, CallTypes
  <1>16. CASE Drop(t)
    BY <1>16 DEF Drop, Goto, LetGo, CallInv, CallOK, TypeOK, CallTypes
  <1>17. CASE Return(t)
    BY <1>17 DEF Return, Goto, LetGo, CallInv, CallOK, TypeOK, CallTypes
  <1>18. CASE Destroy(t)
    BY <1>18 DEF Destroy, Goto, LetGo, CallInv, CallOK, TypeOK, CallTypes
  <1> QED
    BY <1>1, <1>2, <1>3, <1>4, <1>5, <1>6, <1>7, <1>8, <1>9, <1>10, <1>11, <1>12,
       <1>13, <1>14, <1>15, <1>16, <1>17, <1>18 DEF InCall

\* A sleeper that a signal did not reach sleeps on another end.
LEMMA SignalMisses ==
    ASSUME NEW e \in Ends \cup {None}, SignalAll(e),
           NEW u \in Threads, pc[u] = "parked", ~notified'[u]
    PROVE  ~notified[u] /\ self[u] # e
  BY DEF SignalAll, ParkedOn

\* Whoever sleeps is told of what is added to its input and of its end, and
\* nobody takes a signal from it.
LEMMA CallTells ==
    ASSUME TypeOK, CallInv, NEW t \in Threads, InCall(t),
           NEW u \in Threads \ {t}, pc[u] = "parked", ~notified'[u]
    PROVE  /\ ~notified[u]
           /\ recvBuffer'[self[u]] <= recvBuffer[self[u]]
           /\ msgs'[self[u]] <= msgs[self[u]]
           /\ inClosed'[self[u]] = inClosed[self[u]]
  <1> self[u] \in Ends
    BY DEF CallInv, CallOK, TypeOK, CallTypes
  <1>1. CASE \E e \in Ends : Read(t, e)
    BY <1>1, SignalMisses DEF Read, Goto, Begin, LockConnection, streams, waits,
       TypeOK, StreamTypes, CallTypes, WaitTypes
  <1>2. CASE \E e \in Ends : Recvmsg(t, e)
    BY <1>2, SignalMisses DEF Recvmsg, Goto, Begin, streams, waits, TypeOK,
       StreamTypes, CallTypes, WaitTypes
  <1>3. CASE \E e \in Ends : Write(t, e)
    BY <1>3, SignalMisses DEF Write, Goto, Begin, LockConnection, streams, waits,
       TypeOK, StreamTypes, CallTypes, WaitTypes
  <1>4. CASE \E e \in Ends : WriteNative(t, e)
    BY <1>4, SignalMisses DEF WriteNative, Goto, Begin, LockConnection, streams,
       waits, TypeOK, StreamTypes, CallTypes, WaitTypes
  <1>5. CASE \E e \in Ends : Sendmsg(t, e)
    BY <1>5, SignalMisses DEF Sendmsg, Goto, Begin, LockConnection, streams, waits,
       TypeOK, StreamTypes, CallTypes, WaitTypes
  <1>6. CASE \E e \in Ends : Shutdown(t, e)
    BY <1>6, SignalMisses DEF Shutdown, Goto, Begin, LockConnection, streams, waits,
       TypeOK, StreamTypes, CallTypes, WaitTypes
  <1>7. CASE \E e \in Ends : Close(t, e)
    BY <1>7, SignalMisses DEF Close, Goto, Begin, streams, waits, TypeOK,
       StreamTypes, CallTypes, WaitTypes
  <1>8. CASE ReadDrop(t)
    BY <1>8, SignalMisses DEF ReadDrop, Goto, LetGo, streams, waits, TypeOK,
       StreamTypes, CallTypes, WaitTypes
  <1>9. CASE ReceiveBody(t)
    BY <1>9, SignalMisses DEF ReceiveBody, Goto, Receive, streams, waits, TypeOK,
       StreamTypes, CallTypes, WaitTypes
  <1>10. CASE Wake(t)
    BY <1>10, SignalMisses DEF Wake, Goto, streams, waits, TypeOK, StreamTypes,
       CallTypes, WaitTypes
  <1>11. CASE WriteBody(t)
    BY <1>11, SignalMisses DEF WriteBody, Goto, streams, waits, TypeOK, StreamTypes,
       CallTypes, WaitTypes
  <1>12. CASE WriteNativeBody(t)
    BY <1>12, SignalMisses DEF WriteNativeBody, Goto, streams, waits, TypeOK,
       StreamTypes, CallTypes, WaitTypes
  <1>13. CASE SendmsgBody(t)
    BY <1>13, SignalMisses DEF SendmsgBody, Goto, streams, waits, TypeOK,
       StreamTypes, CallTypes, WaitTypes
  <1>14. CASE ShutdownOwn(t)
    BY <1>14, SignalMisses DEF ShutdownOwn, Goto, streams, waits, TypeOK,
       StreamTypes, CallTypes, WaitTypes
  <1>15. CASE ShutdownPeer(t)
    BY <1>15, SignalMisses DEF ShutdownPeer, Goto, streams, waits, TypeOK,
       StreamTypes, CallTypes, WaitTypes
  <1>16. CASE Drop(t)
    BY <1>16, SignalMisses DEF Drop, Goto, LetGo, streams, waits, TypeOK,
       StreamTypes, CallTypes, WaitTypes
  <1>17. CASE Return(t)
    BY <1>17, SignalMisses DEF Return, Goto, LetGo, streams, waits, TypeOK,
       StreamTypes, CallTypes, WaitTypes
  <1>18. CASE Destroy(t)
    <2>1. victim[t] \in Ends /\ Peer[victim[t]] \in Ends
      BY <1>18, SocketConstants DEF Destroy, CallInv, CallOK, TypeOK, CallTypes
    <2>2. /\ recvBuffer'[self[u]] <= recvBuffer[self[u]]
          /\ msgs'[self[u]] <= msgs[self[u]]
      BY <1>18, <2>1 DEF Destroy, TypeOK, StreamTypes
    <2>3. ~notified[u] /\ inClosed'[self[u]] = inClosed[self[u]]
      BY <1>18, <2>1, SignalMisses DEF Destroy, TypeOK, StreamTypes
    <2> QED
      BY <2>2, <2>3
  <1> QED
    BY <1>1, <1>2, <1>3, <1>4, <1>5, <1>6, <1>7, <1>8, <1>9, <1>10, <1>11, <1>12,
       <1>13, <1>14, <1>15, <1>16, <1>17, <1>18 DEF InCall

\* Dead sockets stay dead; one that dies has its destructor before it, which
\* waits for its own step.
LEMMA CallLives ==
    ASSUME TypeOK, CallInv, NEW t \in Threads, InCall(t), NEW e \in Ends
    PROVE  /\ Alive(e)' => Alive(e)
           /\ Alive(e) => Alive(e)' \/ Owed(e)'
           /\ Owed(e) => Owed(e)' \/ (Destroy(t) /\ victim[t] = e)
  <1>1. Others(t) /\ Reaches(t) /\ Buries(t)
    BY CallOthers, CallReaches, CallBuries
  <1>2. /\ open'[e] => open[e]
        /\ open[e] /\ ~open'[e] => self'[t] = e
    BY CallCloses
  <1>3. Alive(e)' => Alive(e)
    BY <1>1, <1>2 DEF Alive, Uses, Others, Reaches
  <1>4. Alive(e) => Alive(e)' \/ Owed(e)'
    BY <1>1, <1>2 DEF Alive, Uses, Others, Buries, LastUser, Owed
  <1>5. pc[t] = "destroy" => Destroy(t)
    BY CallFlags DEF ShutdownOwn, ShutdownPeer
  <1>6. Owed(e) => Owed(e)' \/ (Destroy(t) /\ victim[t] = e)
    BY <1>1, <1>5 DEF Owed, Others
  <1> QED
    BY <1>3, <1>4, <1>6

----------------------------------------------------------------------------
(* The invariant is kept by the steps of a call.                            *)

\* Every call stays well formed.
LEMMA KeepsCallInv ==
    ASSUME IInv, NEW t \in Threads, InCall(t)
    PROVE  CallInv'
  <1>1. CallOK(t)'
    BY CallStaysOK DEF IInv
  <1>2. Others(t)
    BY CallOthers DEF IInv
  <1>3. ASSUME NEW u \in Threads \ {t} PROVE CallOK(u)'
    BY <1>2, <1>3 DEF IInv, CallInv, CallOK, Others
  <1> QED
    BY <1>1, <1>3 DEF CallInv

\* What is being destroyed stays out of reach.
LEMMA KeepsVictimDead ==
    ASSUME IInv, NEW t \in Threads, InCall(t)
    PROVE  VictimDead'
  <1> SUFFICES ASSUME NEW u \in Threads, pc'[u] = "destroy" PROVE ~Alive(victim[u])'
    BY DEF VictimDead
  <1>1. Others(t) /\ CallInv' /\ CallTypes'
    BY CallOthers, KeepsCallInv, CallKeepsCalls DEF IInv
  <1>2. victim'[u] \in Ends
    BY <1>1 DEF CallInv, CallOK, CallTypes
  <1>3. CASE u = t
    BY <1>1, <1>2, <1>3, CallDestroys DEF IInv, Alive, Uses, LastUser, Others
  <1>4. CASE u # t
    <2>1. victim'[u] = victim[u] /\ pc[u] = "destroy"
      BY <1>1, <1>4 DEF Others
    <2>2. ~Alive(victim[u]) /\ victim[u] \in Ends
      BY <2>1, <1>2 DEF IInv, VictimDead
    <2>3. Alive(victim[u])' => \E e \in Ends : e = victim[u] /\ Alive(e)'
      BY <1>2, <2>1 DEF Alive, Uses
    <2> QED
      BY <2>2, <2>3, CallLives DEF IInv
  <1> QED
    BY <1>3, <1>4

\* The peer of a dead socket is or will be told.
LEMMA KeepsTold ==
    ASSUME IInv, NEW t \in Threads, InCall(t)
    PROVE  Told'
  <1> SUFFICES ASSUME NEW e \in Ends, ~Alive(e)'
               PROVE  Owed(e)' \/ inClosed'[Peer[e]] \/ ~Alive(Peer[e])'
    BY DEF Told, Alive, Uses, Owed
  <1>0. Peer[e] \in Ends
    BY SocketConstants
  <1>1. CASE Alive(e)
    BY <1>1, CallLives DEF IInv
  <1>2. CASE ~Alive(e) /\ Owed(e) /\ ~Owed(e)'
    <2>1. Destroy(t) /\ victim[t] = e
      BY <1>2, CallLives DEF IInv
    <2>2. Alive(Peer[e]) => inClosed'[Peer[e]]
      BY <2>1, <1>0 DEF Destroy, IInv, TypeOK, StreamTypes
    <2> QED
      BY <2>2, <1>0, CallLives DEF IInv
  <1>3. CASE ~Alive(e) /\ ~Owed(e)
    BY <1>3, <1>0, CallLives, CallFlagsStay DEF IInv, Told
  <1> QED
    BY <1>1, <1>2, <1>3

\* A shutdown has closed its own half before it goes to the peer.
LEMMA KeepsShutInv ==
    ASSUME IInv, NEW t \in Threads, InCall(t)
    PROVE  ShutInv'
  <1> SUFFICES ASSUME NEW u \in Threads, pc'[u] = "shutPeer"
               PROVE  /\ how'[u] \in {"RD", "RDWR"} => inClosed'[self'[u]]
                      /\ how'[u] \in {"WR", "RDWR"} => outClosed'[self'[u]]
    BY DEF ShutInv
  <1>1. CASE u = t
    <2>1. ShutdownOwn(t)
      BY <1>1, CallFlags DEF IInv, CallInv, CallOK, ShutdownPeer, Destroy, Goto, TypeOK, CallTypes
    <2>2. self[t] \in Ends
      BY <2>1 DEF ShutdownOwn, IInv, CallInv, CallOK, TypeOK, CallTypes
    <2> QED
      BY <1>1, <2>1, <2>2 DEF ShutdownOwn, IInv, TypeOK, StreamTypes
  <1>2. CASE u # t
    <2>1. pc[u] = "shutPeer" /\ how'[u] = how[u] /\ self'[u] = self[u]
      BY <1>2, CallOthers DEF IInv, Others
    <2>2. self[u] \in Ends
      BY <2>1 DEF IInv, CallInv, CallOK, TypeOK, CallTypes
    <2> QED
      BY <2>1, <2>2, CallFlagsStay DEF IInv, ShutInv
  <1> QED
    BY <1>1, <1>2

\* A disagreement about a half is always some shutdown's to settle.
LEMMA KeepsHalvesInv ==
    ASSUME IInv, NEW t \in Threads, InCall(t)
    PROVE  HalvesInv'
  <1> SUFFICES ASSUME NEW e \in Ends, Alive(e)', Alive(Peer[e])',
                      inClosed'[e] # outClosed'[Peer[e]]
               PROVE  \E u \in Threads : Covers(u, e)'
    BY DEF HalvesInv, Covers, Alive, Uses
  <1>0. /\ Peer[e] \in Ends /\ Peer[e] # e /\ Peer[Peer[e]] = e
        /\ \A f \in Ends : Peer[f] = e <=> f = Peer[e]
    BY SocketConstants
  <1>1. Alive(e) /\ Alive(Peer[e])
    BY <1>0, CallLives DEF IInv
  <1>2. \A u \in Threads \ {t} : Covers(u, e) => Covers(u, e)'
    BY CallOthers DEF IInv, Others, Covers
  <1>3. inClosed[e] # outClosed[Peer[e]] => \E u \in Threads : Covers(u, e)
    BY <1>1 DEF IInv, HalvesInv
  <1>4. CASE ShutdownOwn(t)
    <2>1. self[t] \in Ends /\ ~Covers(t, e)
      BY <1>4 DEF ShutdownOwn, IInv, CallInv, CallOK, TypeOK, CallTypes, Covers
    <2>2. CASE /\ inClosed'[e] = inClosed[e]
               /\ outClosed'[Peer[e]] = outClosed[Peer[e]]
      BY <2>1, <2>2, <1>2, <1>3
    <2>3. CASE inClosed'[e] # inClosed[e]
      <3>1. self[t] = e /\ how[t] \in {"RD", "RDWR"}
        BY <1>4, <2>1, <2>3 DEF ShutdownOwn, IInv, TypeOK, StreamTypes
      <3> QED
        BY <1>4, <3>1 DEF ShutdownOwn, Goto, Covers, IInv, TypeOK, CallTypes
    <2>4. CASE outClosed'[Peer[e]] # outClosed[Peer[e]]
      <3>1. self[t] = Peer[e] /\ how[t] \in {"WR", "RDWR"}
        BY <1>0, <1>4, <2>1, <2>4 DEF ShutdownOwn, IInv, TypeOK, StreamTypes
      <3> QED
        BY <1>4, <3>1 DEF ShutdownOwn, Goto, Covers, IInv, TypeOK, CallTypes
    <2> QED
      BY <2>2, <2>3, <2>4
  <1>5. CASE ShutdownPeer(t)
    <2>1. self[t] \in Ends /\ con[t] = Peer[self[t]]
      BY <1>5 DEF ShutdownPeer, IInv, CallInv, CallOK, TypeOK, CallTypes
    <2>2. /\ how[t] \in {"RD", "RDWR"} => inClosed[self[t]]
          /\ how[t] \in {"WR", "RDWR"} => outClosed[self[t]]
      BY <1>5 DEF ShutdownPeer, IInv, ShutInv
    <2>3. ~Covers(t, e)
      BY <1>0, <1>5, <2>1, <2>2, CallFlagsStay DEF ShutdownPeer, Covers, IInv, TypeOK, StreamTypes
    <2>4. /\ con[t] = e <=> self[t] = Peer[e]
          /\ con[t] = Peer[e] <=> self[t] = e
      BY <1>0, <2>1, SocketConstants
    <2>5. /\ inClosed'[e] = inClosed[e]
          /\ outClosed'[Peer[e]] = outClosed[Peer[e]]
      BY <1>0, <1>5, <2>3, <2>4 DEF ShutdownPeer, Covers, IInv, TypeOK, StreamTypes
    <2> QED
      BY <2>3, <2>5, <1>2, <1>3
  <1>6. CASE Destroy(t)
    <2>1. victim[t] # e /\ victim[t] # Peer[e] /\ victim[t] \in Ends
      BY <1>1, <1>6 DEF Destroy, IInv, VictimDead, CallInv, CallOK, TypeOK, CallTypes
    <2>2. Peer[victim[t]] # e /\ Peer[victim[t]] # Peer[e]
      BY <2>1, SocketConstants
    <2>3. /\ inClosed'[e] = inClosed[e]
          /\ outClosed'[Peer[e]] = outClosed[Peer[e]] /\ ~Covers(t, e)
      BY <1>0, <1>6, <2>2 DEF Destroy, Covers, IInv, TypeOK, StreamTypes
    <2> QED
      BY <2>3, <1>2, <1>3
  <1>7. CASE /\ UNCHANGED <<inClosed, outClosed, ownRead>>
             /\ pc[t] \notin {"shutPeer", "destroy"} /\ pc'[t] # "shutPeer"
    <2>1. ~Covers(t, e)
      BY <1>7 DEF Covers
    <2> QED
      BY <1>7, <2>1, <1>2, <1>3
  <1> QED
    BY <1>4, <1>5, <1>6, <1>7, CallFlags DEF IInv

\* What the peer closed cannot be written to.
LEMMA KeepsOutInv ==
    ASSUME IInv, NEW t \in Threads, InCall(t)
    PROVE  OutInv'
  <1> SUFFICES ASSUME NEW e \in Ends, inClosed'[e], ~ownRead'[e], Alive(Peer[e])'
               PROVE  outClosed'[Peer[e]]
    BY DEF OutInv, Alive, Uses
  <1>0. Peer[e] \in Ends /\ Peer[e] # e /\ Peer[Peer[e]] = e
    BY SocketConstants
  <1>1. Alive(Peer[e]) /\ ~ownRead[e]
    BY <1>0, CallLives, CallFlagsStay DEF IInv
  <1>2. inClosed[e] => outClosed'[Peer[e]]
    BY <1>0, <1>1, CallFlagsStay DEF IInv, OutInv
  <1>3. CASE ShutdownOwn(t)
    BY <1>2, <1>3 DEF ShutdownOwn, IInv, TypeOK, StreamTypes
  <1>4. CASE ShutdownPeer(t) /\ ~inClosed[e]
    <2>1. con[t] = e /\ how[t] \in {"WR", "RDWR"}
      BY <1>4 DEF ShutdownPeer, IInv, TypeOK, StreamTypes
    <2>2. self[t] = Peer[e]
      BY <1>4, <2>1, SocketConstants DEF ShutdownPeer, IInv, CallInv, CallOK, TypeOK, CallTypes
    <2> QED
      BY <1>0, <1>4, <2>1, <2>2, CallFlagsStay DEF ShutdownPeer, IInv, ShutInv
  <1>5. CASE Destroy(t) /\ ~inClosed[e]
    <2>1. Peer[victim[t]] = e
      BY <1>5 DEF Destroy, IInv, TypeOK, StreamTypes
    <2>2. victim[t] = Peer[e]
      BY <1>5, <2>1, SocketConstants DEF Destroy, IInv, CallInv, CallOK, TypeOK, CallTypes
    <2> QED
      BY <1>1, <1>5, <2>2 DEF Destroy, IInv, VictimDead
  <1>6. CASE UNCHANGED <<inClosed, outClosed, ownRead>>
    BY <1>2, <1>6
  <1> QED
    BY <1>2, <1>3, <1>4, <1>5, <1>6, CallFlags DEF IInv

\* A sleeper that was not told has nothing to be told.
LEMMA KeepsReaders ==
    ASSUME IInv, NEW t \in Threads, InCall(t)
    PROVE  NoOrphanReader'
  <1> SUFFICES ASSUME NEW u \in Threads, pc'[u] = "parked", ~notified'[u]
               PROVE  /\ recvBuffer'[self'[u]] = 0
                      /\ how'[u] = "msg" => msgs'[self'[u]] = 0
                      /\ ~inClosed'[self'[u]]
                      /\ (Alive(Peer[self[u]]) \/ Owed(Peer[self[u]]))'
    BY DEF NoOrphanReader, Alive, Uses, Owed
  <1>1. TypeOK' /\ CallInv' /\ Told'
    BY CallKeepsCalls, CallKeepsStreams, CallKeepsWaits, KeepsCallInv, KeepsTold DEF IInv, TypeOK
  <1>2. self'[u] \in Ends /\ Peer[self'[u]] \in Ends /\ Peer[Peer[self'[u]]] = self'[u]
    BY <1>1, SocketConstants DEF CallInv, CallOK, TypeOK, CallTypes
  <1>3. /\ recvBuffer'[self'[u]] = 0
        /\ how'[u] = "msg" => msgs'[self'[u]] = 0
        /\ ~inClosed'[self'[u]]
    <2>1. CASE u = t
      <3>1. ReceiveBody(t) /\ pc'[t] = "parked"
        BY <2>1, CallParks DEF IInv
      <3> QED
        BY <2>1, <3>1, <1>2 DEF ReceiveBody, Receive, HasMessage, Goto, IInv, TypeOK, StreamTypes, CallTypes
    <2>2. CASE u # t
      <3>1. pc[u] = "parked" /\ self'[u] = self[u] /\ how'[u] = how[u]
        BY <2>2, CallOthers DEF IInv, Others
      <3>2. /\ ~notified[u]
            /\ recvBuffer'[self[u]] <= recvBuffer[self[u]]
            /\ msgs'[self[u]] <= msgs[self[u]]
            /\ inClosed'[self[u]] = inClosed[self[u]]
        BY <2>2, <3>1, CallTells DEF IInv
      <3> QED
        BY <1>1, <1>2, <3>1, <3>2 DEF IInv, NoOrphanReader, TypeOK, StreamTypes
    <2> QED
      BY <2>1, <2>2
  <1>4. Alive(self[u])'
    BY DEF Alive, Uses
  <1>5. (~Alive(Peer[self[u]]) => Owed(Peer[self[u]]))'
    BY <1>1, <1>2, <1>3, <1>4 DEF Told, Alive, Uses, Owed
  <1> QED
    BY <1>3, <1>5

----------------------------------------------------------------------------
(* The other steps.                                                        *)

\* A step beside the calls touches neither calls nor data, and takes no
\* sleeper's signal away.
LEMMA BesideQuiet ==
    ASSUME TypeOK, NEW t \in Threads, Beside(t)
    PROVE  /\ UNCHANGED <<calls, open, inClosed, outClosed, recvBuffer, msgs, ownRead>>
           /\ \A u \in Threads : notified[u] => notified'[u]
  <1>1. CASE \E e \in Ends, b \in BOOLEAN : SetBlocking(t, e, b)
    BY <1>1 DEF SetBlocking, calls, waits
  <1>2. CASE Terminate(t)
    BY <1>2 DEF Terminate, calls, streams
  <1>3. CASE TerminateSignal(t)
    BY <1>3 DEF TerminateSignal, SignalAll, calls, streams
  <1>4. CASE SignalThread(t)
    BY <1>4 DEF SignalThread, calls, streams, TypeOK, WaitTypes
  <1> QED
    BY <1>1, <1>2, <1>3, <1>4 DEF Beside

\* What depends on calls and data only is kept when they are.
LEMMA QuietKeeps ==
    ASSUME IInv, TypeOK',
           UNCHANGED <<calls, open, inClosed, outClosed, recvBuffer, msgs, ownRead>>,
           \A u \in Threads : notified[u] => notified'[u]
    PROVE  IInv'
  <1>1. CallInv'
    BY DEF IInv, CallInv, CallOK, calls
  <1>2. VictimDead' /\ Told'
    BY DEF IInv, VictimDead, Told, Owed, Alive, Uses, calls
  <1>3. ShutInv'
    BY DEF IInv, ShutInv, calls
  <1>4. HalvesInv' /\ OutInv'
    BY DEF IInv, HalvesInv, OutInv, Covers, Alive, Uses, calls
  <1>5. NoOrphanReader'
    BY DEF IInv, NoOrphanReader, Owed, Alive, Uses, calls
  <1> QED
    BY <1>1, <1>2, <1>3, <1>4, <1>5 DEF IInv

\* The initial state: nobody is in a call and nothing is closed.
LEMMA InitIInv == Init => IInv
  <1> SUFFICES ASSUME Init PROVE IInv
    OBVIOUS
  <1>1. TypeOK
    BY SocketConstants DEF Init, TypeOK, StreamTypes, CallTypes, WaitTypes, PC, How
  <1>2. \A t \in Threads : pc[t] = "idle" /\ self[t] = None /\ con[t] = None
    BY DEF Init
  <1>3. CallInv /\ VictimDead /\ ShutInv /\ NoOrphanReader
    BY <1>2 DEF CallInv, CallOK, VictimDead, ShutInv, NoOrphanReader
  <1>4. Told /\ HalvesInv /\ OutInv
    BY SocketConstants DEF Init, Told, Alive, HalvesInv, OutInv
  <1> QED
    BY <1>1, <1>3, <1>4 DEF IInv

\* Every step keeps the invariant.
LEMMA StepIInv == IInv /\ [Next]_vars => IInv'
  <1> SUFFICES ASSUME IInv, [Next]_vars PROVE IInv'
    OBVIOUS
  <1>1. ASSUME NEW t \in Threads, InCall(t) PROVE IInv'
    <2>1. TypeOK'
      BY <1>1, CallKeepsCalls, CallKeepsStreams, CallKeepsWaits DEF IInv, TypeOK
    <2>2. CallInv' /\ VictimDead' /\ Told' /\ ShutInv'
      BY <1>1, KeepsCallInv, KeepsVictimDead, KeepsTold, KeepsShutInv
    <2>3. HalvesInv' /\ OutInv' /\ NoOrphanReader'
      BY <1>1, KeepsHalvesInv, KeepsOutInv, KeepsReaders
    <2> QED
      BY <2>1, <2>2, <2>3 DEF IInv
  <1>2. ASSUME NEW t \in Threads, Beside(t) PROVE IInv'
    <2>1. TypeOK'
      BY <1>2, BesideTypes DEF IInv
    <2> QED
      BY <1>2, <2>1, BesideQuiet, QuietKeeps DEF IInv
  <1>3. CASE UNCHANGED vars
    <2>1. TypeOK'
      BY <1>3 DEF IInv, TypeOK, StreamTypes, CallTypes, WaitTypes, vars, streams, calls, waits
    <2> QED
      BY <1>3, <2>1, QuietKeeps DEF vars, streams, waits
  <1>4. Next => \E t \in Threads : InCall(t) \/ Beside(t)
    BY DEF Next, Continue, Call, InCall, Beside
  <1> QED
    BY <1>1, <1>2, <1>3, <1>4

\* The invariant holds in every behaviour.
THEOREM Invariance == Spec => []IInv
  BY InitIInv, StepIInv, PTL DEF Spec

----------------------------------------------------------------------------
(* The properties.                                                         *)

\* Type correctness of the pair and its calls.
THEOREM TypeCorrect == Spec => []TypeOK
  <1>1. IInv => TypeOK
    BY DEF IInv
  <1> QED
    BY <1>1, Invariance, PTL

\* No reader sleeps through data, a shutdown or the death of its peer.
THEOREM ReadersAreTold == Spec => []NoOrphanReader
  <1>1. IInv => NoOrphanReader
    BY DEF IInv
  <1> QED
    BY <1>1, Invariance, PTL

\* Between shutdowns the two ends agree about both halves.
THEOREM EndsAgree == Spec => []HalvesAgree
  <1>1. IInv => HalvesAgree
    BY DEF IInv, HalvesInv, HalvesAgree, Covers
  <1> QED
    BY <1>1, Invariance, PTL

\* No step of a call but writeNative's adds to an input the peer has closed.
LEMMA CallFinal ==
    ASSUME IInv, NEW t \in Threads, InCall(t), pc[t] # "writeNative",
           NEW x \in Ends, inClosed[x], ~ownRead[x]
    PROVE  recvBuffer'[x] <= recvBuffer[x] /\ msgs'[x] <= msgs[x]
  <1> USE DEF IInv
  <1>a. con[t] = x => outClosed[self[t]]
    <2> SUFFICES ASSUME con[t] = x PROVE outClosed[self[t]]
      OBVIOUS
    <2>1. self[t] = Peer[x] /\ Peer[x] \in Ends
      BY SocketConstants DEF CallInv, CallOK, TypeOK, CallTypes
    <2> QED
      BY <2>1 DEF OutInv, Alive, Uses
  <1>1. CASE \E e \in Ends : Read(t, e)
    BY <1>1, <1>a DEF Read, Goto, Begin, LockConnection, streams, TypeOK,
       StreamTypes
  <1>2. CASE \E e \in Ends : Recvmsg(t, e)
    BY <1>2, <1>a DEF Recvmsg, Goto, Begin, streams, TypeOK, StreamTypes
  <1>3. CASE \E e \in Ends : Write(t, e)
    BY <1>3, <1>a DEF Write, Goto, Begin, LockConnection, streams, TypeOK,
       StreamTypes
  <1>4. CASE \E e \in Ends : WriteNative(t, e)
    BY <1>4, <1>a DEF WriteNative, Goto, Begin, LockConnection, streams, TypeOK,
       StreamTypes
  <1>5. CASE \E e \in Ends : Sendmsg(t, e)
    BY <1>5, <1>a DEF Sendmsg, Goto, Begin, LockConnection, streams, TypeOK,
       StreamTypes
  <1>6. CASE \E e \in Ends : Shutdown(t, e)
    BY <1>6, <1>a DEF Shutdown, Goto, Begin, LockConnection, streams, TypeOK,
       StreamTypes
  <1>7. CASE \E e \in Ends : Close(t, e)
    BY <1>7, <1>a DEF Close, Goto, Begin, streams, TypeOK, StreamTypes
  <1>8. CASE ReadDrop(t)
    BY <1>8, <1>a DEF ReadDrop, Goto, LetGo, streams, TypeOK, StreamTypes
  <1>9. CASE ReceiveBody(t)
    BY <1>9, <1>a DEF ReceiveBody, Goto, Receive, streams, TypeOK, StreamTypes
  <1>10. CASE Wake(t)
    BY <1>10, <1>a DEF Wake, Goto, streams, TypeOK, StreamTypes
  <1>11. CASE WriteBody(t)
    BY <1>11, <1>a DEF WriteBody, Goto, streams, TypeOK, StreamTypes
  <1>12. CASE WriteNativeBody(t)
    BY <1>12, <1>a DEF WriteNativeBody, Goto, streams, TypeOK, StreamTypes
  <1>13. CASE SendmsgBody(t)
    BY <1>13, <1>a DEF SendmsgBody, Goto, streams, TypeOK, StreamTypes
  <1>14. CASE ShutdownOwn(t)
    BY <1>14, <1>a DEF ShutdownOwn, Goto, streams, TypeOK, StreamTypes
  <1>15. CASE ShutdownPeer(t)
    BY <1>15, <1>a DEF ShutdownPeer, Goto, streams, TypeOK, StreamTypes
  <1>16. CASE Drop(t)
    BY <1>16, <1>a DEF Drop, Goto, LetGo, streams, TypeOK, StreamTypes
  <1>17. CASE Return(t)
    BY <1>17, <1>a DEF Return, Goto, LetGo, streams, TypeOK, StreamTypes
  <1>18. CASE Destroy(t)
    BY <1>18, <1>a DEF Destroy, Goto, streams, TypeOK, StreamTypes
  <1> QED
    BY <1>1, <1>2, <1>3, <1>4, <1>5, <1>6, <1>7, <1>8, <1>9, <1>10, <1>11, <1>12,
       <1>13, <1>14, <1>15, <1>16, <1>17, <1>18 DEF InCall

\* What the peer closed is final, whatever the threads on both ends do.
THEOREM ClosedIsFinal == Spec => ClosedInputIsFinal
  <1> DEFINE Fixed ==
        \A e \in Ends :
          inClosed[e] /\ ~ownRead[e] /\ ~(\E t \in Threads : pc[t] = "writeNative") =>
             recvBuffer'[e] <= recvBuffer[e] /\ msgs'[e] <= msgs[e]
  <1>1. IInv /\ [Next]_vars => [Fixed]_vars
    <2> SUFFICES ASSUME IInv, Next PROVE Fixed
      OBVIOUS
    <2>1. ASSUME NEW t \in Threads, InCall(t) PROVE Fixed
      BY <2>1, CallFinal
    <2>2. ASSUME NEW t \in Threads, Beside(t) PROVE Fixed
      BY <2>2, BesideQuiet DEF IInv, TypeOK, StreamTypes
    <2>3. \E t \in Threads : InCall(t) \/ Beside(t)
      BY DEF Next, Continue, Call, InCall, Beside
    <2> QED
      BY <2>1, <2>2, <2>3
  <1> QED
    BY <1>1, Invariance, PTL DEF Spec, ClosedInputIsFinal
=============================================================================
