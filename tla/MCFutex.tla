------------------------------ MODULE MCFutex ------------------------------
(* Instances of Futex for TLC.                                             *)
EXTENDS Futex, TLC

CONSTANTS a, b, c, p, q

OneSpace == [t \in Threads |-> p]
TwoSpaces == [t \in Threads |-> IF t = a THEN p ELSE q]

MixedLanes == [t \in Threads |-> IF t = a THEN 32 ELSE 64]
WaiterIn64 == [t \in Threads |-> IF t = a THEN 64 ELSE 32]

NoTids == [t \in Threads |-> NoWord]
JoinTid == [t \in Threads |-> IF t = c THEN CHOOSE w \in Words : TRUE ELSE NoWord]

\* One waiter that is signalled and ended while another thread wakes it.
Disturbed == (a :> {"wait", "timedwait", "end"} @@ b :> {"signal"} @@
              c :> {"store", "wake", "requeue", "end"})

\* A timed waiter that may be ended, and a thread that stores and wakes.
OneWaiter == (a :> {"wait", "timedwait", "end"} @@ c :> {"store", "wake"})
=============================================================================
