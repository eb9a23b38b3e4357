---------------------------- MODULE FutexProofs ----------------------------
(* Proofs about Futex, for every set of threads, spaces, words and values. *)
EXTENDS Futex, TLAPS

USE DEF memory, signals, parking

\* The lock of the table is held by the thread that walks it, and a thread
\* about to wake the waiters of its clear_child_tid has one.
LockInv ==
    /\ \A t \in Threads : walk.by = t <=> Walking(t)
    /\ walk.by # NoThread => walk.woken < walk.idx
    /\ \A t \in Threads : pc[t] = "exiting" => TidWord[t] # NoWord

\* A waiter and its entry point at each other, and agree on the wait.
SlotInv ==
    /\ \A t \in Threads : IF Waiter(t)
                          THEN slot[t] \in DOMAIN table /\ table[slot[t]].thread = t
                          ELSE slot[t] = 0
    /\ \A s \in DOMAIN table :
          table[s].thread # NoThread => slot[table[s].thread] = s

\* A blocked thread is registered with the condition of its entry.
CondInv == \A t \in Threads : waitingCond[t] = IF Parked(t) THEN slot[t] ELSE 0

\* A host pointer the page of the cell has now or had before.
WasHost(h, cell) == h = <<cell, h[2]>> /\ h[2] \in Nat /\ h[2] <= gen[cell]

\* What an entry says about its owner's wait.
EntryOK(s) ==
    LET e == table[s]  o == e.thread  cell == CellOf(e.space, e.guest) IN
    /\ o = NoThread => ~e.waiting /\ ~e.wake
    /\ o # NoThread =>
          /\ e.guest = req[o].guest /\ e.priv = req[o].priv
          /\ e.expected = req[o].val /\ e.space = SpaceOf[o]
          /\ e.waiting <=> Parked(o)
          /\ e.waiting => e.mask # {}
          /\ e.wake => e.waiting /\ notified[o]
          /\ WasHost(e.host, cell)

EntryInv == \A s \in DOMAIN table : EntryOK(s)

\* A thread on its way to allocFutex.
Looking(t) == pc[t] \in {"lookup", "precheck", "alloc"}

\* ... carries a host pointer its word has or had.
HostInv == \A t \in Threads :
              Looking(t) => WasHost(req[t].host, CellOf(SpaceOf[t], req[t].guest))

IInv == TypeOK /\ LockInv /\ SlotInv /\ CondInv /\ EntryInv /\ HostInv /\ NoLostWake

\* The host pointer of u's call is the one its word has now.
Resolves(u) == req[u].host = HostOf(SpaceOf[u], req[u].guest)

\* The step leaves the call of thread u as it is, takes the lock for its walk,
\* or is the call that has just resolved its word.
CallKept(u) ==
    /\ InWake(u)' =>
          \/ /\ InWake(u) /\ req'[u] = req[u]
             /\ Walking(u)' => walk'.idx <= 1 \/ (Walking(u) /\ walk' = walk)
          \/ ~Walking(u)' /\ Resolves(u)'
    /\ Looking(u)' =>
          \/ Looking(u) /\ req'[u] = req[u]
          \/ Resolves(u)'

----------------------------------------------------------------------------
\* What the proofs use of the assumption on the constants.
LEMMA ConstantFacts ==
    /\ NoThread \notin Threads /\ Bits # {} /\ Zero \in Values
    /\ \A t \in Threads : SpaceOf[t] \in Spaces
    /\ \A space \in Spaces, a \in Words : CellOf(space, a) \in Cells
    /\ Spaces \cap {Everyone} = {}
  BY FutexConstants DEF Cells

\* Overwriting one entry of the table keeps its length and the others.
LEMMA ExceptSeq ==
    ASSUME NEW S, NEW q \in Seq(S), NEW i \in DOMAIN q, NEW e \in S
    PROVE  /\ [q EXCEPT ![i] = e] \in Seq(S)
           /\ DOMAIN [q EXCEPT ![i] = e] = DOMAIN q
           /\ Len([q EXCEPT ![i] = e]) = Len(q)
           /\ \A k \in DOMAIN q : [q EXCEPT ![i] = e][k] = IF k = i THEN e ELSE q[k]
  <1> DEFINE r == [q EXCEPT ![i] = e]
  <1>1. Len(q) \in Nat /\ DOMAIN q = 1..Len(q) /\ DOMAIN r = 1..Len(q)
    OBVIOUS
  <1>2. \A k \in 1..Len(q) : r[k] = IF k = i THEN e ELSE q[k]
    BY <1>1
  <1>3. \A k \in 1..Len(q) : r[k] \in S
    BY <1>1, <1>2
  <1>4. r \in [1..Len(q) -> S]
    BY <1>1, <1>3
  <1>5. r \in Seq(S) /\ Len(r) = Len(q)
    BY <1>1, <1>4
  <1> QED
    BY <1>1, <1>2, <1>5

\* A released entry is an entry.
LEMMA FreeEntryType == FreeEntry \in Entry
  BY FutexConstants DEF FreeEntry, Entry

\* initFutex makes an entry.
LEMMA InitEntryType ==
    ASSUME TypeOK, NEW t \in Threads, NEW r \in Request
    PROVE  initFutex(t, r) \in Entry
  BY ConstantFacts DEF TypeOK, initFutex, Entry, Request, HostOf, Hosts

\* The idle request is a request.
LEMMA NoRequestType == NoArgs \in Args /\ NoRequest \in Request
  BY FutexConstants DEF NoArgs, Args, NoRequest, Resolved, Request

\* What a call resolves when it enters the kernel.
LEMMA ResolveType ==
    ASSUME TypeOK, NEW t \in Threads, NEW r \in Args, NEW n \in Nat
    PROVE  /\ Resolve(t, r, n) \in Request
           /\ Resolve(t, r, n).guest = r.guest
           /\ Resolve(t, r, n).host = HostOf(SpaceOf[t], r.guest)
  <1>1. HostOf(SpaceOf[t], r.guest) \in Hosts
    BY ConstantFacts DEF TypeOK, HostOf, Hosts, Args
  <1> QED
    BY <1>1 DEF Resolve, Resolved, Request, Args

\* Moving a thread keeps the types of pc, req and ret.
LEMMA MoveType ==
    ASSUME TypeOK, NEW t \in Threads
    PROVE  /\ \A l \in PC : [pc EXCEPT ![t] = l] \in [Threads -> PC]
           /\ \A r \in Request : [req EXCEPT ![t] = r] \in [Threads -> Request]
           /\ \A x \in Results : [thread |-> t, result |-> x] \in
                 [thread : Threads \cup {NoThread}, result : Results]
           /\ NoResult \in [thread : Threads \cup {NoThread}, result : Results]
  <1>1. \A l \in PC : [pc EXCEPT ![t] = l] \in [Threads -> PC]
    BY DEF TypeOK
  <1>2. \A r \in Request : [req EXCEPT ![t] = r] \in [Threads -> Request]
    BY DEF TypeOK
  <1>3. NoResult \in [thread : Threads \cup {NoThread}, result : Results]
    BY DEF NoResult, Results
  <1> QED
    BY <1>1, <1>2, <1>3

----------------------------------------------------------------------------
\* The empty table satisfies the inductive invariant.
THEOREM InitInv == Init => IInv
  <1> SUFFICES ASSUME Init PROVE IInv
    OBVIOUS
  <1>1. TypeOK
    BY FutexConstants, NoRequestType
    DEF Init, TypeOK, NoWalk, NoSig, NoResult, PC, Results
  <1>2. LockInv /\ SlotInv /\ CondInv
    BY FutexConstants
    DEF Init, LockInv, SlotInv, CondInv, NoWalk, Walking, Waiter, Parked
  <1>3. EntryInv /\ HostInv /\ NoLostWake
    BY DEF Init, EntryInv, HostInv, Looking, NoLostWake
  <1> QED
    BY <1>1, <1>2, <1>3 DEF IInv

\* Table slots are 1..Len(table); 0 stands for nullptr.
LEMMA SlotNotZero ==
    ASSUME TypeOK PROVE /\ Len(table) \in Nat /\ DOMAIN table = 1..Len(table)
                        /\ \A s \in DOMAIN table : s \in Nat /\ s # 0 /\ s >= 1
                        /\ \A s \in DOMAIN table : table[s] \in Entry
  BY DEF TypeOK

\* The owner of an entry is a waiter, and a thread that is not one owns none.
LEMMA Ownership ==
    ASSUME IInv
    PROVE  /\ \A s \in DOMAIN table : table[s].thread # NoThread =>
                 table[s].thread \in Threads /\ Waiter(table[s].thread)
           /\ \A t \in Threads : ~Waiter(t) => Owned(t) = {}
           /\ \A t \in Threads : Waiter(t) => Owned(t) = {slot[t]}
  <1>1. ASSUME NEW s \in DOMAIN table, table[s].thread # NoThread
        PROVE  table[s].thread \in Threads /\ Waiter(table[s].thread)
    <2>1. table[s] \in Entry /\ s # 0
      BY SlotNotZero DEF IInv
    <2>2. table[s].thread \in Threads /\ slot[table[s].thread] = s
      BY <1>1, <2>1 DEF IInv, SlotInv, Entry
    <2> QED
      BY <2>1, <2>2 DEF IInv, SlotInv
  <1>2. ASSUME NEW t \in Threads PROVE t # NoThread
    BY ConstantFacts
  <1> QED
    BY <1>1, <1>2 DEF Owned, IInv, SlotInv

\* A step that leaves the table alone, and every waiter where it is, disturbs
\* no entry.
LEMMA EntryFrame ==
    ASSUME IInv, table' = table,
           \A c \in Cells : gen'[c] \in Nat /\ gen[c] <= gen'[c],
           \A u \in Threads : Waiter(u) => /\ req'[u] = req[u]
                                           /\ pc'[u] = pc[u]
                                           /\ notified[u] => notified'[u]
    PROVE  EntryInv'
  <1> SUFFICES ASSUME NEW s \in DOMAIN table PROVE EntryOK(s)'
    BY DEF EntryInv
  <1>1. EntryOK(s) /\ table[s] \in Entry
    BY DEF IInv, TypeOK, EntryInv
  <1>2. CASE table[s].thread = NoThread
    BY <1>1, <1>2 DEF EntryOK
  <1>3. CASE table[s].thread # NoThread
    <2> DEFINE o == table[s].thread
               cell == CellOf(table[s].space, table[s].guest)
    <2>1. o \in Threads /\ Waiter(o)
      BY <1>3, Ownership
    <2>2. cell \in Cells
      BY <1>1, <1>3, <2>1, ConstantFacts DEF EntryOK, IInv, TypeOK, Request
    <2>3. gen[cell] \in Nat /\ gen'[cell] \in Nat /\ gen[cell] <= gen'[cell]
      BY <2>2 DEF IInv, TypeOK
    <2> QED
      BY <1>1, <1>3, <2>1, <2>3 DEF EntryOK, WasHost, Parked
  <1> QED
    BY <1>2, <1>3

\* A host pointer that was resolved stays one that was resolved.
LEMMA HostFrame ==
    ASSUME IInv, TypeOK', \A c \in Cells : gen[c] <= gen'[c],
           \A u \in Threads : Looking(u)' =>
              \/ Looking(u) /\ req'[u] = req[u]
              \/ Resolves(u)'
    PROVE  HostInv'
  <1> SUFFICES ASSUME NEW u \in Threads, Looking(u)'
               PROVE  WasHost(req[u].host, CellOf(SpaceOf[u], req[u].guest))'
    BY DEF HostInv
  <1> DEFINE cell == CellOf(SpaceOf[u], req'[u].guest)
  <1>1. cell \in Cells
    BY ConstantFacts DEF TypeOK, Request
  <1>2. gen[cell] \in Nat /\ gen'[cell] \in Nat /\ gen[cell] <= gen'[cell]
    BY <1>1 DEF IInv, TypeOK
  <1>3. CASE Looking(u) /\ req'[u] = req[u]
    BY <1>2, <1>3 DEF IInv, HostInv, WasHost
  <1>4. CASE Resolves(u)'
    BY <1>2, <1>4 DEF Resolves, HostOf, WasHost
  <1> QED
    BY <1>3, <1>4

\* A step that leaves the table and memory alone, adds to what is owed, and
\* does not advance the walk, loses no wake.
LEMMA WakeFrame ==
    ASSUME IInv, table' = table, word' = word,
           \A c \in Cells : gen'[c] \in Nat /\ gen[c] <= gen'[c],
           \A u \in Threads : owes[u] \subseteq owes'[u],
           walk'.idx \in Nat,
           \A u \in Threads : CallKept(u)
    PROVE  NoLostWake'
  <1> SUFFICES ASSUME NEW s \in DOMAIN table,
                      table[s].waiting, ~table[s].wake, Reachable(table[s])',
                      word[CellOf(table[s].space, table[s].guest)] # table[s].expected
               PROVE  \E u \in Threads : StillOwes(u, s)'
    BY DEF NoLostWake
  <1> DEFINE e == table[s]
             cell == CellOf(e.space, e.guest)
  <1>1. EntryOK(s) /\ e \in Entry /\ s >= 1 /\ Len(table) \in Nat /\ s \in Nat
    BY SlotNotZero DEF IInv, EntryInv
  <1>2. e.thread # NoThread /\ e.thread \in Threads
    BY <1>1 DEF EntryOK, Entry
  <1>3. cell \in Cells /\ e.host = <<cell, e.host[2]>> /\ e.host[2] \in Nat
          /\ e.host[2] <= gen[cell] /\ gen[cell] \in Nat
    BY <1>1, <1>2, ConstantFacts DEF EntryOK, WasHost, IInv, TypeOK, Request
  <1>4. Reachable(e)
    BY <1>3 DEF Reachable, HostOf
  <1>5. PICK u \in Threads : StillOwes(u, s)
    BY <1>4 DEF IInv, NoLostWake
  <1>6. /\ <<e.guest, e.priv>> \in owes'[u]
        /\ CellOf(SpaceOf[u], e.guest) = CellOf(e.space, e.guest)
    BY <1>5 DEF StillOwes
  <1>7. CASE InWake(u) /\ req'[u] = req[u] /\ InWake(u)'
             /\ (Walking(u)' => walk'.idx <= 1 \/ (Walking(u) /\ walk' = walk))
    BY <1>1, <1>5, <1>6, <1>7 DEF StillOwes, FullWalk
  <1>8. CASE ~Walking(u)' /\ Resolves(u)'
    <2>1. HostOf(SpaceOf[u], e.guest)' = HostOf(e.space, e.guest)'
      BY <1>6 DEF HostOf
    <2>2. e.priv \/ HostOf(e.space, e.guest)' = e.host
      BY DEF Reachable
    <2> QED
      BY <1>6, <1>8, <2>1, <2>2 DEF StillOwes, Resolves
  <1>9. CASE ~InWake(u)'
    BY <1>6, <1>9 DEF StillOwes
  <1> QED
    BY <1>7, <1>8, <1>9 DEF CallKept

\* The same for all of the invariant but TypeOK and LockInv.
LEMMA QuietStep ==
    ASSUME IInv, TypeOK', LockInv',
           UNCHANGED <<table, word, slot, waitingCond>>,
           \A c \in Cells : gen[c] <= gen'[c],
           \A u \in Threads : owes[u] \subseteq owes'[u],
           \A u \in Threads : CallKept(u),
           \A u \in Threads : Waiter(u) => /\ req'[u] = req[u]
                                           /\ pc'[u] = pc[u]
                                           /\ notified[u] => notified'[u],
           \A u \in Threads : Waiter(u)' => Waiter(u)
    PROVE  IInv'
  <1>0. \A c \in Cells : gen'[c] \in Nat /\ gen[c] <= gen'[c]
    BY DEF TypeOK
  <1>1. SlotInv'
    BY DEF IInv, SlotInv, Waiter
  <1>2. CondInv'
    BY DEF IInv, CondInv, Parked, Waiter
  <1>3. EntryInv'
    BY <1>0, EntryFrame
  <1>4. NoLostWake'
    <2>1. walk'.idx \in Nat
      BY DEF TypeOK
    <2> QED
      BY <1>0, <2>1, WakeFrame
  <1>5. HostInv'
    BY HostFrame DEF CallKept
  <1> QED
    BY <1>1, <1>2, <1>3, <1>4, <1>5 DEF IInv

\* Entering FUTEX_WAIT.
LEMMA WaitCallInv ==
    ASSUME IInv, NEW t \in Threads, NEW r \in Args, WaitCall(t, r)
    PROVE  IInv'
  <1> USE DEF WaitCall, Goto
  <1>0. /\ req' = [req EXCEPT ![t] = Resolve(t, r, 0)] /\ Resolve(t, r, 0) \in Request
        /\ Resolves(t)'
    BY ResolveType, SMTT(30) DEF IInv, TypeOK, HostOf, Resolves
  <1>1. TypeOK'
    BY <1>0, MoveType, SMTT(30) DEF IInv, TypeOK, PC
  <1>2. LockInv'
    BY DEF IInv, LockInv, Walking, TypeOK
  <1>3. \A u \in Threads : u # t => req'[u] = req[u] /\ pc'[u] = pc[u]
    BY DEF IInv, TypeOK
  <1>4. ~Waiter(t) /\ ~Waiter(t)'
    BY DEF IInv, TypeOK, Waiter
  <1>5. \A u \in Threads : CallKept(u)
    BY <1>0, <1>3 DEF CallKept, InWake, Walking, Looking, IInv, TypeOK
  <1>6. \A c \in Cells : gen[c] <= gen'[c]
    BY DEF IInv, TypeOK
  <1> QED
    BY <1>1, <1>2, <1>3, <1>4, <1>5, <1>6, QuietStep DEF Waiter

\* The 64-bit lane compares before it allocates.
LEMMA PrecheckInv ==
    ASSUME IInv, NEW t \in Threads, Precheck(t)
    PROVE  IInv'
  <1> USE DEF Precheck, Return, Goto
  <1>1. TypeOK'
    <2>1. CASE ValueOf(t, req[t].guest) # req[t].val
      <3>1. /\ pc' = [pc EXCEPT ![t] = "user"]
            /\ ret' = [thread |-> t, result |-> "EAGAIN"]
            /\ req' = [req EXCEPT ![t] = NoRequest]
        BY <2>1
      <3> QED
        BY <3>1, MoveType, NoRequestType DEF IInv, TypeOK, PC, Results
    <2>2. CASE ValueOf(t, req[t].guest) = req[t].val
      <3>1. pc' = [pc EXCEPT ![t] = "alloc"] /\ ret' = NoResult /\ req' = req
        BY <2>2
      <3> QED
        BY <3>1, MoveType DEF IInv, TypeOK, PC
    <2> QED
      BY <2>1, <2>2
  <1>2. LockInv'
    BY FutexConstants DEF IInv, LockInv, Walking, TypeOK, NoWalk
  <1>3. \A u \in Threads : u # t => req'[u] = req[u] /\ pc'[u] = pc[u]
    BY DEF IInv, TypeOK
  <1>4. ~Waiter(t) /\ ~Waiter(t)'
    BY DEF IInv, TypeOK, Waiter
  <1>5. \A u \in Threads : CallKept(u)
    BY DEF CallKept, InWake, Walking, Looking, IInv, TypeOK
  <1>6. \A c \in Cells : gen[c] <= gen'[c]
    BY DEF IInv, TypeOK
  <1>7. \A u \in Threads : notified[u] => notified'[u]
    BY DEF IInv, TypeOK
  <1>8. UNCHANGED <<table, word, slot, waitingCond, owes>>
    OBVIOUS
  <1> QED
    BY <1>1, <1>2, <1>3, <1>4, <1>5, <1>6, <1>7, <1>8, QuietStep DEF Waiter

\* A wake call of any kind, up to the lock.
LEMMA StartWakeInv ==
    ASSUME IInv, NEW t \in Threads, ~Waiter(t), ~Walking(t), NEW r \in Args,
           NEW n \in Nat, NEW l \in {"lock", "exitlock"}, StartWake(t, r, n, l),
           ret' = NoResult, UNCHANGED <<memory, table, walk, parking, signals, owes>>
    PROVE  IInv'
  <1> USE DEF StartWake, Goto
  <1>0. /\ req' = [req EXCEPT ![t] = Resolve(t, r, n)] /\ Resolve(t, r, n) \in Request
        /\ Resolves(t)'
    BY ResolveType, SMTT(30) DEF IInv, TypeOK, HostOf, Resolves
  <1>1. TypeOK'
    BY <1>0, MoveType, SMTT(30) DEF IInv, TypeOK, PC
  <1>2. pc'[t] = l /\ \A u \in Threads : u # t => req'[u] = req[u] /\ pc'[u] = pc[u]
    BY DEF IInv, TypeOK
  <1>3. LockInv'
    BY <1>2 DEF IInv, LockInv, Walking
  <1>4. ~Waiter(t)'
    BY <1>2 DEF Waiter
  <1>5. \A u \in Threads : CallKept(u)
    BY <1>0, <1>2 DEF CallKept, InWake, Walking, Looking
  <1>6. \A c \in Cells : gen[c] <= gen'[c]
    BY DEF IInv, TypeOK
  <1>7. UNCHANGED <<table, word, slot, waitingCond, owes, notified>>
    OBVIOUS
  <1> QED
    BY <1>1, <1>2, <1>3, <1>4, <1>5, <1>6, <1>7, QuietStep DEF Waiter

\* Entering FUTEX_WAKE.
LEMMA WakeCallInv ==
    ASSUME IInv, NEW t \in Threads, NEW r \in Args, NEW n \in WakeCounts,
           WakeCall(t, r, n)
    PROVE  IInv'
  <1>1. n \in Nat /\ ~Waiter(t) /\ ~Walking(t)
    BY FutexConstants DEF WakeCall, Waiter, Walking
  <1> QED
    BY <1>1, StartWakeInv DEF WakeCall

\* Entering FUTEX_REQUEUE and its relatives.
LEMMA RequeueCallInv ==
    ASSUME IInv, NEW t \in Threads, NEW r \in Args, NEW n \in WakeCounts,
           NEW cmp \in BOOLEAN, RequeueCall(t, r, n, cmp)
    PROVE  IInv'
  <1> USE DEF RequeueCall
  <1>1. CASE cmp /\ ValueOf(t, r.guest) # r.val
    <2>0. ret' = NoResult /\ UNCHANGED <<memory, table, walk, req, pc, parking, signals, owes>>
      BY <1>1
    <2>1. TypeOK'
      BY <2>0, MoveType, SMTT(30) DEF IInv, TypeOK
    <2>2. LockInv' /\ \A u \in Threads : Waiter(u)' <=> Waiter(u)
      BY <2>0 DEF IInv, LockInv, Walking, Waiter
    <2>3. \A c \in Cells : gen[c] <= gen'[c]
      BY <2>0 DEF IInv, TypeOK
    <2>4. \A u \in Threads : CallKept(u)
      BY <2>0 DEF CallKept, InWake, Walking, Looking
    <2> QED
      BY <2>0, <2>1, <2>2, <2>3, <2>4, QuietStep
  <1>2. CASE ~(cmp /\ ValueOf(t, r.guest) # r.val)
    <2>1. n \in Nat /\ ~Waiter(t) /\ ~Walking(t)
      BY FutexConstants DEF Waiter, Walking
    <2> QED
      BY <1>2, <2>1, StartWakeInv
  <1> QED
    BY <1>1, <1>2

\* Taking systemFutexesMutex for a walk.
LEMMA LockTableInv ==
    ASSUME IInv, NEW t \in Threads, LockTable(t)
    PROVE  IInv'
  <1> DEFINE l == IF pc[t] = "lock" THEN "walk" ELSE "exitwalk"
  <1>0. /\ pc[t] \in {"lock", "exitlock"} /\ walk.by = NoThread
        /\ walk' = [by |-> t, idx |-> 1, woken |-> 0]
        /\ pc' = [pc EXCEPT ![t] = l] /\ l \in {"walk", "exitwalk"} /\ ret' = NoResult
        /\ UNCHANGED <<memory, table, req, parking, signals, owes>>
    BY DEF LockTable, Goto
  <1> HIDE DEF l
  <1>1. TypeOK'
    BY <1>0, MoveType DEF IInv, TypeOK, PC
  <1>2. pc'[t] = l /\ \A u \in Threads : u # t => pc'[u] = pc[u]
    BY <1>0 DEF IInv, TypeOK
  <1>3. \A u \in Threads : ~Walking(u)
    BY <1>0, ConstantFacts DEF IInv, LockInv
  <1>4. LockInv'
    BY <1>0, <1>2, <1>3 DEF IInv, LockInv, Walking
  <1>5. ~Waiter(t) /\ ~Waiter(t)'
    BY <1>0, <1>2 DEF Waiter
  <1>6. \A u \in Threads : CallKept(u)
    BY <1>0, <1>2, <1>3 DEF CallKept, InWake, Walking, Looking
  <1>7. \A c \in Cells : gen[c] <= gen'[c]
    BY <1>0 DEF IInv, TypeOK
  <1> QED
    BY <1>0, <1>1, <1>2, <1>4, <1>5, <1>6, <1>7, QuietStep DEF Waiter

\* KThread::signal reads waitingCond.
LEMMA SignalReadInv ==
    ASSUME IInv, NEW t \in Threads, NEW v \in Threads,
           SignalRead(t, v)
    PROVE  IInv'
  <1> USE DEF SignalRead, Goto
  <1>1. TypeOK'
    BY FutexConstants, NoRequestType
    DEF IInv, TypeOK, PC, Results, NoResult, NoWalk, NoSig
  <1>2. LockInv'
    BY FutexConstants, SMTT(30) DEF IInv, LockInv, Walking, TypeOK, NoWalk
  <1>3. \A u \in Threads : u # t => req'[u] = req[u] /\ pc'[u] = pc[u]
    BY DEF IInv, TypeOK
  <1>4. ~Waiter(t) /\ ~Waiter(t)'
    BY DEF IInv, TypeOK, Waiter
  <1>5. \A u \in Threads : CallKept(u)
    BY DEF CallKept, InWake, Walking, Looking, IInv, TypeOK
  <1>6. \A c \in Cells : gen[c] <= gen'[c]
    BY DEF IInv, TypeOK
  <1>7. \A u \in Threads : notified[u] => notified'[u]
    BY DEF IInv, TypeOK
  <1>8. UNCHANGED <<table, word, slot, waitingCond, owes>>
    OBVIOUS
  <1> QED
    BY <1>1, <1>2, <1>3, <1>4, <1>5, <1>6, <1>7, <1>8, QuietStep DEF Waiter

\* KThread::signal queues the signal and interrupts the wait.
LEMMA SignalDeliverInv ==
    ASSUME IInv, NEW t \in Threads, SignalDeliver(t)
    PROVE  IInv'
  <1> USE DEF SignalDeliver, Goto, Notify
  <1>1. TypeOK'
    <2>1. sig' \in [Threads -> [target : Threads \cup {NoThread}, cond : Nat]]
      BY DEF IInv, TypeOK, NoSig
    <2>2. pc' \in [Threads -> PC] /\ ret' \in [thread : Threads \cup {NoThread}, result : Results]
      BY DEF IInv, TypeOK, PC, Results, NoResult
    <2>3. pending' \in [Threads -> BOOLEAN]
      BY DEF IInv, TypeOK
    <2>4. startSignal' \in [Threads -> BOOLEAN]
      BY DEF IInv, TypeOK
    <2>5. notified' \in [Threads -> BOOLEAN]
      BY DEF IInv, TypeOK
    <2> QED
      BY <2>1, <2>2, <2>3, <2>4, <2>5 DEF IInv, TypeOK
  <1>2. LockInv'
    BY FutexConstants, SMTT(30) DEF IInv, LockInv, Walking, TypeOK, NoWalk
  <1>3. \A u \in Threads : u # t => req'[u] = req[u] /\ pc'[u] = pc[u]
    BY DEF IInv, TypeOK
  <1>4. ~Waiter(t) /\ ~Waiter(t)'
    BY DEF IInv, TypeOK, Waiter
  <1>5. \A u \in Threads : CallKept(u)
    BY DEF CallKept, InWake, Walking, Looking, IInv, TypeOK
  <1>6. \A c \in Cells : gen[c] <= gen'[c]
    BY DEF IInv, TypeOK
  <1>7. \A u \in Threads : notified[u] => notified'[u]
    BY DEF IInv, TypeOK
  <1>8. UNCHANGED <<table, word, slot, waitingCond, owes>>
    OBVIOUS
  <1> QED
    BY <1>1, <1>2, <1>3, <1>4, <1>5, <1>6, <1>7, <1>8, QuietStep DEF Waiter

\* A queued signal is taken outside a wait.
LEMMA TakeSignalInv ==
    ASSUME IInv, NEW t \in Threads, TakeSignal(t)
    PROVE  IInv'
  <1> USE DEF TakeSignal
  <1>1. TypeOK'
    BY FutexConstants, NoRequestType
    DEF IInv, TypeOK, PC, Results, NoResult, NoWalk, NoSig
  <1>2. LockInv'
    BY FutexConstants DEF IInv, LockInv, Walking, TypeOK, NoWalk
  <1>3. \A u \in Threads : u # t => req'[u] = req[u] /\ pc'[u] = pc[u]
    BY DEF IInv, TypeOK
  <1>4. ~Waiter(t) /\ ~Waiter(t)'
    BY DEF IInv, TypeOK, Waiter
  <1>5. \A u \in Threads : CallKept(u)
    BY DEF CallKept, InWake, Walking, Looking, IInv, TypeOK
  <1>6. \A c \in Cells : gen[c] <= gen'[c]
    BY DEF IInv, TypeOK
  <1>7. \A u \in Threads : notified[u] => notified'[u]
    BY DEF IInv, TypeOK
  <1>8. UNCHANGED <<table, word, slot, waitingCond, owes>>
    OBVIOUS
  <1> QED
    BY <1>1, <1>2, <1>3, <1>4, <1>5, <1>6, <1>7, <1>8, QuietStep DEF Waiter

\* The exit path enters its FUTEX_WAKE of clear_child_tid.
LEMMA ExitWakeInv ==
    ASSUME IInv, NEW t \in Threads, ExitWake(t)
    PROVE  IInv'
  <1>1. ~Waiter(t) /\ ~Walking(t) /\ WakeAll \in Nat
    BY FutexConstants DEF ExitWake, Waiter, Walking
  <1>2. TidWord[t] \in Words
    BY FutexConstants DEF ExitWake, IInv, LockInv
  <1>3. [NoArgs EXCEPT !.guest = TidWord[t]] \in Args
    BY <1>2, NoRequestType DEF Args
  <1> QED
    BY <1>1, <1>3, StartWakeInv DEF ExitWake

\* getFutex finds nothing.
LEMMA LookupInv ==
    ASSUME IInv, NEW t \in Threads, Lookup(t)
    PROVE  IInv'
  <1> DEFINE l == IF Lane[t] = 64 THEN "precheck" ELSE "alloc"
  <1>1. /\ pc' = [pc EXCEPT ![t] = l] /\ pc[t] = "lookup" /\ ret' = NoResult
        /\ UNCHANGED <<memory, table, walk, parking, req, signals, owes>>
    BY DEF Lookup, Goto
  <1>2. TypeOK'
    BY <1>1, MoveType DEF IInv, TypeOK, PC
  <1>3. LockInv'
    BY <1>1 DEF IInv, LockInv, Walking, TypeOK
  <1>4. \A u \in Threads : Waiter(u) => pc'[u] = pc[u]
    BY <1>1 DEF IInv, TypeOK, Waiter
  <1>5. \A u \in Threads : Waiter(u)' => Waiter(u)
    BY <1>1 DEF IInv, TypeOK, Waiter
  <1>6. \A c \in Cells : gen[c] <= gen'[c]
    BY <1>1 DEF IInv, TypeOK
  <1>7. \A u \in Threads : CallKept(u)
    BY <1>1 DEF CallKept, InWake, Walking, Looking, IInv, TypeOK
  <1> QED
    BY <1>1, <1>2, <1>3, <1>4, <1>5, <1>6, <1>7, QuietStep

\* A thread is marked for termination.
LEMMA TerminateInv ==
    ASSUME IInv, NEW u \in Threads, Terminate(u)
    PROVE  IInv'
  <1> USE DEF Terminate, Notify
  <1>1. TypeOK'
    <2>1. notified' \in [Threads -> BOOLEAN] /\ terminating' \in [Threads -> BOOLEAN]
      BY DEF IInv, TypeOK
    <2> QED
      BY <2>1, MoveType DEF IInv, TypeOK
  <1>2. LockInv'
    BY DEF IInv, LockInv, Walking
  <1>3. \A x \in Threads : (Waiter(x)' <=> Waiter(x)) /\ pc'[x] = pc[x]
    BY DEF Waiter
  <1>4. \A c \in Cells : gen[c] <= gen'[c]
    BY DEF IInv, TypeOK
  <1>5. \A x \in Threads : notified[x] => notified'[x]
    OBVIOUS
  <1>6. UNCHANGED <<table, word, slot, waitingCond, owes, walk, req>>
    OBVIOUS
  <1>7. \A x \in Threads : CallKept(x)
    BY <1>3 DEF CallKept, InWake, Walking, Looking
  <1> QED
    BY <1>1, <1>2, <1>3, <1>4, <1>5, <1>6, <1>7, QuietStep

\* A page gets another host pointer.
LEMMA RepointInv ==
    ASSUME IInv, NEW c \in Cells, Repoint(c)
    PROVE  IInv'
  <1> USE DEF Repoint
  <1>1. TypeOK'
    BY FutexConstants, SMTT(30) DEF IInv, TypeOK, NoResult, Results
  <1>2. LockInv'
    BY DEF IInv, LockInv, Walking
  <1>3. \A x \in Threads : (Waiter(x)' <=> Waiter(x)) /\ pc'[x] = pc[x]
    BY DEF Waiter
  <1>4. \A d \in Cells : gen[d] <= gen'[d]
    BY DEF IInv, TypeOK
  <1>5. UNCHANGED <<table, word, slot, waitingCond, owes, walk, req, notified>>
    OBVIOUS
  <1>6. \A x \in Threads : CallKept(x)
    BY <1>3 DEF CallKept, InWake, Walking, Looking
  <1> QED
    BY <1>1, <1>2, <1>3, <1>4, <1>5, <1>6, QuietStep

\* A store makes the storing thread owe the wake of every waiter it outdates.
LEMMA StoreStep ==
    ASSUME IInv, TypeOK', LockInv', NEW t \in Threads, ~InWake(t)',
           \A u \in Threads : InWake(u)' \/ Looking(u)' => pc'[u] = pc[u],
           NEW a \in Words, NEW v \in Values, StoreTo(t, a, v),
           UNCHANGED <<gen, table, walk, req, slot, waitingCond, notified>>,
           \A u \in Threads : Waiter(u) => pc'[u] = pc[u],
           \A u \in Threads : Waiter(u)' => Waiter(u)
    PROVE  IInv'
  <1>1. SlotInv'
    BY DEF IInv, SlotInv, Waiter
  <1>2. CondInv'
    BY DEF IInv, CondInv, Parked, Waiter
  <1>3. EntryInv'
    <2>1. \A c \in Cells : gen'[c] \in Nat /\ gen[c] <= gen'[c]
      BY DEF IInv, TypeOK
    <2> QED
      BY <2>1, EntryFrame
  <1>4. NoLostWake'
    <2> SUFFICES ASSUME NEW s \in DOMAIN table,
                        table[s].waiting, ~table[s].wake, Reachable(table[s]),
                        word'[CellOf(table[s].space, table[s].guest)] # table[s].expected
                 PROVE  \E u \in Threads : StillOwes(u, s)'
      BY DEF NoLostWake, Reachable, HostOf
    <2> DEFINE e == table[s]
               cell == CellOf(e.space, e.guest)
    <2>1. \A u \in Threads : owes[u] \subseteq owes'[u]
      BY DEF StoreTo, IInv, TypeOK
    <2>2. CASE cell = CellOf(SpaceOf[t], a)
      <3>1. e.guest = a
        BY <2>2 DEF CellOf
      <3>2. e.priv \in BOOLEAN
        BY SlotNotZero DEF IInv, Entry
      <3>3. <<e.guest, e.priv>> \in owes'[t]
        BY <3>1, <3>2 DEF StoreTo, IInv, TypeOK
      <3>4. StillOwes(t, s)'
        BY <2>2, <3>1, <3>3 DEF StillOwes
      <3> QED
        BY <3>4
    <2>3. CASE cell # CellOf(SpaceOf[t], a)
      <3>1. word'[cell] = word[cell]
        <4>1. EntryOK(s) /\ e \in Entry /\ e.thread # NoThread
          BY SlotNotZero DEF IInv, EntryInv, EntryOK
        <4>2. cell \in Cells
          BY <4>1, ConstantFacts DEF EntryOK, Entry, IInv, TypeOK, Request
        <4> QED
          BY <2>3, <4>2 DEF StoreTo, IInv, TypeOK
      <3>2. PICK u \in Threads : StillOwes(u, s)
        BY <3>1 DEF IInv, NoLostWake
      <3>3. StillOwes(u, s)'
        BY <2>1, <3>2 DEF StillOwes, FullWalk, InWake, Walking
      <3> QED
        BY <3>3
    <2> QED
      BY <2>2, <2>3
  <1>5. HostInv'
    BY HostFrame, SMTT(30) DEF Looking, IInv, TypeOK
  <1> QED
    BY <1>1, <1>2, <1>3, <1>4, <1>5 DEF IInv

\* A store keeps the types of memory and of what is owed.
LEMMA StoreToType ==
    ASSUME TypeOK, NEW t \in Threads, NEW a \in Words, NEW v \in Values, StoreTo(t, a, v)
    PROVE  /\ word' \in [Cells -> Values]
           /\ owes' \in [Threads -> SUBSET (Words \X BOOLEAN)]
  <1>1. {a} \X BOOLEAN \subseteq Words \X BOOLEAN
    OBVIOUS
  <1>2. owes' \in [Threads -> SUBSET (Words \X BOOLEAN)]
    BY <1>1 DEF StoreTo, TypeOK
  <1> QED
    BY <1>2 DEF StoreTo, TypeOK

\* A guest store.
LEMMA StoreInv ==
    ASSUME IInv, NEW t \in Threads, NEW a \in Words, NEW v \in Values, Store(t, a, v)
    PROVE  IInv'
  <1>1. TypeOK'
    BY StoreToType, MoveType DEF IInv, TypeOK, Store
  <1>2. LockInv' /\ ~InWake(t)'
    BY DEF IInv, LockInv, Walking, InWake, Store
  <1> QED
    BY <1>1, <1>2, StoreStep DEF Store, Waiter

\* The exit path zeroes clear_child_tid.
LEMMA ExitStoreInv ==
    ASSUME IInv, NEW t \in Threads, ExitStore(t)
    PROVE  IInv'
  <1> USE DEF ExitStore, Goto
  <1>1. CASE TidWord[t] = NoWord
    <2>0. pc' = [pc EXCEPT ![t] = "clear"] /\ UNCHANGED <<word, owes>>
      BY <1>1
    <2>1. TypeOK'
      BY <2>0, MoveType DEF IInv, TypeOK, PC
    <2>2. LockInv'
      BY <1>1 DEF IInv, LockInv, Walking, TypeOK
    <2>3. \A u \in Threads : Waiter(u) => pc'[u] = pc[u]
      BY <1>1 DEF IInv, TypeOK, Waiter
    <2>4. \A u \in Threads : Waiter(u)' => Waiter(u)
      BY <1>1 DEF IInv, TypeOK, Waiter
    <2>5. \A c \in Cells : gen[c] <= gen'[c]
      BY DEF IInv, TypeOK
    <2>6. \A u \in Threads : CallKept(u)
      BY <2>0 DEF CallKept, InWake, Walking, Looking, IInv, TypeOK
    <2> QED
      BY <1>1, <2>1, <2>2, <2>3, <2>4, <2>5, <2>6, QuietStep
  <1>2. CASE TidWord[t] # NoWord
    <2>0. TidWord[t] \in Words /\ Zero \in Values /\ StoreTo(t, TidWord[t], Zero)
            /\ pc' = [pc EXCEPT ![t] = "exiting"]
      BY <1>2, FutexConstants
    <2>1. TypeOK'
      BY <2>0, StoreToType, MoveType DEF IInv, TypeOK, PC
    <2>2. LockInv' /\ ~InWake(t)'
      BY <1>2, <2>0 DEF IInv, LockInv, Walking, InWake, TypeOK
    <2>3. \A u \in Threads : Waiter(u) => pc'[u] = pc[u]
      BY <2>0 DEF IInv, TypeOK, Waiter
    <2>4. \A u \in Threads : Waiter(u)' => Waiter(u)
      BY <2>0 DEF IInv, TypeOK, Waiter
    <2>5. \A u \in Threads : InWake(u)' \/ Looking(u)' => pc'[u] = pc[u]
      BY <2>0 DEF IInv, TypeOK, InWake, Walking, Looking
    <2> QED
      BY <2>0, <2>1, <2>2, <2>3, <2>4, <2>5, StoreStep
  <1> QED
    BY <1>1, <1>2

----------------------------------------------------------------------------
(* The steps that change the table.                                        *)

\* The word of a live entry is a cell of memory.
LEMMA EntryCell ==
    ASSUME IInv, NEW s \in DOMAIN table, table[s].thread # NoThread
    PROVE  CellOf(table[s].space, table[s].guest) \in Cells
  BY SlotNotZero, ConstantFacts
  DEF IInv, EntryInv, EntryOK, Entry, TypeOK, Request

\* One entry i is rewritten and the owners of the others do not move: what is
\* left to show is the new entry.
LEMMA OneEntry ==
    ASSUME IInv, NEW i, table' \in Seq(Entry),
           \A s \in DOMAIN table' : s # i => s \in DOMAIN table /\ table'[s] = table[s],
           UNCHANGED <<word, gen, owes>>, Len(table) <= Len(table'),
           \A u \in Threads : Waiter(u) /\ slot[u] # i =>
              req'[u] = req[u] /\ pc'[u] = pc[u] /\ (notified[u] => notified'[u]),
           \A u \in Threads : InWake(u)' =>
              pc'[u] = pc[u] /\ walk' = walk /\ req'[u] = req[u],
           i \in DOMAIN table' => EntryOK(i)',
           i \in DOMAIN table' => ~table'[i].waiting \/ table'[i].wake \/
              word[CellOf(table'[i].space, table'[i].guest)] = table'[i].expected
    PROVE  EntryInv' /\ NoLostWake'
  <1>1. EntryInv'
    <2> SUFFICES ASSUME NEW s \in DOMAIN table', s # i PROVE EntryOK(s)'
      BY DEF EntryInv
    <2>1. s \in DOMAIN table /\ table'[s] = table[s] /\ EntryOK(s)
      BY DEF IInv, EntryInv
    <2>2. CASE table[s].thread = NoThread
      BY <2>1, <2>2 DEF EntryOK
    <2>3. CASE table[s].thread # NoThread
      <3>1. table[s].thread \in Threads /\ Waiter(table[s].thread)
              /\ slot[table[s].thread] = s
        BY <2>1, <2>3, Ownership DEF IInv, SlotInv
      <3> QED
        BY <2>1, <2>3, <3>1 DEF EntryOK, Parked, WasHost
    <2> QED
      BY <2>2, <2>3
  <1>2. NoLostWake'
    <2> SUFFICES ASSUME NEW s \in DOMAIN table', s # i,
                        table'[s].waiting, ~table'[s].wake, Reachable(table'[s]),
                        word[CellOf(table'[s].space, table'[s].guest)] # table'[s].expected
                 PROVE  \E u \in Threads : StillOwes(u, s)'
      BY DEF NoLostWake, Reachable, HostOf
    <2>1. s \in DOMAIN table /\ table'[s] = table[s]
      OBVIOUS
    <2>2. PICK u \in Threads : StillOwes(u, s)
      BY <2>1 DEF IInv, NoLostWake
    <2>3. Len(table) \in Nat /\ Len(table') \in Nat /\ req[u].n \in Nat
      BY SlotNotZero, SMTT(30) DEF IInv, TypeOK, Request
    <2>4. StillOwes(u, s)'
      BY <2>1, <2>2, <2>3 DEF StillOwes, FullWalk, InWake, Walking
    <2> QED
      BY <2>4
  <1> QED
    BY <1>1, <1>2

\* Every way out of a wait.
LEMMA LeaveInv ==
    ASSUME IInv, NEW t \in Threads, Waiter(t), NEW x \in Results,
           table' = [table EXCEPT ![slot[t]] = FreeEntry],
           Return(t, x),
           slot' = [slot EXCEPT ![t] = 0],
           waitingCond' = [waitingCond EXCEPT ![t] = 0],
           notified' = [notified EXCEPT ![t] = FALSE],
           pending' \in [Threads -> BOOLEAN], startSignal' \in [Threads -> BOOLEAN],
           UNCHANGED <<memory, walk, terminating, sig, owes>>
    PROVE  IInv'
  <1>i. PICK i \in Nat : i = slot[t]
    BY DEF IInv, TypeOK
  <1>0. /\ pc' = [pc EXCEPT ![t] = "user"]
        /\ ret' = [thread |-> t, result |-> x]
        /\ req' = [req EXCEPT ![t] = NoRequest]
    BY DEF Return, Goto
  <1>1. i \in DOMAIN table /\ table[i].thread = t /\ i \in Nat /\ i # 0
    BY <1>i, SlotNotZero DEF IInv, SlotInv
  <1>2. /\ table' \in Seq(Entry) /\ DOMAIN table' = DOMAIN table
        /\ Len(table') = Len(table)
        /\ \A k \in DOMAIN table : table'[k] = IF k = i THEN FreeEntry ELSE table[k]
    BY <1>i, <1>1, ExceptSeq, FreeEntryType DEF IInv, TypeOK
  <1>3. TypeOK'
    BY <1>0, <1>2, MoveType, NoRequestType DEF IInv, TypeOK, PC
  <1>4. LockInv'
    BY <1>0 DEF IInv, LockInv, Walking, TypeOK, Waiter
  <1>5. SlotInv'
    <2>1. ASSUME NEW u \in Threads
          PROVE  IF Waiter(u)' THEN slot'[u] \in DOMAIN table' /\ table'[slot'[u]].thread = u
                               ELSE slot'[u] = 0
      <3>1. CASE u = t
        BY <1>0, <3>1 DEF IInv, TypeOK, Waiter
      <3>2. CASE u # t
        <4>1. Waiter(u)' = Waiter(u) /\ slot'[u] = slot[u]
          BY <1>0, <3>2 DEF IInv, TypeOK, Waiter
        <4> QED
          BY <1>i, <1>1, <1>2, <3>2, <4>1 DEF IInv, SlotInv
      <3> QED
        BY <3>1, <3>2
    <2>2. ASSUME NEW s \in DOMAIN table', table'[s].thread # NoThread
          PROVE  slot'[table'[s].thread] = s
      <3>1. s # i /\ table'[s] = table[s] /\ s \in DOMAIN table
        BY <1>2, <2>2 DEF FreeEntry
      <3>2. slot[table[s].thread] = s /\ table[s].thread # t
        BY <1>i, <1>1, <2>2, <3>1 DEF IInv, SlotInv
      <3>3. table[s].thread \in Threads
        BY <2>2, <3>1, Ownership
      <3> QED
        BY <3>1, <3>2, <3>3 DEF IInv, TypeOK
    <2> QED
      BY <2>1, <2>2 DEF SlotInv
  <1>6. CondInv'
    BY <1>0 DEF IInv, CondInv, Parked, TypeOK
  <1>7. EntryInv' /\ NoLostWake'
    <2>1. \A u \in Threads : u # t =>
             req'[u] = req[u] /\ pc'[u] = pc[u] /\ notified'[u] = notified[u]
      BY <1>0 DEF IInv, TypeOK
    <2>2. ~InWake(t)' /\ ~Looking(t)'
      BY <1>0 DEF IInv, TypeOK, InWake, Walking, Looking
    <2>3. EntryOK(i)' /\ ~table'[i].waiting
      BY <1>1, <1>2 DEF EntryOK, FreeEntry
    <2>4. Len(table) <= Len(table')
      BY <1>2, SlotNotZero DEF IInv
    <2>5. \A u \in Threads : Waiter(u) /\ slot[u] # i => u # t
      BY <1>i
    <2>6. \A u \in Threads : InWake(u)' =>
             pc'[u] = pc[u] /\ walk' = walk /\ req'[u] = req[u]
      BY <2>1, <2>2
    <2> QED
      BY <1>2, <2>1, <2>3, <2>4, <2>5, <2>6, OneEntry
  <1>8. HostInv'
    <2>1. \A u \in Threads : Looking(u)' => Looking(u) /\ req'[u] = req[u]
      BY <1>0 DEF IInv, TypeOK, Looking
    <2>2. \A c \in Cells : gen[c] <= gen'[c]
      BY DEF IInv, TypeOK
    <2> QED
      BY <1>3, <2>1, <2>2, HostFrame
  <1> QED
    BY <1>3, <1>4, <1>5, <1>6, <1>7, <1>8 DEF IInv

\* allocFutex, both ways: entry i, which nobody owns, becomes t's.
LEMMA AllocStep ==
    ASSUME IInv, NEW t \in Threads, pc[t] = "alloc", NEW i \in Nat \ {0},
           i \in DOMAIN table => table[i].thread = NoThread,
           table' \in Seq(Entry), i \in DOMAIN table', Len(table) <= Len(table'),
           \A s \in DOMAIN table : s \in DOMAIN table',
           table'[i] = initFutex(t, req[t]),
           \A s \in DOMAIN table' : s # i => s \in DOMAIN table /\ table'[s] = table[s],
           slot' = [slot EXCEPT ![t] = i], pc' = [pc EXCEPT ![t] = "compare"],
           ret' = NoResult,
           UNCHANGED <<memory, walk, req, waitingCond, notified, signals, owes>>
    PROVE  IInv'
  <1>1. TypeOK'
    BY MoveType DEF IInv, TypeOK, PC
  <1>2. LockInv'
    BY DEF IInv, LockInv, Walking, TypeOK
  <1>3. \A u \in Threads : u # t =>
           pc'[u] = pc[u] /\ slot'[u] = slot[u] /\ (Waiter(u)' <=> Waiter(u))
    BY DEF IInv, TypeOK, Waiter
  <1>4. ~Waiter(t) /\ Waiter(t)' /\ slot'[t] = i /\ ~Parked(t)' /\ t # NoThread
    BY ConstantFacts DEF IInv, TypeOK, Waiter, Parked
  <1>5. table'[i].thread = t
    BY DEF initFutex
  <1>6. SlotInv'
    <2>1. ASSUME NEW u \in Threads
          PROVE  IF Waiter(u)' THEN slot'[u] \in DOMAIN table' /\ table'[slot'[u]].thread = u
                               ELSE slot'[u] = 0
      <3>1. CASE u = t
        BY <1>4, <1>5, <3>1
      <3>2. CASE u # t
        <4>1. u # NoThread
          BY ConstantFacts
        <4>2. Waiter(u) => slot[u] # i
          BY <4>1 DEF IInv, SlotInv
        <4> QED
          BY <1>3, <3>2, <4>2 DEF IInv, SlotInv
      <3> QED
        BY <3>1, <3>2
    <2>2. ASSUME NEW s \in DOMAIN table', table'[s].thread # NoThread
          PROVE  slot'[table'[s].thread] = s
      <3>1. CASE s = i
        BY <1>4, <1>5, <3>1
      <3>2. CASE s # i
        <4>1. table'[s] = table[s] /\ s \in DOMAIN table
          BY <3>2
        <4>2. table[s].thread \in Threads /\ table[s].thread # t
          BY <1>4, <2>2, <4>1, Ownership
        <4> QED
          BY <1>3, <2>2, <4>1, <4>2 DEF IInv, SlotInv
      <3> QED
        BY <3>1, <3>2
    <2> QED
      BY <2>1, <2>2 DEF SlotInv
  <1>7. CondInv'
    BY <1>3, <1>4 DEF IInv, CondInv, Parked, Waiter
  <1>8. EntryInv' /\ NoLostWake'
    <2>1. EntryOK(i)' /\ ~table'[i].waiting
      <3>1. CellOf(SpaceOf[t], req[t].guest) \in Cells
        BY ConstantFacts DEF IInv, TypeOK, Request
      <3>2. gen[CellOf(SpaceOf[t], req[t].guest)] \in Nat
        BY <3>1 DEF IInv, TypeOK
      <3>3. WasHost(req[t].host, CellOf(SpaceOf[t], req[t].guest))
        BY DEF IInv, HostInv, Looking
      <3> QED
        BY <1>4, <3>2, <3>3 DEF EntryOK, WasHost, initFutex
    <2>2. \A u \in Threads : Waiter(u) => u # t
      BY <1>4
    <2>3. \A u \in Threads : InWake(u)' => u # t
      BY DEF IInv, TypeOK, InWake, Walking
    <2> QED
      BY <1>3, <2>1, <2>2, <2>3, OneEntry
  <1>9. HostInv'
    <2>1. \A u \in Threads : Looking(u)' => Looking(u) /\ req'[u] = req[u]
      BY DEF IInv, TypeOK, Looking
    <2>2. \A c \in Cells : gen[c] <= gen'[c]
      BY DEF IInv, TypeOK
    <2> QED
      BY <1>1, <2>1, <2>2, HostFrame
  <1> QED
    BY <1>1, <1>2, <1>6, <1>7, <1>8, <1>9 DEF IInv

\* allocFutex, in either form.
LEMMA AllocInv ==
    ASSUME IInv, NEW t \in Threads, Alloc(t)
    PROVE  IInv'
  <1>0. initFutex(t, req[t]) \in Entry
    BY InitEntryType DEF IInv, TypeOK
  <1>1. ASSUME NEW i \in DOMAIN table, FirstFree(i),
               table' = [table EXCEPT ![i] = initFutex(t, req[t])],
               slot' = [slot EXCEPT ![t] = i]
        PROVE  IInv'
    <2>1. /\ table' \in Seq(Entry) /\ DOMAIN table' = DOMAIN table
          /\ Len(table') = Len(table)
          /\ \A k \in DOMAIN table :
                table'[k] = IF k = i THEN initFutex(t, req[t]) ELSE table[k]
      BY <1>0, <1>1, ExceptSeq DEF IInv, TypeOK
    <2>2. i \in Nat \ {0} /\ Len(table) <= Len(table') /\ table[i].thread = NoThread
      BY <1>1, <2>1, SlotNotZero DEF IInv, FirstFree
    <2> QED
      BY <1>1, <2>1, <2>2, AllocStep DEF Alloc, Goto
  <1>2. ASSUME table' = Append(table, initFutex(t, req[t])),
               slot' = [slot EXCEPT ![t] = Len(table) + 1]
        PROVE  IInv'
    <2>i. PICK i \in Nat \ {0} : i = Len(table) + 1
      BY SlotNotZero DEF IInv
    <2>1. /\ table' \in Seq(Entry) /\ Len(table') = i /\ DOMAIN table' = 1..i
          /\ table'[i] = initFutex(t, req[t])
          /\ \A k \in DOMAIN table : table'[k] = table[k]
      BY <1>0, <1>2, <2>i DEF IInv, TypeOK
    <2>2. DOMAIN table = 1..(i - 1) /\ Len(table) <= Len(table') /\ Len(table) = i - 1
      BY <2>i, <2>1, SlotNotZero DEF IInv
    <2>3. /\ i \notin DOMAIN table /\ i \in DOMAIN table'
          /\ \A k \in DOMAIN table : k \in DOMAIN table'
          /\ \A k \in DOMAIN table' : k # i => k \in DOMAIN table
      BY <2>1, <2>2
    <2> QED
      BY <1>2, <2>i, <2>1, <2>2, <2>3, AllocStep DEF Alloc, Goto
  <1> QED
    BY <1>1, <1>2 DEF Alloc

\* The table a thread that is about to block leaves behind.
LEMMA ParkingTable ==
    ASSUME IInv, NEW t \in Threads, Waiter(t)
    PROVE  /\ Parking(t) = [table EXCEPT ![slot[t]] =
                  [table[slot[t]] EXCEPT !.mask = req[t].mask, !.waiting = TRUE]]
           /\ [table[slot[t]] EXCEPT !.mask = req[t].mask, !.waiting = TRUE] \in Entry
           /\ Parking(t) \in Seq(Entry) /\ DOMAIN Parking(t) = DOMAIN table
           /\ Len(Parking(t)) = Len(table)
           /\ \A k \in DOMAIN table : k # slot[t] => Parking(t)[k] = table[k]
           /\ Parking(t)[slot[t]] =
                  [table[slot[t]] EXCEPT !.mask = req[t].mask, !.waiting = TRUE]
           /\ freeFutex(Parking(t), slot[t]) = freeFutex(table, slot[t])
  <1> DEFINE e == [table[slot[t]] EXCEPT !.mask = req[t].mask, !.waiting = TRUE]
  <1>1. slot[t] \in DOMAIN table /\ table[slot[t]] \in Entry
    BY SlotNotZero DEF IInv, SlotInv
  <1>2. Parking(t) = [table EXCEPT ![slot[t]] = e]
    BY <1>1, SlotNotZero DEF Parking, IInv, TypeOK
  <1>3. e \in Entry
    BY <1>1 DEF Entry, IInv, TypeOK, Request
  <1>4. /\ Parking(t) \in Seq(Entry) /\ DOMAIN Parking(t) = DOMAIN table
        /\ Len(Parking(t)) = Len(table)
        /\ \A k \in DOMAIN table : Parking(t)[k] = IF k = slot[t] THEN e ELSE table[k]
    BY <1>1, <1>2, <1>3, ExceptSeq DEF IInv, TypeOK
  <1>5. freeFutex(Parking(t), slot[t]) = freeFutex(table, slot[t])
    BY <1>2, SlotNotZero DEF freeFutex, IInv, TypeOK
  <1> QED
    BY <1>1, <1>2, <1>3, <1>4, <1>5

\* Blocking: for the first time (the word still holds the expected value), or
\* again, unclaimed, after a wakeup that was not one.
LEMMA ParkInv ==
    ASSUME IInv, NEW t \in Threads, Waiter(t),
           \/ /\ table' = Parking(t) /\ pc[t] = "compare"
              /\ ValueOf(t, req[t].guest) = req[t].val
           \/ table' = table /\ Parked(t) /\ ~table[slot[t]].wake,
           pc' = [pc EXCEPT ![t] = "parked"], ret' = NoResult,
           waitingCond' = [waitingCond EXCEPT ![t] = slot[t]],
           notified' = [notified EXCEPT ![t] = FALSE],
           pending' \in [Threads -> BOOLEAN], startSignal' \in [Threads -> BOOLEAN],
           UNCHANGED <<memory, walk, req, slot, terminating, sig, owes>>
    PROVE  IInv'
  <1>i. PICK i \in Nat : i = slot[t]
    BY DEF IInv, TypeOK
  <1>1. i \in DOMAIN table /\ table[i].thread = t /\ EntryOK(i) /\ table[i] \in Entry
          /\ t # NoThread
    BY <1>i, SlotNotZero, ConstantFacts DEF IInv, SlotInv, EntryInv
  <1>2. /\ table' \in Seq(Entry) /\ DOMAIN table' = DOMAIN table
        /\ Len(table') = Len(table) /\ Len(table) \in Nat
        /\ \A k \in DOMAIN table : k # i => table'[k] = table[k]
        /\ \A k \in DOMAIN table : table'[k].thread = table[k].thread
    <2>1. Len(table) \in Nat /\ table \in Seq(Entry)
      BY SlotNotZero DEF IInv, TypeOK
    <2>2. CASE table' = table
      BY <2>1, <2>2
    <2>3. CASE table' = Parking(t)
      <3>1. table'[i].thread = table[i].thread
        <4>1. table'[i] = [table[i] EXCEPT !.mask = req[t].mask, !.waiting = TRUE]
          BY <1>i, <2>3, ParkingTable
        <4> QED
          BY <1>1, <4>1 DEF Entry
      <3> QED
        BY <1>i, <2>1, <2>3, <3>1, ParkingTable
    <2> QED
      BY <2>2, <2>3
  <1>3. TypeOK'
    BY <1>2, MoveType DEF IInv, TypeOK, PC
  <1>4. LockInv'
    BY DEF IInv, LockInv, Walking, TypeOK, Waiter
  <1>5. \A u \in Threads : (Waiter(u)' <=> Waiter(u)) /\ (u # t => pc'[u] = pc[u])
    BY DEF IInv, TypeOK, Waiter
  <1>6. SlotInv'
    BY <1>2, <1>5 DEF IInv, SlotInv
  <1>7. CondInv'
    BY <1>5 DEF IInv, CondInv, TypeOK, Parked, Waiter
  <1>8. EntryInv' /\ NoLostWake'
    <2>1. CASE table' = Parking(t) /\ pc[t] = "compare"
               /\ ValueOf(t, req[t].guest) = req[t].val
      <3>1. table'[i] = [table[i] EXCEPT !.mask = req[t].mask, !.waiting = TRUE]
        BY <1>i, <2>1, ParkingTable
      <3>2. req[t].mask # {}
        BY DEF IInv, TypeOK, Request
      <3>3. ~table[i].waiting /\ ~table[i].wake
        BY <1>1, <2>1 DEF EntryOK, Parked
      <3>4. EntryOK(i)'
        BY <1>1, <3>1, <3>2, <3>3 DEF EntryOK, WasHost, Parked, IInv, TypeOK, Entry
      <3>5. word[CellOf(table'[i].space, table'[i].guest)] = table'[i].expected
        BY <1>1, <2>1, <3>1 DEF EntryOK, ValueOf, Entry
      <3>6. \A u \in Threads : InWake(u)' => u # t
        BY DEF IInv, TypeOK, InWake, Walking
      <3>7. \A u \in Threads : Waiter(u) /\ slot[u] # i => u # t
        BY <1>i
      <3>8. \A u \in Threads : u # t => notified'[u] = notified[u]
        BY DEF IInv, TypeOK
      <3> QED
        BY <1>2, <1>5, <3>4, <3>5, <3>6, <3>7, <3>8, OneEntry
    <2>2. CASE table' = table /\ Parked(t) /\ ~table[slot[t]].wake
      <3>1. EntryOK(i)'
        BY <1>i, <1>1, <2>2, SMTT(30) DEF EntryOK, Parked, IInv, TypeOK, WasHost
      <3>2. EntryInv'
        <4> SUFFICES ASSUME NEW s \in DOMAIN table, s # i PROVE EntryOK(s)'
          BY <2>2, <3>1 DEF EntryInv
        <4>1. table[s].thread = NoThread \/
                (table[s].thread \in Threads /\ table[s].thread # t)
          BY <1>i, Ownership DEF IInv, SlotInv
        <4>2. EntryOK(s)
          BY DEF IInv, EntryInv
        <4>3. \A u \in Threads : u # t => notified'[u] = notified[u]
          BY DEF IInv, TypeOK
        <4> QED
          BY <1>5, <2>2, <4>1, <4>2, <4>3 DEF EntryOK, Parked, WasHost
      <3>3. NoLostWake'
        <4>1. \A u \in Threads : (InWake(u)' <=> InWake(u)) /\ (Walking(u)' <=> Walking(u))
          BY <1>5, <2>2 DEF IInv, TypeOK, InWake, Walking, Parked
        <4> QED
          BY <2>2, <4>1 DEF IInv, NoLostWake, Reachable, HostOf, StillOwes, FullWalk
      <3> QED
        BY <3>2, <3>3
    <2> QED
      BY <2>1, <2>2
  <1>9. HostInv'
    <2>1. \A u \in Threads : Looking(u)' => Looking(u) /\ req'[u] = req[u]
      BY DEF IInv, TypeOK, Looking
    <2>2. \A c \in Cells : gen[c] <= gen'[c]
      BY DEF IInv, TypeOK
    <2> QED
      BY <1>3, <2>1, <2>2, HostFrame
  <1> QED
    BY <1>3, <1>4, <1>6, <1>7, <1>8, <1>9 DEF IInv

\* One turn of the wait loop, after the comparison or after a wakeup.
LEMMA TurnInv ==
    ASSUME IInv, NEW t \in Threads, Waiter(t), NEW late \in BOOLEAN, NEW tab,
           \/ /\ tab = Parking(t) /\ pc[t] = "compare"
              /\ ValueOf(t, req[t].guest) = req[t].val
           \/ tab = table /\ Parked(t),
           Turn(t, tab, late), startSignal' \in [Threads -> BOOLEAN],
           UNCHANGED <<memory, walk, terminating, sig, owes>>
    PROVE  IInv'
  <1>1. freeFutex(tab, slot[t]) = [table EXCEPT ![slot[t]] = FreeEntry]
    BY ParkingTable DEF freeFutex
  <1>2. pending' \in [Threads -> BOOLEAN]
    BY DEF Turn, IInv, TypeOK
  <1>3. ASSUME NEW x \in Results, Leave(t, tab, x) PROVE IInv'
    BY <1>1, <1>2, <1>3, LeaveInv DEF Leave
  <1>4. ASSUME Block(t, tab), ~terminating[t], ~tab[slot[t]].wake PROVE IInv'
    BY <1>2, <1>4, ParkInv DEF Block, Goto
  <1> QED
    BY <1>3, <1>4 DEF Turn, Block, SignalResult, Results

\* The comparison under f->cond, and the first turn of the loop.
LEMMA CompareInv ==
    ASSUME IInv, NEW t \in Threads, NEW late \in BOOLEAN, Compare(t, late)
    PROVE  IInv'
  <1>1. Waiter(t) /\ startSignal' \in [Threads -> BOOLEAN]
    BY DEF Compare, Waiter, IInv, TypeOK
  <1>2. CASE ValueOf(t, req[t].guest) # req[t].val
    <2>1. pending' \in [Threads -> BOOLEAN] /\ "EAGAIN" \in Results
      BY <1>2 DEF Compare, IInv, TypeOK, Results
    <2> QED
      BY <1>1, <1>2, <2>1, LeaveInv DEF Compare, Leave, freeFutex
  <1>3. CASE ValueOf(t, req[t].guest) = req[t].val
    BY <1>1, <1>3, TurnInv DEF Compare
  <1> QED
    BY <1>2, <1>3

\* The condition wait returns.
LEMMA ResumeInv ==
    ASSUME IInv, NEW t \in Threads, NEW late \in BOOLEAN, Resume(t, late)
    PROVE  IInv'
  <1>1. Waiter(t) /\ Parked(t)
    BY DEF Resume, Waiter, Parked
  <1>2. startSignal' \in [Threads -> BOOLEAN]
    BY DEF Resume, IInv, TypeOK
  <1>3. ASSUME NEW x \in Results, Leave(t, table, x), UNCHANGED pending PROVE IInv'
    <2>1. pending' \in [Threads -> BOOLEAN]
      BY <1>3 DEF IInv, TypeOK
    <2> QED
      BY <1>1, <1>2, <1>3, <2>1, LeaveInv DEF Leave, freeFutex, Resume
  <1>4. ASSUME Turn(t, table, late) PROVE IInv'
    BY <1>1, <1>2, <1>4, TurnInv DEF Resume
  <1> QED
    BY <1>3, <1>4 DEF Resume, Results

\* clearFutexes finds nothing to clear.
LEMMA ClearFutexesInv ==
    ASSUME IInv, NEW t \in Threads, ClearFutexes(t)
    PROVE  IInv'
  <1> USE DEF ClearFutexes, Goto
  <1>1. \A s \in DOMAIN table : table[s].thread # t
    BY Ownership DEF Owned, Waiter
  <1>2. table' = table
    BY <1>1, SlotNotZero DEF IInv, TypeOK
  <1>3. TypeOK'
    BY <1>2, MoveType DEF IInv, TypeOK, PC
  <1>4. LockInv'
    BY DEF IInv, LockInv, Walking, TypeOK
  <1>5. \A u \in Threads : Waiter(u) => pc'[u] = pc[u]
    BY DEF IInv, TypeOK, Waiter
  <1>6. \A u \in Threads : Waiter(u)' => Waiter(u)
    BY DEF IInv, TypeOK, Waiter
  <1>7. \A c \in Cells : gen[c] <= gen'[c]
    BY DEF IInv, TypeOK
  <1>8. \A u \in Threads : CallKept(u)
    BY DEF CallKept, InWake, Walking, Looking, IInv, TypeOK
  <1> QED
    BY <1>2, <1>3, <1>4, <1>5, <1>6, <1>7, <1>8, QuietStep

\* The end of a walk: a full one has passed every entry, so what it discharges
\* was no longer counted on.
LEMMA WalkEndInv ==
    ASSUME IInv, NEW t \in Threads, WalkEnd(t)
    PROVE  IInv'
  <1> DEFINE l == IF pc[t] = "exitwalk" THEN "clear" ELSE "user"
  <1>0. /\ pc' = [pc EXCEPT ![t] = l] /\ l \in PC
        /\ req' = [req EXCEPT ![t] = NoRequest] /\ walk' = NoWalk /\ ret' = NoResult
        /\ walk.by = t /\ Walking(t) /\ ~Waiter(t)
        /\ UNCHANGED <<memory, table, parking, signals>>
    BY DEF WalkEnd, Goto, PC, IInv, LockInv, Walking, Waiter
  <1>1. /\ owes' \in [Threads -> SUBSET (Words \X BOOLEAN)]
        /\ \A u \in Threads : u # t => owes'[u] = owes[u]
        /\ ~FullWalk(t) => owes'[t] = owes[t]
        /\ FullWalk(t) => owes'[t] = owes[t] \ {<<req[t].guest, req[t].priv>>}
    BY DEF WalkEnd, IInv, TypeOK
  <1>2. TypeOK'
    BY <1>0, <1>1, MoveType, NoRequestType, FutexConstants DEF IInv, TypeOK, NoWalk
  <1>3. \A u \in Threads : u # t => pc'[u] = pc[u] /\ req'[u] = req[u]
    BY <1>0 DEF IInv, TypeOK
  <1>4. pc'[t] = l /\ ~Waiter(t)'
    BY <1>0 DEF IInv, TypeOK, Waiter
  <1>5. LockInv'
    BY <1>0, <1>3, <1>4, FutexConstants DEF IInv, LockInv, Walking, NoWalk
  <1>6. SlotInv'
    BY <1>0, <1>3, <1>4 DEF IInv, SlotInv, Waiter
  <1>7. CondInv'
    BY <1>0, <1>3, <1>4 DEF IInv, CondInv, Parked, Waiter
  <1>8. EntryInv'
    <2>1. \A c \in Cells : gen'[c] \in Nat /\ gen[c] <= gen'[c]
      BY <1>0 DEF IInv, TypeOK
    <2> QED
      BY <1>0, <1>3, <2>1, EntryFrame
  <1>9. NoLostWake'
    <2> SUFFICES ASSUME NEW s \in DOMAIN table,
                        table[s].waiting, ~table[s].wake, Reachable(table[s]),
                        word[CellOf(table[s].space, table[s].guest)] # table[s].expected
                 PROVE  \E u \in Threads : StillOwes(u, s)'
      BY <1>0 DEF NoLostWake, Reachable, HostOf
    <2>1. PICK u \in Threads : StillOwes(u, s)
      BY DEF IInv, NoLostWake
    <2>2. walk.idx > s
      BY SlotNotZero DEF WalkEnd, IInv, TypeOK
    <2>3. s \in Nat /\ walk.idx \in Nat
      BY SlotNotZero DEF IInv, TypeOK
    <2>4. <<table[s].guest, table[s].priv>> \in owes'[u]
      BY <1>0, <1>1, <2>1, <2>2, <2>3 DEF StillOwes, InWake
    <2>5. InWake(u)' => u # t /\ ~Walking(u) /\ ~Walking(u)' /\ InWake(u)
      BY <1>0, <1>3, <1>4 DEF InWake, Walking, IInv, LockInv
    <2>6. StillOwes(u, s)'
      BY <1>0, <1>3, <2>1, <2>4, <2>5 DEF StillOwes, FullWalk
    <2> QED
      BY <2>6
  <1>10. HostInv'
    <2>1. \A u \in Threads : Looking(u)' => Looking(u) /\ req'[u] = req[u]
      BY <1>3, <1>4 DEF Looking
    <2>2. \A c \in Cells : gen[c] <= gen'[c]
      BY <1>0 DEF IInv, TypeOK
    <2> QED
      BY <1>2, <2>1, <2>2, HostFrame
  <1> QED
    BY <1>2, <1>5, <1>6, <1>7, <1>8, <1>9, <1>10 DEF IInv

\* One entry of a walk.  A full walk claims every reachable waiter of its key,
\* so passing an entry leaves no waiter behind.
LEMMA WalkEntryInv ==
    ASSUME IInv, NEW t \in Threads, WalkEntry(t)
    PROVE  IInv'
  <1>i. PICK i \in Nat : i = walk.idx
    BY DEF IInv, TypeOK
  <1>0. /\ walk.by = t /\ Walking(t) /\ i \in DOMAIN table /\ table[i] \in Entry
        /\ EntryOK(i) /\ walk.woken < walk.idx /\ walk.woken \in Nat /\ req[t].n \in Nat
        /\ i <= Len(table) /\ Len(table) \in Nat /\ t # NoThread
    <2>1. walk.by = t /\ Walking(t) /\ t # NoThread
      BY ConstantFacts DEF WalkEntry, IInv, LockInv
    <2>2. walk.woken \in Nat /\ req[t].n \in Nat /\ walk.woken < walk.idx
      BY <2>1 DEF IInv, LockInv, TypeOK, Request
    <2>3. i >= 1 /\ i <= Len(table) /\ Len(table) \in Nat
      BY <1>i, <2>2, SlotNotZero DEF WalkEntry, IInv
    <2>4. i \in DOMAIN table
      BY <2>3, SlotNotZero DEF IInv
    <2> QED
      BY <2>1, <2>2, <2>3, <2>4, SlotNotZero DEF IInv, EntryInv
  <1>1. /\ UNCHANGED <<word, gen, pc, req, slot, waitingCond, signals, owes>>
        /\ ret' = NoResult
    BY DEF WalkEntry
  <1>2. walk' \in [by : Threads \cup {NoThread}, idx : Nat, woken : Nat]
          /\ walk'.by = t /\ walk'.idx = i + 1 /\ walk'.woken < walk'.idx
    <2>1. walk \in [by : Threads \cup {NoThread}, idx : Nat, woken : Nat]
      BY DEF IInv, TypeOK
    <2>2. CASE Claims(t, table[walk.idx])
      <3>1. walk' = [walk EXCEPT !.idx = @ + 1, !.woken = @ + 1]
        BY <2>2 DEF WalkEntry
      <3>2. /\ walk'.by = walk.by /\ walk'.idx = walk.idx + 1
            /\ walk'.woken = walk.woken + 1
        BY <2>1, <3>1
      <3>3. walk' \in [by : Threads \cup {NoThread}, idx : Nat, woken : Nat]
        <4>1. walk' = [by |-> walk.by, idx |-> walk.idx + 1,
                       woken |-> walk.woken + 1]
          BY <2>1, <3>1
        <4> QED
          BY <2>1, <4>1
      <3> QED
        BY <1>i, <1>0, <3>2, <3>3
    <2>3. CASE ~Claims(t, table[walk.idx])
      <3>1. walk' = [walk EXCEPT !.idx = @ + 1]
        BY <2>3 DEF WalkEntry
      <3> QED
        BY <1>i, <1>0, <2>1, <3>1
    <2> QED
      BY <2>2, <2>3
  <1>3. LockInv'
    BY <1>0, <1>1, <1>2 DEF IInv, LockInv, Walking
  <1>4. \A u \in Threads : (Waiter(u)' <=> Waiter(u)) /\ (Parked(u)' <=> Parked(u))
    BY <1>1 DEF Waiter, Parked
  <1>5. CondInv'
    BY <1>1, <1>4 DEF IInv, CondInv
  <1>W. \A u \in Threads : /\ InWake(u)' <=> InWake(u)
                           /\ Walking(u)' <=> Walking(u)
                           /\ Walking(u) => u = t
    BY <1>0, <1>1 DEF InWake, Walking, IInv, LockInv
  <1>H. TypeOK' => HostInv'
    <2>1. \A u \in Threads : Looking(u)' => Looking(u) /\ req'[u] = req[u]
      BY <1>1 DEF Looking
    <2>2. \A c \in Cells : gen[c] <= gen'[c]
      BY <1>1 DEF IInv, TypeOK
    <2> QED
      BY <2>1, <2>2, HostFrame
  <1>6. CASE Claims(t, table[i])
    <2> DEFINE e == [table[i] EXCEPT !.wake = TRUE]
    <2>1. table' = [table EXCEPT ![i].wake = TRUE] /\ Notify(i)
      BY <1>i, <1>6 DEF WalkEntry
    <2>2. table' = [table EXCEPT ![i] = e] /\ e \in Entry
      BY <1>0, <2>1 DEF Entry, IInv, TypeOK
    <2>3. /\ table' \in Seq(Entry) /\ DOMAIN table' = DOMAIN table
          /\ Len(table') = Len(table)
          /\ \A k \in DOMAIN table : table'[k] = IF k = i THEN e ELSE table[k]
      BY <1>0, <2>2, ExceptSeq DEF IInv, TypeOK
    <2>4. notified' \in [Threads -> BOOLEAN] /\ \A u \in Threads : notified[u] => notified'[u]
      BY <2>1 DEF Notify, IInv, TypeOK
    <2>5. TypeOK'
      BY <1>1, <1>2, <2>3, <2>4, MoveType DEF IInv, TypeOK
    <2>6. e.thread = table[i].thread /\ e.wake /\ e.waiting = table[i].waiting
      BY <1>0 DEF Entry
    <2>7. \A k \in DOMAIN table : table'[k].thread = table[k].thread
      BY <2>3, <2>6
    <2>8. SlotInv'
      BY <1>1, <1>4, <2>3, <2>7 DEF IInv, SlotInv
    <2>9. EntryOK(i)'
      <3>o. PICK o : o = table[i].thread
        OBVIOUS
      <3>1. o \in Threads /\ slot[o] = i /\ table[i].waiting
        BY <3>o, <1>0, <1>6, Ownership DEF Claims, IInv, SlotInv
      <3>2. Parked(o) /\ o # NoThread
        BY <3>o, <1>0, <3>1, ConstantFacts DEF EntryOK
      <3>3. waitingCond[o] = i
        BY <3>1, <3>2 DEF IInv, CondInv
      <3>4. notified'[o] = TRUE
        BY <2>1, <3>1, <3>3 DEF Notify
      <3>5. table'[i] = e
        BY <1>0, <2>3
      <3>6. /\ e.guest = table[i].guest /\ e.priv = table[i].priv /\ e.space = table[i].space
            /\ e.expected = table[i].expected /\ e.mask = table[i].mask
            /\ e.host = table[i].host
        BY <1>0 DEF Entry
      <3>7. Parked(o)'
        BY <1>4, <3>1, <3>2
      <3> HIDE DEF e
      <3> QED
        BY <3>o, <1>0, <1>1, <2>6, <3>1, <3>2, <3>4, <3>5, <3>6, <3>7 DEF EntryOK, WasHost
    <2>10. EntryInv'
      <3> SUFFICES ASSUME NEW s \in DOMAIN table, s # i PROVE EntryOK(s)'
        BY <2>3, <2>9 DEF EntryInv
      <3>1. table'[s] = table[s] /\ EntryOK(s)
        BY <2>3 DEF IInv, EntryInv
      <3>2. table[s].thread # NoThread => table[s].thread \in Threads
        BY Ownership
      <3> QED
        BY <1>1, <1>4, <2>4, <3>1, <3>2 DEF EntryOK, WasHost
    <2>11. NoLostWake'
      <3> SUFFICES ASSUME NEW s \in DOMAIN table, s # i,
                          table[s].waiting, ~table[s].wake, Reachable(table[s]),
                          word[CellOf(table[s].space, table[s].guest)] # table[s].expected
                   PROVE  \E u \in Threads : StillOwes(u, s)'
        BY <1>1, <2>3, <2>6 DEF NoLostWake, Reachable, HostOf
      <3>1. PICK u \in Threads : StillOwes(u, s)
        BY DEF IInv, NoLostWake
      <3>2. s \in Nat /\ table'[s] = table[s]
        BY <2>3, SlotNotZero DEF IInv
      <3>3. StillOwes(u, s)'
        BY <1>i, <1>0, <1>1, <1>2, <1>W, <2>3, <3>1, <3>2 DEF StillOwes, FullWalk
      <3> QED
        BY <3>3
    <2> QED
      BY <1>3, <1>5, <1>H, <2>5, <2>8, <2>10, <2>11 DEF IInv
  <1>7. CASE ~Claims(t, table[i])
    <2>1. UNCHANGED <<table, notified>>
      BY <1>i, <1>7 DEF WalkEntry
    <2>2. TypeOK'
      BY <1>1, <1>2, <2>1, MoveType DEF IInv, TypeOK
    <2>3. SlotInv'
      BY <1>1, <1>4, <2>1 DEF IInv, SlotInv
    <2>4. EntryInv'
      <3>1. \A c \in Cells : gen'[c] \in Nat /\ gen[c] <= gen'[c]
        BY <1>1 DEF IInv, TypeOK
      <3> QED
        BY <1>1, <2>1, <3>1, EntryFrame
    <2>5. NoLostWake'
      <3> SUFFICES ASSUME NEW s \in DOMAIN table,
                          table[s].waiting, ~table[s].wake, Reachable(table[s]),
                          word[CellOf(table[s].space, table[s].guest)] # table[s].expected
                   PROVE  \E u \in Threads : StillOwes(u, s)'
        BY <1>1, <2>1 DEF NoLostWake, Reachable, HostOf
      <3>1. PICK u \in Threads : StillOwes(u, s)
        BY DEF IInv, NoLostWake
      <3>2. s \in Nat
        BY SlotNotZero DEF IInv
      <3>3. CASE s # i \/ u # t
        BY <1>i, <1>0, <1>1, <1>2, <1>W, <2>1, <3>1, <3>2, <3>3, SMTT(30) DEF StillOwes, FullWalk
      <3>4. CASE s = i /\ u = t
        <4> DEFINE e == table[i]
        <4>1. /\ e.thread # NoThread /\ e.thread \in Threads /\ e.space = SpaceOf[e.thread]
              /\ e.mask # {} /\ e.mask \subseteq Bits
          BY <1>0, <3>4, Ownership DEF EntryOK, Entry
        <4>2. /\ <<e.guest, e.priv>> \in owes[t]
              /\ CellOf(SpaceOf[t], e.guest) = CellOf(e.space, e.guest)
          BY <3>1, <3>4 DEF StillOwes
        <4>3. ASSUME FullWalk(t), req[t].guest = e.guest, req[t].priv = e.priv PROVE FALSE
          <5>1. walk.woken < req[t].n
            BY <1>i, <1>0, <4>3 DEF FullWalk
          <5>2. e.mask \cap req[t].mask # {}
            BY <4>1, <4>3 DEF FullWalk
          <5>3. futexKeyMatches(e, req[t].priv, SpaceOf[t], req[t].guest, req[t].host)
            <6>1. CASE e.priv
              <7>1. e.guest \notin SharedWords
                BY <3>4, <6>1 DEF Reachable
              <7>2. SpaceOf[t] = e.space
                BY <4>2, <7>1 DEF CellOf
              <7> QED
                BY <4>3, <6>1, <7>2 DEF futexKeyMatches
            <6>2. CASE ~e.priv
              <7>1. req[t].host = e.host
                BY <1>0, <3>1, <3>4, <4>3, <6>2 DEF StillOwes, InWake
              <7> QED
                BY <4>3, <6>2, <7>1 DEF futexKeyMatches
            <6> QED
              BY <6>1, <6>2
          <5> QED
            BY <1>7, <3>4, <4>1, <5>1, <5>2, <5>3 DEF Claims
        <4> QED
          BY <1>0, <1>1, <1>2, <2>1, <3>4, <4>2, <4>3 DEF StillOwes, FullWalk
      <3> QED
        BY <3>3, <3>4
    <2> QED
      BY <1>3, <1>5, <1>H, <2>2, <2>3, <2>4, <2>5 DEF IInv
  <1> QED
    BY <1>6, <1>7

----------------------------------------------------------------------------
\* Every step of every thread preserves the inductive invariant.
THEOREM NextInv == IInv /\ [Next]_vars => IInv'
  <1> SUFFICES ASSUME IInv, [Next]_vars PROVE IInv'
    OBVIOUS
  <1>1. CASE UNCHANGED vars
    <2>1. TypeOK'
      BY <1>1 DEF vars, IInv, TypeOK
    <2>2. LockInv'
      BY <1>1 DEF vars, IInv, LockInv, Walking
    <2>3. \A c \in Cells : gen[c] <= gen'[c]
      BY <1>1 DEF vars, IInv, TypeOK
    <2> QED
      BY <1>1, <2>1, <2>2, <2>3, QuietStep DEF vars, Waiter, CallKept, InWake, Walking, Looking
  <1>2. ASSUME NEW t \in Threads, Calls(t) PROVE IInv'
    BY <1>2, WaitCallInv, WakeCallInv, RequeueCallInv DEF Calls
  <1>3. ASSUME NEW t \in Threads, WaitStep(t) PROVE IInv'
    BY <1>3, LookupInv, PrecheckInv, AllocInv, CompareInv, ResumeInv DEF WaitStep
  <1>4. ASSUME NEW t \in Threads, WalkStep(t) PROVE IInv'
    BY <1>4, LockTableInv, WalkEntryInv, WalkEndInv DEF WalkStep
  <1>5. ASSUME NEW t \in Threads, ExitStep(t) PROVE IInv'
    BY <1>5, ExitStoreInv, ExitWakeInv, ClearFutexesInv DEF ExitStep
  <1>6. ASSUME NEW t \in Threads, Guest(t) PROVE IInv'
    BY <1>6, StoreInv, SignalReadInv, SignalDeliverInv, TakeSignalInv, TerminateInv
    DEF Guest
  <1>7. ASSUME NEW c \in Cells, Repoint(c) PROVE IInv'
    BY <1>7, RepointInv
  <1> QED
    BY <1>1, <1>2, <1>3, <1>4, <1>5, <1>6, <1>7 DEF Next

----------------------------------------------------------------------------
(* The results.                                                            *)

\* The inductive invariant holds in every reachable state.
THEOREM Invariance == Spec => []IInv
  <1>1. Init => IInv
    BY InitInv
  <1>2. IInv /\ [Next]_vars => IInv'
    BY NextInv
  <1> QED
    BY <1>1, <1>2, PTL DEF Spec

\* Type correctness of the futex table and of the threads around it.
THEOREM TypeCorrect == Spec => []TypeOK
  <1>1. IInv => TypeOK
    BY DEF IInv
  <1> QED
    BY <1>1, Invariance, PTL

\* No way out of KThread::futex or futex64 leaks a table entry, and getFutex
\* never finds an entry left over from an earlier wait.
THEOREM NoEntryLeaks == Spec => []OneEntryPerWait
  <1>1. IInv => OneEntryPerWait
    <2> SUFFICES ASSUME IInv PROVE OneEntryPerWait
      OBVIOUS
    <2>1. \A t \in Threads : Owned(t) = IF Waiter(t) THEN {slot[t]} ELSE {}
      BY Ownership
    <2>2. \A t \in Threads : pc[t] = "lookup" => getFutex(t, req[t]) = {}
      BY <2>1 DEF getFutex, Waiter
    <2> QED
      BY <2>1, <2>2 DEF OneEntryPerWait
  <1> QED
    BY <1>1, Invariance, PTL

\* A wake is only ever handed to a thread that is parked on the entry, and
\* that thread has been notified.
THEOREM ClaimsAreParked == Spec => []ClaimedIsParked
  <1>1. IInv => ClaimedIsParked
    <2> SUFFICES ASSUME IInv, NEW s \in DOMAIN table, table[s].wake
                 PROVE  \E t \in Threads : /\ table[s].thread = t /\ slot[t] = s
                                           /\ pc[t] = "parked" /\ notified[t]
      BY DEF ClaimedIsParked
    <2>1. EntryOK(s)
      BY DEF IInv, EntryInv
    <2>2. table[s].thread # NoThread /\ table[s].thread \in Threads
            /\ slot[table[s].thread] = s
      BY <2>1, Ownership DEF EntryOK, IInv, SlotInv
    <2> QED
      BY <2>1, <2>2 DEF EntryOK, Parked
  <1> QED
    BY <1>1, Invariance, PTL

\* No interleaving of waits, wakes, stores, signals, terminations and page
\* moves strands a waiter whose word has moved on.
THEOREM WakesAreNotLost == Spec => []NoLostWake
  <1>1. IInv => NoLostWake
    BY DEF IInv
  <1> QED
    BY <1>1, Invariance, PTL

\* A waiter that FUTEX_WAKE counted is never told -EAGAIN or -ETIMEDOUT.
THEOREM ClaimsAreHonoured == Spec => ClaimIsHonoured
  <1> DEFINE Good(t) == ~(ret'.thread = t /\ ret'.result \in {"EAGAIN", "ETIMEDOUT"})
  <1>1. ASSUME IInv, [Next]_vars, NEW t \in Threads, slot[t] # 0, table[slot[t]].wake,
               vars' # vars
        PROVE  Good(t)
    <2>1. Parked(t) /\ t # NoThread
      <3>1. Waiter(t) /\ slot[t] \in DOMAIN table /\ table[slot[t]].thread = t
        BY <1>1 DEF IInv, SlotInv
      <3>2. EntryOK(slot[t]) /\ t # NoThread
        BY <1>1, <3>1, ConstantFacts DEF IInv, EntryInv
      <3> QED
        BY <1>1, <3>1, <3>2 DEF EntryOK
    <2>2. ret' = NoResult => Good(t)
      BY <2>1 DEF NoResult
    <2>3. ASSUME NEW u \in Threads, Calls(u) \/ WalkStep(u) \/ ExitStep(u) \/ Guest(u)
          PROVE  ret' = NoResult
      BY <2>3 DEF Calls, WaitCall, WakeCall, RequeueCall, WalkStep, LockTable, WalkEntry, WalkEnd,
                  ExitStep, ExitStore, ExitWake, ClearFutexes, Guest, Store, SignalRead,
                  SignalDeliver, TakeSignal, Terminate
    <2>4. ASSUME NEW u \in Threads, WaitStep(u) PROVE Good(t)
      <3>1. CASE Lookup(u) \/ Alloc(u)
        BY <2>2, <3>1 DEF Lookup, Alloc
      <3>2. ASSUME NEW x, NEW tab, Return(u, x) \/ Leave(u, tab, x), u # t PROVE Good(t)
        BY <3>2 DEF Return, Leave
      <3>3. CASE Precheck(u)
        BY <2>1, <2>2, <3>2, <3>3 DEF Precheck, Parked
      <3>4. ASSUME NEW late \in BOOLEAN, Compare(u, late) PROVE Good(t)
        <4>1. u # t
          BY <2>1, <3>4 DEF Compare, Parked
        <4> QED
          BY <2>2, <3>2, <3>4, <4>1 DEF Compare, Turn, Block
      <3>5. ASSUME NEW late \in BOOLEAN, Resume(u, late) PROVE Good(t)
        <4>1. CASE u # t
          BY <2>2, <3>2, <3>5, <4>1 DEF Resume, Turn, Block
        <4>2. CASE u = t
          <5>1. ret'.result \in {"EINTR", "CONTINUE", "0"}
            BY <1>1, <3>5, <4>2 DEF Resume, Turn, Leave, Return, SignalResult
          <5> QED
            BY <5>1
        <4> QED
          BY <4>1, <4>2
      <3> QED
        BY <2>4, <3>1, <3>3, <3>4, <3>5 DEF WaitStep
    <2>5. ASSUME NEW c \in Cells, Repoint(c) PROVE ret' = NoResult
      BY <2>5 DEF Repoint
    <2> QED
      BY <1>1, <2>2, <2>3, <2>4, <2>5 DEF Next
  <1>2. IInv /\ [Next]_vars =>
          [\A t \in Threads : slot[t] # 0 /\ table[slot[t]].wake => Good(t)]_vars
    BY <1>1
  <1>3. IInv /\ [Next]_vars =>
          [\A t \in Threads : slot[t] # 0 /\ table[slot[t]].wake =>
             ~(ret'.thread = t /\ ret'.result \in {"EAGAIN", "ETIMEDOUT"})]_vars
    BY <1>2
  <1> QED
    BY <1>3, Invariance, PTL DEF Spec, ClaimIsHonoured

\* A step that raises no startSignal and moves no thread out of its wait.
Unstarted ==
    /\ UNCHANGED startSignal
    /\ \A u \in Threads : terminating[u] => terminating'[u]
    /\ \A u \in Threads : pc[u] = "parked" => pc'[u] = "parked"

\* Thread t goes somewhere else.
LEMMA GotoElsewhere ==
    ASSUME TypeOK, NEW t \in Threads, NEW l, Goto(t, l)
    PROVE  \A u \in Threads : pc'[u] = IF u = t THEN l ELSE pc[u]
  BY DEF TypeOK, Goto

\* The end of a wait, or another turn of it, by a 32-bit thread that has consumed
\* its startSignal or is told to end.
LEMMA TurnConsumes ==
    ASSUME IInv, StartSignalConsumed, NEW t \in Threads, NEW tab, NEW late \in BOOLEAN,
           Turn(t, tab, late) \/ (\E x \in Results : Leave(t, tab, x)),
           UNCHANGED terminating,
           \A u \in Threads : u # t => startSignal'[u] = startSignal[u],
           Lane[t] = 32 /\ ~terminating[t] => ~startSignal'[t]
    PROVE  StartSignalConsumed'
  <1>1. TypeOK
    BY DEF IInv
  <1>2. Goto(t, "user") \/ Goto(t, "parked")
    BY DEF Turn, Block, Leave, Return
  <1>3. \A u \in Threads : u # t => pc'[u] = pc[u]
    BY <1>1, <1>2, GotoElsewhere
  <1> QED
    BY <1>3 DEF StartSignalConsumed

\* A startSignal is raised only for a thread that is parked, and the thread takes it
\* down on its way out.
LEMMA KeepsStartSignal ==
    IInv /\ StartSignalConsumed /\ [Next]_vars => StartSignalConsumed'
  <1> SUFFICES ASSUME IInv, StartSignalConsumed, [Next]_vars PROVE StartSignalConsumed'
    OBVIOUS
  <1>1. TypeOK
    BY DEF IInv
  <1>2. Unstarted => StartSignalConsumed'
    BY DEF Unstarted, StartSignalConsumed
  <1>3. CASE UNCHANGED vars
    BY <1>2, <1>3 DEF vars, Unstarted
  <1>4. ASSUME NEW t \in Threads, Calls(t) PROVE Unstarted
    <2>1. (\E l : Goto(t, l)) \/ UNCHANGED pc
      BY <1>4 DEF Calls, WaitCall, WakeCall, RequeueCall, StartWake
    <2>2. UNCHANGED <<startSignal, terminating>> /\ pc[t] # "parked"
      BY <1>4 DEF Calls, WaitCall, WakeCall, RequeueCall
    <2> QED
      BY <1>1, <2>1, <2>2, GotoElsewhere DEF Unstarted
  <1>5. ASSUME NEW t \in Threads, Lookup(t) \/ Precheck(t) \/ Alloc(t) PROVE Unstarted
    <2>1. \E l : Goto(t, l)
      BY <1>5 DEF Lookup, Precheck, Alloc, Return
    <2>2. UNCHANGED <<startSignal, terminating>> /\ pc[t] # "parked"
      BY <1>5 DEF Lookup, Precheck, Alloc
    <2> QED
      BY <1>1, <2>1, <2>2, GotoElsewhere DEF Unstarted
  <1>6. ASSUME NEW t \in Threads, NEW late \in BOOLEAN, Compare(t, late)
        PROVE  StartSignalConsumed'
    <2>1. UNCHANGED <<startSignal, terminating>> /\ pc[t] = "compare"
      BY <1>6 DEF Compare
    <2>2. Lane[t] = 32 /\ ~terminating[t] => ~startSignal'[t]
      BY <2>1 DEF StartSignalConsumed
    <2>3. \/ Turn(t, Parking(t), late)
          \/ \E x \in Results : Leave(t, table, x)
      BY <1>6 DEF Compare, Results
    <2> QED
      BY <2>1, <2>2, <2>3, TurnConsumes
  <1>7. ASSUME NEW t \in Threads, NEW late \in BOOLEAN, Resume(t, late)
        PROVE  StartSignalConsumed'
    <2>1. UNCHANGED terminating /\ pc[t] = "parked"
      BY <1>7 DEF Resume
    <2>2. /\ \A u \in Threads : u # t => startSignal'[u] = startSignal[u]
          /\ Lane[t] = 32 /\ ~terminating[t] => ~startSignal'[t]
      BY <1>1, <1>7 DEF Resume, TypeOK
    <2>3. \/ Turn(t, table, late)
          \/ \E x \in Results : Leave(t, table, x)
      BY <1>7 DEF Resume, Results
    <2> QED
      BY <2>1, <2>2, <2>3, TurnConsumes
  <1>8. ASSUME NEW t \in Threads, WalkStep(t) PROVE Unstarted
    <2>1. (\E l : Goto(t, l)) \/ UNCHANGED pc
      BY <1>8 DEF WalkStep, LockTable, WalkEntry, WalkEnd
    <2>2. UNCHANGED <<startSignal, terminating>> /\ pc[t] # "parked"
      BY <1>8 DEF WalkStep, LockTable, WalkEntry, WalkEnd, Walking
    <2> QED
      BY <1>1, <2>1, <2>2, GotoElsewhere DEF Unstarted
  <1>9. ASSUME NEW t \in Threads, ExitStep(t) PROVE Unstarted
    <2>1. \E l : Goto(t, l)
      BY <1>9 DEF ExitStep, ExitStore, ExitWake, ClearFutexes, StartWake
    <2>2. UNCHANGED <<startSignal, terminating>> /\ pc[t] # "parked"
      BY <1>9 DEF ExitStep, ExitStore, ExitWake, ClearFutexes
    <2> QED
      BY <1>1, <2>1, <2>2, GotoElsewhere DEF Unstarted
  <1>10. ASSUME NEW t \in Threads, SignalDeliver(t) PROVE StartSignalConsumed'
    <2> DEFINE u == sig[t].target
    <2>1. /\ pc[t] = "signal" /\ Goto(t, "user") /\ UNCHANGED terminating
          /\ u \in Threads \cup {NoThread}
      BY <1>1, <1>10 DEF SignalDeliver, TypeOK
    <2>2. \A x \in Threads : pc[x] = "parked" => pc'[x] = "parked"
      BY <1>1, <2>1, GotoElsewhere
    <2>3. CASE sig[t].cond # 0 /\ waitingCond[u] = sig[t].cond
      <3>1. startSignal' = [startSignal EXCEPT ![u] = TRUE]
        BY <1>10, <2>3 DEF SignalDeliver
      <3>2. u \in Threads => pc[u] = "parked"
        BY <2>3 DEF IInv, CondInv, Parked
      <3> QED
        BY <1>1, <2>1, <2>2, <3>1, <3>2 DEF StartSignalConsumed, TypeOK
    <2>4. CASE ~(sig[t].cond # 0 /\ waitingCond[u] = sig[t].cond)
      BY <1>2, <1>10, <2>1, <2>2, <2>4 DEF SignalDeliver, Unstarted
    <2> QED
      BY <2>3, <2>4
  <1>11. ASSUME NEW t \in Threads,
                \/ \E a \in Words, v \in Values : Store(t, a, v)
                \/ \E u \in Threads : SignalRead(t, u)
                \/ TakeSignal(t)
         PROVE  Unstarted
    <2>1. Goto(t, "signal") \/ UNCHANGED pc
      BY <1>11 DEF Store, SignalRead, TakeSignal
    <2>2. UNCHANGED <<startSignal, terminating>> /\ pc[t] # "parked"
      BY <1>11 DEF Store, SignalRead, TakeSignal
    <2> QED
      BY <1>1, <2>1, <2>2, GotoElsewhere DEF Unstarted
  <1>12. ASSUME NEW t \in Threads, Terminate(t) PROVE Unstarted
    BY <1>1, <1>12 DEF Terminate, Unstarted, TypeOK
  <1>13. ASSUME NEW c \in Cells, Repoint(c) PROVE Unstarted
    BY <1>13 DEF Repoint, Unstarted
  <1> QED
    BY <1>2, <1>3, <1>4, <1>5, <1>6, <1>7, <1>8, <1>9, <1>10, <1>11, <1>12, <1>13
    DEF Next, WaitStep, Guest

\* A 32-bit thread leaves its wait without its startSignal, whichever order the
\* signal, the wake, the deadline and the spurious wakeup come in (KThread::futex).
THEOREM StartSignalsAreConsumed == Spec => []StartSignalConsumed
  <1>1. Init => StartSignalConsumed
    BY DEF Init, StartSignalConsumed
  <1> QED
    BY <1>1, KeepsStartSignal, Invariance, PTL DEF Spec
=============================================================================
