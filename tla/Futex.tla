------------------------------- MODULE Futex -------------------------------
(***************************************************************************)
(* The guest futex table of source/kernel/kthread.cpp in the multi-threaded *)
(* build: KThread::futex (32-bit lane), KThread::futex64 and wakeFutexes64  *)
(* (64-bit lane), the table operations they share (initFutex, getFutex,     *)
(* allocFutex, freeFutex, clearFutexes, futexKeyMatches), and the three     *)
(* other ways a parked thread is disturbed: KThread::signal,                *)
(* terminateOtherThread and the exit path of KThread::internalCleanup.      *)
(*                                                                         *)
(* Grain of atomicity.  Every access to an entry that matters is made under *)
(* that entry's own condition (f->cond), every walk of the table under      *)
(* systemFutexesMutex.  A step of a thread is one critical section of       *)
(* f->cond; a walk of the table is one step per entry, so waiters move       *)
(* between two steps of a walk exactly as they do in the code.              *)
(***************************************************************************)
EXTENDS Naturals, Sequences, FiniteSets

CONSTANTS
    Threads,      \* guest threads (KThread), each on a host thread of its own
    Spaces,       \* address spaces (KMemory / KMemory64), one per process
    SpaceOf,      \* [Threads -> Spaces]
    Lane,         \* [Threads -> {32, 64}]: which system call the thread makes
    Words,        \* guest addresses of futex words
    SharedWords,  \* those on pages every space maps; the others are per space
    Values,       \* what a word can hold
    Zero,         \* the value the exit path stores at clear_child_tid
    Bits,         \* the bits of a FUTEX_*_BITSET mask; Bits itself is MATCH_ANY
    May,          \* [Threads -> SUBSET Operations]: what its program does
    TidWord,      \* [Threads -> Words \cup {NoWord}]: clear_child_tid
    MaxRepoints,  \* bound: how often one page is given another host pointer
    WakeCounts,   \* the `value` arguments of the wakes the guest makes
    WakeAll,      \* the 0xffffffff the exit path passes
    Everyone,     \* stands for "every space" in a cell
    NoThread,     \* nullptr
    NoWord

\* "end": the thread may be terminated, by itself or by another thread.
Operations == {"wait", "timedwait", "wake", "requeue", "store", "signal", "end"}

ASSUME FutexConstants ==
    /\ May \in [Threads -> SUBSET Operations]
    /\ SpaceOf \in [Threads -> Spaces]
    /\ Lane \in [Threads -> {32, 64}]
    /\ Words # {} /\ SharedWords \subseteq Words
    /\ Zero \in Values
    /\ TidWord \in [Threads -> Words \cup {NoWord}]
    /\ MaxRepoints \in Nat
    /\ NoThread \notin Threads
    /\ NoWord \notin Words
    /\ Bits # {}
    /\ WakeCounts \subseteq Nat
    /\ WakeAll \in Nat
    /\ Everyone \notin Spaces

VARIABLES
    word,        \* [Cells -> Values]: guest memory
    gen,         \* [Cells -> Nat]: which host pointer the page has now
    table,       \* systemFutexes
    walk,        \* the wake that holds systemFutexesMutex, if any
    pc,          \* where each thread is
    req,         \* the arguments of the call a thread is in
    slot,        \* the local `f` / `wait` of a thread in a wait, 0 for nullptr
    waitingCond, \* KThread::waitingCond, as the slot that owns the condition
    notified,    \* the condition the thread is blocked on has been signalled
    pending,     \* a deliverable signal is in KThread::pendingSignals
    startSignal, \* KThread::startSignal
    terminating, \* KThread::terminating
    sig,         \* locals of a KThread::signal a thread is executing
    ret,         \* the wait that returned in the last step, and its result
    owes         \* history: wakes a thread still owes for the words it stored

vars == <<word, gen, table, walk, pc, req, slot, waitingCond, notified,
          pending, startSignal, terminating, sig, ret, owes>>

----------------------------------------------------------------------------
(* Memory.  A word on a shared page is one cell for all spaces.             *)

CellOf(space, a) == IF a \in SharedWords THEN <<Everyone, a>> ELSE <<space, a>>

Cells == {CellOf(space, a) : space \in Spaces, a \in Words}

\* The host pointer getRamPtr returns: the page and which backing it has now.
HostOf(space, a) == <<CellOf(space, a), gen[CellOf(space, a)]>>

ValueOf(t, a) == word[CellOf(SpaceOf[t], a)]

----------------------------------------------------------------------------
(* The table.                                                              *)

Hosts == Cells \X Nat

Entry == [thread : Threads \cup {NoThread}, guest : Words \cup {NoWord},
          space : Spaces \cup {Everyone}, priv : BOOLEAN,
          host : Hosts \cup {<<>>}, expected : Values, mask : SUBSET Bits,
          timed : BOOLEAN, waiting : BOOLEAN, wake : BOOLEAN]

\* freeFutex: nothing of the wait survives, `waiting` and `wake` least of all.
\* (It leaves `mask` as it was; nobody reads it before initFutex clears it.)
FreeEntry == [thread |-> NoThread, guest |-> NoWord, space |-> Everyone,
              priv |-> FALSE, host |-> <<>>, expected |-> Zero, mask |-> {},
              timed |-> FALSE, waiting |-> FALSE, wake |-> FALSE]

freeFutex(tab, s) == [tab EXCEPT ![s] = FreeEntry]

\* initFutex: the mask is still 0 here; the owner sets it after allocFutex.
initFutex(t, r) ==
    [thread |-> t, guest |-> r.guest, space |-> SpaceOf[t], priv |-> r.priv,
     host |-> r.host, expected |-> r.val, mask |-> {},
     timed |-> r.timed, waiting |-> FALSE, wake |-> FALSE]

\* Seeded fault: every futex keyed on the host pointer, as the 64-bit lane
\* once did.
FaultHostKey(e, priv, space, a, host) == e.priv = priv /\ e.host = host

\* A private futex is (address space, guest address), a shared one is the
\* host pointer, and the two never mix.
futexKeyMatches(e, priv, space, a, host) ==
    /\ e.priv = priv
    /\ IF priv THEN e.space = space /\ e.guest = a
               ELSE e.host = host

Owned(t) == {s \in DOMAIN table : table[s].thread = t}

\* getFutex: the entry this thread already has on the key, if any.
getFutex(t, r) ==
    {s \in Owned(t) : futexKeyMatches(table[s], r.priv, SpaceOf[t], r.guest, r.host)}

FirstFree(s) == /\ table[s].thread = NoThread
                /\ \A q \in 1..(s - 1) : table[q].thread # NoThread

----------------------------------------------------------------------------
(* Calls and program counters.                                             *)

\* What the guest passes ...
Args == [guest : Words, priv : BOOLEAN, val : Values,
         mask : (SUBSET Bits) \ {{}}, timed : BOOLEAN]

NoArgs == [guest |-> CHOOSE a \in Words : TRUE, priv |-> FALSE,
           val |-> Zero, mask |-> Bits, timed |-> FALSE]

\* ... how many waiters a wake is for, and ramAddress, which a call resolves
\* once, before it takes any lock: the page may get another host pointer while
\* the call is under way.
Request == [guest : Words, priv : BOOLEAN, val : Values, mask : (SUBSET Bits) \ {{}},
            timed : BOOLEAN, n : Nat, host : Hosts \cup {<<>>}]

Resolved(r, n, host) == [guest |-> r.guest, priv |-> r.priv, val |-> r.val,
                         mask |-> r.mask, timed |-> r.timed, n |-> n, host |-> host]

Resolve(t, r, n) == Resolved(r, n, HostOf(SpaceOf[t], r.guest))

NoRequest == Resolved(NoArgs, 0, <<>>)

NoWalk == [by |-> NoThread, idx |-> 0, woken |-> 0]

NoSig == [target |-> NoThread, cond |-> 0]

NoResult == [thread |-> NoThread, result |-> "none"]

PC == {"user", "lookup", "precheck", "alloc", "compare", "parked", "lock",
       "walk", "signal", "exiting", "exitlock", "exitwalk", "clear", "dead"}

Results == {"none", "0", "EAGAIN", "ETIMEDOUT", "EINTR", "CONTINUE"}

TypeOK ==
    /\ word \in [Cells -> Values]
    /\ gen \in [Cells -> Nat]
    /\ table \in Seq(Entry)
    /\ walk \in [by : Threads \cup {NoThread}, idx : Nat, woken : Nat]
    /\ pc \in [Threads -> PC]
    /\ req \in [Threads -> Request]
    /\ slot \in [Threads -> Nat]
    /\ waitingCond \in [Threads -> Nat]
    /\ notified \in [Threads -> BOOLEAN]
    /\ pending \in [Threads -> BOOLEAN]
    /\ startSignal \in [Threads -> BOOLEAN]
    /\ terminating \in [Threads -> BOOLEAN]
    /\ sig \in [Threads -> [target : Threads \cup {NoThread}, cond : Nat]]
    /\ ret \in [thread : Threads \cup {NoThread}, result : Results]
    /\ owes \in [Threads -> SUBSET (Words \X BOOLEAN)]

Init ==
    /\ word \in [Cells -> Values]
    /\ gen = [c \in Cells |-> 0]
    /\ table = <<>>
    /\ walk = NoWalk
    /\ pc = [t \in Threads |-> "user"]
    /\ req = [t \in Threads |-> NoRequest]
    /\ slot = [t \in Threads |-> 0]
    /\ waitingCond = [t \in Threads |-> 0]
    /\ notified = [t \in Threads |-> FALSE]
    /\ pending = [t \in Threads |-> FALSE]
    /\ startSignal = [t \in Threads |-> FALSE]
    /\ terminating = [t \in Threads |-> FALSE]
    /\ sig = [t \in Threads |-> NoSig]
    /\ ret = NoResult
    /\ owes = [t \in Threads |-> {}]

Goto(t, label) == pc' = [pc EXCEPT ![t] = label]

memory == <<word, gen>>
signals == <<pending, startSignal, terminating, sig>>
parking == <<slot, waitingCond, notified>>

----------------------------------------------------------------------------
(* FUTEX_WAIT / FUTEX_WAIT_BITSET.                                         *)

\* The guest enters the call with the value it last saw in the word.
WaitCall(t, r) ==
    /\ pc[t] = "user"
    /\ (IF r.timed THEN "timedwait" ELSE "wait") \in May[t]
    /\ Goto(t, "lookup")
    /\ req' = [req EXCEPT ![t] = Resolve(t, r, 0)]
    /\ ret' = NoResult
    /\ UNCHANGED <<memory, table, walk, parking, signals, owes>>

\* getFutex under systemFutexesMutex.  It finds nothing: a wait of this build
\* blocks inside the call and frees its entry on every way out, so the branch
\* for an entry left over by a cooperative park is dead (OneEntryPerWait).  The
\* 64-bit lane compares the word once more before it allocates, the 32-bit lane
\* does not.
Lookup(t) ==
    /\ pc[t] = "lookup" /\ walk.by = NoThread
    /\ getFutex(t, req[t]) = {}
    /\ Goto(t, IF Lane[t] = 64 THEN "precheck" ELSE "alloc")
    /\ ret' = NoResult
    /\ UNCHANGED <<memory, table, walk, req, parking, signals, owes>>

\* Leaving a wait that never got an entry.
Return(t, result) ==
    /\ Goto(t, "user")
    /\ ret' = [thread |-> t, result |-> result]
    /\ req' = [req EXCEPT ![t] = NoRequest]

Precheck(t) ==
    /\ pc[t] = "precheck"
    /\ IF ValueOf(t, req[t].guest) # req[t].val
       THEN Return(t, "EAGAIN")
       ELSE Goto(t, "alloc") /\ ret' = NoResult /\ UNCHANGED req
    /\ UNCHANGED <<memory, table, walk, parking, signals, owes>>

\* allocFutex under systemFutexesMutex: the first free entry, or a new one.
Alloc(t) ==
    /\ pc[t] = "alloc" /\ walk.by = NoThread
    /\ \/ \E s \in DOMAIN table :
             /\ FirstFree(s)
             /\ table' = [table EXCEPT ![s] = initFutex(t, req[t])]
             /\ slot' = [slot EXCEPT ![t] = s]
       \/ /\ \A s \in DOMAIN table : table[s].thread # NoThread
          /\ table' = Append(table, initFutex(t, req[t]))
          /\ slot' = [slot EXCEPT ![t] = Len(table) + 1]
    /\ Goto(t, "compare")
    /\ ret' = NoResult
    /\ UNCHANGED <<memory, walk, req, waitingCond, notified, signals, owes>>

\* Every way out of a wait that has an entry frees the entry.
Leave(t, tab, result) ==
    /\ table' = freeFutex(tab, slot[t])
    /\ Return(t, result)
    /\ slot' = [slot EXCEPT ![t] = 0]
    /\ waitingCond' = [waitingCond EXCEPT ![t] = 0]
    /\ notified' = [notified EXCEPT ![t] = FALSE]

\* BoxedWineCondition::wait: the condition is registered unless the thread is
\* terminating, in which case the wait returns at once and the caller leaves.
Block(t, tab) ==
    IF terminating[t]
    THEN Leave(t, tab, "EINTR")
    ELSE /\ table' = tab
         /\ Goto(t, "parked")
         /\ waitingCond' = [waitingCond EXCEPT ![t] = slot[t]]
         /\ notified' = [notified EXCEPT ![t] = FALSE]
         /\ ret' = NoResult
         /\ UNCHANGED <<slot, req>>

\* What a delivered signal makes the wait return, per lane.
SignalResult(t) == IF Lane[t] = 64 THEN "EINTR" ELSE "CONTINUE"

\* Seeded fault: the deadline is tested before the wake flag.
FaultDeadlineFirst(t, tab, late) ==
    \/ /\ pending[t]
       /\ pending' = [pending EXCEPT ![t] = FALSE]
       /\ Leave(t, tab, SignalResult(t))
    \/ /\ ~pending[t] /\ tab[slot[t]].timed /\ late
       /\ Leave(t, tab, "ETIMEDOUT")
       /\ UNCHANGED pending
    \/ /\ ~pending[t] /\ ~(tab[slot[t]].timed /\ late)
       /\ IF tab[slot[t]].wake THEN Leave(t, tab, "0") ELSE Block(t, tab)
       /\ UNCHANGED pending

\* One turn of the wait loop, on a table `tab` the caller has already updated:
\* a signal first, then the wake, then the deadline, then block.  `late` says
\* that the deadline of a timed wait has passed.
Turn(t, tab, late) ==
    \/ /\ pending[t]
       /\ pending' = [pending EXCEPT ![t] = FALSE]
       /\ Leave(t, tab, SignalResult(t))
    \/ /\ ~pending[t]
       /\ tab[slot[t]].wake
       /\ Leave(t, tab, "0")
       /\ UNCHANGED pending
    \/ /\ ~pending[t] /\ ~tab[slot[t]].wake
       /\ tab[slot[t]].timed /\ late
       /\ Leave(t, tab, "ETIMEDOUT")
       /\ UNCHANGED pending
    \/ /\ ~pending[t] /\ ~tab[slot[t]].wake
       /\ ~(tab[slot[t]].timed /\ late)
       /\ Block(t, tab)
       /\ UNCHANGED pending

\* The mask is set before f->cond is taken, which no waker sees: it skips an
\* entry that is not `waiting`.
Parking(t) == [table EXCEPT ![slot[t]].mask = req[t].mask,
                            ![slot[t]].waiting = TRUE]

\* Seeded fault: the word is not read again under f->cond.
FaultNoCompare(t, late) ==
    /\ pc[t] = "compare"
    /\ Turn(t, Parking(t), late)
    /\ UNCHANGED <<memory, walk, startSignal, terminating, sig, owes>>

\* Compare the word and park, in one critical section of f->cond.
Compare(t, late) ==
    /\ pc[t] = "compare"
    /\ IF ValueOf(t, req[t].guest) # req[t].val
       THEN Leave(t, table, "EAGAIN") /\ UNCHANGED pending
       ELSE Turn(t, Parking(t), late)
    /\ UNCHANGED <<memory, walk, startSignal, terminating, sig, owes>>

\* Seeded fault: startSignal is looked at and not cleared.
FaultStartSignalKept(t, late) ==
    /\ pc[t] = "parked"
    /\ IF terminating[t] \/ (Lane[t] = 32 /\ startSignal[t])
       THEN /\ Leave(t, table, IF terminating[t] THEN "EINTR" ELSE "CONTINUE")
            /\ UNCHANGED pending
       ELSE Turn(t, table, late)
    /\ UNCHANGED <<memory, walk, startSignal, terminating, sig, owes>>

\* The condition wait returns: it was signalled, its time ran out, or it woke
\* for no reason.  terminating is tested first; only the 32-bit lane looks at
\* startSignal; then the loop turns.
Resume(t, late) ==
    /\ pc[t] = "parked"
    /\ \/ /\ terminating[t]
          /\ Leave(t, table, "EINTR")
          /\ UNCHANGED <<pending, startSignal>>
       \/ /\ ~terminating[t] /\ Lane[t] = 32 /\ startSignal[t]
          /\ startSignal' = [startSignal EXCEPT ![t] = FALSE]
          /\ Leave(t, table, "CONTINUE")
          /\ UNCHANGED pending
       \/ /\ ~terminating[t] /\ ~(Lane[t] = 32 /\ startSignal[t])
          /\ Turn(t, table, late)
          /\ UNCHANGED startSignal
    /\ UNCHANGED <<memory, walk, terminating, sig, owes>>

----------------------------------------------------------------------------
(* FUTEX_WAKE, FUTEX_WAKE_BITSET and what the 64-bit lane makes of REQUEUE. *)

\* A wake call resolves its word ...
StartWake(t, r, n, label) ==
    /\ req' = [req EXCEPT ![t] = Resolve(t, r, n)]
    /\ Goto(t, label)

\* ... then takes systemFutexesMutex and holds it until its walk is over.
LockTable(t) ==
    /\ pc[t] \in {"lock", "exitlock"} /\ walk.by = NoThread
    /\ walk' = [by |-> t, idx |-> 1, woken |-> 0]
    /\ Goto(t, IF pc[t] = "lock" THEN "walk" ELSE "exitwalk")
    /\ ret' = NoResult
    /\ UNCHANGED <<memory, table, req, parking, signals, owes>>

Walking(t) == pc[t] \in {"walk", "exitwalk"}

WakeCall(t, r, n) ==
    /\ pc[t] = "user" /\ "wake" \in May[t]
    /\ r.val = Zero /\ ~r.timed
    /\ StartWake(t, r, n, "lock")
    /\ ret' = NoResult
    /\ UNCHANGED <<memory, table, walk, parking, signals, owes>>

\* FUTEX_REQUEUE, FUTEX_CMP_REQUEUE and FUTEX_WAKE_OP wake up to `n` waiters
\* of the first word; CMP_REQUEUE (cmp) first checks the word against val3.
RequeueCall(t, r, n, cmp) ==
    /\ pc[t] = "user" /\ Lane[t] = 64 /\ "requeue" \in May[t]
    /\ r.mask = Bits /\ ~r.timed
    /\ IF cmp /\ ValueOf(t, r.guest) # r.val
       THEN UNCHANGED <<req, pc>>
       ELSE StartWake(t, r, n, "lock")
    /\ ret' = NoResult
    /\ UNCHANGED <<memory, table, walk, parking, signals, owes>>

\* Does the walk of thread t claim the entry?  A plain 32-bit FUTEX_WAKE does
\* not look at the mask, every other wake does.
Claims(t, e) ==
    /\ e.thread # NoThread
    /\ futexKeyMatches(e, req[t].priv, SpaceOf[t], req[t].guest, req[t].host)
    /\ walk.woken < req[t].n
    /\ ~e.wake
    /\ e.waiting
    /\ (Lane[t] = 32 /\ req[t].mask = Bits) \/ e.mask \cap req[t].mask # {}

\* BOXEDWINE_CONDITION_SIGNAL(f->cond): whoever is blocked on it is notified.
Notify(s) ==
    notified' = [u \in Threads |-> notified[u] \/ waitingCond[u] = s]

\* One entry of the walk, under the entry's condition.
WalkEntry(t) ==
    /\ Walking(t) /\ walk.idx <= Len(table)
    /\ IF Claims(t, table[walk.idx])
       THEN /\ table' = [table EXCEPT ![walk.idx].wake = TRUE]
            /\ Notify(walk.idx)
            /\ walk' = [walk EXCEPT !.idx = @ + 1, !.woken = @ + 1]
       ELSE /\ walk' = [walk EXCEPT !.idx = @ + 1]
            /\ UNCHANGED <<table, notified>>
    /\ ret' = NoResult
    /\ UNCHANGED <<memory, pc, req, slot, waitingCond, signals, owes>>

\* Did this walk reach every waiter of its key?
FullWalk(t) == req[t].n >= Len(table) /\ req[t].mask = Bits

\* The walk ends and systemFutexesMutex is released; a thread that was exiting
\* goes on with clearFutexes.
WalkEnd(t) ==
    /\ Walking(t) /\ walk.idx > Len(table)
    /\ walk' = NoWalk
    /\ Goto(t, IF pc[t] = "exitwalk" THEN "clear" ELSE "user")
    /\ owes' = [owes EXCEPT ![t] =
                  IF FullWalk(t) THEN @ \ {<<req[t].guest, req[t].priv>>} ELSE @]
    /\ req' = [req EXCEPT ![t] = NoRequest]
    /\ ret' = NoResult
    /\ UNCHANGED <<memory, table, parking, signals>>

----------------------------------------------------------------------------
(* The guest, and what else happens to a thread.                           *)

\* A guest store.  From here on the thread owes whoever waits for the old
\* value a wake of the word, whichever flag the waiter used.
StoreTo(t, a, v) ==
    /\ word' = [word EXCEPT ![CellOf(SpaceOf[t], a)] = v]
    /\ owes' = [owes EXCEPT ![t] = @ \cup ({a} \X BOOLEAN)]

Store(t, a, v) ==
    /\ pc[t] = "user" /\ "store" \in May[t]
    /\ StoreTo(t, a, v)
    /\ ret' = NoResult
    /\ UNCHANGED <<gen, table, walk, pc, req, parking, signals>>

\* K64Page::adoptNative / demoteNativeShared: the page keeps its contents and
\* gets another host pointer, parked waiters or not.
Repoint(c) ==
    /\ gen[c] < MaxRepoints
    /\ gen' = [gen EXCEPT ![c] = @ + 1]
    /\ ret' = NoResult
    /\ UNCHANGED <<word, table, walk, pc, req, parking, signals, owes>>

\* KThread::signal on another thread, first half: read its waitingCond.
SignalRead(t, u) ==
    /\ pc[t] = "user" /\ "signal" \in May[t]
    /\ u # t /\ pc[u] # "dead"
    /\ sig' = [sig EXCEPT ![t] = [target |-> u, cond |-> waitingCond[u]]]
    /\ Goto(t, "signal")
    /\ ret' = NoResult
    /\ UNCHANGED <<memory, table, walk, req, parking, pending, startSignal,
                   terminating, owes>>

\* Second half, under the condition that was read: if the thread is still
\* blocked on it, interrupt it; in any case queue the signal.
SignalDeliver(t) ==
    LET u == sig[t].target
        stillWaiting == sig[t].cond # 0 /\ waitingCond[u] = sig[t].cond
    IN  /\ pc[t] = "signal"
        /\ pending' = [pending EXCEPT ![u] = TRUE]
        /\ IF stillWaiting
           THEN /\ startSignal' = [startSignal EXCEPT ![u] = TRUE]
                /\ Notify(sig[t].cond)
           ELSE UNCHANGED <<startSignal, notified>>
        /\ sig' = [sig EXCEPT ![t] = NoSig]
        /\ Goto(t, "user")
        /\ ret' = NoResult
        /\ UNCHANGED <<memory, table, walk, req, slot, waitingCond,
                       terminating, owes>>

\* CPU run loop: a queued signal is taken between two guest instructions.
TakeSignal(t) ==
    /\ pc[t] = "user" /\ pending[t]
    /\ pending' = [pending EXCEPT ![t] = FALSE]
    /\ ret' = NoResult
    /\ UNCHANGED <<memory, table, walk, pc, req, parking, startSignal,
                   terminating, sig, owes>>

\* Seeded fault: the thread is marked and its condition left alone.
FaultTerminateQuietly(u) ==
    /\ ~terminating[u] /\ "end" \in May[u]
    /\ terminating' = [terminating EXCEPT ![u] = TRUE]
    /\ ret' = NoResult
    /\ UNCHANGED <<memory, table, walk, pc, req, slot, waitingCond, pending,
                   startSignal, sig, owes, notified>>

\* terminateOtherThread: under waitingCondSync the flag is set and the
\* condition read, so a thread either sees the flag before it blocks or is
\* notified.  (The signalAll comes a moment after the flag; a thread that left
\* its wait in between only wakes for no reason, which Resume allows anyway.)
\* A thread ending itself sets its own flag.
Terminate(u) ==
    /\ ~terminating[u] /\ "end" \in May[u]
    /\ terminating' = [terminating EXCEPT ![u] = TRUE]
    /\ IF waitingCond[u] # 0 THEN Notify(waitingCond[u]) ELSE UNCHANGED notified
    /\ ret' = NoResult
    /\ UNCHANGED <<memory, table, walk, pc, req, slot, waitingCond, pending,
                   startSignal, sig, owes>>

\* internalCleanup: clear_child_tid is zeroed ...
ExitStore(t) ==
    /\ pc[t] = "user" /\ terminating[t]
    /\ IF TidWord[t] = NoWord
       THEN Goto(t, "clear") /\ UNCHANGED <<word, owes>>
       ELSE Goto(t, "exiting") /\ StoreTo(t, TidWord[t], Zero)
    /\ ret' = NoResult
    /\ UNCHANGED <<gen, table, walk, req, parking, signals>>

\* ... everybody waiting on it is woken (FUTEX_WAKE, not private) ...
ExitWake(t) ==
    /\ pc[t] = "exiting"
    /\ StartWake(t, [NoArgs EXCEPT !.guest = TidWord[t]], WakeAll, "exitlock")
    /\ ret' = NoResult
    /\ UNCHANGED <<memory, table, walk, parking, signals, owes>>

\* ... and clearFutexes drops whatever the thread still has in the table.
ClearFutexes(t) ==
    /\ pc[t] = "clear" /\ walk.by = NoThread
    /\ table' = [s \in DOMAIN table |->
                   IF table[s].thread = t THEN FreeEntry ELSE table[s]]
    /\ Goto(t, "dead")
    /\ ret' = NoResult
    /\ UNCHANGED <<memory, walk, req, parking, signals, owes>>

----------------------------------------------------------------------------
WaitStep(t) ==
    \/ Lookup(t) \/ Precheck(t) \/ Alloc(t)
    \/ \E late \in BOOLEAN : Compare(t, late) \/ Resume(t, late)

WalkStep(t) == LockTable(t) \/ WalkEntry(t) \/ WalkEnd(t)

ExitStep(t) == ExitStore(t) \/ ExitWake(t) \/ ClearFutexes(t)

Calls(t) ==
    \E r \in Args :
       \/ WaitCall(t, r)
       \/ \E n \in WakeCounts :
             WakeCall(t, r, n) \/ \E cmp \in BOOLEAN : RequeueCall(t, r, n, cmp)

Guest(t) ==
    \/ \E a \in Words, v \in Values : Store(t, a, v)
    \/ \E u \in Threads : SignalRead(t, u)
    \/ SignalDeliver(t) \/ TakeSignal(t)
    \/ Terminate(t)

Next ==
    \/ \E t \in Threads : Calls(t) \/ WaitStep(t) \/ WalkStep(t) \/ ExitStep(t)
                           \/ Guest(t)
    \/ \E c \in Cells : Repoint(c)

Spec == Init /\ [][Next]_vars

\* A thread that owes a wake makes it, with FUTEX_WAKE of every waiter: what
\* the guest's primitives (glibc, Wine) do after they changed a word.
Discharge(t, a, priv) ==
    \E n \in WakeCounts :
        /\ <<a, priv>> \in owes[t] /\ n >= Len(table)
        /\ WakeCall(t, [NoArgs EXCEPT !.guest = a, !.priv = priv], n)

\* Host threads run: a thread inside the kernel goes on, a condition that was
\* signalled or timed out returns, and a deadline passes.  Discharge is the
\* guest's part and needs strong fairness, because the thread may be in other
\* calls again and again.
Fairness ==
    \A t \in Threads :
        /\ WF_vars(Precheck(t)) /\ WF_vars(\E late \in BOOLEAN : Compare(t, late))
        /\ WF_vars(notified[t] /\ \E late \in BOOLEAN : Resume(t, late))
        /\ WF_vars(slot[t] # 0 /\ table[slot[t]].timed /\ Resume(t, TRUE))
        /\ WF_vars(WalkStep(t))
        /\ WF_vars(SignalDeliver(t))
        /\ \A a \in Words, priv \in BOOLEAN : SF_vars(Discharge(t, a, priv))

FairSpec == Spec /\ Fairness

----------------------------------------------------------------------------
(* Properties.                                                             *)

Waiter(t) == pc[t] \in {"compare", "parked"}

\* A thread has an entry exactly while it is between allocFutex and the return
\* of its wait, and then exactly one, which it is the owner of: no way out of
\* a wait leaks an entry, and getFutex finds nothing in this build.
OneEntryPerWait ==
    /\ \A t \in Threads : Owned(t) = IF Waiter(t) THEN {slot[t]} ELSE {}
    /\ \A t \in Threads : pc[t] = "lookup" => getFutex(t, req[t]) = {}

\* "a wakeup can never be handed to a waiter that is about to leave through
\* this branch and then be lost" (futex64): an entry carries a claim only
\* while its owner is parked on it and has been notified.
ClaimedIsParked ==
    \A s \in DOMAIN table :
        table[s].wake => \E t \in Threads :
                            /\ table[s].thread = t /\ slot[t] = s
                            /\ pc[t] = "parked" /\ notified[t]

\* A wait on a private futex of an unshared word, or on a shared futex whose
\* page still has the host pointer it was registered under.
Reachable(e) == IF e.priv THEN e.guest \notin SharedWords
                          ELSE e.host = HostOf(e.space, e.guest)

InWake(t) == pc[t] \in {"lock", "exitlock"} \/ Walking(t)

\* Thread t still has to wake the waiter in entry s: it stored to the word,
\* and if it is in a wake call for every waiter of that futex, it looks for the
\* host pointer the entry has and has not passed the entry yet.
StillOwes(t, s) ==
    LET e == table[s] IN
    /\ <<e.guest, e.priv>> \in owes[t]
    /\ CellOf(SpaceOf[t], e.guest) = CellOf(e.space, e.guest)
    /\ InWake(t) /\ FullWalk(t) /\ req[t].guest = e.guest /\ req[t].priv = e.priv
       => /\ e.priv \/ req[t].host = e.host
          /\ Walking(t) => walk.idx <= s

\* No lost wakeup.  If the word of a parked, unclaimed waiter no longer holds
\* the value it waits on, then some thread that stored to the word has still
\* to call FUTEX_WAKE for it or has not reached the waiter in its walk.  The
\* comparison, the parking and the walk are separate critical sections; this
\* is what their order is for.
NoLostWake ==
    \A s \in DOMAIN table :
        LET e == table[s] IN
        /\ e.waiting /\ ~e.wake /\ Reachable(e)
        /\ word[CellOf(e.space, e.guest)] # e.expected
        => \E t \in Threads : StillOwes(t, s)

\* A 32-bit thread never carries a startSignal out of its wait, where the
\* system call dispatcher would take it for an interruption of another call.
StartSignalConsumed ==
    \A t \in Threads :
        startSignal[t] /\ Lane[t] = 32 /\ ~terminating[t] => pc[t] = "parked"

\* A waiter that FUTEX_WAKE counted never returns -EAGAIN or -ETIMEDOUT: it
\* reports the wakeup (0), or a signal or the end of the thread pre-empts it.
ClaimIsHonoured ==
    [][\A t \in Threads :
         slot[t] # 0 /\ table[slot[t]].wake =>
            ~(ret'.thread = t /\ ret'.result \in {"EAGAIN", "ETIMEDOUT"})]_vars

\* Liveness, under FairSpec.

Parked(t) == pc[t] = "parked"

\* "terminating thread entered futex wait before returning EINTR" is the
\* failure testFutex.cpp looks for: a thread marked for termination does not
\* stay parked, whichever came first, the mark or the park.
TerminatedLeaves ==
    \A t \in Threads : (Parked(t) /\ terminating[t]) ~> ~Parked(t)

\* A waiter whose word has moved on leaves, unless the word moves back: the
\* wake of the thread that stored to it arrives.
StoreReachesWaiter ==
    \A t \in Threads :
        (Parked(t) /\ Reachable(table[slot[t]])
           /\ ValueOf(t, table[slot[t]].guest) # table[slot[t]].expected)
        ~> (\/ ~Parked(t)
            \/ ~Reachable(table[slot[t]])
            \/ ValueOf(t, table[slot[t]].guest) = table[slot[t]].expected)
=============================================================================
