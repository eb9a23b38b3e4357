---------------------------- MODULE ProcessExit ----------------------------
(***************************************************************************)
(* How one guest process ends in the multi-threaded build, and how its      *)
(* parent learns of it: KProcess::exit, exitgroup, killAllThreads, signal   *)
(* (SIGKILL) and deleteThread of source/kernel/kprocess.cpp, the end of     *)
(* platformThread and terminateOtherThread of                               *)
(* normalPlatformMultiThreaded.cpp, thread creation (clone, clone64), and   *)
(* KSystem::waitpid / reapChild of source/kernel/ksystem.cpp.               *)
(*                                                                         *)
(* A step is one critical section (threadsMutex, processesCond), or one     *)
(* unlocked store that another thread can observe.  The thread ending the   *)
(* process and every thread it ends run these steps concurrently.           *)
(***************************************************************************)
EXTENDS Naturals, FiniteSets

CONSTANTS
    Threads,   \* every thread the process has or may create
    Initial,   \* those it has at the start
    Codes,     \* exit statuses
    FirstCode, \* KProcess::exitCode of a process that has not exited: 0
    May,       \* [Threads \cup {Parent} -> SUBSET Operations]
    Handler,   \* the parent has a handler for SIGCHLD
    Parent,    \* the parent process, one thread of it
    NoThread,
    NoCode

Operations == {"exit", "exit_group", "fatal", "clone", "waitpid", "kill", "end"}

Actors == Threads \cup {Parent}

ASSUME ProcessExitConstants ==
    /\ Initial # {} /\ Initial \subseteq Threads
    /\ IsFiniteSet(Threads)
    /\ FirstCode \in Codes /\ NoCode \notin Codes
    /\ May \in [Actors -> SUBSET Operations]
    /\ Handler \in BOOLEAN
    /\ Parent \notin Threads
    /\ NoThread \notin Actors

VARIABLES
    pc,          \* where each thread is
    table,       \* KProcess::threads
    terminating, \* the threads with KThread::terminating set
    code,        \* the status argument of the call a thread is in
    why,         \* which operation made a thread call killAllThreads
    ids,         \* iterateThreadIds' threadIds, without the caller itself
    done,        \* the ids whose terminateOtherThread has returned
    target,      \* the thread a terminateOtherThread is waiting for
    newborn,     \* the child of a clone between createThread and scheduleThread
    exitCode,    \* KProcess::exitCode
    terminated,  \* KProcess::terminated
    cleaned,     \* KProcess::cleanupCompleted: RAM, descriptors, mappings gone
    released,    \* KMemory64 and CPU64 of the process deleted
    published,   \* the process is in KSystem::processes
    startSignal, \* the parent's KThread::startSignal
    reaped       \* the status the parent's wait reported, NoCode before that

vars == <<pc, table, terminating, code, why, ids, done, target, newborn, exitCode,
          terminated, cleaned, released, published, startSignal, reaped>>

\* What a killAllThreads changes besides the table, and what an exit changes.
killing == <<ids, done, target>>
ending  == <<exitCode, terminated, cleaned, released, published, reaped>>

----------------------------------------------------------------------------
(* Program counters.  "unborn" and "created" precede the host thread; "run" *)
(* is guest code; "left".."gone" are the tail of platformThread.            *)

KillPCs  == {"snapshot", "killing", "await"}
GroupPCs == {"doom", "clean", "clear", "ram", "status", "count", "wake"}
TailPCs  == {"left", "counted", "deleted", "freed", "gone"}

PCs == {"unborn", "created", "run", "clone", "exit", "solo", "group", "out"}
         \cup KillPCs \cup GroupPCs \cup TailPCs

ParentPCs == {"run", "parked", "woken", "dead", "gone"} \cup KillPCs

TypeOK ==
    /\ pc \in [Actors -> PCs \cup ParentPCs]
    /\ pc[Parent] \in ParentPCs /\ \A t \in Threads : pc[t] \in PCs
    /\ table \subseteq Threads /\ terminating \subseteq Threads
    /\ code \in [Actors -> Codes]
    /\ why \in [Actors -> {"none", "group", "fatal", "kill"}]
    /\ \A a \in Actors : why[a] = "kill" => a = Parent
    /\ why[Parent] \in {"none", "kill"}
    /\ ids \in [Actors -> SUBSET Threads]
    /\ done \in [Actors -> SUBSET Threads]
    /\ target \in [Actors -> Threads \cup {NoThread}]
    /\ newborn \in [Actors -> Threads \cup {NoThread}]
    /\ exitCode \in Codes
    /\ terminated \in BOOLEAN /\ cleaned \in BOOLEAN /\ released \in BOOLEAN
    /\ published \in BOOLEAN /\ startSignal \in BOOLEAN
    /\ reaped \in Codes \cup {NoCode}

Init ==
    /\ pc = [a \in Actors |-> IF a \in Initial \cup {Parent} THEN "run" ELSE "unborn"]
    /\ table = Initial
    /\ terminating = {}
    /\ code = [a \in Actors |-> FirstCode]
    /\ why = [a \in Actors |-> "none"]
    /\ ids = [a \in Actors |-> {}] /\ done = [a \in Actors |-> {}]
    /\ target = [a \in Actors |-> NoThread]
    /\ newborn = [a \in Actors |-> NoThread]
    /\ exitCode = FirstCode
    /\ terminated = FALSE /\ cleaned = FALSE /\ released = FALSE
    /\ published = TRUE /\ startSignal = FALSE /\ reaped = NoCode

Goto(a, l) == pc' = [pc EXCEPT ![a] = l]

\* Everyone parked on processesCond is woken (only the parent waits here).
Woken(f) == [f EXCEPT ![Parent] = IF @ = "parked" THEN "woken" ELSE @]

----------------------------------------------------------------------------
(* Guest threads: creation and the calls that end them.  A thread whose     *)
(* `terminating` is set goes on running guest code until its loop looks, so *)
(* every call is possible then too.                                        *)

\* createThread: the child is in the table before its host thread exists.
CreateThread(t) ==
    /\ pc[t] = "run" /\ "clone" \in May[t]
    /\ \E c \in Threads :
          /\ pc[c] = "unborn"
          /\ pc' = [pc EXCEPT ![t] = "clone", ![c] = "created"]
          /\ table' = table \cup {c}
          /\ newborn' = [newborn EXCEPT ![t] = c]
    /\ UNCHANGED <<terminating, code, why, killing, ending, startSignal>>

\* scheduleThread: the host thread starts.
ScheduleThread(t) ==
    /\ pc[t] = "clone"
    /\ pc' = [pc EXCEPT ![t] = "run", ![newborn[t]] = "run"]
    /\ newborn' = [newborn EXCEPT ![t] = NoThread]
    /\ UNCHANGED <<table, terminating, code, why, killing, ending, startSignal>>

\* KProcess::exit, up to the count of the threads.
ExitCall(t) ==
    /\ pc[t] = "run" /\ "exit" \in May[t]
    /\ \E c \in Codes : /\ code' = [code EXCEPT ![t] = c]
                        /\ exitCode' = c
    /\ Goto(t, "exit")
    /\ UNCHANGED <<table, terminating, why, killing, newborn, terminated, cleaned,
                   released, published, startSignal, reaped>>

\* The last thread of the table ends the process, any other only itself.
ExitCount(t) ==
    /\ pc[t] = "exit"
    /\ Goto(t, IF Cardinality(table) = 1 THEN "group" ELSE "solo")
    /\ UNCHANGED <<table, terminating, code, why, killing, newborn, ending, startSignal>>

\* KThread::cleanup removes the thread; terminateCurrentThread ends its loop.
ExitCleanup(t) ==
    /\ pc[t] = "solo"
    /\ table' = table \ {t}
    /\ terminating' = terminating \cup {t}
    /\ Goto(t, "out")
    /\ UNCHANGED <<code, why, killing, newborn, ending, startSignal>>

\* exit_group, from the guest or from kfatalProcessExit64.
ExitGroupCall(t) ==
    /\ pc[t] = "run" /\ "exit_group" \in May[t]
    /\ \E c \in Codes : code' = [code EXCEPT ![t] = c]
    /\ Goto(t, "group")
    /\ UNCHANGED <<table, terminating, why, killing, newborn, ending, startSignal>>

\* exitgroup first sends SIGCHLD; a parent blocked in its wait is interrupted.
ExitGroupSignal(t) ==
    /\ pc[t] = "group"
    /\ LET interrupts == Handler /\ pc[Parent] = "parked"
           at == [pc EXCEPT ![t] = "snapshot"]
       IN /\ pc' = IF interrupts THEN Woken(at) ELSE at
          /\ startSignal' = (startSignal \/ interrupts)
    /\ why' = [why EXCEPT ![t] = "group"]
    /\ UNCHANGED <<table, terminating, code, killing, newborn, ending>>

\* A signal whose default action kills: runSignal calls signal(SIGKILL).
FatalSignal(t) ==
    /\ pc[t] = "run" /\ "fatal" \in May[t]
    /\ why' = [why EXCEPT ![t] = "fatal"]
    /\ Goto(t, "snapshot")
    /\ UNCHANGED <<table, terminating, code, killing, newborn, ending, startSignal>>

----------------------------------------------------------------------------
(* killAllThreads, for a thread of the process or for the parent.           *)

\* Seeded fault: only the threads that are not ending already are waited for.
FaultSnapshotSkips(a) ==
    /\ pc[a] = "snapshot"
    /\ ids' = [ids EXCEPT ![a] = table \ ({a} \cup terminating)]
    /\ done' = [done EXCEPT ![a] = {}]
    /\ Goto(a, "killing")
    /\ UNCHANGED <<table, terminating, code, why, target, newborn, ending, startSignal>>

\* iterateThreadIds copies the ids under threadsMutex; later threads are missed.
Snapshot(a) ==
    /\ pc[a] = "snapshot"
    /\ ids' = [ids EXCEPT ![a] = table \ {a}]
    /\ done' = [done EXCEPT ![a] = {}]
    /\ Goto(a, "killing")
    /\ UNCHANGED <<table, terminating, code, why, target, newborn, ending, startSignal>>

\* Seeded fault: the thread is woken but not told to end.
FaultTerminateUnmarked(a) ==
    /\ pc[a] = "killing"
    /\ \E v \in ids[a] \ done[a] : target' = [target EXCEPT ![a] = v]
    /\ Goto(a, "await")
    /\ UNCHANGED <<table, terminating, code, why, ids, done, newborn, ending, startSignal>>

\* terminateOtherThread: mark the thread, if it is still in the table, and
\* signal the condition it is blocked on.
TerminateOther(a) ==
    /\ pc[a] = "killing"
    /\ \E v \in ids[a] \ done[a] :
          /\ target' = [target EXCEPT ![a] = v]
          /\ terminating' = IF v \in table THEN terminating \cup {v} ELSE terminating
    /\ Goto(a, "await")
    /\ UNCHANGED <<table, code, why, ids, done, newborn, ending, startSignal>>

\* Seeded fault: the wait ends with its first timeout, gone or not.
FaultAwaitGivesUp(a) ==
    /\ pc[a] = "await"
    /\ done' = [done EXCEPT ![a] = @ \cup {target[a]}]
    /\ target' = [target EXCEPT ![a] = NoThread]
    /\ Goto(a, "killing")
    /\ UNCHANGED <<table, terminating, code, why, ids, newborn, ending, startSignal>>

\* ... and look every second, or when threadRemovedCondition is signalled,
\* until it is gone.  The timeout makes a missed signal harmless.
AwaitRemoved(a) ==
    /\ pc[a] = "await"
    /\ target[a] \notin table
    /\ done' = [done EXCEPT ![a] = @ \cup {target[a]}]
    /\ target' = [target EXCEPT ![a] = NoThread]
    /\ Goto(a, "killing")
    /\ UNCHANGED <<table, terminating, code, why, ids, newborn, ending, startSignal>>

\* The caller goes on: exitgroup ends the process, a thread that killed its
\* own process ends itself, the parent returns to its program.
KillDone(a) ==
    /\ pc[a] = "killing" /\ ids[a] \subseteq done[a]
    /\ Goto(a, CASE why[a] = "group" -> "doom"
                 [] why[a] = "fatal" -> "out"
                 [] OTHER -> "run")
    /\ terminating' = IF why[a] = "fatal" THEN terminating \cup {a} ELSE terminating
    /\ UNCHANGED <<table, code, why, killing, newborn, ending, startSignal>>

----------------------------------------------------------------------------
(* The rest of exitgroup, statement by statement.                           *)

SetTerminated(t) ==
    /\ pc[t] = "doom"
    /\ terminated' = TRUE
    /\ Goto(t, "clean")
    /\ UNCHANGED <<table, terminating, code, why, killing, newborn, exitCode,
                   cleaned, released, published, startSignal, reaped>>

GroupCleanup(t) ==
    /\ pc[t] = "clean"
    /\ table' = table \ {t}
    /\ Goto(t, "clear")
    /\ UNCHANGED <<terminating, code, why, killing, newborn, ending, startSignal>>

ClearThreads(t) ==
    /\ pc[t] = "clear"
    /\ table' = {}
    /\ Goto(t, "ram")
    /\ UNCHANGED <<terminating, code, why, killing, newborn, ending, startSignal>>

CleanupProcess(t) ==
    /\ pc[t] = "ram"
    /\ cleaned' = TRUE
    /\ Goto(t, "status")
    /\ UNCHANGED <<table, terminating, code, why, killing, newborn, exitCode,
                   terminated, released, published, startSignal, reaped>>

SetExitCode(t) ==
    /\ pc[t] = "status"
    /\ exitCode' = code[t]
    /\ Goto(t, "count")
    /\ UNCHANGED <<table, terminating, code, why, killing, newborn, terminated,
                   cleaned, released, published, startSignal, reaped>>

\* With no other process left nobody will wait: the process is erased here.
CountProcesses(t) ==
    /\ pc[t] = "count"
    /\ published' = (published /\ pc[Parent] # "gone")
    /\ Goto(t, "wake")
    /\ UNCHANGED <<table, terminating, code, why, killing, newborn, exitCode,
                   terminated, cleaned, released, startSignal, reaped>>

\* Seeded fault: the waiters of processesCond are not told.
FaultWakeNobody(t) ==
    /\ pc[t] = "wake"
    /\ Goto(t, "out")
    /\ terminating' = terminating \cup {t}
    /\ UNCHANGED <<table, code, why, killing, newborn, ending, startSignal>>

\* wakeThreadsWaitingOnProcessStateChanged, then terminateCurrentThread.
WakeWaiters(t) ==
    /\ pc[t] = "wake"
    /\ pc' = Woken([pc EXCEPT ![t] = "out"])
    /\ terminating' = terminating \cup {t}
    /\ UNCHANGED <<table, code, why, killing, newborn, ending, startSignal>>

----------------------------------------------------------------------------
(* The tail of platformThread and deleteThread.                            *)

\* The run loop of a dead process releases its memory on every turn.
LoopTurn(t) ==
    /\ pc[t] = "run" /\ terminated /\ ~cleaned
    /\ cleaned' = TRUE
    /\ UNCHANGED <<pc, table, terminating, code, why, killing, newborn, exitCode,
                   terminated, released, published, startSignal, reaped>>

\* Seeded fault: a loop that never blocks does not look at `terminating`.
FaultLoopBlind(t) ==
    /\ pc[t] = "out"
    /\ table' = table \ {t}
    /\ Goto(t, "left")
    /\ UNCHANGED <<terminating, code, why, killing, newborn, ending, startSignal>>

\* The loop ends; KThread::cleanup removes the thread from the table.
Leave(t) ==
    /\ pc[t] = "out" \/ (pc[t] = "run" /\ t \in terminating)
    /\ table' = table \ {t}
    /\ Goto(t, "left")
    /\ UNCHANGED <<terminating, code, why, killing, newborn, ending, startSignal>>

\* Seeded fault: every departing thread takes the process's memory with it.
FaultDeleteAlwaysCleans(t) ==
    /\ pc[t] = "left"
    /\ cleaned' = TRUE
    /\ Goto(t, "counted")
    /\ UNCHANGED <<table, terminating, code, why, killing, newborn, exitCode,
                   terminated, released, published, startSignal, reaped>>

\* deleteThread: the thread that finds the table empty cleans the process up.
DeleteCount(t) ==
    /\ pc[t] = "left"
    /\ cleaned' = (cleaned \/ table = {})
    /\ Goto(t, "counted")
    /\ UNCHANGED <<table, terminating, code, why, killing, newborn, exitCode,
                   terminated, released, published, startSignal, reaped>>

\* delete thread.
FreeThread(t) ==
    /\ pc[t] = "counted"
    /\ Goto(t, "deleted")
    /\ UNCHANGED <<table, terminating, code, why, killing, newborn, ending, startSignal>>

\* releaseTranslatedAddressSpaceOfDeadProcess, for the owner of the role.
ReleaseAddressSpace(t) ==
    /\ pc[t] = "deleted"
    /\ released' = (released \/ table = {})
    /\ Goto(t, "freed")
    /\ UNCHANGED <<table, terminating, code, why, killing, newborn, exitCode,
                   terminated, cleaned, published, startSignal, reaped>>

\* A process that ended without exitgroup is erased if nobody can wait for it.
EraseOrphan(t) ==
    /\ pc[t] = "freed"
    /\ published' = (published /\ ~(~terminated /\ table = {} /\ pc[Parent] \in {"dead", "gone"}))
    /\ Goto(t, "gone")
    /\ UNCHANGED <<table, terminating, code, why, killing, newborn, exitCode,
                   terminated, cleaned, released, startSignal, reaped>>

----------------------------------------------------------------------------
(* The parent.                                                             *)

\* One turn of the loop of waitpid / reapChild, under processesCond.  A child
\* that is gone is -ECHILD.  (With WNOHANG a live child is 0, which changes
\* nothing.)
FindChild ==
    \/ /\ published /\ terminated
       /\ reaped' = exitCode
       /\ published' = FALSE
       /\ Goto(Parent, "run")
    \/ /\ published /\ ~terminated
       /\ Goto(Parent, "parked")
       /\ UNCHANGED <<published, reaped>>
    \/ /\ ~published
       /\ Goto(Parent, "run")
       /\ UNCHANGED <<published, reaped>>

WaitPid ==
    /\ pc[Parent] = "run" /\ "waitpid" \in May[Parent]
    /\ FindChild
    /\ UNCHANGED <<table, terminating, code, why, killing, newborn, exitCode,
                   terminated, cleaned, released, startSignal>>

\* Back from the wait: a signal restarts the call, anything else looks again.
WaitResume ==
    /\ pc[Parent] = "woken"
    /\ \/ /\ startSignal /\ startSignal' = FALSE
          /\ Goto(Parent, "run")
          /\ UNCHANGED <<published, reaped>>
       \/ /\ ~startSignal /\ UNCHANGED startSignal
          /\ FindChild
    /\ UNCHANGED <<table, terminating, code, why, killing, newborn, exitCode,
                   terminated, cleaned, released>>

\* kill(pid, SIGKILL).
KillChild ==
    /\ pc[Parent] = "run" /\ "kill" \in May[Parent] /\ published
    /\ why' = [why EXCEPT ![Parent] = "kill"]
    /\ Goto(Parent, "snapshot")
    /\ UNCHANGED <<table, terminating, code, killing, newborn, ending, startSignal>>

\* The parent's last thread goes, and later the parent itself.
ParentEnds ==
    /\ "end" \in May[Parent]
    /\ \/ pc[Parent] = "run" /\ Goto(Parent, "dead")
       \/ pc[Parent] = "dead" /\ Goto(Parent, "gone")
    /\ UNCHANGED <<table, terminating, code, why, killing, newborn, ending, startSignal>>

----------------------------------------------------------------------------

Calls(t) == CreateThread(t) \/ ExitCall(t) \/ ExitGroupCall(t) \/ FatalSignal(t)

KillStep(a) == Snapshot(a) \/ TerminateOther(a) \/ AwaitRemoved(a) \/ KillDone(a)

GroupStep(t) ==
    \/ ExitGroupSignal(t) \/ SetTerminated(t) \/ GroupCleanup(t) \/ ClearThreads(t)
    \/ CleanupProcess(t) \/ SetExitCode(t) \/ CountProcesses(t) \/ WakeWaiters(t)

ThreadStep(t) ==
    \/ ScheduleThread(t) \/ ExitCount(t) \/ ExitCleanup(t) \/ GroupStep(t)
    \/ LoopTurn(t) \/ Leave(t) \/ DeleteCount(t) \/ FreeThread(t)
    \/ ReleaseAddressSpace(t) \/ EraseOrphan(t)

Next == \/ \E t \in Threads : Calls(t) \/ ThreadStep(t)
        \/ \E a \in Actors : KillStep(a)
        \/ WaitPid \/ WaitResume \/ KillChild \/ ParentEnds

Spec == Init /\ [][Next]_vars

\* Every host thread is scheduled, a guest program looks at its loop condition
\* again and again, and no one is obliged to make a system call.
FairSpec ==
    /\ Spec
    /\ \A t \in Threads : WF_vars(ThreadStep(t))
    /\ \A a \in Actors : WF_vars(KillStep(a))
    /\ WF_vars(WaitResume)

----------------------------------------------------------------------------
(* Correctness.                                                            *)

\* Past its run loop for good: this thread executes no guest code again.
Out(t) == pc[t] \in {"unborn", "out"} \cup TailPCs

\* Beyond the point where exitgroup has waited for the other threads.
Ending(t) == pc[t] \in GroupPCs

\* At the moment exitgroup makes the process terminated, every thread its
\* killAllThreads found is out of guest code and out of the thread table,
\* whatever other threads were created, were exiting or were killed meanwhile.
DrainedBeforeEnd ==
    ~terminated =>
        \A t \in Threads : pc[t] = "doom" =>
            \A v \in ids[t] : v \notin table /\ Out(v)

\* A parent never sleeps in waitpid / reapChild through the end of its child:
\* while a zombie is in the process table and the parent is parked, the thread
\* that ended the child is still on its way to signal processesCond.
NoMissedExit ==
    pc[Parent] = "parked" /\ published /\ terminated => \E t \in Threads : Ending(t)

\* In a process that creates no more threads, nothing is torn down under a
\* thread that runs guest code: when the process is terminated, its memory
\* cleaned up or its 64-bit address space deleted, every thread has left its
\* loop, but for one inside exitgroup.
QuietTeardown ==
    terminated \/ cleaned \/ released => \A t \in Threads : Out(t) \/ Ending(t)

\* ... and exitgroup's ending is carried out by one thread only, so no second
\* status overwrites the first.
OneEnder == \A s, t \in Threads : Ending(s) /\ Ending(t) => s = t

\* exit_group ends the process, whatever its other threads are doing.
GroupExitEnds == \A t \in Threads : (pc[t] = "group") ~> terminated

\* A thread that was told to end is destroyed in the end: terminateOtherThread
\* never waits for it in vain.
ToldThreadsGo == \A t \in Threads : (t \in terminating) ~> (pc[t] = "gone")

\* A parent that waits for a child that ends in exitgroup gets its answer.
WaitReturns == (terminated /\ pc[Parent] = "parked") ~> (pc[Parent] # "parked")

\* The status a parent reaps is the one the child passed to exit_group: a
\* process that is terminated has its exit code.
StatusIsReal ==
    reaped # NoCode => \E t \in Threads : why[t] = "group" /\ code[t] = reaped

\* Every ending of a process leaves something to wait for: once its threads
\* are gone it is a zombie, or nobody lists it any more.
EveryEndingIsAnExit ==
    (\A t \in Threads : pc[t] \in {"unborn", "gone"}) => terminated \/ ~published

\* The 64-bit address space goes only after the last thread was destroyed.
ReleasedAfterLastThread ==
    released => \A t \in Threads : pc[t] \in {"unborn", "deleted", "freed", "gone"}

\* A terminated process gains no thread.
GainsNone == [][terminated => table' \subseteq table]_vars
=============================================================================
