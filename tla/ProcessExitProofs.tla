------------------------- MODULE ProcessExitProofs -------------------------
(***************************************************************************)
(* Proofs about ProcessExit, for any number of threads and any workload:    *)
(* type correctness, DrainedBeforeEnd and NoMissedExit; and, for a process   *)
(* that creates no threads, QuietTeardown and OneEnder.                     *)
(***************************************************************************)
EXTENDS ProcessExit, TLAPS

----------------------------------------------------------------------------
(* The inductive invariants.                                               *)

\* The threads of the table and of every snapshot have been created.
BornInv ==
    /\ \A v \in table : pc[v] # "unborn"
    /\ \A x \in Actors : \A v \in ids[x] : pc[v] # "unborn"

\* A clone in progress has a child of its own that has not started.
NewbornInv ==
    \A t \in Threads : pc[t] = "clone" =>
        /\ newborn[t] \in Threads /\ pc[newborn[t]] = "created"
        /\ \A s \in Threads : pc[s] = "clone" /\ newborn[s] = newborn[t] => s = t

\* How far a killAllThreads has come.
KillInv ==
    \A x \in Actors :
        /\ done[x] \subseteq ids[x]
        /\ pc[x] = "await" => target[x] \in ids[x]
        /\ pc[x] = "doom" => ids[x] \subseteq done[x]

\* Until the process is terminated the table is complete ...
TableInv == ~terminated => \A t \in Threads : t \in table \/ Out(t)

\* ... because only the thread that terminated it goes on to clear the table ...
GroupInv == ~terminated => \A t \in Threads : Ending(t) => pc[t] = "doom"

\* ... so a thread that was waited for is really out.
DoneInv == ~terminated =>
    \A x \in Actors : pc[x] \in {"killing", "await", "doom"} =>
        \A v \in done[x] : v \notin table /\ Out(v)

DrainInv == /\ TypeOK /\ BornInv /\ NewbornInv /\ KillInv
            /\ TableInv /\ GroupInv /\ DoneInv

----------------------------------------------------------------------------

\* The initial state satisfies the invariant.
LEMMA DrainInit == Init => DrainInv
<1> SUFFICES ASSUME Init PROVE DrainInv
  OBVIOUS
<1> USE ProcessExitConstants DEF Actors
<1>1. TypeOK
  BY DEF Init, TypeOK, PCs, ParentPCs, KillPCs, GroupPCs, TailPCs
<1>2. /\ table = Initial /\ ids = [x \in Actors |-> {}] /\ done = [x \in Actors |-> {}]
      /\ \A x \in Actors : pc[x] = IF x \in Initial \cup {Parent} THEN "run" ELSE "unborn"
  BY DEF Init
<1>3. BornInv /\ NewbornInv /\ KillInv
  BY <1>2 DEF BornInv, NewbornInv, KillInv
<1>4. TableInv /\ GroupInv /\ DoneInv
  BY <1>2 DEF TableInv, GroupInv, DoneInv, Out, Ending, GroupPCs
<1> QED
  BY <1>1, <1>3, <1>4 DEF DrainInv

\* One look at the process table keeps the types of what it assigns.
LEMMA FindChildType ==
    ASSUME TypeOK, FindChild
    PROVE  /\ pc' \in [Actors -> PCs \cup ParentPCs]
           /\ pc'[Parent] \in ParentPCs /\ \A t \in Threads : pc'[t] \in PCs
           /\ published' \in BOOLEAN
           /\ reaped' \in Codes \cup {NoCode}
<1>1. ASSUME NEW l \in {"run", "parked"}, Goto(Parent, l)
      PROVE  /\ pc' \in [Actors -> PCs \cup ParentPCs]
             /\ pc'[Parent] \in ParentPCs /\ \A t \in Threads : pc'[t] \in PCs
  BY <1>1, ProcessExitConstants DEF TypeOK, Goto, Actors, ParentPCs
<1>2. CASE published /\ terminated /\ reaped' = exitCode /\ published' = FALSE /\ Goto(Parent, "run")
  BY <1>1, <1>2 DEF TypeOK
<1>3. CASE Goto(Parent, "parked") /\ UNCHANGED <<published, reaped>>
  BY <1>1, <1>3 DEF TypeOK
<1>4. CASE Goto(Parent, "run") /\ UNCHANGED <<published, reaped>>
  BY <1>1, <1>4 DEF TypeOK
<1> QED
  BY <1>2, <1>3, <1>4 DEF FindChild

\* Types are preserved by every step.
LEMMA TypeNext == TypeOK /\ BornInv /\ NewbornInv /\ KillInv /\ [Next]_vars => TypeOK'
<1> SUFFICES ASSUME TypeOK, BornInv, NewbornInv, KillInv, [Next]_vars PROVE TypeOK'
  OBVIOUS
<1> USE ProcessExitConstants DEF TypeOK, Goto, killing, ending
<1> USE DEF Actors, PCs, ParentPCs, KillPCs, GroupPCs, TailPCs
<1>1. ASSUME NEW t \in Threads, CreateThread(t) PROVE TypeOK'
  BY <1>1 DEF CreateThread
<1>2. ASSUME NEW t \in Threads, ScheduleThread(t) PROVE TypeOK'
  BY <1>2 DEF ScheduleThread, NewbornInv
<1>3. ASSUME NEW t \in Threads, ExitCall(t) PROVE TypeOK'
  BY <1>3 DEF ExitCall
<1>4. ASSUME NEW t \in Threads, ExitCount(t) PROVE TypeOK'
  BY <1>4 DEF ExitCount
<1>5. ASSUME NEW t \in Threads, ExitCleanup(t) PROVE TypeOK'
  BY <1>5 DEF ExitCleanup
<1>6. ASSUME NEW t \in Threads, ExitGroupCall(t) PROVE TypeOK'
  BY <1>6 DEF ExitGroupCall
<1>7. ASSUME NEW t \in Threads, ExitGroupSignal(t) PROVE TypeOK'
  BY <1>7 DEF ExitGroupSignal, Woken
<1>8. ASSUME NEW t \in Threads, FatalSignal(t) PROVE TypeOK'
  BY <1>8 DEF FatalSignal
<1>9. ASSUME NEW t \in Actors, Snapshot(t) PROVE TypeOK'
  BY <1>9 DEF Snapshot
<1>10. ASSUME NEW t \in Actors, TerminateOther(t) PROVE TypeOK'
  BY <1>10 DEF TerminateOther
<1>11. ASSUME NEW t \in Actors, AwaitRemoved(t) PROVE TypeOK'
  BY <1>11 DEF AwaitRemoved, KillInv
<1>12. ASSUME NEW t \in Actors, KillDone(t) PROVE TypeOK'
  BY <1>12 DEF KillDone
<1>13. ASSUME NEW t \in Threads, SetTerminated(t) PROVE TypeOK'
  BY <1>13 DEF SetTerminated
<1>14a. ASSUME NEW t \in Threads, GroupCleanup(t) PROVE TypeOK'
  BY <1>14a DEF GroupCleanup
<1>14b. ASSUME NEW t \in Threads, ClearThreads(t) PROVE TypeOK'
  BY <1>14b DEF ClearThreads
<1>15a. ASSUME NEW t \in Threads, CleanupProcess(t) PROVE TypeOK'
  BY <1>15a DEF CleanupProcess
<1>15b. ASSUME NEW t \in Threads, SetExitCode(t) PROVE TypeOK'
  BY <1>15b DEF SetExitCode
<1>15c. ASSUME NEW t \in Threads, CountProcesses(t) PROVE TypeOK'
  BY <1>15c DEF CountProcesses
<1>16. ASSUME NEW t \in Threads, WakeWaiters(t) PROVE TypeOK'
  BY <1>16 DEF WakeWaiters, Woken
<1>17a. ASSUME NEW t \in Threads, LoopTurn(t) PROVE TypeOK'
  BY <1>17a DEF LoopTurn
<1>17b. ASSUME NEW t \in Threads, Leave(t) PROVE TypeOK'
  BY <1>17b DEF Leave
<1>18a. ASSUME NEW t \in Threads, DeleteCount(t) PROVE TypeOK'
  BY <1>18a DEF DeleteCount
<1>18b. ASSUME NEW t \in Threads, FreeThread(t) PROVE TypeOK'
  BY <1>18b DEF FreeThread
<1>18c. ASSUME NEW t \in Threads, ReleaseAddressSpace(t) PROVE TypeOK'
  BY <1>18c DEF ReleaseAddressSpace
<1>18d. ASSUME NEW t \in Threads, EraseOrphan(t) PROVE TypeOK'
  BY <1>18d DEF EraseOrphan
<1>19. CASE WaitPid
  BY <1>19, FindChildType DEF WaitPid
<1>20. CASE WaitResume
  <2>1. CASE startSignal' = FALSE /\ Goto(Parent, "run") /\ UNCHANGED <<published, reaped>>
    BY <1>20, <2>1 DEF WaitResume
  <2>2. CASE UNCHANGED startSignal /\ FindChild
    BY <1>20, <2>2, FindChildType DEF WaitResume
  <2> QED
    BY <1>20, <2>1, <2>2 DEF WaitResume
<1>21. CASE KillChild \/ ParentEnds
  BY <1>21 DEF KillChild, ParentEnds
<1>22. CASE UNCHANGED vars
  BY <1>22 DEF vars
<1> HIDE DEF TypeOK
<1> QED
  BY <1>1, <1>2, <1>3, <1>4, <1>5, <1>6, <1>7, <1>8, <1>9, <1>10, <1>11, <1>12, <1>13,
     <1>14a, <1>14b,
     <1>15a, <1>15b, <1>15c, <1>16, <1>17a, <1>17b, <1>18a, <1>18b, <1>18c, <1>18d,
        <1>19, <1>20, <1>21, <1>22
     DEF Next, Calls, ThreadStep, GroupStep, KillStep

----------------------------------------------------------------------------
(* DrainInv is preserved.  Most steps only move one thread's program counter *)
(* and leave the table, the snapshots and `terminated` alone.               *)

\* A step that moves one thread to a place where the invariant asks nothing
\* of it, and at most wakes the parent, keeps the invariant.
LEMMA QuietMove ==
    ASSUME DrainInv, TypeOK', NEW x \in Actors,
           \A y \in Actors \ {x} : pc'[y] = pc[y] \/ y = Parent,
           UNCHANGED <<table, ids, done, target, newborn, terminated>>,
           pc'[Parent] \notin {"killing", "await", "doom"} \/ pc'[Parent] = pc[Parent],
           pc[x] \notin {"clone", "created", "unborn"},
           pc'[x] \notin {"clone", "created", "unborn", "killing", "await", "doom"},
           Ending(x)' => Ending(x) /\ pc[x] # "doom",
           Out(x) => Out(x)'
    PROVE  DrainInv'
<1> USE DEF DrainInv
<1>1. BornInv'
  BY ProcessExitConstants DEF BornInv, TypeOK, Actors
<1>2. NewbornInv'
  BY ProcessExitConstants DEF NewbornInv, TypeOK, Actors
<1>3. KillInv'
  BY ProcessExitConstants DEF KillInv, TypeOK, Actors
<1>4. TableInv'
  BY ProcessExitConstants DEF TableInv, TypeOK, Actors, Out
<1>5. GroupInv'
  BY ProcessExitConstants DEF GroupInv, TypeOK, Actors, Ending
<1>6. DoneInv'
  BY ProcessExitConstants DEF DoneInv, TypeOK, Actors, Out
<1> QED
  BY <1>1, <1>2, <1>3, <1>4, <1>5, <1>6
\* Every step keeps DrainInv.
LEMMA DrainNext == DrainInv /\ [Next]_vars => DrainInv'
<1> SUFFICES ASSUME DrainInv, [Next]_vars PROVE DrainInv'
  OBVIOUS
<1>0. TypeOK'
  BY TypeNext DEF DrainInv
<1> USE ProcessExitConstants DEF TypeOK, Goto, killing, ending, Actors
<1>1. ASSUME NEW t \in Threads, CreateThread(t) PROVE DrainInv'
  <2>1. BornInv'
    BY <1>1, <1>0 DEF CreateThread, DrainInv, BornInv
  <2>2. NewbornInv'
    BY <1>1, <1>0 DEF CreateThread, DrainInv, NewbornInv, BornInv
  <2>3. KillInv'
    BY <1>1, <1>0 DEF CreateThread, DrainInv, KillInv
  <2>4. TableInv'
    BY <1>1, <1>0 DEF CreateThread, DrainInv, TableInv, Out, TailPCs
  <2>5. GroupInv'
    BY <1>1, <1>0 DEF CreateThread, DrainInv, GroupInv, Ending, GroupPCs
  <2>6. DoneInv'
    BY <1>1, <1>0 DEF CreateThread, DrainInv, DoneInv, Out, TableInv, KillInv, TailPCs,
       BornInv, NewbornInv
  <2> QED
    BY <1>0, <2>1, <2>2, <2>3, <2>4, <2>5, <2>6 DEF DrainInv
<1>2. ASSUME NEW t \in Threads, ScheduleThread(t) PROVE DrainInv'
  <2>1. BornInv'
    BY <1>2, <1>0 DEF ScheduleThread, DrainInv, BornInv
  <2>2. NewbornInv'
    BY <1>2, <1>0 DEF ScheduleThread, DrainInv, NewbornInv, BornInv
  <2>3. KillInv'
    BY <1>2, <1>0 DEF ScheduleThread, DrainInv, KillInv
  <2>4. TableInv'
    BY <1>2, <1>0 DEF ScheduleThread, DrainInv, TableInv, Out, TailPCs, NewbornInv
  <2>5. GroupInv'
    BY <1>2, <1>0 DEF ScheduleThread, DrainInv, GroupInv, Ending, GroupPCs
  <2>6. DoneInv'
    BY <1>2, <1>0 DEF ScheduleThread, DrainInv, DoneInv, Out, TableInv, KillInv,
       TailPCs, BornInv, NewbornInv
  <2> QED
    BY <1>0, <2>1, <2>2, <2>3, <2>4, <2>5, <2>6 DEF DrainInv
<1>3. ASSUME NEW t \in Threads, ExitCleanup(t) PROVE DrainInv'
  <2>1. BornInv'
    BY <1>3, <1>0 DEF ExitCleanup, DrainInv, BornInv
  <2>2. NewbornInv'
    BY <1>3, <1>0 DEF ExitCleanup, DrainInv, NewbornInv, BornInv
  <2>3. KillInv'
    BY <1>3, <1>0 DEF ExitCleanup, DrainInv, KillInv
  <2>4. TableInv'
    BY <1>3, <1>0 DEF ExitCleanup, DrainInv, TableInv, Out, TailPCs
  <2>5. GroupInv'
    BY <1>3, <1>0 DEF ExitCleanup, DrainInv, GroupInv, Ending, GroupPCs
  <2>6. DoneInv'
    BY <1>3, <1>0 DEF ExitCleanup, DrainInv, DoneInv, Out, TableInv, KillInv, TailPCs
  <2> QED
    BY <1>0, <2>1, <2>2, <2>3, <2>4, <2>5, <2>6 DEF DrainInv
<1>4. ASSUME NEW t \in Threads, SetTerminated(t) PROVE DrainInv'
  <2>1. BornInv'
    BY <1>4, <1>0 DEF SetTerminated, DrainInv, BornInv
  <2>2. NewbornInv'
    BY <1>4, <1>0 DEF SetTerminated, DrainInv, NewbornInv, BornInv
  <2>3. KillInv'
    BY <1>4, <1>0 DEF SetTerminated, DrainInv, KillInv
  <2>4. TableInv'
    BY <1>4, <1>0 DEF SetTerminated, DrainInv, TableInv, Out, TailPCs
  <2>5. GroupInv'
    BY <1>4, <1>0 DEF SetTerminated, DrainInv, GroupInv, Ending, GroupPCs
  <2>6. DoneInv'
    BY <1>4, <1>0 DEF SetTerminated, DrainInv, DoneInv, Out, TableInv, KillInv, TailPCs
  <2> QED
    BY <1>0, <2>1, <2>2, <2>3, <2>4, <2>5, <2>6 DEF DrainInv
<1>5. ASSUME NEW t \in Threads, GroupCleanup(t) PROVE DrainInv'
  <2>1. BornInv'
    BY <1>5, <1>0 DEF GroupCleanup, DrainInv, BornInv
  <2>2. NewbornInv'
    BY <1>5, <1>0 DEF GroupCleanup, DrainInv, NewbornInv, BornInv
  <2>3. KillInv'
    BY <1>5, <1>0 DEF GroupCleanup, DrainInv, KillInv
  <2>4. TableInv'
    BY <1>5, <1>0 DEF GroupCleanup, DrainInv, TableInv, Out, TailPCs, GroupInv, Ending,
       GroupPCs
  <2>5. GroupInv'
    BY <1>5, <1>0 DEF GroupCleanup, DrainInv, GroupInv, Ending, GroupPCs
  <2>6. DoneInv'
    BY <1>5, <1>0 DEF GroupCleanup, DrainInv, DoneInv, Out, TableInv, KillInv, TailPCs
  <2> QED
    BY <1>0, <2>1, <2>2, <2>3, <2>4, <2>5, <2>6 DEF DrainInv
<1>6. ASSUME NEW t \in Threads, ClearThreads(t) PROVE DrainInv'
  <2>1. BornInv'
    BY <1>6, <1>0 DEF ClearThreads, DrainInv, BornInv
  <2>2. NewbornInv'
    BY <1>6, <1>0 DEF ClearThreads, DrainInv, NewbornInv, BornInv
  <2>3. KillInv'
    BY <1>6, <1>0 DEF ClearThreads, DrainInv, KillInv
  <2>4. TableInv'
    BY <1>6, <1>0 DEF ClearThreads, DrainInv, TableInv, Out, TailPCs, GroupInv, Ending,
       GroupPCs
  <2>5. GroupInv'
    BY <1>6, <1>0 DEF ClearThreads, DrainInv, GroupInv, Ending, GroupPCs
  <2>6. DoneInv'
    BY <1>6, <1>0 DEF ClearThreads, DrainInv, DoneInv, Out, TableInv, KillInv, TailPCs
  <2> QED
    BY <1>0, <2>1, <2>2, <2>3, <2>4, <2>5, <2>6 DEF DrainInv
<1>7. ASSUME NEW t \in Threads, Leave(t) PROVE DrainInv'
  <2>1. BornInv'
    BY <1>7, <1>0 DEF Leave, DrainInv, BornInv
  <2>2. NewbornInv'
    BY <1>7, <1>0 DEF Leave, DrainInv, NewbornInv, BornInv
  <2>3. KillInv'
    BY <1>7, <1>0 DEF Leave, DrainInv, KillInv
  <2>4. TableInv'
    BY <1>7, <1>0 DEF Leave, DrainInv, TableInv, Out, TailPCs
  <2>5. GroupInv'
    BY <1>7, <1>0 DEF Leave, DrainInv, GroupInv, Ending, GroupPCs
  <2>6. DoneInv'
    BY <1>7, <1>0 DEF Leave, DrainInv, DoneInv, Out, TableInv, KillInv, TailPCs
  <2> QED
    BY <1>0, <2>1, <2>2, <2>3, <2>4, <2>5, <2>6 DEF DrainInv
<1>8. ASSUME NEW t \in Actors, Snapshot(t) PROVE DrainInv'
  <2>1. BornInv'
    BY <1>8, <1>0 DEF Snapshot, DrainInv, BornInv
  <2>2. NewbornInv'
    BY <1>8, <1>0 DEF Snapshot, DrainInv, NewbornInv, BornInv
  <2>3. KillInv'
    BY <1>8, <1>0 DEF Snapshot, DrainInv, KillInv
  <2>4. TableInv'
    BY <1>8, <1>0 DEF Snapshot, DrainInv, TableInv, Out, TailPCs
  <2>5. GroupInv'
    BY <1>8, <1>0 DEF Snapshot, DrainInv, GroupInv, Ending, GroupPCs
  <2>6. DoneInv'
    BY <1>8, <1>0 DEF Snapshot, DrainInv, DoneInv, Out, TableInv, KillInv, TailPCs
  <2> QED
    BY <1>0, <2>1, <2>2, <2>3, <2>4, <2>5, <2>6 DEF DrainInv
<1>9. ASSUME NEW t \in Actors, TerminateOther(t) PROVE DrainInv'
  <2>1. BornInv'
    BY <1>9, <1>0 DEF TerminateOther, DrainInv, BornInv
  <2>2. NewbornInv'
    BY <1>9, <1>0 DEF TerminateOther, DrainInv, NewbornInv, BornInv
  <2>3. KillInv'
    BY <1>9, <1>0 DEF TerminateOther, DrainInv, KillInv
  <2>4. TableInv'
    BY <1>9, <1>0 DEF TerminateOther, DrainInv, TableInv, Out, TailPCs
  <2>5. GroupInv'
    BY <1>9, <1>0 DEF TerminateOther, DrainInv, GroupInv, Ending, GroupPCs
  <2>6. DoneInv'
    BY <1>9, <1>0 DEF TerminateOther, DrainInv, DoneInv, Out, TableInv, KillInv, TailPCs
  <2> QED
    BY <1>0, <2>1, <2>2, <2>3, <2>4, <2>5, <2>6 DEF DrainInv
<1>10. ASSUME NEW t \in Actors, AwaitRemoved(t) PROVE DrainInv'
  <2>1. BornInv'
    BY <1>10, <1>0 DEF AwaitRemoved, DrainInv, BornInv
  <2>2. NewbornInv'
    BY <1>10, <1>0 DEF AwaitRemoved, DrainInv, NewbornInv, BornInv
  <2>3. KillInv'
    BY <1>10, <1>0 DEF AwaitRemoved, DrainInv, KillInv
  <2>4. TableInv'
    BY <1>10, <1>0 DEF AwaitRemoved, DrainInv, TableInv, Out, TailPCs
  <2>5. GroupInv'
    BY <1>10, <1>0 DEF AwaitRemoved, DrainInv, GroupInv, Ending, GroupPCs
  <2>6. DoneInv'
    BY <1>10, <1>0 DEF AwaitRemoved, DrainInv, DoneInv, Out, TableInv, KillInv, TailPCs
  <2> QED
    BY <1>0, <2>1, <2>2, <2>3, <2>4, <2>5, <2>6 DEF DrainInv
<1>11. ASSUME NEW t \in Actors, KillDone(t) PROVE DrainInv'
  <2>1. BornInv'
    BY <1>11, <1>0 DEF KillDone, DrainInv, BornInv
  <2>2. NewbornInv'
    BY <1>11, <1>0 DEF KillDone, DrainInv, NewbornInv, BornInv
  <2>3. KillInv'
    BY <1>11, <1>0 DEF KillDone, DrainInv, KillInv
  <2>4. TableInv'
    BY <1>11, <1>0 DEF KillDone, DrainInv, TableInv, Out, TailPCs
  <2>5. GroupInv'
    BY <1>11, <1>0 DEF KillDone, DrainInv, GroupInv, Ending, GroupPCs
  <2>6. DoneInv'
    BY <1>11, <1>0 DEF KillDone, DrainInv, DoneInv, Out, TableInv, KillInv, TailPCs
  <2> QED
    BY <1>0, <2>1, <2>2, <2>3, <2>4, <2>5, <2>6 DEF DrainInv
<1>12. ASSUME NEW t \in Threads, ExitCall(t) PROVE DrainInv'
  BY <1>12, <1>0, QuietMove DEF ExitCall, Out, Ending, GroupPCs, TailPCs
<1>13. ASSUME NEW t \in Threads, ExitCount(t) PROVE DrainInv'
  BY <1>13, <1>0, QuietMove DEF ExitCount, Out, Ending, GroupPCs, TailPCs
<1>14. ASSUME NEW t \in Threads, ExitGroupCall(t) PROVE DrainInv'
  BY <1>14, <1>0, QuietMove DEF ExitGroupCall, Out, Ending, GroupPCs, TailPCs
<1>15. ASSUME NEW t \in Threads, FatalSignal(t) PROVE DrainInv'
  BY <1>15, <1>0, QuietMove DEF FatalSignal, Out, Ending, GroupPCs, TailPCs
<1>16. ASSUME NEW t \in Threads, CleanupProcess(t) PROVE DrainInv'
  BY <1>16, <1>0, QuietMove DEF CleanupProcess, Out, Ending, GroupPCs, TailPCs
<1>17. ASSUME NEW t \in Threads, SetExitCode(t) PROVE DrainInv'
  BY <1>17, <1>0, QuietMove DEF SetExitCode, Out, Ending, GroupPCs, TailPCs
<1>18. ASSUME NEW t \in Threads, CountProcesses(t) PROVE DrainInv'
  BY <1>18, <1>0, QuietMove DEF CountProcesses, Out, Ending, GroupPCs, TailPCs
<1>19. ASSUME NEW t \in Threads, DeleteCount(t) PROVE DrainInv'
  BY <1>19, <1>0, QuietMove DEF DeleteCount, Out, Ending, GroupPCs, TailPCs
<1>20. ASSUME NEW t \in Threads, FreeThread(t) PROVE DrainInv'
  BY <1>20, <1>0, QuietMove DEF FreeThread, Out, Ending, GroupPCs, TailPCs
<1>21. ASSUME NEW t \in Threads, ReleaseAddressSpace(t) PROVE DrainInv'
  BY <1>21, <1>0, QuietMove DEF ReleaseAddressSpace, Out, Ending, GroupPCs, TailPCs
<1>22. ASSUME NEW t \in Threads, EraseOrphan(t) PROVE DrainInv'
  BY <1>22, <1>0, QuietMove DEF EraseOrphan, Out, Ending, GroupPCs, TailPCs
<1>23. ASSUME NEW t \in Threads, ExitGroupSignal(t) PROVE DrainInv'
  BY <1>23, <1>0, QuietMove DEF ExitGroupSignal, Out, Ending, Woken, GroupPCs, TailPCs
<1>24. ASSUME NEW t \in Threads, WakeWaiters(t) PROVE DrainInv'
  BY <1>24, <1>0, QuietMove DEF WakeWaiters, Out, Ending, Woken, GroupPCs, TailPCs
<1>25. ASSUME NEW t \in Threads, LoopTurn(t) PROVE DrainInv'
  <2>1. BornInv'
    BY <1>25, <1>0 DEF LoopTurn, DrainInv, BornInv
  <2>2. NewbornInv'
    BY <1>25, <1>0 DEF LoopTurn, DrainInv, NewbornInv, BornInv
  <2>3. KillInv'
    BY <1>25, <1>0 DEF LoopTurn, DrainInv, KillInv
  <2>4. TableInv'
    BY <1>25, <1>0 DEF LoopTurn, DrainInv, TableInv, Out, TailPCs
  <2>5. GroupInv'
    BY <1>25, <1>0 DEF LoopTurn, DrainInv, GroupInv, Ending, GroupPCs
  <2>6. DoneInv'
    BY <1>25, <1>0 DEF LoopTurn, DrainInv, DoneInv, Out, TableInv, KillInv, TailPCs
  <2> QED
    BY <1>0, <2>1, <2>2, <2>3, <2>4, <2>5, <2>6 DEF DrainInv
<1>26. ASSUME WaitPid PROVE DrainInv'
  BY <1>26, <1>0, QuietMove DEF WaitPid, Out, Ending, FindChild, GroupPCs, TailPCs,
     ParentPCs, KillPCs
<1>27. ASSUME WaitResume PROVE DrainInv'
  BY <1>27, <1>0, QuietMove DEF WaitResume, Out, Ending, FindChild, GroupPCs, TailPCs,
     ParentPCs, KillPCs
<1>28. ASSUME KillChild PROVE DrainInv'
  BY <1>28, <1>0, QuietMove DEF KillChild, Out, Ending, GroupPCs, TailPCs
<1>29. ASSUME ParentEnds PROVE DrainInv'
  BY <1>29, <1>0, QuietMove DEF ParentEnds, Out, Ending, GroupPCs, TailPCs
<1>30. CASE UNCHANGED vars
  BY <1>30 DEF vars, DrainInv, BornInv, NewbornInv, KillInv, TableInv, GroupInv,
     DoneInv, Out, Ending
<1> QED
  BY <1>0, <1>1, <1>2, <1>3, <1>4, <1>5, <1>6, <1>7, <1>8, <1>9, <1>10, <1>11, <1>12,
     <1>13, <1>14, <1>15, <1>16, <1>17, <1>18, <1>19, <1>20, <1>21, <1>22, <1>23, <1>24,
     <1>25, <1>26, <1>27, <1>28, <1>29, <1>30
     DEF Next, Calls, ThreadStep, GroupStep, KillStep

----------------------------------------------------------------------------
(* A process that creates no threads.                                      *)

NoClones == \A t \in Threads : "clone" \notin May[t]

\* No thread is being created.
StillInv == \A t \in Threads : pc[t] \notin {"clone", "created"}

\* Who is not in the table is out, or in exitgroup past its own removal.
MemberInv ==
    \A t \in Threads : t \in table \/ Out(t) \/ pc[t] \in GroupPCs \ {"doom", "clean"}

\* A killer's snapshot and what it has seen leave cover every other thread ...
CoverInv ==
    \A t \in Threads : pc[t] \in {"killing", "await"} =>
        \A s \in Threads \ {t} : s \in ids[t] \ done[t] \/ (s \notin table /\ Out(s))

\* ... so that a thread that gets past the kill is alone.
AloneInv ==
    \A t \in Threads : Ending(t) =>
        \A s \in Threads \ {t} : s \notin table /\ Out(s)

QuietInv == DrainInv /\ StillInv /\ MemberInv /\ CoverInv /\ AloneInv /\ QuietTeardown

\* The initial state satisfies it.
LEMMA QuietInit == Init => QuietInv
<1> SUFFICES ASSUME Init PROVE QuietInv
  OBVIOUS
<1>1. DrainInv
  BY DrainInit
<1>2. /\ table = Initial /\ ~terminated /\ ~cleaned /\ ~released
      /\ \A x \in Actors : pc[x] = IF x \in Initial \cup {Parent} THEN "run" ELSE "unborn"
  BY ProcessExitConstants DEF Init
<1>3. StillInv /\ MemberInv /\ CoverInv /\ AloneInv /\ QuietTeardown
  BY <1>2, ProcessExitConstants
     DEF StillInv, MemberInv, CoverInv, AloneInv, QuietTeardown, Out, Ending, Actors, GroupPCs
<1> QED
  BY <1>1, <1>3 DEF QuietInv

\* A step that moves one thread and nothing else the invariant speaks of, and
\* at most wakes the parent, keeps it: the thread stays out if it was out, and
\* stays in exitgroup or gets out if it was there.
LEMMA QuietFrame ==
    ASSUME QuietInv, DrainInv', NEW x \in Actors,
           \A y \in Threads \ {x} : pc'[y] = pc[y],
           UNCHANGED <<table, ids, done>>,
           (terminated \/ cleaned \/ released)' => terminated \/ cleaned \/ released,
           pc'[x] \notin {"clone", "created", "killing", "await"},
           Ending(x)' => Ending(x) /\ pc'[x] \notin {"doom", "clean"},
           Out(x) => Out(x)',
           Ending(x) => (Ending(x) \/ Out(x))'
    PROVE  QuietInv'
<1> USE DEF QuietInv, DrainInv, TypeOK, Actors
<1>1. StillInv'
  BY DEF StillInv
<1>2. MemberInv'
  BY DEF MemberInv, Out, Ending, GroupPCs, TailPCs
<1>3. CoverInv'
  BY DEF CoverInv, Out
<1>4. AloneInv'
  BY DEF AloneInv, Out, Ending
<1>5. QuietTeardown'
  BY DEF QuietTeardown, Out, Ending
<1> QED
  BY <1>1, <1>2, <1>3, <1>4, <1>5

\* Every step keeps it.
LEMMA QuietNext == NoClones /\ QuietInv /\ [Next]_vars => QuietInv'
<1> SUFFICES ASSUME NoClones, QuietInv, [Next]_vars PROVE QuietInv'
  OBVIOUS
<1>0. DrainInv' /\ TypeOK'
  BY DrainNext DEF QuietInv, DrainInv
<1> USE ProcessExitConstants DEF TypeOK, Goto, killing, ending, Actors
<1>1. ASSUME NEW t \in Threads, CreateThread(t) PROVE QuietInv'
  BY <1>1 DEF CreateThread, NoClones
<1>2. ASSUME NEW t \in Threads, ExitCleanup(t) PROVE QuietInv'
  <2>1. StillInv'
    BY <1>2, <1>0 DEF ExitCleanup, DrainInv, QuietInv, StillInv, GroupPCs, TailPCs
  <2>2. MemberInv'
    BY <1>2, <1>0 DEF ExitCleanup, DrainInv, QuietInv, MemberInv, Out, GroupPCs, TailPCs
  <2>3. CoverInv'
    BY <1>2, <1>0 DEF ExitCleanup, DrainInv, QuietInv, CoverInv, Out, Ending, MemberInv,
       AloneInv, GroupPCs, TailPCs
  <2>4. AloneInv'
    BY <1>2, <1>0 DEF ExitCleanup, DrainInv, QuietInv, AloneInv, Out, Ending, CoverInv,
       GroupPCs, TailPCs
  <2>5. QuietTeardown'
    BY <1>2, <1>0 DEF ExitCleanup, DrainInv, QuietInv, QuietTeardown, Out, Ending,
       MemberInv, AloneInv, GroupPCs, TailPCs
  <2> QED
    BY <1>0, <2>1, <2>2, <2>3, <2>4, <2>5 DEF QuietInv
<1>3. ASSUME NEW t \in Threads, SetTerminated(t) PROVE QuietInv'
  <2>1. StillInv'
    BY <1>3, <1>0 DEF SetTerminated, DrainInv, QuietInv, StillInv, GroupPCs, TailPCs
  <2>2. MemberInv'
    BY <1>3, <1>0 DEF SetTerminated, DrainInv, QuietInv, MemberInv, Out, GroupPCs, TailPCs
  <2>3. CoverInv'
    BY <1>3, <1>0 DEF SetTerminated, DrainInv, QuietInv, CoverInv, Out, Ending,
       MemberInv, AloneInv, GroupPCs, TailPCs
  <2>4. AloneInv'
    BY <1>3, <1>0 DEF SetTerminated, DrainInv, QuietInv, AloneInv, Out, Ending,
       CoverInv, GroupPCs, TailPCs
  <2>5. QuietTeardown'
    BY <1>3, <1>0 DEF SetTerminated, DrainInv, QuietInv, QuietTeardown, Out, Ending,
       MemberInv, AloneInv, GroupPCs, TailPCs
  <2> QED
    BY <1>0, <2>1, <2>2, <2>3, <2>4, <2>5 DEF QuietInv
<1>4. ASSUME NEW t \in Threads, GroupCleanup(t) PROVE QuietInv'
  <2>1. StillInv'
    BY <1>4, <1>0 DEF GroupCleanup, DrainInv, QuietInv, StillInv, GroupPCs, TailPCs
  <2>2. MemberInv'
    BY <1>4, <1>0 DEF GroupCleanup, DrainInv, QuietInv, MemberInv, Out, GroupPCs, TailPCs
  <2>3. CoverInv'
    BY <1>4, <1>0 DEF GroupCleanup, DrainInv, QuietInv, CoverInv, Out, Ending,
       MemberInv, AloneInv, GroupPCs, TailPCs
  <2>4. AloneInv'
    BY <1>4, <1>0 DEF GroupCleanup, DrainInv, QuietInv, AloneInv, Out, Ending, CoverInv,
       GroupPCs, TailPCs
  <2>5. QuietTeardown'
    BY <1>4, <1>0 DEF GroupCleanup, DrainInv, QuietInv, QuietTeardown, Out, Ending,
       MemberInv, AloneInv, GroupPCs, TailPCs
  <2> QED
    BY <1>0, <2>1, <2>2, <2>3, <2>4, <2>5 DEF QuietInv
<1>5. ASSUME NEW t \in Threads, ClearThreads(t) PROVE QuietInv'
  <2>1. StillInv'
    BY <1>5, <1>0 DEF ClearThreads, DrainInv, QuietInv, StillInv, GroupPCs, TailPCs
  <2>2. MemberInv'
    BY <1>5, <1>0 DEF ClearThreads, DrainInv, QuietInv, MemberInv, Out, AloneInv,
       Ending, GroupPCs, TailPCs
  <2>3. CoverInv'
    BY <1>5, <1>0 DEF ClearThreads, DrainInv, QuietInv, CoverInv, Out, Ending,
       MemberInv, AloneInv, GroupPCs, TailPCs
  <2>4. AloneInv'
    BY <1>5, <1>0 DEF ClearThreads, DrainInv, QuietInv, AloneInv, Out, Ending, CoverInv,
       GroupPCs, TailPCs
  <2>5. QuietTeardown'
    BY <1>5, <1>0 DEF ClearThreads, DrainInv, QuietInv, QuietTeardown, Out, Ending,
       MemberInv, AloneInv, GroupPCs, TailPCs
  <2> QED
    BY <1>0, <2>1, <2>2, <2>3, <2>4, <2>5 DEF QuietInv
<1>6. ASSUME NEW t \in Threads, Leave(t) PROVE QuietInv'
  <2>1. StillInv'
    BY <1>6, <1>0 DEF Leave, DrainInv, QuietInv, StillInv, GroupPCs, TailPCs
  <2>2. MemberInv'
    BY <1>6, <1>0 DEF Leave, DrainInv, QuietInv, MemberInv, Out, GroupPCs, TailPCs
  <2>3. CoverInv'
    BY <1>6, <1>0 DEF Leave, DrainInv, QuietInv, CoverInv, Out, Ending, MemberInv,
       AloneInv, GroupPCs, TailPCs
  <2>4. AloneInv'
    BY <1>6, <1>0 DEF Leave, DrainInv, QuietInv, AloneInv, Out, Ending, CoverInv,
       GroupPCs, TailPCs
  <2>5. QuietTeardown'
    BY <1>6, <1>0 DEF Leave, DrainInv, QuietInv, QuietTeardown, Out, Ending, MemberInv,
       AloneInv, GroupPCs, TailPCs
  <2> QED
    BY <1>0, <2>1, <2>2, <2>3, <2>4, <2>5 DEF QuietInv
<1>7. ASSUME NEW t \in Threads, DeleteCount(t) PROVE QuietInv'
  <2>1. StillInv'
    BY <1>7, <1>0 DEF DeleteCount, DrainInv, QuietInv, StillInv, GroupPCs, TailPCs
  <2>2. MemberInv'
    BY <1>7, <1>0 DEF DeleteCount, DrainInv, QuietInv, MemberInv, Out, GroupPCs, TailPCs
  <2>3. CoverInv'
    BY <1>7, <1>0 DEF DeleteCount, DrainInv, QuietInv, CoverInv, Out, Ending, MemberInv,
       AloneInv, GroupPCs, TailPCs
  <2>4. AloneInv'
    BY <1>7, <1>0 DEF DeleteCount, DrainInv, QuietInv, AloneInv, Out, Ending, CoverInv,
       GroupPCs, TailPCs
  <2>5. QuietTeardown'
    BY <1>7, <1>0 DEF DeleteCount, DrainInv, QuietInv, QuietTeardown, Out, Ending,
       MemberInv, AloneInv, GroupPCs, TailPCs
  <2> QED
    BY <1>0, <2>1, <2>2, <2>3, <2>4, <2>5 DEF QuietInv
<1>8. ASSUME NEW t \in Threads, ReleaseAddressSpace(t) PROVE QuietInv'
  <2>1. StillInv'
    BY <1>8, <1>0 DEF ReleaseAddressSpace, DrainInv, QuietInv, StillInv, GroupPCs, TailPCs
  <2>2. MemberInv'
    BY <1>8, <1>0 DEF ReleaseAddressSpace, DrainInv, QuietInv, MemberInv, Out, GroupPCs,
       TailPCs
  <2>3. CoverInv'
    BY <1>8, <1>0 DEF ReleaseAddressSpace, DrainInv, QuietInv, CoverInv, Out, Ending,
       MemberInv, AloneInv, GroupPCs, TailPCs
  <2>4. AloneInv'
    BY <1>8, <1>0 DEF ReleaseAddressSpace, DrainInv, QuietInv, AloneInv, Out, Ending,
       CoverInv, GroupPCs, TailPCs
  <2>5. QuietTeardown'
    BY <1>8, <1>0 DEF ReleaseAddressSpace, DrainInv, QuietInv, QuietTeardown, Out,
       Ending, MemberInv, AloneInv, GroupPCs, TailPCs
  <2> QED
    BY <1>0, <2>1, <2>2, <2>3, <2>4, <2>5 DEF QuietInv
<1>9. ASSUME NEW t \in Threads, ScheduleThread(t) PROVE QuietInv'
  BY <1>9, <1>0, QuietFrame DEF QuietInv, DrainInv, ScheduleThread, Out, Ending,
     GroupPCs, TailPCs, StillInv
<1>10. ASSUME NEW t \in Threads, ExitCall(t) PROVE QuietInv'
  BY <1>10, <1>0, QuietFrame DEF QuietInv, DrainInv, ExitCall, Out, Ending, GroupPCs,
     TailPCs
<1>11. ASSUME NEW t \in Threads, ExitCount(t) PROVE QuietInv'
  BY <1>11, <1>0, QuietFrame DEF QuietInv, DrainInv, ExitCount, Out, Ending, GroupPCs,
     TailPCs
<1>12. ASSUME NEW t \in Threads, ExitGroupCall(t) PROVE QuietInv'
  BY <1>12, <1>0, QuietFrame DEF QuietInv, DrainInv, ExitGroupCall, Out, Ending,
     GroupPCs, TailPCs
<1>13. ASSUME NEW t \in Threads, FatalSignal(t) PROVE QuietInv'
  BY <1>13, <1>0, QuietFrame DEF QuietInv, DrainInv, FatalSignal, Out, Ending, GroupPCs,
     TailPCs
<1>14. ASSUME NEW t \in Threads, FreeThread(t) PROVE QuietInv'
  BY <1>14, <1>0, QuietFrame DEF QuietInv, DrainInv, FreeThread, Out, Ending, GroupPCs,
     TailPCs
<1>15. ASSUME NEW t \in Threads, EraseOrphan(t) PROVE QuietInv'
  BY <1>15, <1>0, QuietFrame DEF QuietInv, DrainInv, EraseOrphan, Out, Ending, GroupPCs,
     TailPCs
<1>16. ASSUME NEW t \in Threads, CleanupProcess(t) PROVE QuietInv'
  <2>1. StillInv'
    BY <1>16, <1>0 DEF CleanupProcess, DrainInv, QuietInv, StillInv, GroupPCs, TailPCs
  <2>2. MemberInv'
    BY <1>16, <1>0 DEF CleanupProcess, DrainInv, QuietInv, MemberInv, Out, GroupPCs,
       TailPCs
  <2>3. CoverInv'
    BY <1>16, <1>0 DEF CleanupProcess, DrainInv, QuietInv, CoverInv, Out, Ending,
       MemberInv, AloneInv, GroupPCs, TailPCs
  <2>4. AloneInv'
    BY <1>16, <1>0 DEF CleanupProcess, DrainInv, QuietInv, AloneInv, Out, Ending,
       CoverInv, GroupPCs, TailPCs
  <2>5. QuietTeardown'
    BY <1>16, <1>0 DEF CleanupProcess, DrainInv, QuietInv, QuietTeardown, Out, Ending,
       MemberInv, AloneInv, GroupPCs, TailPCs
  <2> QED
    BY <1>0, <2>1, <2>2, <2>3, <2>4, <2>5 DEF QuietInv
<1>17. ASSUME NEW t \in Threads, SetExitCode(t) PROVE QuietInv'
  BY <1>17, <1>0, QuietFrame DEF QuietInv, DrainInv, SetExitCode, Out, Ending, GroupPCs,
     TailPCs
<1>18. ASSUME NEW t \in Threads, CountProcesses(t) PROVE QuietInv'
  BY <1>18, <1>0, QuietFrame DEF QuietInv, DrainInv, CountProcesses, Out, Ending,
     GroupPCs, TailPCs
<1>19. ASSUME NEW t \in Threads, LoopTurn(t) PROVE QuietInv'
  <2>1. StillInv'
    BY <1>19, <1>0 DEF LoopTurn, DrainInv, QuietInv, StillInv, GroupPCs, TailPCs
  <2>2. MemberInv'
    BY <1>19, <1>0 DEF LoopTurn, DrainInv, QuietInv, MemberInv, Out, GroupPCs, TailPCs
  <2>3. CoverInv'
    BY <1>19, <1>0 DEF LoopTurn, DrainInv, QuietInv, CoverInv, Out, Ending, MemberInv,
       AloneInv, GroupPCs, TailPCs
  <2>4. AloneInv'
    BY <1>19, <1>0 DEF LoopTurn, DrainInv, QuietInv, AloneInv, Out, Ending, CoverInv,
       GroupPCs, TailPCs
  <2>5. QuietTeardown'
    BY <1>19, <1>0 DEF LoopTurn, DrainInv, QuietInv, QuietTeardown, Out, Ending,
       MemberInv, AloneInv, GroupPCs, TailPCs
  <2> QED
    BY <1>0, <2>1, <2>2, <2>3, <2>4, <2>5 DEF QuietInv
<1>20. ASSUME NEW t \in Actors, Snapshot(t) PROVE QuietInv'
  <2>1. StillInv'
    BY <1>20, <1>0 DEF Snapshot, DrainInv, QuietInv, StillInv, GroupPCs, TailPCs
  <2>2. MemberInv'
    BY <1>20, <1>0 DEF Snapshot, DrainInv, QuietInv, MemberInv, Out, GroupPCs, TailPCs
  <2>3. CoverInv'
    BY <1>20, <1>0 DEF Snapshot, DrainInv, QuietInv, CoverInv, Out, Ending, MemberInv,
       AloneInv, GroupPCs, TailPCs
  <2>4. AloneInv'
    BY <1>20, <1>0 DEF Snapshot, DrainInv, QuietInv, AloneInv, Out, Ending, CoverInv,
       GroupPCs, TailPCs
  <2>5. QuietTeardown'
    BY <1>20, <1>0 DEF Snapshot, DrainInv, QuietInv, QuietTeardown, Out, Ending,
       MemberInv, AloneInv, GroupPCs, TailPCs
  <2> QED
    BY <1>0, <2>1, <2>2, <2>3, <2>4, <2>5 DEF QuietInv
<1>21. ASSUME NEW t \in Actors, TerminateOther(t) PROVE QuietInv'
  <2>1. StillInv'
    BY <1>21, <1>0 DEF TerminateOther, DrainInv, QuietInv, StillInv, GroupPCs, TailPCs
  <2>2. MemberInv'
    BY <1>21, <1>0 DEF TerminateOther, DrainInv, QuietInv, MemberInv, Out, GroupPCs,
       TailPCs
  <2>3. CoverInv'
    BY <1>21, <1>0 DEF TerminateOther, DrainInv, QuietInv, CoverInv, Out, Ending,
       MemberInv, AloneInv, GroupPCs, TailPCs
  <2>4. AloneInv'
    BY <1>21, <1>0 DEF TerminateOther, DrainInv, QuietInv, AloneInv, Out, Ending,
       CoverInv, GroupPCs, TailPCs
  <2>5. QuietTeardown'
    BY <1>21, <1>0 DEF TerminateOther, DrainInv, QuietInv, QuietTeardown, Out, Ending,
       MemberInv, AloneInv, GroupPCs, TailPCs
  <2> QED
    BY <1>0, <2>1, <2>2, <2>3, <2>4, <2>5 DEF QuietInv
<1>22. ASSUME NEW t \in Actors, AwaitRemoved(t) PROVE QuietInv'
  <2>1. StillInv'
    BY <1>22, <1>0 DEF AwaitRemoved, DrainInv, QuietInv, StillInv, GroupPCs, TailPCs
  <2>2. MemberInv'
    BY <1>22, <1>0 DEF AwaitRemoved, DrainInv, QuietInv, MemberInv, Out, GroupPCs, TailPCs
  <2>3. CoverInv'
    BY <1>22, <1>0 DEF AwaitRemoved, DrainInv, QuietInv, CoverInv, Out, Ending,
       MemberInv, AloneInv, GroupPCs, TailPCs
  <2>4. AloneInv'
    BY <1>22, <1>0 DEF AwaitRemoved, DrainInv, QuietInv, AloneInv, Out, Ending,
       CoverInv, GroupPCs, TailPCs
  <2>5. QuietTeardown'
    BY <1>22, <1>0 DEF AwaitRemoved, DrainInv, QuietInv, QuietTeardown, Out, Ending,
       MemberInv, AloneInv, GroupPCs, TailPCs
  <2> QED
    BY <1>0, <2>1, <2>2, <2>3, <2>4, <2>5 DEF QuietInv
<1>23. ASSUME NEW t \in Actors, KillDone(t) PROVE QuietInv'
  <2>1. StillInv'
    BY <1>23, <1>0 DEF KillDone, DrainInv, QuietInv, StillInv, GroupPCs, TailPCs, KillInv
  <2>2. MemberInv'
    BY <1>23, <1>0 DEF KillDone, DrainInv, QuietInv, MemberInv, Out, GroupPCs, TailPCs,
       KillInv
  <2>3. CoverInv'
    BY <1>23, <1>0 DEF KillDone, DrainInv, QuietInv, CoverInv, Out, Ending, MemberInv,
       AloneInv, GroupPCs, TailPCs, KillInv
  <2>4. AloneInv'
    BY <1>23, <1>0 DEF KillDone, DrainInv, QuietInv, AloneInv, Out, Ending, CoverInv,
       GroupPCs, TailPCs, KillInv
  <2>5. QuietTeardown'
    BY <1>23, <1>0 DEF KillDone, DrainInv, QuietInv, QuietTeardown, Out, Ending,
       MemberInv, AloneInv, GroupPCs, TailPCs, KillInv
  <2> QED
    BY <1>0, <2>1, <2>2, <2>3, <2>4, <2>5 DEF QuietInv
<1>24. ASSUME NEW t \in Threads, ExitGroupSignal(t) PROVE QuietInv'
  <2>1. /\ pc[t] = "group" /\ pc'[t] = "snapshot"
        /\ \A y \in Threads \ {t} : pc'[y] = pc[y]
    BY <1>24 DEF ExitGroupSignal, Woken, QuietInv, DrainInv
  <2>2. UNCHANGED <<table, ids, done, terminated, cleaned, released>>
    BY <1>24 DEF ExitGroupSignal
  <2> QED
    BY <1>0, <2>1, <2>2, QuietFrame DEF Out, Ending, GroupPCs, TailPCs
<1>25. ASSUME NEW t \in Threads, WakeWaiters(t) PROVE QuietInv'
  <2>1. /\ pc[t] = "wake" /\ pc'[t] = "out"
        /\ \A y \in Threads \ {t} : pc'[y] = pc[y]
    BY <1>25 DEF WakeWaiters, Woken, QuietInv, DrainInv
  <2>2. UNCHANGED <<table, ids, done, terminated, cleaned, released>>
    BY <1>25 DEF WakeWaiters
  <2> QED
    BY <1>0, <2>1, <2>2, QuietFrame DEF Out, Ending, GroupPCs, TailPCs
<1>26a. ASSUME NEW l \in {"run", "parked"}, Goto(Parent, l), pc[Parent] \in {"run", "woken"},
              UNCHANGED <<table, ids, done, terminated, cleaned, released>>
       PROVE  QuietInv'
  BY <1>26a, <1>0, QuietFrame DEF QuietInv, DrainInv, Out, Ending, GroupPCs, TailPCs
<1>26. ASSUME WaitPid PROVE QuietInv'
  BY <1>26, <1>26a DEF WaitPid, FindChild
<1>27. ASSUME WaitResume PROVE QuietInv'
  BY <1>27, <1>26a DEF WaitResume, FindChild
<1>28. ASSUME KillChild PROVE QuietInv'
  BY <1>28, <1>0, QuietFrame DEF QuietInv, DrainInv, KillChild, Out, Ending, GroupPCs,
     TailPCs
<1>29. ASSUME ParentEnds PROVE QuietInv'
  BY <1>29, <1>0, QuietFrame DEF QuietInv, DrainInv, ParentEnds, Out, Ending, GroupPCs,
     TailPCs
<1>30. CASE UNCHANGED vars
  BY <1>30, <1>0 DEF vars, QuietInv, StillInv, MemberInv, CoverInv, AloneInv,
     QuietTeardown, Out, Ending
<1> QED
  BY <1>0, <1>1, <1>2, <1>3, <1>4, <1>5, <1>6, <1>7, <1>8, <1>9, <1>10, <1>11, <1>12,
     <1>13, <1>14, <1>15, <1>16, <1>17, <1>18, <1>19, <1>20, <1>21, <1>22, <1>23, <1>24,
     <1>25, <1>26, <1>27, <1>28, <1>29, <1>30
     DEF Next, Calls, ThreadStep, GroupStep, KillStep

----------------------------------------------------------------------------
(* The wake-up of the parent.                                              *)

\* NoMissedExit is inductive, given the types and that a child being created
\* is not in exitgroup.
LEMMA WakeNext == DrainInv /\ DrainInv' /\ NoMissedExit /\ [Next]_vars => NoMissedExit'
<1> SUFFICES ASSUME TypeOK, TypeOK', NewbornInv, NoMissedExit, [Next]_vars PROVE NoMissedExit'
  BY DEF DrainInv
<1> USE ProcessExitConstants DEF TypeOK, Goto, killing, ending, Actors, GroupPCs, Ending
<1>1. ASSUME NEW t \in Threads, Calls(t) PROVE NoMissedExit'
  <2>1. CASE CreateThread(t)
    BY <2>1 DEF CreateThread, NoMissedExit
  <2>2. CASE ExitCall(t)
    BY <2>2 DEF ExitCall, NoMissedExit
  <2>3. CASE ExitGroupCall(t)
    BY <2>3 DEF ExitGroupCall, NoMissedExit
  <2>4. CASE FatalSignal(t)
    BY <2>4 DEF FatalSignal, NoMissedExit
  <2> QED
    BY <1>1, <2>1, <2>2, <2>3, <2>4 DEF Calls
<1>2. ASSUME NEW t \in Threads, ScheduleThread(t) \/ ExitCount(t) \/ ExitCleanup(t) PROVE NoMissedExit'
  <2>1. CASE ScheduleThread(t)
    BY <2>1 DEF ScheduleThread, NewbornInv, NoMissedExit
  <2>2. CASE ExitCount(t)
    BY <2>2 DEF ExitCount, NoMissedExit
  <2>3. CASE ExitCleanup(t)
    BY <2>3 DEF ExitCleanup, NoMissedExit
  <2> QED
    BY <1>2, <2>1, <2>2, <2>3
<1>3. ASSUME NEW t \in Threads, ExitGroupSignal(t) PROVE NoMissedExit'
  BY <1>3 DEF ExitGroupSignal, Woken, NoMissedExit
<1>4. ASSUME NEW t \in Threads, WakeWaiters(t) PROVE NoMissedExit'
  BY <1>4 DEF WakeWaiters, Woken, NoMissedExit
<1>5. ASSUME NEW t \in Threads, SetTerminated(t) \/ GroupCleanup(t) \/ ClearThreads(t) PROVE NoMissedExit'
  <2>1. CASE SetTerminated(t)
    BY <2>1 DEF SetTerminated, NoMissedExit
  <2>2. CASE GroupCleanup(t)
    BY <2>2 DEF GroupCleanup, NoMissedExit
  <2>3. CASE ClearThreads(t)
    BY <2>3 DEF ClearThreads, NoMissedExit
  <2> QED
    BY <1>5, <2>1, <2>2, <2>3
<1>6. ASSUME NEW t \in Threads, CleanupProcess(t) \/ SetExitCode(t) \/ CountProcesses(t) PROVE NoMissedExit'
  <2>1. CASE CleanupProcess(t)
    BY <2>1 DEF CleanupProcess, NoMissedExit
  <2>2. CASE SetExitCode(t)
    BY <2>2 DEF SetExitCode, NoMissedExit
  <2>3. CASE CountProcesses(t)
    BY <2>3 DEF CountProcesses, NoMissedExit
  <2> QED
    BY <1>6, <2>1, <2>2, <2>3
<1>7. ASSUME NEW t \in Threads, LoopTurn(t) \/ Leave(t) \/ DeleteCount(t) PROVE NoMissedExit'
  <2>1. CASE LoopTurn(t)
    BY <2>1 DEF LoopTurn, NoMissedExit
  <2>2. CASE Leave(t)
    BY <2>2 DEF Leave, NoMissedExit
  <2>3. CASE DeleteCount(t)
    BY <2>3 DEF DeleteCount, NoMissedExit
  <2> QED
    BY <1>7, <2>1, <2>2, <2>3
<1>8. ASSUME NEW t \in Threads, FreeThread(t) \/ ReleaseAddressSpace(t) \/ EraseOrphan(t) PROVE NoMissedExit'
  <2>1. CASE FreeThread(t)
    BY <2>1 DEF FreeThread, NoMissedExit
  <2>2. CASE ReleaseAddressSpace(t)
    BY <2>2 DEF ReleaseAddressSpace, NoMissedExit
  <2>3. CASE EraseOrphan(t)
    BY <2>3 DEF EraseOrphan, NoMissedExit
  <2> QED
    BY <1>8, <2>1, <2>2, <2>3
<1>9. ASSUME NEW x \in Actors, KillStep(x) PROVE NoMissedExit'
  <2>1. CASE Snapshot(x)
    BY <2>1 DEF Snapshot, NoMissedExit
  <2>4. CASE TerminateOther(x)
    BY <2>4 DEF TerminateOther, NoMissedExit
  <2>2. CASE AwaitRemoved(x)
    BY <2>2 DEF AwaitRemoved, NoMissedExit
  <2>3. CASE KillDone(x)
    BY <2>3 DEF KillDone, NoMissedExit
  <2> QED
    BY <1>9, <2>1, <2>2, <2>3, <2>4 DEF KillStep
<1>14. ASSUME FindChild, UNCHANGED terminated PROVE NoMissedExit'
  <2>1. CASE Goto(Parent, "run")
    BY <2>1 DEF NoMissedExit
  <2>2. CASE published /\ ~terminated /\ Goto(Parent, "parked")
    BY <1>14, <2>2 DEF NoMissedExit
  <2> QED
    BY <1>14, <2>1, <2>2 DEF FindChild
<1>10. CASE WaitPid
  BY <1>10, <1>14 DEF WaitPid
<1>11. CASE WaitResume
  <2>1. CASE Goto(Parent, "run")
    BY <2>1 DEF NoMissedExit
  <2> QED
    BY <1>11, <1>14, <2>1 DEF WaitResume, ending
<1>12. CASE KillChild \/ ParentEnds
  <2>1. CASE KillChild
    BY <2>1 DEF KillChild, NoMissedExit
  <2>2. CASE ParentEnds
    BY <2>2 DEF ParentEnds, NoMissedExit
  <2> QED
    BY <1>12, <2>1, <2>2
<1>13. CASE UNCHANGED vars
  BY <1>13 DEF vars, NoMissedExit
<1> QED
  BY <1>1, <1>2, <1>3, <1>4, <1>5, <1>6, <1>7, <1>8, <1>9, <1>10, <1>11, <1>12, <1>13
     DEF Next, ThreadStep, GroupStep

----------------------------------------------------------------------------
(* The theorems.                                                           *)

\* Every variable keeps its type, in every workload.
THEOREM TypeCorrect == Spec => []TypeOK
<1>1. DrainInv => TypeOK
  BY DEF DrainInv
<1> QED
  BY <1>1, DrainInit, DrainNext, PTL DEF Spec

\* exitgroup makes the process terminated only when every thread its
\* killAllThreads found has left guest code and the table, for any number of
\* threads and in any workload, concurrent thread creation included.
THEOREM EndsDrained == Spec => []DrainedBeforeEnd
<1>1. DrainInv => DrainedBeforeEnd
  BY ProcessExitConstants DEF DrainInv, DrainedBeforeEnd, DoneInv, KillInv, Actors
<1> QED
  BY <1>1, DrainInit, DrainNext, PTL DEF Spec

\* A parent parked in waitpid or reapChild is always going to be woken by the
\* thread that ended its child, in any workload.
THEOREM ExitsAreNotMissed == Spec => []NoMissedExit
<1>1. Init => NoMissedExit
  BY DEF Init, NoMissedExit
<1> QED
  BY <1>1, DrainInit, DrainNext, WakeNext, PTL DEF Spec

\* In a process whose threads create no others, memory, descriptors and the
\* 64-bit address space are torn down only when every thread has left guest
\* code, however its threads exit, die and are killed.
THEOREM TeardownIsQuiet == NoClones => (Spec => []QuietTeardown)
<1> SUFFICES ASSUME NoClones PROVE Spec => []QuietTeardown
  OBVIOUS
<1>1. QuietInv /\ [Next]_vars => QuietInv'
  BY QuietNext
<1>2. QuietInv => QuietTeardown
  BY DEF QuietInv
<1> QED
  BY <1>1, <1>2, QuietInit, PTL DEF Spec

\* ... and at most one thread carries out exitgroup's ending.
THEOREM EnderIsAlone == NoClones => (Spec => []OneEnder)
<1> SUFFICES ASSUME NoClones PROVE Spec => []OneEnder
  OBVIOUS
<1>1. QuietInv /\ [Next]_vars => QuietInv'
  BY QuietNext
<1>2. QuietInv => OneEnder
  BY DEF QuietInv, AloneInv, OneEnder, Out, Ending, GroupPCs, TailPCs
<1> QED
  BY <1>1, <1>2, QuietInit, PTL DEF Spec
=============================================================================
