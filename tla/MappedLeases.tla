---------------------------- MODULE MappedLeases ----------------------------
(***************************************************************************)
(* The leases that file mappings hold on the cache of one file, and their  *)
(* retirement (kprocess.cpp, kmemory.cpp, kfile.cpp).                      *)
(*                                                                         *)
(* A mapping of a file keeps a MappedFileLease of the file's               *)
(* MappedFileCache.  Guest stores change the cache only; the bytes reach   *)
(* the file when the LAST lease is retired, which unmap, MAP_FIXED, exec,  *)
(* exit and a failed clone do after they have dropped their locks.  A      *)
(* retirement that fails, or that a clone in progress forbids, is put on a *)
(* process-wide queue and tried again by whoever passes by.                *)
(*                                                                         *)
(* The contents are versions of one byte of the file.  A step is one       *)
(* critical section of mappedFilesMutex, of the queue's mutex or of the    *)
(* file's mutationOperationMutex ("the gate"), which is held across the    *)
(* writeback and is therefore state.                                       *)
(***************************************************************************)
EXTENDS Integers, Sequences, FiniteSets, Functions

CONSTANTS
    Procs,        \* processes; all but Root are yet to be cloned
    Root,
    Threads,      \* guest threads
    Main,         \* the host thread that runs KSystem::destroy
    Proc,         \* the process of each guest thread
    May,          \* the calls each guest thread makes
    Leases,       \* bound on the leases ever made
    Early,        \* those of shared mappings that Root already has
    MaxPieces,    \* bound on the records one lease is split into
    MaxWrites,    \* bound on the versions of the byte
    MaxFailures,  \* bound on the writebacks that fail
    None

Configuration ==
    /\ IsFiniteSet(Threads) /\ Main \notin Threads
    /\ Root \in Procs /\ Proc \in [Threads -> Procs]
    /\ IsFiniteSet(Leases) /\ Early \subseteq Leases
    /\ MaxPieces \in Nat \ {0} /\ MaxWrites \in Nat /\ MaxFailures \in Nat
    /\ None \notin Procs \cup Leases \cup Threads \cup {Main} \cup 0 .. MaxWrites

ASSUME LeaseConstants == Configuration

VARIABLES
    proc,         \* state of each process
    live,         \* guest threads that may still begin a system call
    lease,        \* the leases: MappedFileLease and the records that share it
    count,        \* MappedFileCache::mappingLeaseCount
    writeFile,    \* the cache has a descriptor it can write back through
    mem, disk,    \* the byte in the cache and in the file
    gate, snap,   \* owner of mutationOperationMutex and the bytes it prepared
    failures,
    pending,      \* pendingMappedFileRetirements, head to tail
    inProgress,   \* who set pendingMappedFileRetirementInProgress
    abandoned,    \* what shutdown dropped from the queue
    th            \* where each thread is

vars == <<proc, live, lease, count, writeFile, mem, disk, gate, snap, failures,
          pending, inProgress, abandoned, th>>
cacheVars == <<count, writeFile, mem, disk, gate, snap, failures>>
queueVars == <<pending, inProgress, abandoned>>

Idle == [pc |-> "idle", cur |-> None, todo |-> {}, ret |-> "idle", on |-> None,
         held |-> {}, new |-> {}, err |-> "none"]
Unused == [status |-> "free", shared |-> FALSE, holder |-> None, pieces |-> 0,
           reserved |-> 0, error |-> "none"]

Init ==
    /\ proc = [p \in Procs |-> IF p = Root THEN "alive" ELSE "unborn"]
    /\ live = {t \in Threads : Proc[t] = Root}
    /\ lease = [l \in Leases |->
         IF l \in Early THEN [Unused EXCEPT !.status = "retained", !.shared = TRUE,
                                            !.holder = Root, !.pieces = 1]
         ELSE Unused]
    /\ count = Cardinality(Early) /\ writeFile = (Early # {})
    /\ mem = 0 /\ disk = 0
    /\ gate = None /\ snap = None /\ failures = 0
    /\ pending = <<>> /\ inProgress = None /\ abandoned = {}
    /\ th = [t \in Threads \cup {Main} |-> Idle]

Free == {l \in Leases : lease[l].status = "free"}
\* mappedFiles of process p, by lease: holder is set while a record is in it.
Mapped(p) == {l \in Leases : lease[l].holder = p}
Expired == /\ \A l \in Leases : lease[l].status \in {"free", "retired"}
           /\ \A t \in Threads : th[t].pc \notin {"gate", "io"}

Step(t, r) == th' = [th EXCEPT ![t] = r]
Return(t) == Step(t, Idle)
Begin(t, call) == /\ call \in May[t] /\ t \in live
                  /\ th[t].pc = "idle" /\ proc[Proc[t]] = "alive"

----------------------------------------------------------------------------
(* The cache: what guest stores, write(2) and msync(2) do to it.           *)

\* A guest store through a shared writable mapping: no lock, no call.
Store(t) ==
    /\ Begin(t, "store") /\ mem < MaxWrites
    /\ \E l \in Mapped(Proc[t]) : lease[l].shared
    /\ mem' = mem + 1
    /\ UNCHANGED <<proc, live, lease, count, writeFile, disk, gate, snap,
                   failures, queueVars, th>>

\* The file and the cache are changed under the gate.
Pwrite(t) ==
    /\ Begin(t, "write") /\ mem < MaxWrites /\ gate = None
    /\ mem' = mem + 1 /\ disk' = mem + 1
    /\ UNCHANGED <<proc, live, lease, count, writeFile, gate, snap, failures,
                   queueVars, th>>

\* msync finds a shared record and flushes its cache; it holds no lease.  The
\* guest calls it only when there is something to flush, which bounds how often
\* it takes the gate.
Msync(t) ==
    /\ Begin(t, "msync") /\ writeFile /\ mem # disk
    /\ \E l \in Mapped(Proc[t]) : lease[l].shared
    /\ Step(t, [th[t] EXCEPT !.pc = "gate"])
    /\ UNCHANGED <<proc, live, lease, cacheVars, queueVars>>

\* Faulty variants of this module's actions have names that begin with Fault.
\* They are used by no specification: each is a mistake a property must find.
\* Fault: only a deferred retirement is queued, a failed one is dropped.
FaultResult(t, e) ==
    Step(t, [th[t] EXCEPT !.err = e,
                          !.pc = IF inProgress = t THEN "attempted"
                                 ELSE IF e # "EAGAIN" THEN "drain" ELSE "queue"])

\* What MappedFileLease::retire returns to: the queue's attempt or a drain.
Result(t, e) ==
    Step(t, [th[t] EXCEPT !.err = e,
                          !.pc = IF inProgress = t THEN "attempted"
                                 ELSE IF e = "none" THEN "drain" ELSE "queue"])

\* Fault: the reservations are not looked at.
FaultRetire(t) ==
    /\ th[t].pc = "retire"
    /\ IF lease[th[t].cur].status # "retired"
       THEN Step(t, [th[t] EXCEPT !.pc = "gate"])
       ELSE Result(t, "none")
    /\ UNCHANGED <<proc, live, lease, cacheVars, queueVars>>

Retire(t) ==
    /\ th[t].pc = "retire"
    /\ LET l == lease[th[t].cur] IN
       IF l.reserved = 0 /\ l.status # "retired"
       THEN Step(t, [th[t] EXCEPT !.pc = "gate"])
       ELSE Result(t, IF l.reserved > 0 THEN "EAGAIN" ELSE "none")
    /\ UNCHANGED <<proc, live, lease, cacheVars, queueVars>>

WritesBack(t) == writeFile /\ (th[t].cur = None \/ count = 1)
WritebackDone(t, e) == IF th[t].cur = None THEN Return(t) ELSE Result(t, e)

\* Fault: the bytes are copied without the gate.
FaultPrepare(t) ==
    /\ th[t].pc = "gate" /\ gate = None
    /\ snap' = IF WritesBack(t) THEN mem ELSE None
    /\ Step(t, [th[t] EXCEPT !.pc = "io"])
    /\ UNCHANGED <<proc, live, lease, count, writeFile, mem, disk, gate, failures,
                   queueVars>>

\* writeback takes the gate; the callback decides whether this is the last
\* lease and copies the bytes.
Prepare(t) ==
    /\ th[t].pc = "gate" /\ gate = None
    /\ gate' = t
    /\ snap' = IF WritesBack(t) THEN mem ELSE None
    /\ Step(t, [th[t] EXCEPT !.pc = "io"])
    /\ UNCHANGED <<proc, live, lease, count, writeFile, mem, disk, failures,
                   queueVars>>

PrepareFails(t) ==
    /\ th[t].pc = "gate" /\ gate = None /\ WritesBack(t) /\ failures < MaxFailures
    /\ failures' = failures + 1
    /\ WritebackDone(t, "ENOMEM")
    /\ UNCHANGED <<proc, live, lease, count, writeFile, mem, disk, gate, snap,
                   queueVars>>

\* The writes succeed; the lease is given up before the gate is.
Write(t) ==
    /\ th[t].pc = "io"
    /\ disk' = IF snap = None THEN disk ELSE snap
    /\ gate' = None /\ snap' = None
    /\ IF th[t].cur = None
       THEN UNCHANGED <<lease, count>>
       ELSE /\ lease' = [lease EXCEPT ![th[t].cur].status = "retired"]
            /\ count' = count - 1
    /\ WritebackDone(t, "none")
    /\ UNCHANGED <<proc, live, writeFile, mem, failures, queueVars>>

\* Fault: the lease is given up although the write failed.
FaultWriteFails(t) ==
    /\ th[t].pc = "io" /\ snap # None /\ th[t].cur # None
    /\ gate' = None /\ snap' = None /\ count' = count - 1
    /\ lease' = [lease EXCEPT ![th[t].cur].status = "retired"]
    /\ Result(t, "none")
    /\ UNCHANGED <<proc, live, writeFile, mem, disk, failures, queueVars>>

\* An error or a short write, before or after the byte was written.
WriteFails(t) ==
    /\ th[t].pc = "io" /\ snap # None /\ failures < MaxFailures
    /\ disk' \in {disk, snap}
    /\ gate' = None /\ snap' = None
    /\ failures' = failures + 1
    /\ WritebackDone(t, "EIO")
    /\ UNCHANGED <<proc, live, lease, count, writeFile, mem, queueVars>>

----------------------------------------------------------------------------
(* The queue of retirements that have to be tried again.                   *)

Queue(t) ==
    /\ th[t].pc = "queue"
    /\ lease' = [lease EXCEPT ![th[t].cur].error = th[t].err]
    /\ pending' = Append(pending, th[t].cur)
    /\ Step(t, [th[t] EXCEPT !.pc = "retry", !.ret = "drain", !.cur = None,
                             !.err = "none"])
    /\ UNCHANGED <<proc, live, cacheVars, inProgress, abandoned>>

Retry(t) ==
    /\ th[t].pc = "retry"
    /\ IF inProgress # None \/ pending = <<>>
       THEN /\ Step(t, [th[t] EXCEPT !.pc = th[t].ret, !.cur = None])
            /\ UNCHANGED inProgress
       ELSE /\ inProgress' = t
            /\ Step(t, [th[t] EXCEPT !.pc = "retire", !.cur = Head(pending)])
    /\ UNCHANGED <<proc, live, lease, cacheVars, pending, abandoned>>

\* Fault: a lease that has been retired stays at the head.
FaultAttemptedKeeps(t) ==
    /\ th[t].pc = "attempted"
    /\ lease' = [lease EXCEPT ![th[t].cur].error = th[t].err]
    /\ Step(t, [th[t] EXCEPT !.pc = IF th[t].err = "none" THEN "retry" ELSE th[t].ret,
                             !.cur = None, !.err = "none"])
    /\ inProgress' = None
    /\ UNCHANGED <<proc, live, cacheVars, pending, abandoned>>

Attempted(t) ==
    /\ th[t].pc = "attempted"
    /\ lease' = [lease EXCEPT ![th[t].cur].error = th[t].err]
    /\ IF th[t].err = "none"
       THEN /\ pending' = Tail(pending)
            /\ Step(t, [th[t] EXCEPT !.pc = "retry", !.cur = None])
       ELSE /\ Step(t, [th[t] EXCEPT !.pc = th[t].ret, !.cur = None,
                                     !.err = "none"])
            /\ UNCHANGED pending
    /\ inProgress' = None
    /\ UNCHANGED <<proc, live, cacheVars, abandoned>>

----------------------------------------------------------------------------
(* mmap and unmap.                                                         *)

\* The file's cache is found or made, and with it the lease.
Mmap(t) ==
    /\ Begin(t, "mmap") /\ gate = None /\ Free # {}
    /\ \E shared \in BOOLEAN :
        LET l == CHOOSE l \in Free : TRUE IN
        /\ lease' = [lease EXCEPT ![l] =
               [Unused EXCEPT !.status = "made", !.shared = shared, !.pieces = 1]]
        /\ writeFile' = (shared \/ (writeFile /\ ~Expired))
        /\ Step(t, [th[t] EXCEPT !.pc = "retain", !.cur = l])
    /\ mem' = IF Expired THEN disk ELSE mem
    /\ UNCHANGED <<proc, live, count, disk, gate, snap, failures, queueVars>>

Retain(t) ==
    /\ th[t].pc = "retain" /\ gate = None
    /\ lease' = [lease EXCEPT ![th[t].cur].status = "retained"]
    /\ count' = count + 1
    /\ Step(t, [th[t] EXCEPT !.pc = "commit"])
    /\ UNCHANGED <<proc, live, writeFile, mem, disk, gate, snap, failures,
                   queueVars>>

\* What unmapping a range does to the records of process p: whole records go,
\* or the range lies within one, which is split.
Surgeries(p) ==
    LET now == [l \in Mapped(p) |-> lease[l].pieces] IN
    {f \in [Mapped(p) -> 0 .. MaxPieces] :
        \/ \A l \in Mapped(p) : f[l] <= now[l]
        \/ \E l \in Mapped(p) : f = [now EXCEPT ![l] = @ + 1]}
Cut(f) == [l \in Leases |->
    IF l \notin DOMAIN f THEN lease[l]
    ELSE [lease[l] EXCEPT !.pieces = f[l],
                          !.holder = IF f[l] = 0 THEN None ELSE @]]
Last(f) == {l \in DOMAIN f : f[l] = 0}

\* The record is published, after MAP_FIXED has removed what was there.
Commit(t) ==
    /\ th[t].pc = "commit"
    /\ \E f \in Surgeries(Proc[t]) :
        /\ lease' = [Cut(f) EXCEPT ![th[t].cur].holder = Proc[t]]
        /\ Step(t, [th[t] EXCEPT !.pc = "drain", !.todo = Last(f),
                                 !.cur = None])
    /\ UNCHANGED <<proc, live, cacheVars, queueVars>>

\* No address, or no memory for the record: the lease is given back.
CommitFails(t) ==
    /\ th[t].pc = "commit"
    /\ lease' = [lease EXCEPT ![th[t].cur].pieces = 0]
    /\ Step(t, [th[t] EXCEPT !.pc = "drain", !.todo = {th[t].cur},
                             !.cur = None])
    /\ UNCHANGED <<proc, live, cacheVars, queueVars>>

Unmap(t) ==
    /\ Begin(t, "unmap")
    /\ Step(t, [th[t] EXCEPT !.pc = "retry", !.ret = "unmap"])
    /\ UNCHANGED <<proc, live, lease, cacheVars, queueVars>>

\* An anonymous MAP_FIXED mapping removes the range without a retry first.
MmapAnonymous(t) ==
    /\ Begin(t, "replace")
    /\ Step(t, [th[t] EXCEPT !.pc = "unmap"])
    /\ UNCHANGED <<proc, live, lease, cacheVars, queueVars>>

\* Fault: a lease is retired with the first of its records.
FaultUnmapLocked(t) ==
    /\ th[t].pc = "unmap"
    /\ \E f \in Surgeries(Proc[t]) :
        /\ lease' = Cut(f)
        /\ Step(t, [th[t] EXCEPT !.pc = "drain",
                                 !.todo = {l \in DOMAIN f : f[l] < lease[l].pieces}])
    /\ UNCHANGED <<proc, live, cacheVars, queueVars>>

UnmapLocked(t) ==
    /\ th[t].pc = "unmap"
    /\ \E f \in Surgeries(Proc[t]) :
        /\ lease' = Cut(f)
        /\ Step(t, [th[t] EXCEPT !.pc = "drain", !.todo = Last(f)])
    /\ UNCHANGED <<proc, live, cacheVars, queueVars>>

\* The leases that lost their last record are retired, outside the locks.
Drain(t) ==
    /\ th[t].pc = "drain"
    /\ \/ \E l \in th[t].todo :
             Step(t, [th[t] EXCEPT !.pc = "retire", !.cur = l,
                                   !.todo = th[t].todo \ {l}])
       \/ /\ th[t].todo = {}
          /\ IF th[t].on = None THEN Return(t)
             ELSE Step(t, [th[t] EXCEPT !.pc = "retireall", !.cur = None])
    /\ UNCHANGED <<proc, live, lease, cacheVars, queueVars>>

----------------------------------------------------------------------------
(* exec, exit and the end of the session.                                  *)

\* The pages are invalid before anything is retired: no store can follow.
Exec(t) ==
    /\ Begin(t, "exec")
    /\ proc' = [proc EXCEPT ![Proc[t]] = "execing"]
    /\ Step(t, [th[t] EXCEPT !.pc = "retry", !.ret = "retireall",
                             !.on = Proc[t]])
    /\ UNCHANGED <<live, lease, cacheVars, queueVars>>

ThreadsOf(p) == {t \in Threads : Proc[t] = p}

Exit(t) ==
    /\ Begin(t, "exit")
    /\ \A u \in ThreadsOf(Proc[t]) \ {t} : th[u].pc = "idle"
    /\ proc' = [proc EXCEPT ![Proc[t]] = "ending"]
    /\ live' = live \ ThreadsOf(Proc[t])
    /\ Step(t, [th[t] EXCEPT !.pc = "retry", !.ret = "retireall",
                             !.on = Proc[t]])
    /\ UNCHANGED <<lease, cacheVars, queueVars>>

RetireAll(t) ==
    /\ th[t].pc = "retireall"
    /\ \E l \in Mapped(th[t].on) :
        LET n == lease[l].pieces - 1 IN
        /\ lease' = Cut([k \in {l} |-> n])
        /\ IF n = 0 THEN Step(t, [th[t] EXCEPT !.pc = "drain", !.todo = {l}])
                    ELSE UNCHANGED th
    /\ UNCHANGED <<proc, live, cacheVars, queueVars>>

RetiredAll(t) ==
    /\ th[t].pc = "retireall" /\ Mapped(th[t].on) = {}
    /\ LET own == th[t].on IN
       IF proc[own] = "execing"
       THEN /\ proc' = [proc EXCEPT ![own] = "alive"]
            /\ live' = live \ (ThreadsOf(own) \ {t})
       ELSE /\ proc' = [proc EXCEPT ![own] = "dead"]
            /\ UNCHANGED live
    /\ IF t = Main THEN Step(t, [th[t] EXCEPT !.pc = "destroy", !.on = None])
                   ELSE Return(t)
    /\ UNCHANGED <<lease, cacheVars, queueVars>>

\* KSystem::destroy has waited until no process has a thread: the thread that
\* was the last of its process may still be cleaning it up.
Shutdown ==
    /\ th[Main].pc = "idle"
    /\ \A t \in Threads : th[t].pc = "idle" \/ proc[Proc[t]] = "ending"
    /\ live' = {}
    /\ Step(Main, [th[Main] EXCEPT !.pc = "destroy"])
    /\ UNCHANGED <<proc, lease, cacheVars, queueVars>>

\* processes.clear() runs the destructor of every process that is left.
Destroy ==
    /\ th[Main].pc = "destroy"
    /\ \/ \E p \in Procs :
            /\ proc[p] = "alive"
            /\ proc' = [proc EXCEPT ![p] = "ending"]
            /\ Step(Main, [th[Main] EXCEPT !.pc = "retry", !.ret = "retireall",
                                           !.on = p])
       \/ /\ \A p \in Procs : proc[p] # "alive"
          /\ Step(Main, [th[Main] EXCEPT !.pc = "retry", !.ret = "abandon"])
          /\ UNCHANGED proc
    /\ UNCHANGED <<live, lease, cacheVars, queueVars>>

Abandon ==
    /\ th[Main].pc = "abandon"
    /\ IF inProgress = None
       THEN pending' = <<>> /\ abandoned' = Range(pending)
       ELSE UNCHANGED <<pending, abandoned>>
    /\ Step(Main, [th[Main] EXCEPT !.pc = "stopped"])
    /\ UNCHANGED <<proc, live, lease, cacheVars, inProgress>>

----------------------------------------------------------------------------
(* clone without CLONE_VM.                                                 *)

\* Memory and records of the parent are copied under its locks, and every
\* lease found is reserved.  The child's leases are made but not yet retained.
Clone(t) ==
    /\ Begin(t, "clone")
    /\ \E p \in Procs :
        LET from == Mapped(Proc[t])
            copies == {g \in [from -> Free] : IsInjective(g)}
            copy == CHOOSE g \in copies : TRUE
        IN
        /\ proc[p] = "unborn" /\ copies # {}
        /\ proc' = [proc EXCEPT ![p] = "building"]
        /\ lease' = [l \in Leases |->
             IF l \in from THEN [lease[l] EXCEPT !.reserved = @ + 1]
             ELSE IF l \in Range(copy)
             THEN LET s == CHOOSE s \in from : copy[s] = l IN
                  [Unused EXCEPT !.status = "made", !.shared = lease[s].shared,
                                 !.pieces = lease[s].pieces]
             ELSE lease[l]]
        /\ Step(t, [th[t] EXCEPT !.pc = IF from = {} THEN "release" ELSE "acquire",
                                 !.on = p, !.held = from, !.new = Range(copy)])
    /\ UNCHANGED <<live, cacheVars, queueVars>>

\* Out of memory while the records are copied: only some are reserved.
CloneFails(t) ==
    /\ Begin(t, "clone")
    /\ \E p \in Procs, some \in SUBSET Mapped(Proc[t]) :
        /\ proc[p] = "unborn"
        /\ proc' = [proc EXCEPT ![p] = "failed"]
        /\ lease' = [l \in Leases |->
             IF l \in some THEN [lease[l] EXCEPT !.reserved = @ + 1] ELSE lease[l]]
        /\ Step(t, [th[t] EXCEPT !.pc = "release", !.on = p, !.held = some])
    /\ UNCHANGED <<live, cacheVars, queueVars>>

Made(t) == {l \in th[t].new : lease[l].status = "made"}

\* Everything that can fail has been allocated; one retain after the other,
\* and after the last one the child's table is published.
Acquire(t) ==
    /\ th[t].pc = "acquire" /\ gate = None
    /\ \E l \in Made(t) :
        IF Made(t) = {l}
        THEN /\ lease' = [k \in Leases |->
                   IF k \notin th[t].new THEN lease[k]
                   ELSE [lease[k] EXCEPT !.status = "retained", !.holder = th[t].on]]
             /\ Step(t, [th[t] EXCEPT !.pc = "release", !.new = {}])
        ELSE /\ lease' = [lease EXCEPT ![l].status = "retained"]
             /\ UNCHANGED th
    /\ count' = count + 1
    /\ UNCHANGED <<proc, live, writeFile, mem, disk, gate, snap, failures,
                   queueVars>>

\* Out of memory before the first retain.
AcquireFails(t) ==
    /\ th[t].pc = "acquire" /\ Made(t) = th[t].new
    /\ lease' = [l \in Leases |-> IF l \in th[t].new THEN Unused ELSE lease[l]]
    /\ proc' = [proc EXCEPT ![th[t].on] = "failed"]
    /\ Step(t, [th[t] EXCEPT !.pc = "release", !.new = {}])
    /\ UNCHANGED <<live, cacheVars, queueVars>>

\* ~ReservationGuard: whoever releases the last reservation tries the queue.
Release(t) ==
    /\ th[t].pc = "release"
    /\ \E l \in th[t].held :
        /\ lease' = [lease EXCEPT ![l].reserved = @ - 1]
        /\ Step(t, [th[t] EXCEPT
                      !.held = th[t].held \ {l}, !.ret = "release",
                      !.pc = IF lease[l].reserved = 1 THEN "retry" ELSE "release"])
    /\ UNCHANGED <<proc, live, cacheVars, queueVars>>

Publish(t) ==
    /\ th[t].pc = "release" /\ th[t].held = {}
    /\ proc[th[t].on] = "building"
    /\ proc' = [proc EXCEPT ![th[t].on] = "alive"]
    /\ live' = live \cup ThreadsOf(th[t].on)
    /\ Return(t)
    /\ UNCHANGED <<lease, cacheVars, queueVars>>

\* The clone failed, now or before: the child is destroyed.
Discard(t) ==
    /\ th[t].pc = "release" /\ th[t].held = {}
    /\ proc' = [proc EXCEPT ![th[t].on] = "failed"]
    /\ Step(t, [th[t] EXCEPT !.pc = "retry", !.ret = "retireall"])
    /\ UNCHANGED <<live, lease, cacheVars, queueVars>>

----------------------------------------------------------------------------

Begins(t) == \/ Store(t) \/ Pwrite(t) \/ Msync(t) \/ Mmap(t) \/ Unmap(t)
             \/ MmapAnonymous(t) \/ Exec(t) \/ Exit(t) \/ Clone(t) \/ CloneFails(t)

Continues(t) ==
    \/ Retire(t) \/ Prepare(t) \/ PrepareFails(t) \/ Write(t) \/ WriteFails(t)
    \/ Queue(t) \/ Retry(t) \/ Attempted(t)
    \/ Retain(t) \/ Commit(t) \/ CommitFails(t) \/ UnmapLocked(t) \/ Drain(t)
    \/ RetireAll(t) \/ RetiredAll(t)
    \/ Acquire(t) \/ AcquireFails(t) \/ Release(t) \/ Publish(t) \/ Discard(t)

Next == \/ \E t \in Threads : Begins(t) \/ Continues(t)
        \/ Shutdown \/ Destroy \/ Abandon \/ Continues(Main)

Spec == /\ Init /\ [][Next]_vars
        /\ \A t \in Threads : WF_vars(Continues(t))
        /\ WF_vars(Destroy \/ Abandon \/ Continues(Main))

----------------------------------------------------------------------------

Codes == {"idle", "gate", "io", "queue", "retry", "attempted", "retire", "retain",
          "commit", "unmap", "drain", "retireall", "destroy", "abandon",
          "stopped", "acquire", "release"}

Errors == {"none", "EAGAIN", "ENOMEM", "EIO"}

Frame == [pc : Codes, cur : Leases \cup {None}, todo : SUBSET Leases, ret : Codes,
          on : Procs \cup {None}, held : SUBSET Leases, new : SUBSET Leases,
          err : Errors]

Lease == [status : {"free", "made", "retained", "retired"}, shared : BOOLEAN,
          holder : Procs \cup {None}, pieces : 0 .. MaxPieces,
          reserved : 0 .. Cardinality(Threads), error : Errors]

\* Every variable has its type; the counts never go below zero.
TypeOK ==
    /\ proc \in [Procs -> {"unborn", "building", "failed", "alive", "execing",
                           "ending", "dead"}]
    /\ live \subseteq Threads
    /\ lease \in [Leases -> Lease]
    /\ count \in 0 .. Cardinality(Leases)
    /\ writeFile \in BOOLEAN
    /\ mem \in 0 .. MaxWrites /\ disk \in 0 .. MaxWrites
    /\ gate \in Threads \cup {Main, None}
    /\ snap \in (0 .. MaxWrites) \cup {None}
    /\ failures \in 0 .. MaxFailures
    /\ pending \in Seq(Leases)
    /\ inProgress \in Threads \cup {Main, None}
    /\ abandoned \subseteq Leases
    /\ th \in [Threads \cup {Main} -> Frame]

\* mappingLeaseCount counts the leases that are retained and not yet retired,
\* and the lease of every record in a process's table is one of them: none is
\* retired twice, by a drain and the queue or by two attempts, or with the first
\* of the records it was split into, and a failed writeback keeps its lease.
LeasesCounted ==
    /\ count = Cardinality({l \in Leases : lease[l].status = "retained"})
    /\ \A l \in Leases : lease[l].holder # None =>
           lease[l].status = "retained" /\ lease[l].pieces > 0

\* When the last lease of the cache is gone every store made through a mapping
\* is in the file: the cache may be dropped and nothing is lost.
NothingUnwritten == count = 0 => disk = mem

\* A lease a clone has reserved is not retired before the clone lets go of it
\* ("Reservations prevent final source retirement"): the cache stays accounted
\* for until the child has leases of its own.
ReservedStays ==
    \A t \in Threads, l \in Leases :
        l \in th[t].held => lease[l].status = "retained"

\* A lease without records is retired, queued or in the hands of a thread that
\* will retire it, except what shutdown gave up: none is forgotten with its
\* bytes unwritten.
NoneForgotten ==
    \A l \in Leases : lease[l].status = "retained" /\ lease[l].holder = None =>
        \/ l \in Range(pending) \cup abandoned
        \/ \E t \in Threads \cup {Main} :
             l \in {th[t].cur} \cup th[t].todo \cup th[t].new

\* The file never goes back to an older version of the byte: the bytes a
\* retirement or an msync has copied are not written over a later write(2).
DiskMovesForward == [][disk' >= disk]_disk

\* Shutdown ends: the threads that still clean up give the gate back, a
\* retirement that fails again is given up, and neither it nor one that another
\* thread is trying keeps KSystem::destroy in the retry loop.
ShutdownEnds == th[Main].pc # "idle" ~> th[Main].pc = "stopped"

\* The queue's head is not left deferred for a reservation that has been
\* released: "Close the enqueue/release race for clone reservations"
\* (kprocess.cpp).
NoneStranded ==
    (\A t \in Threads : th[t].pc = "idle") /\ pending # <<>> =>
        LET l == lease[Head(pending)] IN l.error = "EAGAIN" => l.reserved > 0
=============================================================================
