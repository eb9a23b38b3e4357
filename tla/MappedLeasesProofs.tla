------------------------- MODULE MappedLeasesProofs -------------------------
(***************************************************************************)
(* Proofs about MappedLeases, for any processes, threads, leases and       *)
(* bounds.                                                                 *)
(*                                                                         *)
(* The properties speak of counts and of bytes, and the argument is about  *)
(* custody: a lease that is not free is in one place only, the table of a  *)
(* process, the hands of one thread (about to be retained, about to be put *)
(* into the table, on its way out), the queue, or what shutdown abandoned. *)
(* A thread that passes by the queue and tries its head again does so in   *)
(* the middle of another call, and takes no custody: its own place is the  *)
(* one it returns to (Phase).  Since nobody else can retire the lease that *)
(* a thread has in its hands, the count goes down once per lease, the last *)
(* lease is the one whose writeback carries the bytes, and no store can    *)
(* come between the copy and the file.                                     *)
(***************************************************************************)
EXTENDS MappedLeases, FiniteSetTheorems, TLAPS

\* The threads of the model: those of the guest and the host thread of KSystem.
All == Threads \cup {Main}

\* Where the queue's retry loop returns to.
Returns == {"drain", "unmap", "retireall", "release", "abandon"}

\* Where a thread is in its call, the queue's retry loop put aside.
Phase(t) == IF th[t].pc = "retry" \/ inProgress = t THEN th[t].ret ELSE th[t].pc

\* What a thread's frame holds, by where it is.
ShapeOK(t) ==
    /\ th[t].pc = "idle" => th[t] = Idle
    /\ th[t].pc = "retry" \/ inProgress = t => th[t].ret \in Returns
    /\ th[t].pc \in {"retain", "commit", "retire", "queue", "attempted"} =>
          th[t].cur # None
    /\ th[t].pc \in {"gate", "io"} /\ th[t].cur = None =>
          th[t] = [Idle EXCEPT !.pc = th[t].pc]
    /\ inProgress = t =>
          /\ th[t].pc \in {"retire", "gate", "io", "attempted"}
          /\ pending # <<>> /\ th[t].cur = Head(pending)
    /\ th[t].pc = "attempted" => inProgress = t
    /\ th[t].pc = "io" <=> gate = t
    /\ th[t].todo # {} => Phase(t) \in {"drain", "retire", "gate", "io", "queue"}
    /\ Phase(t) \in {"retire", "gate", "io", "queue"} => th[t].cur \notin th[t].todo
    /\ th[t].held # {} => Phase(t) \in {"acquire", "release"}
    /\ th[t].new # {} => th[t].pc = "acquire"
    /\ Phase(t) \in {"retireall", "acquire", "release"} => th[t].on # None
    /\ t = Main => /\ th[t].pc \notin {"retain", "commit", "unmap", "acquire", "release"}
                   /\ th[t].ret \notin {"unmap", "release"}

\* ... for every thread.
ShapeInv == \A t \in All : ShapeOK(t)

\* The queue holds a lease once, and only shutdown abandons any.
QueueInv ==
    /\ \A i, j \in DOMAIN pending : pending[i] = pending[j] => i = j
    /\ th[Main].pc # "stopped" => abandoned = {}

\* Where lease l is, in the hands of thread t.
Making(t, l) == Phase(t) = "retain" /\ th[t].cur = l
Placing(t, l) == Phase(t) = "commit" /\ th[t].cur = l
Going(t, l) ==
    \/ Phase(t) \in {"retire", "gate", "io", "queue"} /\ th[t].cur = l
    \/ l \in th[t].todo
\* Thread t is the one that must bring lease l to its next place.
Has(t, l) == Making(t, l) \/ Placing(t, l) \/ Going(t, l) \/ l \in th[t].new
\* ... or given up by the queue's attempt, which has yet to take it off the queue.
Done(t, l) == th[t].pc = "attempted" /\ th[t].err = "none" /\ th[t].cur = l
Writing(t, l) == th[t].pc \in {"gate", "io"} /\ th[t].cur = l
Queued(l) == l \in Range(pending)

\* A lease is in one place only, and a retained one is in some place.
PlaceOK(l) ==
    /\ \A t, u \in All : Has(t, l) /\ Has(u, l) => t = u
    /\ \A t \in All : Has(t, l) => ~Queued(l) /\ l \notin abandoned
    /\ Queued(l) => l \notin abandoned
    /\ lease[l].holder # None => ~Queued(l) /\ l \notin abandoned /\ \A t \in All : ~Has(t, l)
    /\ lease[l].status = "retained" /\ lease[l].holder = None =>
          Queued(l) \/ l \in abandoned \/ \E t \in All : Has(t, l)

\* What its place says of its status, of its records and of the descriptor that a
\* shared one needs.
StatusOK(l) ==
    /\ lease[l].holder # None => lease[l].status = "retained" /\ lease[l].pieces > 0
    /\ \A t \in All :
          /\ Making(t, l) => lease[l].status = "made" /\ lease[l].pieces > 0
          /\ Placing(t, l) => lease[l].status = "retained" /\ lease[l].pieces > 0
          /\ Going(t, l) => lease[l].status = "retained"
          /\ l \in th[t].new => lease[l].status \in {"made", "retained"} /\ lease[l].pieces > 0
          /\ Done(t, l) => lease[l].status = "retired"
    /\ l \in abandoned => lease[l].status = "retained"
    /\ Queued(l) => lease[l].status = "retained" \/ \E t \in All : Done(t, l)
    /\ lease[l].status \in {"made", "retained"} /\ lease[l].shared => writeFile

\* A lease counts the clones that reserved it, and while there is one it is neither
\* retired nor being written back.
ReserveOK(l) ==
    /\ lease[l].reserved = Cardinality({t \in Threads : l \in th[t].held})
    /\ \A t \in Threads : l \in th[t].held =>
          lease[l].status = "retained" /\ \A u \in All : ~Writing(u, l)

\* ... for every lease.
LeaseInv == \A l \in Leases : PlaceOK(l) /\ StatusOK(l) /\ ReserveOK(l)

\* mappingLeaseCount counts the retained leases.
CountInv == count = Cardinality({l \in Leases : lease[l].status = "retained"})

\* The file is never ahead of the cache; they agree when there is no lease or no
\* descriptor; and what a retirement prepared under the gate is still all there is to
\* write, because its lease is the last one and nobody can store without one.
DataInv ==
    /\ disk <= mem
    /\ snap # None => gate # None /\ writeFile /\ disk <= snap /\ snap <= mem
    /\ count = 0 \/ ~writeFile => disk = mem
    /\ \A t \in All : th[t].pc = "io" /\ th[t].cur # None =>
          IF snap = None THEN count > 1 \/ ~writeFile ELSE count = 1 /\ snap = mem

\* The inductive invariant.
IInv == TypeOK /\ ShapeInv /\ QueueInv /\ LeaseInv /\ CountInv /\ DataInv
----------------------------------------------------------------------------
(* Facts about the constants, the frames and the queue.                     *)

\* What the configuration says, in the form in which it is used.
LEMMA ConstantFacts ==
    ASSUME Configuration
    PROVE  /\ Main \notin Threads /\ None \notin All /\ None \notin Leases /\ None \notin Procs
           /\ \A t \in Threads : Proc[t] \in Procs
           /\ IsFiniteSet(Threads) /\ IsFiniteSet(Leases)
           /\ \A n \in 0 .. MaxWrites : n # None
  BY DEF Configuration, All

\* An idle thread's frame is a frame.
LEMMA IdleTyped == Idle \in Frame
  BY DEF Idle, Frame, Codes, Errors

\* The fields of a frame and of a lease.
LEMMA FrameFields ==
    ASSUME TypeOK, NEW t \in All
    PROVE  /\ th[t] \in Frame
           /\ th[t].pc \in Codes /\ th[t].cur \in Leases \cup {None} /\ th[t].todo \subseteq Leases
           /\ th[t].ret \in Codes /\ th[t].on \in Procs \cup {None} /\ th[t].held \subseteq Leases
           /\ th[t].new \subseteq Leases /\ th[t].err \in Errors
  BY DEF TypeOK, Frame, All

\* ... and of a lease.
LEMMA LeaseFields ==
    ASSUME TypeOK, NEW l \in Leases
    PROVE  /\ lease[l] \in Lease
           /\ lease[l].status \in {"free", "made", "retained", "retired"}
           /\ lease[l].shared \in BOOLEAN /\ lease[l].holder \in Procs \cup {None}
           /\ lease[l].pieces \in 0 .. MaxPieces /\ lease[l].pieces \in Nat
           /\ lease[l].reserved \in 0 .. Cardinality(Threads)
           /\ lease[l].error \in Errors
  BY DEF TypeOK, Lease

\* What a step leaves alone of the other threads.
Others(t) ==
    \A u \in All : u # t => th'[u] = th[u] /\ (inProgress' = u <=> inProgress = u)

\* A thread's frame is replaced.
LEMMA StepFrame ==
    ASSUME TypeOK, NEW t \in All, NEW r \in Frame, Step(t, r)
    PROVE  /\ th' \in [Threads \cup {Main} -> Frame] /\ th'[t] = r
           /\ \A u \in All : u # t => th'[u] = th[u]
  BY DEF TypeOK, Step, All

\* The roles of the other threads stay.
LEMMA OtherRoles ==
    ASSUME NEW t \in All, Others(t), NEW u \in All, u # t, NEW l \in Leases
    PROVE  /\ Making(u, l)' <=> Making(u, l)
           /\ Placing(u, l)' <=> Placing(u, l)
           /\ Going(u, l)' <=> Going(u, l)
           /\ Has(u, l)' <=> Has(u, l)
           /\ l \in th'[u].new <=> l \in th[u].new
           /\ l \in th'[u].held <=> l \in th[u].held
           /\ Done(u, l)' <=> Done(u, l)
           /\ Writing(u, l)' <=> Writing(u, l)
  <1>1. th'[u] = th[u] /\ (inProgress' = u <=> inProgress = u)
    BY DEF Others
  <1>2. Phase(u)' = Phase(u)
    BY <1>1 DEF Phase
  <1> QED
    BY <1>1, <1>2 DEF Making, Placing, Going, Has, Done, Writing

----------------------------------------------------------------------------
(* What a step that touches nothing but one thread's frame keeps.           *)

\* What thread t does with lease l is what it did before the step.
SameRoles(t, l) ==
    /\ Making(t, l)' <=> Making(t, l)
    /\ Placing(t, l)' <=> Placing(t, l)
    /\ Going(t, l)' <=> Going(t, l)
    /\ l \in th'[t].new <=> l \in th[t].new
    /\ l \in th'[t].held <=> l \in th[t].held
    /\ Done(t, l)' <=> Done(t, l)
    /\ Writing(t, l)' => Writing(t, l) \/ \A u \in Threads : l \notin th[u].held

\* The step leaves the fields of lease l that the invariant is about.
SameLease(l) ==
    /\ lease'[l].status = lease[l].status /\ lease'[l].holder = lease[l].holder
    /\ lease'[l].pieces = lease[l].pieces /\ lease'[l].shared = lease[l].shared
    /\ lease'[l].reserved = lease[l].reserved

\* The step neither queues nor abandons lease l, nor takes it off the queue.
SamePlace(l) ==
    /\ Queued(l)' <=> Queued(l)
    /\ l \in abandoned' <=> l \in abandoned

\* A lease that a step neither changes nor moves stays in order.
LEMMA LeaseKept ==
    ASSUME NEW t \in All, Others(t), NEW l \in Leases,
           PlaceOK(l), StatusOK(l), ReserveOK(l),
           SameLease(l), SameRoles(t, l), SamePlace(l),
           lease[l].status \in {"made",
              "retained"} /\ lease[l].shared /\ writeFile => writeFile'
    PROVE  PlaceOK(l)' /\ StatusOK(l)' /\ ReserveOK(l)'
  <1>1. \A u \in All : /\ Making(u, l)' <=> Making(u, l)
                       /\ Placing(u, l)' <=> Placing(u, l)
                       /\ Going(u, l)' <=> Going(u, l)
                       /\ l \in th'[u].new <=> l \in th[u].new
                       /\ l \in th'[u].held <=> l \in th[u].held
                       /\ Done(u, l)' <=> Done(u, l)
                       /\ Writing(u, l)' =>
                            Writing(u, l) \/ \A v \in Threads : l \notin th[v].held
    BY OtherRoles DEF SameRoles
  <1>2. \A u \in All : Has(u, l)' <=> Has(u, l)
    BY <1>1 DEF Has
  <1>3. PlaceOK(l)'
    BY <1>2 DEF PlaceOK, SameLease, SamePlace
  <1>4. StatusOK(l)'
    BY <1>1 DEF StatusOK, SameLease, SamePlace
  <1>5. {u \in Threads : l \in th'[u].held} = {u \in Threads : l \in th[u].held}
    BY <1>1 DEF All
  <1>6. ReserveOK(l)'
    BY <1>1, <1>5 DEF ReserveOK, SameLease, All
  <1> QED
    BY <1>3, <1>4, <1>6

\* The shape of the other threads' frames stays.
LEMMA ShapeOthers ==
    ASSUME ShapeInv, NEW t \in All, Others(t), ShapeOK(t)',
           \A u \in All : u # t => (gate' = u <=> gate = u),
           \A u \in All : u # t /\ inProgress = u => pending' # <<>> /\ Head(pending') = Head(pending)
    PROVE  ShapeInv'
  <1> SUFFICES ASSUME NEW u \in All, u # t PROVE ShapeOK(u)'
    BY DEF ShapeInv
  <1>1. th'[u] = th[u] /\ (inProgress' = u <=> inProgress = u)
    BY DEF Others
  <1>2. Phase(u)' = Phase(u)
    BY <1>1 DEF Phase
  <1>3. ShapeOK(u)
    BY DEF ShapeInv
  <1> QED
    BY <1>1, <1>2, <1>3 DEF ShapeOK

\* What is known of the bytes stays when the cache does.
LEMMA DataFrame ==
    ASSUME DataInv, NEW t \in All, Others(t),
           UNCHANGED <<count, writeFile, mem, disk, gate, snap>>,
           th'[t].pc = "io" => th[t].pc = "io" /\ th'[t].cur = th[t].cur
    PROVE  DataInv'
  BY DEF DataInv, Others

\* A step that moves one thread and touches neither leases nor the queue.
LEMMA Quiet ==
    ASSUME IInv, NEW t \in All, Others(t), TypeOK', ShapeOK(t)', DataInv',
           \A u \in All : u # t => (gate' = u <=> gate = u),
           th[t].pc # "stopped",
           \A l \in Leases : SameLease(l) /\ SameRoles(t, l),
           UNCHANGED <<pending, abandoned, count, writeFile>>
    PROVE  IInv'
  <1>0. \A u \in All : u # t /\ inProgress = u => pending' # <<>> /\ Head(pending') = Head(pending)
    BY DEF IInv, ShapeInv, ShapeOK
  <1>1. ShapeInv'
    BY <1>0, ShapeOthers DEF IInv
  <1>2. QueueInv'
    BY DEF IInv, QueueInv, Others, All
  <1>3. \A l \in Leases : PlaceOK(l) /\ StatusOK(l) /\ ReserveOK(l) /\ SamePlace(l)
    BY DEF IInv, LeaseInv, SamePlace, Queued
  <1>4. LeaseInv'
    BY <1>3, LeaseKept DEF LeaseInv
  <1>5. CountInv'
    BY DEF IInv, CountInv, SameLease
  <1> QED
    BY <1>1, <1>2, <1>4, <1>5 DEF IInv

----------------------------------------------------------------------------
(* The moves: steps that leave the leases, the cache and the queue alone.   *)

\* The frame of a thread that is not in a call.
LEMMA IdleFacts ==
    ASSUME IInv, NEW t \in All, th[t].pc = "idle"
    PROVE  th[t] = Idle /\ inProgress # t /\ gate # t
  BY DEF IInv, ShapeInv, ShapeOK

\* A thread that has marked the queue works on its head.
LEMMA HeadQueued ==
    ASSUME IInv, NEW t \in All, inProgress = t
    PROVE  /\ th[t].cur \in Leases /\ Queued(th[t].cur) /\ pending # <<>>
           /\ th[t].cur = Head(pending)
  <1>1. pending # <<>> /\ th[t].cur = Head(pending) /\ pending \in Seq(Leases)
    BY DEF IInv, ShapeInv, ShapeOK, TypeOK
  <1>2. 1 \in DOMAIN pending /\ pending[1] = th[t].cur
    BY <1>1
  <1>3. th[t].cur \in Leases
    BY <1>1, <1>2
  <1>4. Queued(th[t].cur)
    BY <1>2 DEF Queued, Range
  <1> QED
    BY <1>1, <1>3, <1>4

\* The lease being retired is retained, and no process has it.
LEMMA CurRetained ==
    ASSUME Configuration, IInv, NEW t \in All, th[t].cur # None,
           th[t].pc \in {"retire", "gate", "io", "queue"}
    PROVE  /\ th[t].cur \in Leases /\ lease[th[t].cur].status = "retained"
           /\ lease[th[t].cur].holder = None /\ count >= 1
  <1>1. th[t].cur \in Leases
    BY FrameFields DEF IInv
  <1> DEFINE l == th[t].cur
  <1>2. PlaceOK(l) /\ StatusOK(l)
    BY <1>1 DEF IInv, LeaseInv
  <1>5. lease[l].status = "retained" /\ lease[l].holder = None
    <2>1. CASE inProgress = t
      <3>1. Queued(l)
        BY <2>1, HeadQueued
      <3>2. \A u \in All : Done(u, l) => u = t
        BY <2>1 DEF IInv, ShapeInv, ShapeOK, Done
      <3>3. lease[l].status = "retained"
        BY <1>2, <3>1, <3>2 DEF StatusOK, Done
      <3> QED
        BY <1>2, <3>1, <3>3 DEF PlaceOK
    <2>2. CASE inProgress # t
      <3>1. Going(t, l)
        BY <2>2 DEF Going, Phase
      <3> QED
        BY <1>2, <3>1 DEF PlaceOK, StatusOK, Has
    <2> QED
      BY <2>1, <2>2
  <1> DEFINE R == {k \in Leases : lease[k].status = "retained"}
  <1>6. IsFiniteSet(R) /\ l \in R
    BY <1>1, <1>5, ConstantFacts, FS_Subset
  <1>7. Cardinality(R) \in Nat /\ Cardinality(R) # 0
    BY <1>6, FS_CardinalityType, FS_EmptySet
  <1> QED
    BY <1>1, <1>5, <1>7 DEF IInv, CountInv

\* A thread's frame is replaced, and the mark on the queue is at most its own.
LEMMA Moved ==
    ASSUME Configuration, TypeOK, NEW t \in All, NEW r \in Frame, Step(t, r),
           inProgress' = inProgress \/ {inProgress, inProgress'} \subseteq {None, t}
    PROVE  /\ th' \in [Threads \cup {Main} -> Frame] /\ th'[t] = r
           /\ Others(t)
  <1>1. None \notin All
    BY ConstantFacts
  <1> QED
    BY <1>1, StepFrame DEF Others

\* A thread moves and nothing else of what the invariant speaks of changes.
LEMMA MoveKeeps ==
    ASSUME Configuration, IInv, NEW t \in All, Others(t), ShapeOK(t)',
           th' \in [Threads \cup {Main} -> Frame],
           UNCHANGED <<lease, cacheVars, queueVars>>,
           proc' \in [Procs -> {"unborn", "building", "failed", "alive", "execing",
                                "ending", "dead"}],
           live' \subseteq Threads,
           th[t].pc # "stopped", th'[t].pc = "io" => th[t].pc = "io" /\ th'[t].cur = th[t].cur,
           \A l \in Leases : SameRoles(t, l)
    PROVE  IInv'
  <1>0. UNCHANGED <<lease, count, writeFile, mem, disk, gate, snap, failures, pending,
                    inProgress, abandoned>>
    BY DEF cacheVars, queueVars
  <1>1. TypeOK'
    BY <1>0 DEF IInv, TypeOK
  <1>2. DataInv'
    BY <1>0, DataFrame DEF IInv
  <1>3. \A l \in Leases : SameLease(l)
    BY <1>0 DEF SameLease
  <1> QED
    BY <1>0, <1>1, <1>2, <1>3, Quiet

\* A thread that has no lease in its hands, before and after.
LEMMA BareMove ==
    ASSUME Configuration, IInv, NEW t \in All, NEW r \in Frame, Step(t, r),
           UNCHANGED <<lease, cacheVars, queueVars>>,
           proc' \in [Procs -> {"unborn", "building", "failed", "alive", "execing",
                                "ending", "dead"}],
           live' \subseteq Threads,
           th[t].pc \in {"idle", "retireall", "destroy", "release"},
           th[t].pc = "release" => th[t].held = {},
           r.todo = {}, r.held = {}, r.new = {},
           r.pc \in {"idle", "gate", "retry", "unmap", "destroy"},
           r.pc = "idle" => r = Idle,
           r.pc = "gate" => r = [Idle EXCEPT !.pc = "gate"],
           r.pc = "retry" => r.ret \in {"unmap", "retireall", "abandon"},
           r.pc = "retry" /\ r.ret = "retireall" => r.on # None,
           t = Main => r.pc # "unmap" /\ r.ret \notin {"unmap", "release"}
    PROVE  IInv'
  <1>0. ShapeOK(t) /\ TypeOK
    BY DEF IInv, ShapeInv
  <1>1. inProgress # t /\ gate # t /\ Phase(t) = th[t].pc
    BY <1>0 DEF ShapeOK, Phase
  <1>2. th[t].todo = {} /\ th[t].held = {} /\ th[t].new = {}
    BY <1>0, <1>1 DEF ShapeOK
  <1>3. UNCHANGED <<inProgress, gate, pending>>
    BY DEF queueVars, cacheVars
  <1>4. Others(t) /\ th' \in [Threads \cup {Main} -> Frame] /\ th'[t] = r
    BY <1>0, <1>3, Moved
  <1>5. Phase(t)' = IF r.pc = "retry" THEN r.ret ELSE r.pc
    BY <1>1, <1>3, <1>4 DEF Phase
  <1>6. r.pc = "gate" => r.cur = None
    BY DEF Idle
  <1>7. ShapeOK(t)'
    BY <1>1, <1>3, <1>4, <1>5, <1>6 DEF ShapeOK, Returns
  <1>8. \A l \in Leases : SameRoles(t, l)
    BY <1>1, <1>2, <1>4, <1>5, <1>6, ConstantFacts
    DEF SameRoles, Making, Placing, Going, Done, Writing
  <1> QED
    BY <1>4, <1>7, <1>8, MoveKeeps

\* msync goes for the gate with no lease.
LEMMA MsyncKeeps ==
    ASSUME Configuration, IInv, NEW t \in Threads, Msync(t)
    PROVE  IInv'
  <1> DEFINE r == [th[t] EXCEPT !.pc = "gate"]
  <1>0. t \in All /\ TypeOK /\ t # Main /\ Proc[t] \in Procs /\ Proc[t] # None
    BY ConstantFacts DEF All, IInv
  <1>1. th[t] = Idle /\ th[t] \in Frame
    BY <1>0, IdleFacts, FrameFields DEF Msync, Begin
  <1>2. r \in Frame
    BY <1>0, <1>1 DEF Frame, Codes
  <1>3. /\ r.todo = {} /\ r.held = {} /\ r.new = {} /\ th[t].pc = "idle"
        /\ r.pc = "gate" /\ r = [Idle EXCEPT !.pc = "gate"] /\ r.ret = "idle"
    BY <1>0, <1>1 DEF Idle
  <1>4. Step(t, r) /\ UNCHANGED <<lease, cacheVars, queueVars>>
    BY DEF Msync
  <1>5. /\ proc' \in [Procs -> {"unborn", "building", "failed", "alive", "execing", "ending",
             "dead"}]
        /\ live' \subseteq Threads
    BY <1>0 DEF Msync, TypeOK
  <1> QED
    BY <1>0, <1>2, <1>3, <1>4, <1>5, BareMove

\* unmap begins.
LEMMA UnmapKeeps ==
    ASSUME Configuration, IInv, NEW t \in Threads, Unmap(t)
    PROVE  IInv'
  <1> DEFINE r == [th[t] EXCEPT !.pc = "retry", !.ret = "unmap"]
  <1>0. t \in All /\ TypeOK /\ t # Main /\ Proc[t] \in Procs /\ Proc[t] # None
    BY ConstantFacts DEF All, IInv
  <1>1. th[t] = Idle /\ th[t] \in Frame
    BY <1>0, IdleFacts, FrameFields DEF Unmap, Begin
  <1>2. r \in Frame
    BY <1>0, <1>1 DEF Frame, Codes
  <1>3. /\ r.todo = {} /\ r.held = {} /\ r.new = {} /\ th[t].pc = "idle"
        /\ r.pc = "retry" /\ r.ret = "unmap"
    BY <1>0, <1>1 DEF Idle
  <1>4. Step(t, r) /\ UNCHANGED <<lease, cacheVars, queueVars>>
    BY DEF Unmap
  <1>5. /\ proc' \in [Procs -> {"unborn", "building", "failed", "alive", "execing", "ending",
             "dead"}]
        /\ live' \subseteq Threads
    BY <1>0 DEF Unmap, TypeOK
  <1> QED
    BY <1>0, <1>2, <1>3, <1>4, <1>5, BareMove

\* An anonymous mapping over a file mapping begins.
LEMMA MmapAnonymousKeeps ==
    ASSUME Configuration, IInv, NEW t \in Threads, MmapAnonymous(t)
    PROVE  IInv'
  <1> DEFINE r == [th[t] EXCEPT !.pc = "unmap"]
  <1>0. t \in All /\ TypeOK /\ t # Main /\ Proc[t] \in Procs /\ Proc[t] # None
    BY ConstantFacts DEF All, IInv
  <1>1. th[t] = Idle /\ th[t] \in Frame
    BY <1>0, IdleFacts, FrameFields DEF MmapAnonymous, Begin
  <1>2. r \in Frame
    BY <1>0, <1>1 DEF Frame, Codes
  <1>3. /\ r.todo = {} /\ r.held = {} /\ r.new = {} /\ th[t].pc = "idle"
        /\ r.pc = "unmap" /\ r.ret = "idle"
    BY <1>0, <1>1 DEF Idle
  <1>4. Step(t, r) /\ UNCHANGED <<lease, cacheVars, queueVars>>
    BY DEF MmapAnonymous
  <1>5. /\ proc' \in [Procs -> {"unborn", "building", "failed", "alive", "execing", "ending",
             "dead"}]
        /\ live' \subseteq Threads
    BY <1>0 DEF MmapAnonymous, TypeOK
  <1> QED
    BY <1>0, <1>2, <1>3, <1>4, <1>5, BareMove

\* execve begins, and with it the retirement of all mappings.
LEMMA ExecKeeps ==
    ASSUME Configuration, IInv, NEW t \in Threads, Exec(t)
    PROVE  IInv'
  <1> DEFINE r == [th[t] EXCEPT !.pc = "retry", !.ret = "retireall", !.on = Proc[t]]
  <1>0. t \in All /\ TypeOK /\ t # Main /\ Proc[t] \in Procs /\ Proc[t] # None
    BY ConstantFacts DEF All, IInv
  <1>1. th[t] = Idle /\ th[t] \in Frame
    BY <1>0, IdleFacts, FrameFields DEF Exec, Begin
  <1>2. r \in Frame
    BY <1>0, <1>1 DEF Frame, Codes
  <1>3. /\ r.todo = {} /\ r.held = {} /\ r.new = {} /\ th[t].pc = "idle"
        /\ r.pc = "retry" /\ r.ret = "retireall" /\ r.on # None
    BY <1>0, <1>1 DEF Idle
  <1>4. Step(t, r) /\ UNCHANGED <<lease, cacheVars, queueVars>>
    BY DEF Exec
  <1>5. /\ proc' \in [Procs -> {"unborn", "building", "failed", "alive", "execing", "ending",
             "dead"}]
        /\ live' \subseteq Threads
    BY <1>0 DEF Exec, TypeOK
  <1> QED
    BY <1>0, <1>2, <1>3, <1>4, <1>5, BareMove

\* A process begins to exit.
LEMMA ExitKeeps ==
    ASSUME Configuration, IInv, NEW t \in Threads, Exit(t)
    PROVE  IInv'
  <1> DEFINE r == [th[t] EXCEPT !.pc = "retry", !.ret = "retireall", !.on = Proc[t]]
  <1>0. t \in All /\ TypeOK /\ t # Main /\ Proc[t] \in Procs /\ Proc[t] # None
    BY ConstantFacts DEF All, IInv
  <1>1. th[t] = Idle /\ th[t] \in Frame
    BY <1>0, IdleFacts, FrameFields DEF Exit, Begin
  <1>2. r \in Frame
    BY <1>0, <1>1 DEF Frame, Codes
  <1>3. /\ r.todo = {} /\ r.held = {} /\ r.new = {} /\ th[t].pc = "idle"
        /\ r.pc = "retry" /\ r.ret = "retireall" /\ r.on # None
    BY <1>0, <1>1 DEF Idle
  <1>4. Step(t, r) /\ UNCHANGED <<lease, cacheVars, queueVars>>
    BY DEF Exit
  <1>5. /\ proc' \in [Procs -> {"unborn", "building", "failed", "alive", "execing", "ending",
             "dead"}]
        /\ live' \subseteq Threads
    BY <1>0 DEF Exit, TypeOK
  <1> QED
    BY <1>0, <1>2, <1>3, <1>4, <1>5, BareMove

\* KSystem::destroy begins.
LEMMA ShutdownKeeps ==
    ASSUME Configuration, IInv, Shutdown
    PROVE  IInv'
  <1> DEFINE r == [th[Main] EXCEPT !.pc = "destroy"]
  <1>0. Main \in All /\ TypeOK
    BY DEF All, IInv
  <1>1. th[Main] = Idle /\ th[Main] \in Frame
    BY <1>0, IdleFacts, FrameFields DEF Shutdown
  <1>2. r \in Frame
    BY <1>0, <1>1 DEF Frame, Codes
  <1>3. /\ r.todo = {} /\ r.held = {} /\ r.new = {} /\ th[Main].pc = "idle"
        /\ r.pc = "destroy" /\ r.ret = "idle"
    BY <1>1 DEF Idle
  <1>4. Step(Main, r) /\ UNCHANGED <<proc, lease, cacheVars,
          queueVars>> /\ live' \subseteq Threads
    BY DEF Shutdown
  <1>5. proc' \in [Procs -> {"unborn", "building", "failed", "alive", "execing", "ending",
          "dead"}]
    BY <1>0, <1>4 DEF TypeOK
  <1> QED
    BY <1>0, <1>2, <1>3, <1>4, <1>5, BareMove

\* What the frame of a thread between two leases holds.
LEMMA BetweenFacts ==
    ASSUME IInv, NEW t \in All, th[t].pc \in {"destroy", "retireall", "release", "abandon"}
    PROVE  /\ th[t] \in Frame /\ th[t].todo = {} /\ th[t].new = {}
           /\ th[t].pc # "release" => th[t].held = {}
           /\ th[t].pc \in {"retireall", "release"} => th[t].on \in Procs /\ th[t].on # None
           /\ inProgress # t /\ Phase(t) = th[t].pc
           /\ t = Main => th[t].pc # "release" /\ th[t].ret \notin {"unmap", "release"}
  <1>1. ShapeOK(t) /\ th[t] \in Frame /\ th[t].on \in Procs \cup {None}
    BY FrameFields DEF IInv, ShapeInv
  <1>2. inProgress # t /\ Phase(t) = th[t].pc
    BY <1>1 DEF ShapeOK, Phase
  <1> QED
    BY <1>1, <1>2 DEF ShapeOK

\* KSystem::destroy goes from one process to the next.
LEMMA DestroyKeeps ==
    ASSUME Configuration, IInv, Destroy
    PROVE  IInv'
  <1>0. Main \in All /\ TypeOK /\ UNCHANGED <<live, lease, cacheVars,
          queueVars>> /\ th[Main].pc = "destroy"
    BY DEF All, IInv, Destroy
  <1>1. /\ th[Main] \in Frame /\ th[Main].todo = {} /\ th[Main].new = {} /\ th[Main].held = {}
    BY <1>0, BetweenFacts
  <1>2. CASE \E p \in Procs :
            /\ proc[p] = "alive"
            /\ proc' = [proc EXCEPT ![p] = "ending"]
            /\ Step(Main, [th[Main] EXCEPT !.pc = "retry", !.ret = "retireall", !.on = p])
    <2>1. PICK p \in Procs :
            /\ proc' = [proc EXCEPT ![p] = "ending"]
            /\ Step(Main, [th[Main] EXCEPT !.pc = "retry", !.ret = "retireall", !.on = p])
      BY <1>2
    <2> DEFINE r == [th[Main] EXCEPT !.pc = "retry", !.ret = "retireall", !.on = p]
    <2>2. r \in Frame
      BY <1>1 DEF Frame, Codes
    <2>3. /\ r.todo = {} /\ r.held = {} /\ r.new = {} /\ r.pc = "retry" /\ r.ret = "retireall"
          /\ r.on # None
      BY <1>1, ConstantFacts DEF Frame
    <2>4. /\ proc' \in [Procs -> {"unborn", "building", "failed", "alive", "execing",
               "ending", "dead"}]
          /\ live' \subseteq Threads
      BY <1>0, <2>1 DEF TypeOK
    <2> QED
      BY <1>0, <2>1, <2>2, <2>3, <2>4, BareMove
  <1>3. CASE /\ Step(Main, [th[Main] EXCEPT !.pc = "retry", !.ret = "abandon"])
             /\ UNCHANGED proc
    <2> DEFINE r == [th[Main] EXCEPT !.pc = "retry", !.ret = "abandon"]
    <2>2. r \in Frame
      BY <1>1 DEF Frame, Codes
    <2>3. /\ r.todo = {} /\ r.held = {} /\ r.new = {} /\ r.pc = "retry" /\ r.ret = "abandon"
      BY <1>1 DEF Frame
    <2>4. /\ proc' \in [Procs -> {"unborn", "building", "failed", "alive", "execing",
               "ending", "dead"}]
          /\ live' \subseteq Threads
      BY <1>0, <1>3 DEF TypeOK
    <2> QED
      BY <1>0, <1>3, <2>2, <2>3, <2>4, BareMove
  <1> QED
    BY <1>2, <1>3 DEF Destroy

\* A process has no mapping left.
LEMMA RetiredAllKeeps ==
    ASSUME Configuration, IInv, NEW t \in All, RetiredAll(t)
    PROVE  IInv'
  <1>0. TypeOK /\ UNCHANGED <<lease, cacheVars, queueVars>> /\ th[t].pc = "retireall"
    BY DEF IInv, RetiredAll
  <1>1. /\ th[t] \in Frame /\ th[t].todo = {} /\ th[t].new = {} /\ th[t].held = {}
        /\ t = Main => th[t].ret \notin {"unmap", "release"}
    BY <1>0, BetweenFacts
  <1>2. /\ proc' \in [Procs -> {"unborn", "building", "failed", "alive", "execing", "ending",
             "dead"}]
        /\ live' \subseteq Threads
    BY <1>0 DEF TypeOK, RetiredAll
  <1>3. CASE Return(t)
    <2>1. Idle \in Frame /\ Step(t, Idle)
      BY <1>3, IdleTyped DEF Return
    <2>2. /\ Idle.todo = {} /\ Idle.held = {} /\ Idle.new = {} /\ Idle.pc = "idle"
          /\ Idle.ret = "idle"
      BY DEF Idle
    <2> QED
      BY <1>0, <1>2, <2>1, <2>2, BareMove
  <1>4. CASE Step(t, [th[t] EXCEPT !.pc = "destroy", !.on = None]) /\ t = Main
    <2> DEFINE r == [th[t] EXCEPT !.pc = "destroy", !.on = None]
    <2>1. r \in Frame
      BY <1>1 DEF Frame, Codes
    <2>2. /\ r.todo = {} /\ r.held = {} /\ r.new = {} /\ r.pc = "destroy" /\ r.ret = th[t].ret
      BY <1>1 DEF Frame
    <2> QED
      BY <1>0, <1>1, <1>2, <1>4, <2>1, <2>2, BareMove
  <1> QED
    BY <1>3, <1>4 DEF RetiredAll

\* The child of a clone appears.
LEMMA PublishKeeps ==
    ASSUME Configuration, IInv, NEW t \in All, Publish(t)
    PROVE  IInv'
  <1>0. TypeOK /\ UNCHANGED <<lease, cacheVars,
          queueVars>> /\ th[t].pc = "release" /\ th[t].held = {}
    BY DEF IInv, Publish
  <1>1. /\ proc' \in [Procs -> {"unborn", "building", "failed", "alive", "execing", "ending",
             "dead"}]
        /\ live' \subseteq Threads
    BY <1>0 DEF TypeOK, Publish, ThreadsOf
  <1>2. Idle \in Frame /\ Step(t, Idle)
    BY IdleTyped DEF Return, Publish
  <1>3. /\ Idle.todo = {} /\ Idle.held = {} /\ Idle.new = {} /\ Idle.pc = "idle"
        /\ Idle.ret = "idle"
    BY DEF Idle
  <1> QED
    BY <1>0, <1>1, <1>2, <1>3, BareMove

\* The child of a failed clone is given up.
LEMMA DiscardKeeps ==
    ASSUME Configuration, IInv, NEW t \in All, Discard(t)
    PROVE  IInv'
  <1> DEFINE r == [th[t] EXCEPT !.pc = "retry", !.ret = "retireall"]
  <1>0. /\ TypeOK /\ UNCHANGED <<live, lease, cacheVars, queueVars>> /\ Step(t, r)
        /\ th[t].pc = "release" /\ th[t].held = {}
    BY DEF IInv, Discard
  <1>1. /\ th[t] \in Frame /\ th[t].todo = {} /\ th[t].new = {} /\ th[t].on # None
    BY <1>0, BetweenFacts
  <1>2. /\ proc' \in [Procs -> {"unborn", "building", "failed", "alive", "execing", "ending",
             "dead"}]
        /\ live' \subseteq Threads
    BY <1>0 DEF TypeOK, Discard
  <1>3. r \in Frame
    BY <1>1 DEF Frame, Codes
  <1>4. /\ r.todo = {} /\ r.held = {} /\ r.new = {} /\ r.pc = "retry" /\ r.ret = "retireall"
        /\ r.on # None
    BY <1>0, <1>1 DEF Frame
  <1> QED
    BY <1>0, <1>2, <1>3, <1>4, BareMove

\* A thread that goes on to the next lease it has to retire.
LEMMA DrainKeeps ==
    ASSUME Configuration, IInv, NEW t \in All, Drain(t)
    PROVE  IInv'
  <1>0. TypeOK /\ UNCHANGED <<proc, live, lease, cacheVars, queueVars>> /\ th[t].pc = "drain"
    BY DEF IInv, Drain
  <1>1. ShapeOK(t) /\ th[t] \in Frame /\ th[t].todo \subseteq Leases
    BY <1>0, FrameFields DEF IInv, ShapeInv
  <1>2. inProgress # t /\ gate # t /\ Phase(t) = "drain"
    BY <1>0, <1>1 DEF ShapeOK, Phase
  <1>3. th[t].held = {} /\ th[t].new = {}
    BY <1>0, <1>1, <1>2 DEF ShapeOK
  <1>4. UNCHANGED <<inProgress, gate, pending>>
    BY <1>0 DEF queueVars, cacheVars
  <1>5. /\ proc' \in [Procs -> {"unborn", "building", "failed", "alive", "execing", "ending",
             "dead"}]
        /\ live' \subseteq Threads
    BY <1>0 DEF TypeOK
  <1>6. CASE \E l \in th[t].todo :
             Step(t, [th[t] EXCEPT !.pc = "retire", !.cur = l, !.todo = th[t].todo \ {l}])
    <2>1. PICK l \in th[t].todo :
             Step(t, [th[t] EXCEPT !.pc = "retire", !.cur = l, !.todo = th[t].todo \ {l}])
      BY <1>6
    <2> DEFINE r == [th[t] EXCEPT !.pc = "retire", !.cur = l, !.todo = th[t].todo \ {l}]
    <2>2. r \in Frame
      BY <1>1 DEF Frame, Codes
    <2>3. /\ r.pc = "retire" /\ r.cur = l /\ r.todo = th[t].todo \ {l} /\ r.held = {} /\ r.new = {}
          /\ r.ret = th[t].ret
      BY <1>1, <1>3 DEF Frame
    <2>4. Others(t) /\ th' \in [Threads \cup {Main} -> Frame] /\ th'[t] = r
      BY <1>0, <1>4, <2>1, <2>2, Moved
    <2>5. Phase(t)' = "retire"
      BY <1>2, <1>4, <2>3, <2>4 DEF Phase
    <2>6. ShapeOK(t)'
      BY <1>1, <1>2, <1>4, <2>3, <2>4, <2>5, ConstantFacts DEF ShapeOK
    <2>7. \A k \in Leases : SameRoles(t, k)
      BY <1>0, <1>2, <1>3, <2>3, <2>4, <2>5
      DEF SameRoles, Making, Placing, Going, Done, Writing
    <2> QED
      BY <1>0, <1>5, <2>3, <2>4, <2>6, <2>7, MoveKeeps
  <1>7. CASE th[t].todo = {} /\ Return(t)
    <2>1. Idle \in Frame /\ Step(t, Idle)
      BY <1>7, IdleTyped DEF Return
    <2>2. /\ Idle.todo = {} /\ Idle.held = {} /\ Idle.new = {} /\ Idle.pc = "idle"
          /\ Idle.ret = "idle" /\ Idle.cur = None
      BY DEF Idle
    <2>4. Others(t) /\ th' \in [Threads \cup {Main} -> Frame] /\ th'[t] = Idle
      BY <1>0, <1>4, <2>1, Moved
    <2>5. Phase(t)' = "idle"
      BY <1>2, <1>4, <2>2, <2>4 DEF Phase
    <2>6. ShapeOK(t)'
      BY <1>2, <1>4, <2>2, <2>4, <2>5 DEF ShapeOK
    <2>7. \A k \in Leases : SameRoles(t, k)
      BY <1>0, <1>2, <1>3, <1>7, <2>2, <2>4, <2>5
      DEF SameRoles, Making, Placing, Going, Done, Writing
    <2> QED
      BY <1>0, <1>5, <2>2, <2>4, <2>6, <2>7, MoveKeeps
  <1>8. CASE /\ th[t].todo = {} /\ th[t].on # None
             /\ Step(t, [th[t] EXCEPT !.pc = "retireall", !.cur = None])
    <2> DEFINE r == [th[t] EXCEPT !.pc = "retireall", !.cur = None]
    <2>2. r \in Frame
      BY <1>1 DEF Frame, Codes
    <2>3. /\ r.pc = "retireall" /\ r.cur = None /\ r.todo = {} /\ r.held = {} /\ r.new = {}
          /\ r.ret = th[t].ret /\ r.on # None
      BY <1>1, <1>3, <1>8 DEF Frame
    <2>4. Others(t) /\ th' \in [Threads \cup {Main} -> Frame] /\ th'[t] = r
      BY <1>0, <1>4, <1>8, <2>2, Moved
    <2>5. Phase(t)' = "retireall"
      BY <1>2, <1>4, <2>3, <2>4 DEF Phase
    <2>6. ShapeOK(t)'
      BY <1>1, <1>2, <1>4, <2>3, <2>4, <2>5 DEF ShapeOK
    <2>7. \A k \in Leases : SameRoles(t, k)
      BY <1>0, <1>2, <1>3, <1>8, <2>3, <2>4, <2>5
      DEF SameRoles, Making, Placing, Going, Done, Writing
    <2> QED
      BY <1>0, <1>5, <2>3, <2>4, <2>6, <2>7, MoveKeeps
  <1> QED
    BY <1>6, <1>7, <1>8 DEF Drain

----------------------------------------------------------------------------
(* Retirement: the attempts that leave the lease as it is.                  *)

\* A retirement that did not succeed keeps the lease in the thread's hands, or
\* at the head of the queue.
LEMMA ResultKept ==
    ASSUME Configuration, IInv, NEW t \in All, th[t].pc \in {"retire", "gate", "io"},
           th[t].cur # None, NEW e \in Errors, e # "none", Result(t, e),
           UNCHANGED <<inProgress, pending>>, gate' # t
    PROVE  /\ Others(t) /\ th' \in [Threads \cup {Main} -> Frame]
           /\ th'[t].pc # "io" /\ ShapeOK(t)'
           /\ \A l \in Leases : SameRoles(t, l)
  <1> DEFINE next == IF inProgress = t THEN "attempted" ELSE "queue"
             r == [th[t] EXCEPT !.err = e, !.pc = next]
  <1>0. TypeOK /\ ShapeOK(t) /\ th[t] \in Frame
    BY FrameFields DEF IInv, ShapeInv
  <1>1. Step(t, r)
    BY DEF Result
  <1>2. r \in Frame
    BY <1>0 DEF Frame, Codes
  <1>3. /\ r.pc = next /\ r.err = e /\ r.cur = th[t].cur /\ r.todo = th[t].todo
        /\ r.ret = th[t].ret /\ r.on = th[t].on /\ r.held = th[t].held /\ r.new = th[t].new
    BY <1>0 DEF Frame
  <1>4. Others(t) /\ th' \in [Threads \cup {Main} -> Frame] /\ th'[t] = r
    BY <1>0, <1>1, <1>2, Moved
  <1>5. /\ inProgress = t => Phase(t)' = th[t].ret /\ Phase(t) = th[t].ret
        /\ inProgress # t => Phase(t)' = "queue" /\ Phase(t) = th[t].pc
    BY <1>3, <1>4 DEF Phase
  <1>6. ShapeOK(t)'
    BY <1>0, <1>3, <1>4, <1>5 DEF ShapeOK, Returns
  <1>7. inProgress = t => th[t].ret \in Returns
    BY <1>0 DEF ShapeOK
  <1>8. \A l \in Leases : SameRoles(t, l)
    BY <1>3, <1>4, <1>5, <1>7 DEF SameRoles, Making, Placing, Going, Done, Writing, Returns
  <1> QED
    BY <1>3, <1>4, <1>6, <1>8

\* The head of the queue is tried, or there is nothing to try.
LEMMA RetryKeeps ==
    ASSUME Configuration, IInv, NEW t \in All, Retry(t)
    PROVE  IInv'
  <1>0. /\ TypeOK /\ UNCHANGED <<proc, live, lease, cacheVars, pending, abandoned>>
        /\ th[t].pc = "retry" /\ pending \in Seq(Leases) /\ None \notin All
    BY ConstantFacts DEF IInv, Retry, TypeOK
  <1>1. UNCHANGED <<count, writeFile, mem, disk, gate, snap, failures>>
    BY <1>0 DEF cacheVars
  <1>2. ShapeOK(t) /\ th[t] \in Frame
    BY FrameFields DEF IInv, ShapeInv
  <1>3. /\ inProgress # t /\ gate # t /\ th[t].ret \in Returns /\ Phase(t) = th[t].ret
        /\ th[t].new = {} /\ (t = Main => th[t].ret \notin {"unmap", "release"})
    BY <1>0, <1>2 DEF ShapeOK, Phase
  <1>4. CASE /\ Step(t, [th[t] EXCEPT !.pc = th[t].ret, !.cur = None])
             /\ UNCHANGED inProgress
    <2> DEFINE r == [th[t] EXCEPT !.pc = th[t].ret, !.cur = None]
    <2>1. r \in Frame
      BY <1>2 DEF Frame
    <2>2. /\ r.pc = th[t].ret /\ r.cur = None /\ r.todo = th[t].todo /\ r.ret = th[t].ret
          /\ r.on = th[t].on /\ r.held = th[t].held /\ r.new = {} /\ r.err = th[t].err
      BY <1>2, <1>3 DEF Frame
    <2>3. Others(t) /\ th' \in [Threads \cup {Main} -> Frame] /\ th'[t] = r
      BY <1>0, <1>4, <2>1, Moved
    <2>4. Phase(t)' = th[t].ret
      BY <1>3, <1>4, <2>2, <2>3 DEF Phase
    <2>5. ShapeOK(t)'
      BY <1>0, <1>1, <1>2, <1>3, <1>4, <2>2, <2>3, <2>4 DEF ShapeOK, Returns
    <2>6. \A l \in Leases : SameRoles(t, l)
      BY <1>0, <1>3, <2>2, <2>3, <2>4
      DEF SameRoles, Making, Placing, Going, Done, Writing, Returns
    <2>7. /\ UNCHANGED <<lease, cacheVars, queueVars>> /\ th[t].pc # "stopped"
          /\ th'[t].pc # "io"
      BY <1>0, <1>3, <1>4, <2>2, <2>3 DEF queueVars, Returns
    <2>8. /\ proc' \in [Procs -> {"unborn", "building", "failed", "alive", "execing",
               "ending", "dead"}]
          /\ live' \subseteq Threads
      BY <1>0 DEF TypeOK
    <2> QED
      BY <2>3, <2>5, <2>6, <2>7, <2>8, MoveKeeps
  <1>5. CASE /\ inProgress = None /\ pending # <<>> /\ inProgress' = t
             /\ Step(t, [th[t] EXCEPT !.pc = "retire", !.cur = Head(pending)])
    <2> DEFINE r == [th[t] EXCEPT !.pc = "retire", !.cur = Head(pending)]
    <2>0. Head(pending) \in Leases /\ Head(pending) # None
      BY <1>0, <1>5, ConstantFacts
    <2>1. r \in Frame
      BY <1>2, <2>0 DEF Frame, Codes
    <2>2. /\ r.pc = "retire" /\ r.cur = Head(pending) /\ r.todo = th[t].todo /\ r.ret = th[t].ret
          /\ r.on = th[t].on /\ r.held = th[t].held /\ r.new = {} /\ r.err = th[t].err
      BY <1>2, <1>3 DEF Frame
    <2>3. Others(t) /\ th' \in [Threads \cup {Main} -> Frame] /\ th'[t] = r
      BY <1>0, <1>5, <2>1, Moved
    <2>4. Phase(t)' = th[t].ret
      BY <1>5, <2>2, <2>3 DEF Phase
    <2>5. ShapeOK(t)'
      BY <1>0, <1>1, <1>2, <1>3, <1>5, <2>0, <2>2, <2>3, <2>4 DEF ShapeOK, Returns
    <2>6. \A l \in Leases : SameRoles(t, l)
      BY <1>0, <1>3, <2>2, <2>3, <2>4
      DEF SameRoles, Making, Placing, Going, Done, Writing, Returns
    <2>7. TypeOK'
      BY <1>0, <1>1, <1>5, <2>3 DEF TypeOK, All
    <2>8. DataInv'
      BY <1>1, <2>2, <2>3, DataFrame DEF IInv
    <2>9. \A l \in Leases : SameLease(l)
      BY <1>0 DEF SameLease
    <2> QED
      BY <1>0, <1>1, <2>3, <2>5, <2>6, <2>7, <2>8, <2>9, Quiet
  <1> QED
    BY <1>4, <1>5 DEF Retry

\* Nobody holds a lease that has no reservation.
LEMMA Unreserved ==
    ASSUME Configuration, IInv, NEW l \in Leases, lease[l].reserved = 0
    PROVE  \A u \in Threads : l \notin th[u].held
  <1> DEFINE H == {u \in Threads : l \in th[u].held}
  <1>1. Cardinality(H) = 0
    BY DEF IInv, LeaseInv, ReserveOK
  <1>2. IsFiniteSet(H)
    BY ConstantFacts, FS_Subset
  <1>3. H = {}
    BY <1>1, <1>2, FS_EmptySet
  <1> QED
    BY <1>3

\* A retirement looks at the reservations first.
LEMMA RetireKeeps ==
    ASSUME Configuration, IInv, NEW t \in All, Retire(t)
    PROVE  IInv'
  <1> DEFINE c == th[t].cur
  <1>0. /\ TypeOK /\ UNCHANGED <<proc, live, lease, cacheVars, queueVars>>
        /\ th[t].pc = "retire"
    BY DEF IInv, Retire
  <1>1. UNCHANGED <<gate, inProgress, pending>>
    BY <1>0 DEF cacheVars, queueVars
  <1>2. ShapeOK(t) /\ th[t] \in Frame
    BY FrameFields DEF IInv, ShapeInv
  <1>3. c # None /\ gate # t
    BY <1>0, <1>2 DEF ShapeOK
  <1>4. c \in Leases /\ lease[c].status = "retained" /\ lease[c].reserved \in Nat
    BY <1>0, <1>3, CurRetained, LeaseFields DEF IInv
  <1>5. /\ proc' \in [Procs -> {"unborn", "building", "failed", "alive", "execing", "ending",
             "dead"}]
        /\ live' \subseteq Threads
    BY <1>0 DEF TypeOK
  <1>6. CASE lease[c].reserved = 0
    <2> DEFINE r == [th[t] EXCEPT !.pc = "gate"]
    <2>0. Step(t, r)
      BY <1>4, <1>6 DEF Retire
    <2>1. r \in Frame
      BY <1>2 DEF Frame, Codes
    <2>2. /\ r.pc = "gate" /\ r.cur = c /\ r.todo = th[t].todo /\ r.ret = th[t].ret
          /\ r.on = th[t].on /\ r.held = th[t].held /\ r.new = th[t].new /\ r.err = th[t].err
      BY <1>2 DEF Frame
    <2>3. Others(t) /\ th' \in [Threads \cup {Main} -> Frame] /\ th'[t] = r
      BY <1>0, <1>1, <2>0, <2>1, Moved
    <2>4. /\ inProgress = t => Phase(t)' = th[t].ret /\ Phase(t) = th[t].ret
          /\ inProgress # t => Phase(t)' = "gate" /\ Phase(t) = "retire"
      BY <1>0, <1>1, <2>2, <2>3 DEF Phase
    <2>5. ShapeOK(t)'
      BY <1>0, <1>1, <1>2, <1>3, <2>2, <2>3, <2>4 DEF ShapeOK, Returns
    <2>6. \A u \in Threads : c \notin th[u].held
      BY <1>4, <1>6, Unreserved
    <2>7. inProgress = t => th[t].ret \in Returns
      BY <1>2 DEF ShapeOK
    <2>8. \A l \in Leases : SameRoles(t, l)
      BY <1>0, <2>2, <2>3, <2>4, <2>6, <2>7
      DEF SameRoles, Making, Placing, Going, Done, Writing, Returns
    <2> QED
      BY <1>0, <1>5, <2>2, <2>3, <2>5, <2>8, MoveKeeps
  <1>7. CASE lease[c].reserved # 0
    <2>1. Result(t, "EAGAIN") /\ "EAGAIN" \in Errors
      BY <1>4, <1>7 DEF Retire, Errors
    <2>2. /\ Others(t) /\ th' \in [Threads \cup {Main} -> Frame]
          /\ th'[t].pc # "io" /\ ShapeOK(t)'
          /\ \A l \in Leases : SameRoles(t, l)
      BY <1>0, <1>1, <1>3, <2>1, ResultKept
    <2> QED
      BY <1>0, <1>5, <2>2, MoveKeeps
  <1> QED
    BY <1>6, <1>7

\* Whoever owns the gate is the only thread with bytes to write.
LEMMA GateOwner ==
    ASSUME IInv, NEW t \in All, gate = None \/ gate = t, None \notin All
    PROVE  \A u \in All : th[u].pc = "io" => u = t /\ gate = t
  BY DEF IInv, ShapeInv, ShapeOK

\* The gate is taken and the bytes are copied.
LEMMA PrepareKeeps ==
    ASSUME Configuration, IInv, NEW t \in All, Prepare(t)
    PROVE  IInv'
  <1> DEFINE c == th[t].cur
             r == [th[t] EXCEPT !.pc = "io"]
  <1>0. /\ TypeOK /\ UNCHANGED <<proc, live, lease, count, writeFile, mem, disk, failures>>
        /\ UNCHANGED <<pending, inProgress, abandoned>>
        /\ th[t].pc = "gate" /\ Step(t, r) /\ gate = None /\ gate' = t /\ None \notin All
        /\ snap' = IF WritesBack(t) THEN mem ELSE None
    BY ConstantFacts DEF IInv, Prepare, queueVars
  <1>1. ShapeOK(t) /\ th[t] \in Frame
    BY FrameFields DEF IInv, ShapeInv
  <1>2. r \in Frame
    BY <1>1 DEF Frame, Codes
  <1>3. /\ r.pc = "io" /\ r.cur = c /\ r.todo = th[t].todo /\ r.ret = th[t].ret
        /\ r.on = th[t].on /\ r.held = th[t].held /\ r.new = th[t].new /\ r.err = th[t].err
    BY <1>1 DEF Frame
  <1>4. Others(t) /\ th' \in [Threads \cup {Main} -> Frame] /\ th'[t] = r
    BY <1>0, <1>2, Moved
  <1>5. /\ inProgress = t => Phase(t)' = th[t].ret /\ Phase(t) = th[t].ret
        /\ inProgress # t => Phase(t)' = "io" /\ Phase(t) = "gate"
    BY <1>0, <1>3, <1>4 DEF Phase
  <1>6. c = None => r = [Idle EXCEPT !.pc = "io"]
    BY <1>0, <1>1 DEF ShapeOK
  <1>7. ShapeOK(t)'
    BY <1>0, <1>1, <1>3, <1>4, <1>5, <1>6 DEF ShapeOK, Returns
  <1>8. inProgress = t => th[t].ret \in Returns
    BY <1>1 DEF ShapeOK
  <1>9. \A l \in Leases : SameRoles(t, l)
    BY <1>0, <1>3, <1>4, <1>5, <1>8
    DEF SameRoles, Making, Placing, Going, Done, Writing, Returns
  <1>10. TypeOK'
    BY <1>0, <1>4 DEF TypeOK, All
  <1>11. c # None => count >= 1
    BY <1>0, CurRetained
  <1>12. \A u \in All : th'[u].pc = "io" => u = t
    BY <1>0, <1>4, GateOwner DEF Others
  <1>13. mem \in Int /\ disk \in Int /\ count \in Int /\ mem # None
    BY <1>0, ConstantFacts DEF TypeOK
  <1>14. DataInv'
    <2>1. disk <= mem /\ (count = 0 \/ ~writeFile => disk = mem)
      BY DEF IInv, DataInv
    <2>2. CASE writeFile /\ (c = None \/ count = 1)
      <3>1. snap' = mem
        BY <1>0, <2>2 DEF WritesBack
      <3>2. writeFile'
        BY <1>0, <2>2
      <3>3. gate' # None
        BY <1>0
      <3>4. disk' <= mem' /\ disk' <= snap' /\ snap' <= mem' /\ snap' # None
        BY <1>0, <1>13, <2>1, <3>1
      <3>5. count' = 0 => disk' = mem'
        BY <1>0, <2>1
      <3>6. th'[t].cur # None => count' = 1 /\ snap' = mem'
        BY <1>0, <1>3, <1>4, <2>2, <3>1
      <3> QED
        BY <1>12, <3>2, <3>3, <3>4, <3>5, <3>6 DEF DataInv
    <2>3. CASE ~(writeFile /\ (c = None \/ count = 1))
      <3>1. snap' = None
        BY <1>0, <2>3 DEF WritesBack
      <3> QED
        BY <1>0, <1>3, <1>4, <1>11, <1>12, <1>13, <2>1, <2>3, <3>1 DEF DataInv
    <2> QED
      BY <2>2, <2>3
  <1>15. \A l \in Leases : SameLease(l)
    BY <1>0 DEF SameLease
  <1> QED
    BY <1>0, <1>4, <1>7, <1>9, <1>10, <1>14, <1>15, Quiet

\* A thread whose msync has ended.
LEMMA MsyncEnds ==
    ASSUME Configuration, IInv, NEW t \in All, th[t].pc \in {"gate", "io"}, th[t].cur = None,
           Return(t), UNCHANGED <<inProgress, pending>>, gate' # t
    PROVE  /\ Others(t) /\ th' \in [Threads \cup {Main} -> Frame]
           /\ th'[t].pc # "io" /\ ShapeOK(t)'
           /\ \A l \in Leases : SameRoles(t, l)
  <1>0. TypeOK /\ ShapeOK(t) /\ None \notin Leases
    BY ConstantFacts DEF IInv, ShapeInv
  <1>1. Idle \in Frame /\ Step(t, Idle)
    BY IdleTyped DEF Return
  <1>2. /\ Idle.todo = {} /\ Idle.held = {} /\ Idle.new = {} /\ Idle.pc = "idle"
        /\ Idle.ret = "idle" /\ Idle.cur = None
    BY DEF Idle
  <1>3. Others(t) /\ th' \in [Threads \cup {Main} -> Frame] /\ th'[t] = Idle
    BY <1>0, <1>1, Moved
  <1>4. th[t] = [Idle EXCEPT !.pc = th[t].pc] /\ inProgress # t
    <2>1. inProgress = t => th[t].cur \in Leases
      BY HeadQueued
    <2> QED
      BY <1>0, <2>1 DEF ShapeOK
  <1>5. th[t].todo = {} /\ th[t].held = {} /\ th[t].new = {}
    BY <1>4 DEF Idle
  <1>6. Phase(t)' = "idle" /\ Phase(t) = th[t].pc
    BY <1>2, <1>3, <1>4 DEF Phase
  <1>7. ShapeOK(t)'
    BY <1>2, <1>3, <1>4, <1>6 DEF ShapeOK
  <1>8. \A l \in Leases : SameRoles(t, l)
    BY <1>0, <1>2, <1>3, <1>5, <1>6 DEF SameRoles, Making, Placing, Going, Done, Writing
  <1> QED
    BY <1>2, <1>3, <1>7, <1>8

\* A writeback that did not succeed.
LEMMA WritebackKept ==
    ASSUME Configuration, IInv, NEW t \in All, th[t].pc \in {"gate", "io"},
           NEW e \in Errors, e # "none", WritebackDone(t, e),
           UNCHANGED <<inProgress, pending>>, gate' # t
    PROVE  /\ Others(t) /\ th' \in [Threads \cup {Main} -> Frame]
           /\ th'[t].pc # "io" /\ ShapeOK(t)'
           /\ \A l \in Leases : SameRoles(t, l)
  BY MsyncEnds, ResultKept DEF WritebackDone

\* The copy fails, and the gate is let go.
LEMMA PrepareFailsKeeps ==
    ASSUME Configuration, IInv, NEW t \in All, PrepareFails(t)
    PROVE  IInv'
  <1>0. /\ TypeOK /\ UNCHANGED <<proc, live, lease, count, writeFile, mem, disk, gate, snap>>
        /\ UNCHANGED <<pending, inProgress, abandoned>>
        /\ th[t].pc = "gate" /\ gate = None /\ None \notin All
        /\ failures < MaxFailures /\ failures' = failures + 1
        /\ WritebackDone(t, "ENOMEM") /\ "ENOMEM" \in Errors /\ MaxFailures \in Nat
    BY ConstantFacts DEF IInv, PrepareFails, queueVars, Errors, Configuration
  <1>1. /\ Others(t) /\ th' \in [Threads \cup {Main} -> Frame]
        /\ th'[t].pc # "io" /\ ShapeOK(t)'
        /\ \A l \in Leases : SameRoles(t, l)
    BY <1>0, WritebackKept
  <1>2. TypeOK'
    BY <1>0, <1>1 DEF TypeOK
  <1>3. DataInv'
    BY <1>0, <1>1, DataFrame DEF IInv
  <1>4. \A l \in Leases : SameLease(l)
    BY <1>0 DEF SameLease
  <1> QED
    BY <1>0, <1>1, <1>2, <1>3, <1>4, Quiet

\* The writeback fails, and the lease stays retained.
LEMMA WriteFailsKeeps ==
    ASSUME Configuration, IInv, NEW t \in All, WriteFails(t)
    PROVE  IInv'
  <1>0. /\ TypeOK /\ UNCHANGED <<proc, live, lease, count, writeFile, mem>>
        /\ UNCHANGED <<pending, inProgress, abandoned>>
        /\ th[t].pc = "io" /\ gate' = None /\ snap' = None /\ snap # None
        /\ disk' \in {disk, snap} /\ None \notin All
        /\ failures < MaxFailures /\ failures' = failures + 1
        /\ WritebackDone(t, "EIO") /\ "EIO" \in Errors /\ MaxFailures \in Nat
    BY ConstantFacts DEF IInv, WriteFails, queueVars, Errors, Configuration
  <1>1. gate = t
    BY <1>0 DEF IInv, ShapeInv, ShapeOK
  <1>2. /\ Others(t) /\ th' \in [Threads \cup {Main} -> Frame]
        /\ th'[t].pc # "io" /\ ShapeOK(t)'
        /\ \A l \in Leases : SameRoles(t, l)
    BY <1>0, WritebackKept
  <1>3. TypeOK'
    BY <1>0, <1>2 DEF TypeOK
  <1>4. \A u \in All : th'[u].pc # "io"
    BY <1>0, <1>1, <1>2, GateOwner DEF Others
  <1>5. mem \in Int /\ disk \in Int /\ snap \in Int
    BY <1>0 DEF TypeOK
  <1>6. DataInv'
    BY <1>0, <1>4, <1>5 DEF IInv, DataInv
  <1>7. \A l \in Leases : SameLease(l)
    BY <1>0 DEF SameLease
  <1> QED
    BY <1>0, <1>1, <1>2, <1>3, <1>6, <1>7, Quiet

----------------------------------------------------------------------------
(* The steps that change a lease.                                           *)

\* mappingLeaseCount when a lease is retired, and when one is retained.
LEMMA CountRemove ==
    ASSUME Configuration, IInv, NEW c \in Leases, lease[c].status = "retained",
           lease'[c].status # "retained",
           \A l \in Leases : l # c => lease'[l].status = lease[l].status,
           count' = count - 1
    PROVE  CountInv' /\ count' \in 0 .. Cardinality(Leases)
  <1> DEFINE R == {l \in Leases : lease[l].status = "retained"}
             S == {l \in Leases : lease'[l].status = "retained"}
  <1>1. IsFiniteSet(R) /\ c \in R /\ S = R \ {c} /\ R \subseteq Leases
    BY ConstantFacts, FS_Subset
  <1>2. Cardinality(S) = Cardinality(R) - 1 /\ IsFiniteSet(S)
    BY <1>1, FS_RemoveElement
  <1>3. Cardinality(S) \in Nat /\ Cardinality(S) <= Cardinality(Leases)
    BY <1>1, <1>2, ConstantFacts, FS_Subset, FS_CardinalityType
  <1>4. count = Cardinality(R)
    BY DEF IInv, CountInv
  <1>5. Cardinality(Leases) \in Nat
    BY ConstantFacts, FS_CardinalityType
  <1> QED
    BY <1>2, <1>3, <1>4, <1>5 DEF CountInv

\* A lease that becomes retained is counted.
LEMMA CountAdd ==
    ASSUME Configuration, IInv, NEW c \in Leases, lease[c].status # "retained",
           lease'[c].status = "retained",
           \A l \in Leases : l # c => lease'[l].status = lease[l].status,
           count' = count + 1
    PROVE  CountInv' /\ count' \in 0 .. Cardinality(Leases)
  <1> DEFINE R == {l \in Leases : lease[l].status = "retained"}
             S == {l \in Leases : lease'[l].status = "retained"}
  <1>1. IsFiniteSet(R) /\ c \notin R /\ S = R \cup {c} /\ S \subseteq Leases
    BY ConstantFacts, FS_Subset
  <1>2. Cardinality(S) = Cardinality(R) + 1 /\ IsFiniteSet(S)
    BY <1>1, FS_AddElement
  <1>3. Cardinality(S) \in Nat /\ Cardinality(S) <= Cardinality(Leases)
    BY <1>1, <1>2, ConstantFacts, FS_Subset, FS_CardinalityType
  <1>4. count = Cardinality(R)
    BY DEF IInv, CountInv
  <1>5. Cardinality(Leases) \in Nat
    BY ConstantFacts, FS_CardinalityType
  <1> QED
    BY <1>2, <1>3, <1>4, <1>5 DEF CountInv

\* One field of one lease is changed.
LEMMA LeaseReplaced ==
    ASSUME TypeOK, NEW c \in Leases, NEW k \in Lease, lease' = [lease EXCEPT ![c] = k]
    PROVE  /\ lease' \in [Leases -> Lease] /\ lease'[c] = k
           /\ \A l \in Leases : l # c => lease'[l] = lease[l]
  <1>1. lease \in [Leases -> Lease]
    BY DEF TypeOK
  <1> QED
    BY <1>1

\* Only the status of one lease is changed.
LEMMA StatusSet ==
    ASSUME TypeOK, NEW c \in Leases, NEW v \in {"free", "made", "retained", "retired"},
           lease' = [lease EXCEPT ![c].status = v]
    PROVE  /\ lease' \in [Leases -> Lease]
           /\ \A l \in Leases : l # c => lease'[l] = lease[l]
           /\ lease'[c].status = v /\ lease'[c].pieces = lease[c].pieces
           /\ lease'[c].holder = lease[c].holder /\ lease'[c].shared = lease[c].shared
           /\ lease'[c].reserved = lease[c].reserved
  <1> DEFINE k == [lease[c] EXCEPT !.status = v]
  <1>1. lease[c] \in Lease
    BY LeaseFields
  <1>2. /\ k \in Lease /\ k.status = v /\ k.pieces = lease[c].pieces
        /\ k.holder = lease[c].holder /\ k.shared = lease[c].shared
        /\ k.reserved = lease[c].reserved
    BY <1>1 DEF Lease
  <1>3. lease' = [lease EXCEPT ![c] = k]
    OBVIOUS
  <1> QED
    BY <1>2, <1>3, LeaseReplaced

\* Only the error of one lease is changed.
LEMMA ErrorSet ==
    ASSUME TypeOK, NEW c \in Leases, NEW e \in Errors,
           lease' = [lease EXCEPT ![c].error = e]
    PROVE  lease' \in [Leases -> Lease] /\ \A l \in Leases : SameLease(l)
  <1> DEFINE k == [lease[c] EXCEPT !.error = e]
  <1>1. lease[c] \in Lease
    BY LeaseFields
  <1>2. /\ k \in Lease /\ k.status = lease[c].status /\ k.pieces = lease[c].pieces
        /\ k.holder = lease[c].holder /\ k.shared = lease[c].shared
        /\ k.reserved = lease[c].reserved
    BY <1>1 DEF Lease
  <1>3. lease' = [lease EXCEPT ![c] = k]
    OBVIOUS
  <1>4. /\ lease' \in [Leases -> Lease] /\ lease'[c] = k
        /\ \A l \in Leases : l # c => lease'[l] = lease[l]
    BY <1>2, <1>3, LeaseReplaced
  <1> QED
    BY <1>2, <1>4 DEF SameLease

\* The count of the reservations when nobody's change.
LEMMA HeldSame ==
    ASSUME NEW l \in Leases, ReserveOK(l), lease'[l].reserved = lease[l].reserved,
           \A u \in Threads : l \in th'[u].held <=> l \in th[u].held
    PROVE  lease'[l].reserved = Cardinality({u \in Threads : l \in th'[u].held})
  <1>1. {u \in Threads : l \in th'[u].held} = {u \in Threads : l \in th[u].held}
    OBVIOUS
  <1> QED
    BY <1>1 DEF ReserveOK

\* A lease given up after its bytes are in the file.
LEMMA WriteKeeps ==
    ASSUME Configuration, IInv, NEW t \in All, Write(t), th[t].cur # None
    PROVE  IInv'
  <1>a. PICK c \in Leases : c = th[t].cur
    BY CurRetained DEF Write
  <1> DEFINE next == IF inProgress = t THEN "attempted" ELSE "drain"
             r == [th[t] EXCEPT !.err = "none", !.pc = next]
  <1>0. /\ TypeOK /\ UNCHANGED <<proc, live, writeFile, mem, failures>>
        /\ UNCHANGED <<pending, inProgress, abandoned>>
        /\ th[t].pc = "io" /\ gate' = None /\ snap' = None /\ None \notin All
        /\ disk' = IF snap = None THEN disk ELSE snap
        /\ lease' = [lease EXCEPT ![c].status = "retired"] /\ count' = count - 1
        /\ Step(t, r)
    BY <1>a, ConstantFacts DEF IInv, Write, queueVars, WritebackDone, Result
  <1>1. ShapeOK(t) /\ th[t] \in Frame
    BY FrameFields DEF IInv, ShapeInv
  <1>2. r \in Frame
    BY <1>1 DEF Frame, Codes, Errors
  <1>3. /\ r.pc = next /\ r.cur = c /\ r.todo = th[t].todo /\ r.ret = th[t].ret
        /\ r.on = th[t].on /\ r.held = th[t].held /\ r.new = th[t].new /\ r.err = "none"
    BY <1>a, <1>1 DEF Frame
  <1>4. Others(t) /\ th' \in [Threads \cup {Main} -> Frame] /\ th'[t] = r
    BY <1>0, <1>2, Moved
  <1>5. /\ inProgress = t => Phase(t)' = th[t].ret /\ Phase(t) = th[t].ret /\ th[t].ret \in Returns
        /\ inProgress # t => Phase(t)' = "drain" /\ Phase(t) = "io"
    BY <1>0, <1>1, <1>3, <1>4 DEF Phase, ShapeOK
  <1>6. ShapeOK(t)'
    BY <1>0, <1>1, <1>3, <1>4, <1>5 DEF ShapeOK
  <1>7. gate = t /\ th[t].new = {}
    BY <1>0, <1>1 DEF ShapeOK
  <1>8. ShapeInv'
    BY <1>0, <1>4, <1>6, <1>7, ShapeOthers DEF IInv, ShapeInv, ShapeOK
  <1>9. QueueInv'
    BY <1>0, <1>4 DEF IInv, QueueInv, Others, All
  <1>10. c \in Leases /\ lease[c].status = "retained" /\ lease[c].holder = None /\ count >= 1
    BY <1>a, <1>0, CurRetained
  <1>11. /\ \A l \in Leases : l # c => lease'[l] = lease[l]
         /\ lease'[c].status = "retired" /\ lease'[c].holder = None
         /\ lease'[c].reserved = lease[c].reserved
         /\ lease' \in [Leases -> Lease]
    BY <1>0, <1>10, StatusSet
  <1>12. PlaceOK(c) /\ StatusOK(c) /\ ReserveOK(c)
    BY <1>10 DEF IInv, LeaseInv
  <1>13. Queued(c)' <=> Queued(c)
    BY <1>0 DEF Queued
  <1>14. \A u \in All : ~Has(u, c)'
    <2>1. ~Making(t, c)' /\ ~Placing(t, c)' /\ c \notin th'[t].new
      BY <1>3, <1>4, <1>5, <1>7 DEF Making, Placing, Returns
    <2>2. c \notin th[t].todo
      <3>1. CASE inProgress = t
        <4>1. Queued(c)
          BY <3>1, <1>a, HeadQueued
        <4> QED
          BY <4>1, <1>12 DEF PlaceOK, Has, Going
      <3>2. CASE inProgress # t
        BY <1>a, <1>1, <1>5, <3>2 DEF ShapeOK
      <3> QED
        BY <3>1, <3>2
    <2>3. ~Going(t, c)'
      BY <1>3, <1>4, <1>5, <2>2 DEF Going, Returns
    <2>4. ASSUME NEW u \in All, u # t PROVE ~Has(u, c)
      <3>1. CASE inProgress = t
        <4>1. Queued(c)
          BY <3>1, <1>a, HeadQueued
        <4> QED
          BY <4>1, <1>12 DEF PlaceOK
      <3>2. CASE inProgress # t
        <4>1. Has(t, c)
          BY <1>a, <1>5, <3>2 DEF Has, Going
        <4> QED
          BY <4>1, <1>12, <2>4 DEF PlaceOK
      <3> QED
        BY <3>1, <3>2
    <2> QED
      BY <2>1, <2>3, <2>4, <1>4, <1>10, OtherRoles DEF Has
  <1>15. PlaceOK(c)'
    BY <1>0, <1>11, <1>12, <1>13, <1>14 DEF PlaceOK
  <1>16. Queued(c)' => Done(t, c)'
    <2>1. Queued(c) => inProgress = t
      BY <1>a, <1>5, <1>12 DEF PlaceOK, Has, Going
    <2> QED
      BY <2>1, <1>3, <1>4, <1>13 DEF Done
  <1>17. StatusOK(c)'
    <2>1. c \notin abandoned
      BY <1>a, <1>5, <1>12, HeadQueued DEF PlaceOK, Has, Going
    <2> QED
      BY <1>0, <1>11, <1>14, <1>16, <2>1 DEF StatusOK, Has
  <1>18. \A u \in Threads : c \notin th[u].held
    BY <1>a, <1>0, <1>12 DEF ReserveOK, Writing
  <1>19. \A u \in Threads : c \in th'[u].held <=> c \in th[u].held
    BY <1>3, <1>4 DEF Others, All
  <1>20. ReserveOK(c)'
    BY <1>10, <1>11, <1>12, <1>18, <1>19, HeldSame DEF ReserveOK
  <1>21. ASSUME NEW l \in Leases, l # c PROVE PlaceOK(l)' /\ StatusOK(l)' /\ ReserveOK(l)'
    <2>1. SameLease(l) /\ SamePlace(l)
      BY <1>0, <1>11, <1>21 DEF SameLease, SamePlace, Queued
    <2>2. SameRoles(t, l)
      BY <1>a, <1>0, <1>3, <1>4, <1>5, <1>21
      DEF SameRoles, Making, Placing, Going, Done, Writing, Returns
    <2> QED
      BY <1>0, <1>4, <2>1, <2>2, LeaseKept DEF IInv, LeaseInv
  <1>22. LeaseInv'
    BY <1>15, <1>17, <1>20, <1>21 DEF LeaseInv
  <1>23. CountInv' /\ count' \in 0 .. Cardinality(Leases)
    BY <1>0, <1>10, <1>11, CountRemove
  <1>24. TypeOK'
    BY <1>0, <1>4, <1>11, <1>23 DEF TypeOK
  <1>25. \A u \in All : th'[u].pc # "io"
    <2>1. th'[t].pc # "io"
      BY <1>3, <1>4
    <2>2. \A u \in All : th[u].pc = "io" => u = t
      BY <1>0, <1>7, GateOwner
    <2> QED
      BY <1>4, <2>1, <2>2 DEF Others
  <1>26. mem \in Int /\ disk \in Int /\ (snap \in Int \/ snap = None) /\ count \in Int
    BY <1>0 DEF TypeOK
  <1>27. /\ disk <= mem /\ (~writeFile => disk = mem)
         /\ IF snap = None THEN count > 1 \/ ~writeFile ELSE count = 1 /\ snap = mem
    BY <1>a, <1>0 DEF IInv, DataInv
  <1>28. disk' <= mem /\ (count' = 0 => disk' = mem) /\ (~writeFile => disk' = mem)
    BY <1>0, <1>26, <1>27
  <1>29. DataInv'
    BY <1>0, <1>25, <1>28 DEF DataInv
  <1> QED
    BY <1>8, <1>9, <1>22, <1>23, <1>24, <1>29 DEF IInv

\* The end of an msync.
LEMMA WriteKeepsMsync ==
    ASSUME Configuration, IInv, NEW t \in All, Write(t), th[t].cur = None
    PROVE  IInv'
  <1>0. /\ TypeOK /\ UNCHANGED <<proc, live, lease, count, writeFile, mem, failures>>
        /\ UNCHANGED <<pending, inProgress, abandoned>>
        /\ th[t].pc = "io" /\ gate' = None /\ snap' = None /\ None \notin All
        /\ disk' = IF snap = None THEN disk ELSE snap
        /\ Return(t)
    BY ConstantFacts DEF IInv, Write, queueVars, WritebackDone
  <1>1. gate = t
    BY <1>0 DEF IInv, ShapeInv, ShapeOK
  <1>2. /\ Others(t) /\ th' \in [Threads \cup {Main} -> Frame]
        /\ th'[t].pc # "io" /\ ShapeOK(t)'
        /\ \A l \in Leases : SameRoles(t, l)
    BY <1>0, MsyncEnds
  <1>3. TypeOK'
    BY <1>0, <1>2 DEF TypeOK
  <1>4. \A u \in All : th'[u].pc # "io"
    BY <1>0, <1>1, <1>2, GateOwner DEF Others
  <1>5. mem \in Int /\ disk \in Int /\ (snap \in Int \/ snap = None)
    BY <1>0 DEF TypeOK
  <1>6. DataInv'
    BY <1>0, <1>4, <1>5 DEF IInv, DataInv
  <1>7. \A l \in Leases : SameLease(l)
    BY <1>0 DEF SameLease
  <1> QED
    BY <1>0, <1>1, <1>2, <1>3, <1>6, <1>7, Quiet

\* The reservations of a lease that stays retained.
LEMMA ReserveKept ==
    ASSUME NEW t \in All, Others(t), NEW l \in Leases, ReserveOK(l),
           lease'[l].reserved = lease[l].reserved,
           lease'[l].status = lease[l].status \/ lease'[l].status = "retained",
           l \in th'[t].held <=> l \in th[t].held,
           Writing(t, l)' => Writing(t, l)
    PROVE  ReserveOK(l)'
  <1>1. \A u \in Threads : l \in th'[u].held <=> l \in th[u].held
    BY DEF Others, All
  <1>2. lease'[l].reserved = Cardinality({u \in Threads : l \in th'[u].held})
    BY <1>1, HeldSame
  <1>3. \A u \in All : Writing(u, l)' => Writing(u, l)
    BY OtherRoles
  <1> QED
    BY <1>1, <1>2, <1>3 DEF ReserveOK

\* No element occurs twice.
Distinct(s) == \A i, j \in DOMAIN s : s[i] = s[j] => i = j

\* A lease is put behind the others in the queue.
LEMMA QueueAppend ==
    ASSUME NEW s \in Seq(Leases), NEW c \in Leases
    PROVE  /\ Append(s, c) \in Seq(Leases) /\ Append(s, c) # <<>>
           /\ \A l : l \in Range(Append(s, c)) <=> l \in Range(s) \/ l = c
           /\ s # <<>> => Head(Append(s, c)) = Head(s)
           /\ Distinct(s) /\ c \notin Range(s) => Distinct(Append(s, c))
  <1>1. /\ Append(s, c) \in Seq(Leases) /\ Len(Append(s, c)) = Len(s) + 1
        /\ DOMAIN s = 1 .. Len(s) /\ Len(s) \in Nat
        /\ DOMAIN Append(s, c) = 1 .. Len(s) + 1
        /\ Append(s, c)[Len(s) + 1] = c
        /\ \A i \in 1 .. Len(s) : Append(s, c)[i] = s[i]
    OBVIOUS
  <1>2. \A l : l \in Range(Append(s, c)) <=> l \in Range(s) \/ l = c
    BY <1>1 DEF Range
  <1>3. s # <<>> => Head(Append(s, c)) = Head(s)
    BY <1>1
  <1>4. Distinct(s) /\ c \notin Range(s) => Distinct(Append(s, c))
    BY <1>1 DEF Distinct, Range
  <1> QED
    BY <1>1, <1>2, <1>3, <1>4

\* The head is taken off the queue.
LEMMA QueueTail ==
    ASSUME NEW s \in Seq(Leases), s # <<>>, Distinct(s)
    PROVE  /\ Tail(s) \in Seq(Leases) /\ Distinct(Tail(s)) /\ Head(s) \in Range(s)
           /\ \A l : l \in Range(Tail(s)) <=> l \in Range(s) /\ l # Head(s)
  <1>1. /\ Tail(s) \in Seq(Leases) /\ Len(s) \in Nat /\ Len(s) >= 1 /\ DOMAIN s = 1 .. Len(s)
        /\ Len(Tail(s)) = Len(s) - 1 /\ DOMAIN Tail(s) = 1 .. Len(s) - 1
        /\ \A i \in 1 .. Len(s) - 1 : Tail(s)[i] = s[i + 1]
        /\ Head(s) = s[1]
    OBVIOUS
  <1>2. Distinct(Tail(s))
    BY <1>1 DEF Distinct
  <1>3. Head(s) \in Range(s)
    BY <1>1 DEF Range
  <1>4. ASSUME NEW l PROVE l \in Range(Tail(s)) <=> l \in Range(s) /\ l # Head(s)
    <2>1. ASSUME l \in Range(Tail(s)) PROVE l \in Range(s) /\ l # Head(s)
      <3>1. PICK i \in 1 .. Len(s) - 1 : l = Tail(s)[i]
        BY <1>1, <2>1 DEF Range
      <3>2. l = s[i + 1] /\ i + 1 \in DOMAIN s /\ 1 \in DOMAIN s /\ i + 1 # 1
        BY <1>1, <3>1
      <3> QED
        BY <1>1, <3>2 DEF Distinct, Range
    <2>2. ASSUME l \in Range(s), l # Head(s) PROVE l \in Range(Tail(s))
      <3>1. PICK i \in 1 .. Len(s) : l = s[i]
        BY <1>1, <2>2 DEF Range
      <3>2. i - 1 \in 1 .. Len(s) - 1 /\ (i - 1) + 1 = i
        BY <1>1, <2>2, <3>1
      <3>3. Tail(s)[i - 1] = l
        BY <1>1, <3>1, <3>2
      <3> QED
        BY <1>1, <3>2, <3>3 DEF Range
    <2> QED
      BY <2>1, <2>2
  <1> QED
    BY <1>1, <1>2, <1>3, <1>4

\* A lease whose retirement failed goes from its thread to the queue.
LEMMA QueueKeeps ==
    ASSUME Configuration, IInv, NEW t \in All, Queue(t)
    PROVE  IInv'
  <1>a. ShapeOK(t) /\ th[t] \in Frame /\ th[t].cur # None
    BY FrameFields DEF IInv, ShapeInv, ShapeOK, Queue
  <1>b. PICK c \in Leases : /\ c = th[t].cur /\ lease[c].status = "retained"
                            /\ lease[c].holder = None
    BY <1>a, CurRetained DEF Queue
  <1> DEFINE r == [th[t] EXCEPT !.pc = "retry", !.ret = "drain", !.cur = None, !.err = "none"]
  <1>0. /\ TypeOK /\ UNCHANGED <<proc, live, count, writeFile, mem, disk, gate, snap, failures>>
        /\ UNCHANGED <<inProgress, abandoned>> /\ th[t].pc = "queue"
        /\ lease' = [lease EXCEPT ![c].error = th[t].err] /\ pending' = Append(pending, c)
        /\ Step(t, r) /\ pending \in Seq(Leases) /\ th[t].err \in Errors
    BY <1>b, FrameFields DEF IInv, Queue, cacheVars, TypeOK
  <1>1. inProgress # t /\ gate # t /\ Phase(t) = "queue" /\ th[t].held = {} /\ th[t].new = {}
    BY <1>0, <1>a DEF ShapeOK, Phase
  <1>2. r \in Frame
    BY <1>a DEF Frame, Codes, Errors
  <1>3. /\ r.pc = "retry" /\ r.cur = None /\ r.todo = th[t].todo /\ r.ret = "drain"
        /\ r.held = {} /\ r.new = {} /\ r.err = "none"
    BY <1>a, <1>1 DEF Frame
  <1>4. Others(t) /\ th' \in [Threads \cup {Main} -> Frame] /\ th'[t] = r
    BY <1>0, <1>2, Moved
  <1>5. Phase(t)' = "drain"
    BY <1>3, <1>4 DEF Phase
  <1>6. ShapeOK(t)'
    BY <1>0, <1>1, <1>3, <1>4, <1>5 DEF ShapeOK, Returns
  <1>7. ShapeInv'
    <2>1. \A u \in All : inProgress = u => pending # <<>>
      BY DEF IInv, ShapeInv, ShapeOK
    <2>2. \A u \in All : u # t /\ inProgress = u => pending' # <<>> /\ Head(pending') = Head(pending)
      BY <1>0, <2>1, QueueAppend
    <2> QED
      BY <1>0, <1>4, <1>6, <2>2, ShapeOthers DEF IInv
  <1>8. Has(t, c) /\ c \notin th[t].todo
    BY <1>a, <1>b, <1>1 DEF Has, Going, ShapeOK
  <1>9. PlaceOK(c) /\ StatusOK(c) /\ ReserveOK(c)
    BY DEF IInv, LeaseInv
  <1>10. ~Queued(c) /\ c \notin abandoned /\ \A u \in All : Has(u, c) => u = t
    BY <1>8, <1>9 DEF PlaceOK
  <1>11. QueueInv'
    <2>1. Distinct(pending)
      BY DEF IInv, QueueInv, Distinct
    <2>2. Distinct(pending')
      BY <1>0, <1>10, <2>1, QueueAppend DEF Queued
    <2> QED
      BY <1>0, <1>4, <2>2 DEF IInv, QueueInv, Others, All, Distinct
  <1>12. /\ \A l \in Leases : SameLease(l)
         /\ lease' \in [Leases -> Lease]
    BY <1>0, ErrorSet
  <1>13. \A l : Queued(l)' <=> Queued(l) \/ l = c
    BY <1>0, QueueAppend DEF Queued
  <1>14. \A u \in All : ~Has(u, c)'
    <2>1. ~Has(t, c)'
      BY <1>3, <1>4, <1>5, <1>8 DEF Has, Going, Making, Placing
    <2> QED
      BY <2>1, <1>4, <1>10, OtherRoles
  <1>15. PlaceOK(c)'
    BY <1>0, <1>b, <1>10, <1>12, <1>13, <1>14 DEF PlaceOK, SameLease
  <1>16. StatusOK(c)'
    <2>1. \A u \in All : ~Done(u, c)'
      <3>1. ~Done(t, c)'
        BY <1>3, <1>4 DEF Done
      <3>2. \A u \in All : ~Done(u, c)
        BY <1>9, <1>b DEF StatusOK
      <3> QED
        BY <3>1, <3>2, <1>4, OtherRoles
    <2>2. /\ lease'[c].status = "retained" /\ lease'[c].holder = None
          /\ lease'[c].shared = lease[c].shared /\ writeFile' = writeFile
      BY <1>0, <1>b, <1>12 DEF SameLease
    <2> QED
      BY <1>9, <1>14, <2>1, <2>2, <1>b DEF StatusOK, Has
  <1>17. ReserveOK(c)'
    BY <1>1, <1>3, <1>4, <1>9, <1>12, ReserveKept DEF SameLease, Writing
  <1>18. ASSUME NEW l \in Leases, l # c PROVE PlaceOK(l)' /\ StatusOK(l)' /\ ReserveOK(l)'
    <2>1. SamePlace(l)
      BY <1>0, <1>13, <1>18 DEF SamePlace
    <2>2. SameRoles(t, l)
      BY <1>b, <1>0, <1>1, <1>3, <1>4, <1>5, <1>18
      DEF SameRoles, Making, Placing, Going, Done, Writing
    <2> QED
      BY <1>0, <1>4, <1>12, <2>1, <2>2, LeaseKept DEF IInv, LeaseInv
  <1>19. LeaseInv'
    BY <1>15, <1>16, <1>17, <1>18 DEF LeaseInv
  <1>20. CountInv'
    BY <1>0, <1>12 DEF IInv, CountInv, SameLease
  <1>21. TypeOK'
    BY <1>0, <1>4, <1>12, QueueAppend DEF TypeOK
  <1>22. DataInv'
    BY <1>0, <1>3, <1>4, DataFrame DEF IInv
  <1> QED
    BY <1>7, <1>11, <1>19, <1>20, <1>21, <1>22 DEF IInv

\* An attempt that succeeded takes the head off the queue.
LEMMA AttemptedKeeps ==
    ASSUME Configuration, IInv, NEW t \in All, Attempted(t), th[t].err = "none"
    PROVE  IInv'
  <1>a. ShapeOK(t) /\ th[t] \in Frame /\ inProgress = t
    BY FrameFields DEF IInv, ShapeInv, ShapeOK, Attempted
  <1>b. PICK c \in Leases : c = th[t].cur /\ Queued(c) /\ c = Head(pending) /\ pending # <<>>
    BY <1>a, HeadQueued
  <1> DEFINE r == [th[t] EXCEPT !.pc = "retry", !.cur = None]
  <1>0. /\ TypeOK /\ UNCHANGED <<proc, live, count, writeFile, mem, disk, gate, snap, failures>>
        /\ UNCHANGED abandoned /\ th[t].pc = "attempted" /\ inProgress' = None
        /\ lease' = [lease EXCEPT ![c].error = "none"] /\ pending' = Tail(pending)
        /\ Step(t, r) /\ pending \in Seq(Leases) /\ None \notin All
    BY <1>b, ConstantFacts DEF IInv, Attempted, cacheVars, TypeOK
  <1>1. th[t].ret \in Returns /\ gate # t /\ Phase(t) = th[t].ret /\ th[t].new = {}
    BY <1>0, <1>a DEF ShapeOK, Phase
  <1>2. r \in Frame
    BY <1>a DEF Frame, Codes
  <1>3. /\ r.pc = "retry" /\ r.cur = None /\ r.todo = th[t].todo /\ r.ret = th[t].ret
        /\ r.held = th[t].held /\ r.new = {} /\ r.on = th[t].on
    BY <1>a, <1>1 DEF Frame
  <1>4. Others(t) /\ th' \in [Threads \cup {Main} -> Frame] /\ th'[t] = r
    BY <1>a, <1>0, <1>2, Moved
  <1>5. Phase(t)' = th[t].ret
    BY <1>3, <1>4 DEF Phase
  <1>6. ShapeOK(t)'
    BY <1>a, <1>0, <1>1, <1>3, <1>4, <1>5 DEF ShapeOK, Returns
  <1>7. ShapeInv'
    BY <1>a, <1>0, <1>4, <1>6, ShapeOthers DEF IInv
  <1>8. Distinct(pending)
    BY DEF IInv, QueueInv, Distinct
  <1>9. QueueInv'
    <2>1. Distinct(pending')
      BY <1>0, <1>b, <1>8, QueueTail
    <2> QED
      BY <1>0, <1>4, <2>1 DEF IInv, QueueInv, Others, All, Distinct
  <1>10. /\ \A l \in Leases : SameLease(l)
         /\ lease' \in [Leases -> Lease]
    <2>1. "none" \in Errors
      BY DEF Errors
    <2> QED
      BY <1>0, <2>1, ErrorSet
  <1>11. \A l : Queued(l)' <=> Queued(l) /\ l # c
    BY <1>0, <1>b, <1>8, QueueTail DEF Queued
  <1>12. PlaceOK(c) /\ StatusOK(c) /\ ReserveOK(c)
    BY DEF IInv, LeaseInv
  <1>13. lease[c].status = "retired" /\ lease[c].holder = None /\ c \notin abandoned
    BY <1>0, <1>b, <1>12 DEF StatusOK, PlaceOK, Done
  <1>14. \A u \in All : ~Has(u, c)'
    <2>1. ~Has(t, c) /\ \A u \in All : ~Has(u, c)
      BY <1>b, <1>12 DEF PlaceOK
    <2>2. ~Has(t, c)'
      BY <1>1, <1>3, <1>4, <1>5, <2>1 DEF Has, Going, Making, Placing, Returns
    <2> QED
      BY <2>1, <2>2, <1>4, OtherRoles
  <1>15. PlaceOK(c)'
    BY <1>0, <1>10, <1>11, <1>13, <1>14 DEF PlaceOK, SameLease
  <1>16. StatusOK(c)'
    <2>1. lease'[c].status = "retired" /\ lease'[c].holder = None
      BY <1>10, <1>13 DEF SameLease
    <2> QED
      BY <1>0, <1>11, <1>13, <1>14, <2>1 DEF StatusOK, Has
  <1>17. ReserveOK(c)'
    BY <1>0, <1>3, <1>4, <1>10, <1>12, ReserveKept DEF SameLease, Writing
  <1>18. ASSUME NEW l \in Leases, l # c PROVE PlaceOK(l)' /\ StatusOK(l)' /\ ReserveOK(l)'
    <2>1. SamePlace(l)
      BY <1>0, <1>11, <1>18 DEF SamePlace
    <2>2. SameRoles(t, l)
      BY <1>b, <1>0, <1>1, <1>3, <1>4, <1>5, <1>18
      DEF SameRoles, Making, Placing, Going, Done, Writing, Returns
    <2> QED
      BY <1>0, <1>4, <1>10, <2>1, <2>2, LeaseKept DEF IInv, LeaseInv
  <1>19. LeaseInv'
    BY <1>15, <1>16, <1>17, <1>18 DEF LeaseInv
  <1>20. CountInv'
    BY <1>0, <1>10 DEF IInv, CountInv, SameLease
  <1>21. TypeOK'
    BY <1>0, <1>b, <1>4, <1>8, <1>10, QueueTail DEF TypeOK
  <1>22. DataInv'
    BY <1>0, <1>3, <1>4, DataFrame DEF IInv
  <1> QED
    BY <1>7, <1>9, <1>19, <1>20, <1>21, <1>22 DEF IInv

\* An attempt that failed leaves it there.
LEMMA AttemptedFailedKeeps ==
    ASSUME Configuration, IInv, NEW t \in All, Attempted(t), th[t].err # "none"
    PROVE  IInv'
  <1>a. ShapeOK(t) /\ th[t] \in Frame /\ inProgress = t
    BY FrameFields DEF IInv, ShapeInv, ShapeOK, Attempted
  <1> DEFINE r == [th[t] EXCEPT !.pc = th[t].ret, !.cur = None, !.err = "none"]
  <1>0. /\ TypeOK /\ UNCHANGED <<proc, live, count, writeFile, mem, disk, gate, snap, failures>>
        /\ UNCHANGED <<abandoned, pending>> /\ th[t].pc = "attempted" /\ inProgress' = None
        /\ lease' = [lease EXCEPT ![th[t].cur].error = th[t].err]
        /\ Step(t, r) /\ None \notin All /\ th[t].err \in Errors
    BY ConstantFacts, FrameFields DEF IInv, Attempted, cacheVars
  <1>1. th[t].ret \in Returns /\ gate # t /\ Phase(t) = th[t].ret /\ th[t].new = {}
    BY <1>0, <1>a DEF ShapeOK, Phase
  <1>2. r \in Frame
    BY <1>a DEF Frame, Errors
  <1>3. /\ r.pc = th[t].ret /\ r.cur = None /\ r.todo = th[t].todo /\ r.ret = th[t].ret
        /\ r.held = th[t].held /\ r.new = {} /\ r.on = th[t].on /\ r.err = "none"
    BY <1>a, <1>1 DEF Frame
  <1>4. Others(t) /\ th' \in [Threads \cup {Main} -> Frame] /\ th'[t] = r
    BY <1>a, <1>0, <1>2, Moved
  <1>5. Phase(t)' = th[t].ret
    BY <1>0, <1>1, <1>3, <1>4 DEF Phase, Returns
  <1>6. ShapeOK(t)'
    BY <1>a, <1>0, <1>1, <1>3, <1>4, <1>5 DEF ShapeOK, Returns
  <1>7. /\ \A l \in Leases : SameLease(l)
        /\ lease' \in [Leases -> Lease]
    <2>1. PICK c \in Leases, e \in Errors : c = th[t].cur /\ e = th[t].err
      BY <1>a, <1>0, HeadQueued
    <2>2. lease' = [lease EXCEPT ![c].error = e]
      BY <1>0, <2>1
    <2> QED
      BY <1>0, <2>2, ErrorSet
  <1>8. \A l \in Leases : SameRoles(t, l)
    BY <1>0, <1>1, <1>3, <1>4, <1>5
    DEF SameRoles, Making, Placing, Going, Done, Writing, Returns
  <1>9. TypeOK'
    BY <1>0, <1>4, <1>7 DEF TypeOK
  <1>10. DataInv'
    BY <1>0, <1>1, <1>3, <1>4, DataFrame DEF IInv, Returns
  <1> QED
    BY <1>0, <1>4, <1>6, <1>7, <1>8, <1>9, <1>10, Quiet

\* Shutdown gives up what is left in the queue.
LEMMA AbandonKeeps ==
    ASSUME Configuration, IInv, Abandon
    PROVE  IInv'
  <1> DEFINE r == [th[Main] EXCEPT !.pc = "stopped"]
  <1>0. /\ TypeOK /\ UNCHANGED <<proc, live, lease, cacheVars, inProgress>>
        /\ UNCHANGED <<count, writeFile, mem, disk, gate, snap, failures>>
        /\ th[Main].pc = "abandon" /\ Step(Main, r) /\ None \notin All /\ Main \in All
    BY ConstantFacts DEF IInv, Abandon, cacheVars, All
  <1>1. /\ th[Main] \in Frame /\ th[Main].todo = {} /\ th[Main].new = {} /\ th[Main].held = {}
        /\ inProgress # Main /\ Phase(Main) = "abandon" /\ ShapeOK(Main)
    BY <1>0, BetweenFacts DEF IInv, ShapeInv
  <1>2. r \in Frame
    BY <1>1 DEF Frame, Codes
  <1>3. /\ r.pc = "stopped" /\ r.cur = th[Main].cur /\ r.todo = {} /\ r.ret = th[Main].ret
        /\ r.held = {} /\ r.new = {}
    BY <1>1 DEF Frame
  <1>4. Others(Main) /\ th' \in [Threads \cup {Main} -> Frame] /\ th'[Main] = r
    BY <1>0, <1>2, Moved
  <1>5. Phase(Main)' = "stopped"
    BY <1>0, <1>1, <1>3, <1>4 DEF Phase
  <1>6. ShapeOK(Main)'
    BY <1>0, <1>1, <1>3, <1>4, <1>5 DEF ShapeOK
  <1>7. \A l \in Leases : SameRoles(Main, l) /\ SameLease(l)
    BY <1>0, <1>1, <1>3, <1>4, <1>5
    DEF SameRoles, Making, Placing, Going, Done, Writing, SameLease
  <1>8. DataInv'
    BY <1>0, <1>3, <1>4, DataFrame DEF IInv
  <1>9. CASE UNCHANGED <<pending, abandoned>>
    <2>1. TypeOK'
      BY <1>0, <1>4, <1>9 DEF TypeOK
    <2> QED
      BY <1>0, <1>4, <1>6, <1>7, <1>8, <1>9, <2>1, Quiet
  <1>10. CASE inProgress = None /\ pending' = <<>> /\ abandoned' = Range(pending)
    <2>1. pending \in Seq(Leases) /\ abandoned = {} /\ Range(pending) \subseteq Leases
      BY <1>0 DEF TypeOK, IInv, QueueInv, Range
    <2>2. TypeOK'
      BY <1>0, <1>4, <1>10, <2>1 DEF TypeOK
    <2>3. ShapeInv'
      BY <1>0, <1>4, <1>6, <1>10, ShapeOthers DEF IInv
    <2>4. QueueInv'
      BY <1>3, <1>4, <1>10 DEF QueueInv
    <2>5. \A l : ~Queued(l)' /\ (l \in abandoned' <=> Queued(l))
      BY <1>10 DEF Queued, Range
    <2>6. ASSUME NEW l \in Leases PROVE PlaceOK(l)' /\ StatusOK(l)' /\ ReserveOK(l)'
      <3>1. PlaceOK(l) /\ StatusOK(l) /\ ReserveOK(l)
        BY DEF IInv, LeaseInv
      <3>2. \A u \in All : ~Done(u, l)
        BY <1>0, <1>10 DEF Done, IInv, ShapeInv, ShapeOK
      <3>a. \A u \in All : /\ Making(u, l)' <=> Making(u, l)
                           /\ Placing(u, l)' <=> Placing(u, l)
                           /\ Going(u, l)' <=> Going(u, l)
                           /\ l \in th'[u].new <=> l \in th[u].new
                           /\ ~Done(u, l)'
        <4>1. ASSUME NEW u \in All, u # Main
              PROVE  /\ Making(u, l)' <=> Making(u, l)
                     /\ Placing(u, l)' <=> Placing(u, l)
                     /\ Going(u, l)' <=> Going(u, l)
                     /\ l \in th'[u].new <=> l \in th[u].new
                     /\ ~Done(u, l)'
          BY <1>0, <1>4, <3>2, <4>1, OtherRoles
        <4>2. SameRoles(Main, l)
          BY <1>7
        <4> QED
          BY <1>0, <3>2, <4>1, <4>2 DEF SameRoles
      <3>3. \A u \in All : /\ Making(u, l)' <=> Making(u, l)
                           /\ Placing(u, l)' <=> Placing(u, l)
                           /\ Going(u, l)' <=> Going(u, l)
                           /\ l \in th'[u].new <=> l \in th[u].new
                           /\ ~Done(u, l)'
                           /\ Has(u, l)' <=> Has(u, l)
        BY <3>a DEF Has
      <3>4. PlaceOK(l)'
        BY <1>7, <2>1, <2>5, <3>1, <3>3 DEF PlaceOK, SameLease
      <3>5. StatusOK(l)'
        BY <1>0, <1>7, <2>1, <2>5, <3>1, <3>2, <3>3 DEF StatusOK, SameLease
      <3>6. ReserveOK(l)'
        BY <1>0, <1>1, <1>3, <1>4, <1>7, <3>1, ReserveKept DEF SameLease, Writing
      <3> QED
        BY <3>4, <3>5, <3>6
    <2>7. CountInv'
      BY <1>0 DEF IInv, CountInv
    <2> QED
      BY <1>8, <2>2, <2>3, <2>4, <2>6, <2>7 DEF IInv, LeaseInv
  <1> QED
    BY <1>9, <1>10 DEF Abandon

\* Two leases are retained.
LEMMA TwoRetained ==
    ASSUME Configuration, IInv, NEW c \in Leases, NEW l \in Leases, c # l,
           lease[c].status = "retained", lease[l].status = "retained"
    PROVE  count >= 2
  <1> DEFINE R == {k \in Leases : lease[k].status = "retained"}
  <1>1. IsFiniteSet(R)
    BY ConstantFacts, FS_Subset
  <1>2. IsFiniteSet(R \ {c}) /\ Cardinality(R \ {c}) = Cardinality(R) - 1
    BY <1>1, FS_RemoveElement
  <1>3. l \in R \ {c}
    OBVIOUS
  <1>4. Cardinality(R \ {c}) \in Nat /\ Cardinality(R \ {c}) # 0
    BY <1>2, <1>3, FS_CardinalityType, FS_EmptySet
  <1>5. Cardinality(R) \in Nat
    BY <1>1, FS_CardinalityType
  <1> QED
    BY <1>2, <1>4, <1>5 DEF IInv, CountInv

\* A step that changes the bytes only.
LEMMA BytesKept ==
    ASSUME Configuration, IInv, NEW t \in All, th[t].pc = "idle",
           UNCHANGED <<proc, live, lease, count, writeFile, gate, snap, failures,
                       pending, inProgress, abandoned, th>>,
           mem' \in 0 .. MaxWrites, disk' \in 0 .. MaxWrites, DataInv'
    PROVE  IInv'
  <1>1. TypeOK'
    BY DEF IInv, TypeOK
  <1>2. Others(t)
    BY DEF Others
  <1>3. Phase(t)' = Phase(t)
    BY DEF Phase
  <1>4. ShapeOK(t)'
    BY <1>3 DEF IInv, ShapeInv, ShapeOK
  <1>5. \A l \in Leases : SameLease(l) /\ SameRoles(t, l)
    BY <1>3 DEF SameLease, SameRoles, Making, Placing, Going, Done, Writing
  <1> QED
    BY <1>1, <1>2, <1>4, <1>5, Quiet

\* A store needs a record, and so a retained lease that nobody is retiring.
LEMMA StoreKeeps ==
    ASSUME Configuration, IInv, NEW t \in Threads, Store(t)
    PROVE  IInv'
  <1>0. /\ TypeOK /\ UNCHANGED <<proc, live, lease, count, writeFile, disk, gate, snap,
             failures,
                                 pending, inProgress, abandoned, th>>
        /\ th[t].pc = "idle" /\ mem < MaxWrites /\ mem' = mem + 1 /\ t \in All
        /\ MaxWrites \in Nat /\ Proc[t] # None
    BY ConstantFacts DEF IInv, Store, Begin, queueVars, All, Configuration
  <1>1. PICK l \in Leases : lease[l].holder = Proc[t] /\ lease[l].shared
    BY DEF Store, Mapped
  <1>2. lease[l].status = "retained" /\ writeFile
    BY <1>0, <1>1 DEF IInv, LeaseInv, StatusOK
  <1>3. \A u \in All : th[u].pc = "io" /\ th[u].cur # None => count >= 2
    <2> SUFFICES ASSUME NEW u \in All, th[u].pc = "io", th[u].cur # None PROVE count >= 2
      OBVIOUS
    <2>1. PICK c \in Leases : c = th[u].cur /\ lease[c].status = "retained" /\ lease[c].holder = None
      BY CurRetained
    <2> QED
      BY <1>0, <1>1, <1>2, <2>1, TwoRetained
  <1>4. count >= 1
    <2>1. IsFiniteSet({k \in Leases : lease[k].status = "retained"})
      BY ConstantFacts, FS_Subset
    <2>2. l \in {k \in Leases : lease[k].status = "retained"}
      BY <1>2
    <2> QED
      BY <2>1, <2>2, FS_CardinalityType, FS_EmptySet DEF IInv, CountInv
  <1>5. mem \in Nat /\ disk \in Nat /\ count \in Nat /\ (snap = None \/ snap \in Nat)
    BY <1>0 DEF TypeOK
  <1>6. DataInv
    BY DEF IInv
  <1>7. DataInv'
    <2>1. disk' <= mem'
      BY <1>0, <1>5, <1>6 DEF DataInv
    <2>2. snap' # None => gate' # None /\ writeFile' /\ disk' <= snap' /\ snap' <= mem'
      BY <1>0, <1>5, <1>6 DEF DataInv
    <2>3. ~(count' = 0 \/ ~writeFile')
      BY <1>0, <1>2, <1>4, <1>5
    <2>4. ASSUME NEW u \in All, th'[u].pc = "io", th'[u].cur # None
          PROVE  snap' = None /\ count' > 1
      BY <1>0, <1>2, <1>3, <1>5, <1>6, <2>4 DEF DataInv
    <2> QED
      BY <2>1, <2>2, <2>3, <2>4 DEF DataInv
  <1> QED
    BY <1>0, <1>5, <1>7, BytesKept DEF TypeOK

\* write(2) changes file and cache together.
LEMMA PwriteKeeps ==
    ASSUME Configuration, IInv, NEW t \in Threads, Pwrite(t)
    PROVE  IInv'
  <1>0. /\ TypeOK /\ UNCHANGED <<proc, live, lease, count, writeFile, gate, snap, failures,
                                 pending, inProgress, abandoned, th>>
        /\ th[t].pc = "idle" /\ mem < MaxWrites /\ mem' = mem + 1 /\ disk' = mem + 1 /\ t \in All
        /\ MaxWrites \in Nat /\ None \notin All /\ gate = None
    BY ConstantFacts DEF IInv, Pwrite, Begin, queueVars, All, Configuration
  <1>1. \A u \in All : th[u].pc # "io"
    BY <1>0 DEF IInv, ShapeInv, ShapeOK
  <1>2. mem \in Nat /\ snap = None
    BY <1>0 DEF TypeOK, IInv, DataInv
  <1>3. DataInv'
    BY <1>0, <1>1, <1>2 DEF DataInv
  <1> QED
    BY <1>0, <1>2, <1>3, BytesKept

\* The facts of a lease that does not exist.
LEMMA FreeFacts ==
    ASSUME IInv, NEW l \in Leases, lease[l].status = "free"
    PROVE  /\ lease[l].holder = None /\ ~Queued(l) /\ l \notin abandoned
           /\ \A u \in All : ~Has(u, l) /\ ~Done(u, l)
           /\ \A u \in Threads : l \notin th[u].held
  BY DEF IInv, LeaseInv, StatusOK, ReserveOK, Has

\* mmap makes a lease.
LEMMA MmapKeeps ==
    ASSUME Configuration, IInv, NEW t \in Threads, Mmap(t)
    PROVE  IInv'
  <1>a. /\ TypeOK /\ UNCHANGED <<proc, live, count, disk, gate, snap, failures,
                                 pending, inProgress, abandoned>>
        /\ th[t].pc = "idle" /\ t \in All /\ t # Main /\ None \notin All /\ gate = None
        /\ None \notin Leases /\ MaxPieces \in Nat \ {0}
        /\ mem' = IF Expired THEN disk ELSE mem
    BY ConstantFacts DEF IInv, Mmap, Begin, queueVars, All, Configuration
  <1>b. PICK c \in Leases, shared \in BOOLEAN :
        /\ lease[c].status = "free"
        /\ lease' = [lease EXCEPT ![c] =
               [Unused EXCEPT !.status = "made", !.shared = shared, !.pieces = 1]]
        /\ writeFile' = (shared \/ (writeFile /\ ~Expired))
        /\ Step(t, [th[t] EXCEPT !.pc = "retain", !.cur = c])
    BY DEF Mmap, Free
  <1> DEFINE r == [th[t] EXCEPT !.pc = "retain", !.cur = c]
  <1>1. th[t] = Idle /\ th[t] \in Frame /\ inProgress # t /\ gate # t
    BY <1>a, IdleFacts, FrameFields
  <1>2. r \in Frame
    BY <1>1 DEF Frame, Codes
  <1>3. /\ r.pc = "retain" /\ r.cur = c /\ r.todo = {} /\ r.held = {} /\ r.new = {}
        /\ r.ret = "idle"
    BY <1>1 DEF Idle
  <1>4. Others(t) /\ th' \in [Threads \cup {Main} -> Frame] /\ th'[t] = r
    BY <1>a, <1>b, <1>2, Moved
  <1>5. Phase(t)' = "retain"
    BY <1>a, <1>1, <1>3, <1>4 DEF Phase
  <1>6. /\ th[t].pc = "idle" /\ th[t].cur = None /\ th[t].todo = {} /\ th[t].held = {}
        /\ th[t].new = {} /\ Phase(t) = "idle"
    BY <1>1 DEF Idle, Phase
  <1>7. ShapeOK(t)'
    BY <1>a, <1>1, <1>3, <1>4, <1>5 DEF ShapeOK
  <1>8. ShapeInv'
    <2>1. \A u \in All : u # t /\ inProgress = u => pending' # <<>> /\ Head(pending') = Head(pending)
      BY <1>a DEF IInv, ShapeInv, ShapeOK
    <2> QED
      BY <1>a, <1>4, <1>7, <2>1, ShapeOthers DEF IInv
  <1>9. QueueInv'
    BY <1>a, <1>4 DEF IInv, QueueInv, Others, All
  <1>10. [Unused EXCEPT !.status = "made", !.shared = shared, !.pieces = 1] \in Lease
    <2>1. 0 \in 0 .. Cardinality(Threads) /\ 1 \in 0 .. MaxPieces
      BY <1>a, ConstantFacts, FS_CardinalityType
    <2> QED
      BY <2>1 DEF Unused, Lease, Errors
  <1>11. /\ \A l \in Leases : l # c => lease'[l] = lease[l]
         /\ lease'[c].status = "made" /\ lease'[c].holder = None /\ lease'[c].shared = shared
         /\ lease'[c].reserved = 0 /\ lease'[c].pieces = 1
         /\ lease' \in [Leases -> Lease]
    BY <1>a, <1>b, <1>10 DEF TypeOK, Unused
  <1>12. /\ ~Queued(c) /\ c \notin abandoned
         /\ \A u \in All : ~Has(u, c) /\ ~Done(u, c)
         /\ \A u \in Threads : c \notin th[u].held
    BY <1>b, FreeFacts
  <1>13. ~Queued(c)' /\ c \notin abandoned'
    BY <1>a, <1>12 DEF Queued
  <1>14. \A u \in All : /\ u # t => ~Has(u, c)' /\ ~Done(u, c)'
                        /\ ~Placing(u, c)'
                             /\ ~Going(u, c)' /\ c \notin th'[u].new /\ ~Done(u, c)'
    <2>1. ASSUME NEW u \in All, u # t PROVE ~Has(u, c)' /\ ~Done(u, c)'
      BY <1>a, <1>4, <1>12, <2>1, OtherRoles
    <2>2. ~Placing(t, c)' /\ ~Going(t, c)' /\ c \notin th'[t].new /\ ~Done(t, c)'
      BY <1>3, <1>4, <1>5 DEF Placing, Going, Done
    <2>3. ASSUME NEW u \in All, u # t
          PROVE  ~Placing(u, c)' /\ ~Going(u, c)' /\ c \notin th'[u].new
      BY <2>1, <2>3 DEF Has
    <2> QED
      BY <2>1, <2>2, <2>3
  <1>15. PlaceOK(c)'
    BY <1>11, <1>13, <1>14 DEF PlaceOK
  <1>16. StatusOK(c)'
    <2>1. shared => writeFile'
      BY <1>b
    <2> QED
      BY <1>11, <1>13, <1>14, <2>1 DEF StatusOK
  <1>17. ReserveOK(c)'
    <2>1. \A u \in Threads : c \notin th'[u].held
      BY <1>3, <1>4, <1>12 DEF Others, All
    <2>2. Cardinality({u \in Threads : c \in th'[u].held}) = 0
      <3>1. {u \in Threads : c \in th'[u].held} = {}
        BY <2>1
      <3> QED
        BY <3>1, FS_EmptySet
    <2> QED
      BY <1>11, <2>1, <2>2 DEF ReserveOK
  <1>18. ASSUME NEW l \in Leases, l # c PROVE PlaceOK(l)' /\ StatusOK(l)' /\ ReserveOK(l)'
    <2>1. SameLease(l) /\ SamePlace(l)
      BY <1>a, <1>11, <1>18 DEF SameLease, SamePlace, Queued
    <2>2. SameRoles(t, l)
      BY <1>a, <1>3, <1>4, <1>5, <1>6, <1>18 DEF SameRoles, Making, Placing, Going, Done,
         Writing
    <2>3. lease[l].status \in {"made", "retained"} /\ writeFile => writeFile'
      BY <1>b DEF Expired
    <2> QED
      BY <1>a, <1>4, <2>1, <2>2, <2>3, LeaseKept DEF IInv, LeaseInv
  <1>19. LeaseInv'
    BY <1>15, <1>16, <1>17, <1>18 DEF LeaseInv
  <1>20. CountInv'
    <2>1. {l \in Leases : lease'[l].status = "retained"} = {l \in Leases : lease[l].status = "retained"}
      BY <1>b, <1>11
    <2> QED
      BY <1>a, <2>1 DEF IInv, CountInv
  <1>21. TypeOK'
    BY <1>a, <1>b, <1>4, <1>11 DEF TypeOK
  <1>22. \A u \in All : th'[u].pc # "io"
    <2>1. \A u \in All : th[u].pc = "io" <=> gate = u
      BY DEF IInv, ShapeInv, ShapeOK
    <2>2. \A u \in All : th[u].pc # "io"
      BY <1>a, <2>1
    <2> HIDE DEF r
    <2> QED
      BY <1>3, <1>4, <2>2 DEF Others
  <1>23. snap = None /\ disk \in Nat /\ mem \in Nat
    BY <1>a DEF IInv, DataInv, TypeOK
  <1>24. /\ disk <= mem /\ (count = 0 => disk = mem)
         /\ ~writeFile => disk = mem
    BY DEF IInv, DataInv
  <1>25. disk' <= mem' /\ (count' = 0 => disk' = mem') /\ (~writeFile' => disk' = mem')
    <2>1. CASE Expired
      BY <1>a, <1>23, <2>1
    <2>2. CASE ~Expired
      <3>1. ~writeFile' => ~writeFile
        BY <1>b, <2>2
      <3> QED
        BY <1>a, <1>24, <2>2, <3>1
    <2> QED
      BY <2>1, <2>2
  <1>26. DataInv'
    BY <1>a, <1>22, <1>23, <1>25 DEF DataInv
  <1> QED
    BY <1>8, <1>9, <1>19, <1>20, <1>21, <1>26 DEF IInv

----------------------------------------------------------------------------
(* What happens to one lease: it stays in a thread's hands, a process gets   *)
(* it, a process keeps it, or a process gives it up.                        *)

\* The invariant of one lease.
Sound(l) == PlaceOK(l) /\ StatusOK(l) /\ ReserveOK(l)

\* What is known of a lease in the hands of a thread.
LEMMA HandFacts ==
    ASSUME NEW t \in All, NEW l \in Leases, Sound(l), Has(t, l)
    PROVE  /\ lease[l].status \in {"made", "retained"} /\ lease[l].holder = None
           /\ ~Queued(l) /\ l \notin abandoned
           /\ \A u \in All : (Has(u, l) => u = t) /\ ~Done(u, l)
           /\ lease[l].shared => writeFile
  BY DEF Sound, PlaceOK, StatusOK, Has

\* A lease in the hands of a thread that keeps it there stays sound.
LEMMA HandKept ==
    ASSUME NEW t \in All, Others(t), NEW l \in Leases, Sound(l), Has(t, l), Has(t, l)',
           SamePlace(l), writeFile' = writeFile,
           lease'[l].holder = None, lease'[l].shared = lease[l].shared,
           lease'[l].reserved = lease[l].reserved,
           lease'[l].status = lease[l].status \/ lease'[l].status = "retained",
           Making(t, l)' => lease'[l].status = "made" /\ lease'[l].pieces > 0,
           Placing(t, l)' => lease'[l].status = "retained" /\ lease'[l].pieces > 0,
           Going(t, l)' => lease'[l].status = "retained",
           l \in th'[t].new => lease'[l].pieces > 0,
           ~Done(t, l)', l \in th'[t].held <=> l \in th[t].held,
           Writing(t, l)' => Writing(t, l)
    PROVE  Sound(l)'
  <1>1. /\ lease[l].status \in {"made", "retained"} /\ lease[l].holder = None
        /\ ~Queued(l) /\ l \notin abandoned
        /\ \A u \in All : (Has(u, l) => u = t) /\ ~Done(u, l)
        /\ lease[l].shared => writeFile
    BY HandFacts
  <1>2. \A u \in All : u # t => ~Has(u, l)' /\ ~Done(u, l)'
    BY <1>1, OtherRoles
  <1>3. \A u \in All : u # t => ~Making(u, l)' /\ ~Placing(u, l)'
          /\ ~Going(u, l)' /\ l \notin th'[u].new
    BY <1>2 DEF Has
  <1>4. lease'[l].status \in {"made", "retained"} /\ ~Queued(l)' /\ l \notin abandoned'
    BY <1>1 DEF SamePlace
  <1>5. PlaceOK(l)'
    BY <1>2, <1>4 DEF PlaceOK
  <1>6. lease'[l].shared => writeFile'
    BY <1>1
  <1>7. StatusOK(l)'
    BY <1>2, <1>3, <1>4, <1>6 DEF StatusOK
  <1>8. ReserveOK(l)'
    BY ReserveKept DEF Sound
  <1> QED
    BY <1>5, <1>7, <1>8 DEF Sound

\* A lease whose record is published.
LEMMA HandPublished ==
    ASSUME NEW t \in All, Others(t), NEW l \in Leases, Sound(l), Has(t, l), ~Has(t, l)',
           SamePlace(l), writeFile' = writeFile,
           lease'[l].status = "retained", lease'[l].pieces > 0,
           lease'[l].shared = lease[l].shared, lease'[l].reserved = lease[l].reserved,
           ~Done(t, l)', l \in th'[t].held <=> l \in th[t].held, ~Writing(t, l)',
           lease'[l].holder # None
    PROVE  Sound(l)'
  <1>1. /\ lease[l].status \in {"made", "retained"} /\ lease[l].holder = None
        /\ ~Queued(l) /\ l \notin abandoned
        /\ \A u \in All : (Has(u, l) => u = t) /\ ~Done(u, l)
        /\ lease[l].shared => writeFile
    BY HandFacts
  <1>2. \A u \in All : ~Has(u, l)' /\ ~Done(u, l)'
    BY <1>1, OtherRoles
  <1>3. \A u \in All : ~Making(u, l)' /\ ~Placing(u, l)' /\ ~Going(u, l)' /\ l \notin th'[u].new
    BY <1>2 DEF Has
  <1>4. ~Queued(l)' /\ l \notin abandoned'
    BY <1>1 DEF SamePlace
  <1>5. PlaceOK(l)'
    BY <1>2, <1>4 DEF PlaceOK
  <1>6. lease'[l].shared => writeFile'
    BY <1>1
  <1>7. StatusOK(l)'
    BY <1>2, <1>3, <1>4, <1>6 DEF StatusOK
  <1>8. ReserveOK(l)'
    BY ReserveKept DEF Sound
  <1> QED
    BY <1>5, <1>7, <1>8 DEF Sound

\* A lease that a process keeps, with fewer or more records.
LEMMA StaysMapped ==
    ASSUME NEW t \in All, Others(t), NEW l \in Leases, Sound(l), SameRoles(t, l), SamePlace(l),
           writeFile' = writeFile, lease[l].holder # None,
           lease'[l].holder = lease[l].holder, lease'[l].pieces > 0,
           lease'[l].status = lease[l].status,
           lease'[l].shared = lease[l].shared, lease'[l].reserved = lease[l].reserved
    PROVE  Sound(l)'
  <1>1. /\ lease[l].status = "retained" /\ ~Queued(l) /\ l \notin abandoned
        /\ \A u \in All : ~Has(u, l) /\ ~Done(u, l)
        /\ lease[l].shared => writeFile
    BY DEF Sound, PlaceOK, StatusOK
  <1>2. \A u \in All : ~Has(u, l)' /\ ~Done(u, l)'
    <2>1. ASSUME NEW u \in All, u # t PROVE ~Has(u, l)' /\ ~Done(u, l)'
      BY <1>1, <2>1, OtherRoles
    <2>2. ~Has(t, l)' /\ ~Done(t, l)'
      BY <1>1 DEF SameRoles, Has
    <2> QED
      BY <2>1, <2>2
  <1>3. \A u \in All : ~Making(u, l)' /\ ~Placing(u, l)' /\ ~Going(u, l)' /\ l \notin th'[u].new
    BY <1>2 DEF Has
  <1>4. ~Queued(l)' /\ l \notin abandoned'
    BY <1>1 DEF SamePlace
  <1>5. PlaceOK(l)'
    BY <1>2, <1>4 DEF PlaceOK
  <1>6. lease'[l].shared => writeFile'
    BY <1>1
  <1>7. StatusOK(l)'
    BY <1>1, <1>2, <1>3, <1>4, <1>6 DEF StatusOK
  <1>8. ReserveOK(l)'
    <2>1. \A u \in All : Writing(u, l)' =>
            Writing(u, l) \/ \A v \in Threads : l \notin th[v].held
      BY OtherRoles DEF SameRoles
    <2>2. \A u \in Threads : l \in th'[u].held <=> l \in th[u].held
      BY DEF Others, SameRoles, All
    <2>3. lease'[l].reserved = Cardinality({u \in Threads : l \in th'[u].held})
      BY <2>2, HeldSame DEF Sound
    <2> QED
      BY <2>1, <2>2, <2>3 DEF ReserveOK, Sound
  <1> QED
    BY <1>5, <1>7, <1>8 DEF Sound

\* A lease that loses its last record: the thread will retire it.
LEMMA LosesLast ==
    ASSUME NEW t \in All, Others(t), NEW l \in Leases, Sound(l), SamePlace(l),
           writeFile' = writeFile, lease[l].holder # None, lease'[l].holder = None,
           lease'[l].status = lease[l].status,
           lease'[l].shared = lease[l].shared, lease'[l].reserved = lease[l].reserved,
           Going(t, l)', ~Making(t, l)', ~Placing(t, l)', l \notin th'[t].new, ~Done(t, l)',
           l \in th'[t].held <=> l \in th[t].held, ~Writing(t, l)'
    PROVE  Sound(l)'
  <1>1. /\ lease[l].status = "retained" /\ ~Queued(l) /\ l \notin abandoned
        /\ \A u \in All : ~Has(u, l) /\ ~Done(u, l)
        /\ lease[l].shared => writeFile
    BY DEF Sound, PlaceOK, StatusOK
  <1>2. \A u \in All : u # t => ~Has(u, l)' /\ ~Done(u, l)'
    BY <1>1, OtherRoles
  <1>3. \A u \in All : u # t => ~Making(u, l)' /\ ~Placing(u, l)'
          /\ ~Going(u, l)' /\ l \notin th'[u].new
    BY <1>2 DEF Has
  <1>4. ~Queued(l)' /\ l \notin abandoned' /\ Has(t, l)'
    BY <1>1 DEF SamePlace, Has
  <1>5. PlaceOK(l)'
    BY <1>2, <1>4 DEF PlaceOK
  <1>6. lease'[l].shared => writeFile'
    BY <1>1
  <1>7. StatusOK(l)'
    BY <1>1, <1>2, <1>3, <1>4, <1>6 DEF StatusOK
  <1>8. ReserveOK(l)'
    BY ReserveKept DEF Sound
  <1> QED
    BY <1>5, <1>7, <1>8 DEF Sound

\* A step that changes leases and leaves the queue alone.
LEMMA LeaseStep ==
    ASSUME IInv, NEW t \in All, Others(t), TypeOK', ShapeOK(t)', DataInv', CountInv',
           \A u \in All : u # t => (gate' = u <=> gate = u),
           th[t].pc # "stopped", \A l \in Leases : Sound(l)',
           UNCHANGED <<pending, abandoned>>
    PROVE  IInv'
  <1>0. \A u \in All : u # t /\ inProgress = u => pending' # <<>> /\ Head(pending') = Head(pending)
    BY DEF IInv, ShapeInv, ShapeOK
  <1>1. ShapeInv'
    BY <1>0, ShapeOthers DEF IInv
  <1>2. QueueInv'
    BY DEF IInv, QueueInv, Others, All
  <1>3. LeaseInv'
    BY DEF LeaseInv, Sound
  <1> QED
    BY <1>1, <1>2, <1>3 DEF IInv

\* Every lease is sound.
LEMMA AllSound ==
    ASSUME IInv, NEW l \in Leases
    PROVE  Sound(l)
  BY DEF IInv, LeaseInv, Sound

\* A lease that a step leaves alone.
LEMMA SoundKept ==
    ASSUME NEW t \in All, Others(t), NEW l \in Leases, Sound(l),
           SameLease(l), SameRoles(t, l), SamePlace(l), writeFile' = writeFile
    PROVE  Sound(l)'
  <1>1. lease[l].status \in {"made", "retained"} /\ lease[l].shared /\ writeFile => writeFile'
    OBVIOUS
  <1> QED
    BY <1>1, LeaseKept DEF Sound

\* A step that leaves the queue alone leaves every lease its place in it.
LEMMA SameQueue ==
    ASSUME UNCHANGED <<pending, abandoned>>, NEW l
    PROVE  SamePlace(l)
  BY DEF SamePlace, Queued

\* The records of some leases are cut.
LEMMA CutFacts ==
    ASSUME Configuration, TypeOK, NEW D \in SUBSET Leases, NEW f \in [D -> 0 .. MaxPieces]
    PROVE  /\ Cut(f) \in [Leases -> Lease]
           /\ \A l \in Leases : /\ Cut(f)[l].status = lease[l].status
                                /\ Cut(f)[l].shared = lease[l].shared
                                /\ Cut(f)[l].reserved = lease[l].reserved
           /\ \A l \in Leases \ D : Cut(f)[l] = lease[l]
           /\ \A l \in D : /\ Cut(f)[l].pieces = f[l]
                           /\ Cut(f)[l].holder = IF f[l] = 0 THEN None ELSE lease[l].holder
  <1>1. DOMAIN f = D
    OBVIOUS
  <1>2. \A l \in D : f[l] \in 0 .. MaxPieces
    OBVIOUS
  <1>3. ASSUME NEW l \in D
        PROVE  /\ Cut(f)[l] = [lease[l] EXCEPT !.pieces = f[l],
                                    !.holder = IF f[l] = 0 THEN None ELSE lease[l].holder]
               /\ Cut(f)[l] \in Lease
    <2>1. Cut(f)[l] = [lease[l] EXCEPT !.pieces = f[l],
                                    !.holder = IF f[l] = 0 THEN None ELSE lease[l].holder]
      BY <1>1 DEF Cut
    <2>2. lease[l] \in Lease /\ (IF f[l] = 0 THEN None ELSE lease[l].holder) \in Procs \cup {None}
      BY LeaseFields
    <2> QED
      BY <1>2, <2>1, <2>2 DEF Lease
  <1>4. \A l \in Leases \ D : Cut(f)[l] = lease[l] /\ lease[l] \in Lease
    BY <1>1, LeaseFields DEF Cut
  <1>5. Cut(f) \in [Leases -> Lease]
    <2>1. Cut(f) = [l \in Leases |-> Cut(f)[l]]
      BY DEF Cut
    <2>2. \A l \in Leases : Cut(f)[l] \in Lease
      BY <1>3, <1>4
    <2> QED
      BY <2>1, <2>2
  <1>6. ASSUME NEW l \in D
        PROVE  /\ Cut(f)[l].status = lease[l].status
               /\ Cut(f)[l].shared = lease[l].shared
               /\ Cut(f)[l].reserved = lease[l].reserved
               /\ Cut(f)[l].pieces = f[l]
               /\ Cut(f)[l].holder = IF f[l] = 0 THEN None ELSE lease[l].holder
    <2>1. lease[l] \in Lease
      BY LeaseFields
    <2>2. PICK h : h = IF f[l] = 0 THEN None ELSE lease[l].holder
      OBVIOUS
    <2>3. Cut(f)[l] = [lease[l] EXCEPT !.pieces = f[l], !.holder = h]
      BY <1>3, <2>2
    <2>4. PICK k \in Lease : k = lease[l]
      BY <2>1
    <2>5. PICK n : n = f[l]
      OBVIOUS
    <2>6. Cut(f)[l] = [k EXCEPT !.pieces = n, !.holder = h]
      BY <2>3, <2>4, <2>5
    <2>7. /\ Cut(f)[l].status = k.status /\ Cut(f)[l].shared = k.shared
          /\ Cut(f)[l].reserved = k.reserved /\ Cut(f)[l].pieces = n /\ Cut(f)[l].holder = h
      BY <2>6 DEF Lease
    <2> QED
      BY <2>2, <2>4, <2>5, <2>7
  <1> QED
    BY <1>4, <1>5, <1>6

\* What an unmap does to the records of a process.
LEMMA SurgeryFacts ==
    ASSUME Configuration, TypeOK, NEW p \in Procs, NEW f \in Surgeries(p)
    PROVE  /\ f \in [Mapped(p) -> 0 .. MaxPieces] /\ Mapped(p) \subseteq Leases
           /\ \A l : l \in Last(f) <=> l \in Mapped(p) /\ f[l] = 0
  BY DEF Surgeries, Mapped, Last

\* A step that changes no status leaves the count right.
LEMMA StatusCount ==
    ASSUME IInv, count' = count, \A l \in Leases : lease'[l].status = lease[l].status
    PROVE  CountInv'
  BY DEF IInv, CountInv

\* The records in the range are cut out of the table; the leases that lose their last
\* record go from the table to the thread.
LEMMA UnmapLockedKeeps ==
    ASSUME Configuration, IInv, NEW t \in All, UnmapLocked(t)
    PROVE  IInv'
  <1>a. /\ TypeOK /\ UNCHANGED <<proc, live, count, writeFile, mem, disk, gate, snap, failures>>
        /\ UNCHANGED <<pending, inProgress, abandoned>> /\ th[t].pc = "unmap"
    BY DEF IInv, UnmapLocked, cacheVars, queueVars
  <1>b. ShapeOK(t) /\ th[t] \in Frame
    BY FrameFields DEF IInv, ShapeInv
  <1>c. t \in Threads /\ Proc[t] \in Procs /\ Proc[t] # None
    BY <1>a, <1>b, ConstantFacts DEF ShapeOK, All
  <1>d. PICK f \in Surgeries(Proc[t]) :
           /\ lease' = Cut(f)
           /\ Step(t, [th[t] EXCEPT !.pc = "drain", !.todo = Last(f)])
    BY DEF UnmapLocked
  <1> DEFINE D == Mapped(Proc[t])
  <1>e. /\ f \in [D -> 0 .. MaxPieces] /\ D \subseteq Leases
        /\ \A l : l \in Last(f) <=> l \in D /\ f[l] = 0
    BY <1>a, <1>c, <1>d, SurgeryFacts
  <1>f. PICK T \in SUBSET Leases : T = Last(f)
    BY <1>e
  <1> DEFINE r == [th[t] EXCEPT !.pc = "drain", !.todo = T]
  <1>1. inProgress # t /\ gate # t /\ Phase(t) = "unmap"
    BY <1>a, <1>b DEF ShapeOK, Phase
  <1>2. th[t].todo = {} /\ th[t].held = {} /\ th[t].new = {}
    BY <1>a, <1>b, <1>1 DEF ShapeOK
  <1>3. r \in Frame
    BY <1>b DEF Frame, Codes
  <1>4. r.pc = "drain" /\ r.todo = T /\ r.held = {} /\ r.new = {} /\ r.ret = th[t].ret
    BY <1>b, <1>2 DEF Frame
  <1>5. Others(t) /\ th' \in [Threads \cup {Main} -> Frame] /\ th'[t] = r
    BY <1>a, <1>d, <1>f, <1>3, Moved
  <1>6. Phase(t)' = "drain"
    BY <1>a, <1>1, <1>4, <1>5 DEF Phase
  <1>7. ShapeOK(t)'
    BY <1>a, <1>b, <1>1, <1>4, <1>5, <1>6 DEF ShapeOK
  <1>8. /\ lease' \in [Leases -> Lease]
        /\ \A l \in Leases : /\ lease'[l].status = lease[l].status
                             /\ lease'[l].shared = lease[l].shared
                             /\ lease'[l].reserved = lease[l].reserved
        /\ \A l \in Leases \ D : lease'[l] = lease[l]
        /\ \A l \in D : /\ lease'[l].pieces = f[l]
                        /\ lease'[l].holder = IF f[l] = 0 THEN None ELSE lease[l].holder
    BY <1>a, <1>d, <1>e, CutFacts
  <1>9. \A l \in Leases : l \in D <=> lease[l].holder = Proc[t]
    BY DEF Mapped
  <1>10. ASSUME NEW l \in Leases PROVE Sound(l)'
    <2>1. Sound(l) /\ SamePlace(l)
      BY <1>a, AllSound, SameQueue
    <2>2. l \notin T => SameRoles(t, l)
      BY <1>a, <1>1, <1>2, <1>4, <1>5, <1>6 DEF SameRoles, Making, Placing, Going, Done, Writing
    <2>3. CASE l \notin D
      <3>1. SameLease(l) /\ l \notin T
        BY <1>8, <1>e, <1>f, <2>3 DEF SameLease
      <3> QED
        BY <1>a, <1>5, <2>1, <2>2, <3>1, SoundKept
    <2>4. CASE l \in D /\ f[l] # 0
      <3>1. l \notin T /\ lease'[l].pieces > 0 /\ lease'[l].holder = lease[l].holder
        BY <1>8, <1>e, <1>f, <2>4
      <3> QED
        BY <1>a, <1>c, <1>5, <1>8, <1>9, <2>1, <2>2, <2>4, <3>1, StaysMapped
    <2>5. CASE l \in D /\ f[l] = 0
      <3>1. l \in T /\ lease'[l].holder = None
        BY <1>8, <1>e, <1>f, <2>5
      <3>2. /\ Going(t, l)' /\ ~Making(t, l)' /\ ~Placing(t, l)' /\ l \notin th'[t].new
            /\ ~Done(t, l)' /\ (l \in th'[t].held <=> l \in th[t].held) /\ ~Writing(t, l)'
        BY <1>2, <1>4, <1>5, <1>6, <3>1 DEF Going, Making, Placing, Done, Writing
      <3> QED
        BY <1>a, <1>c, <1>5, <1>8, <1>9, <2>1, <2>5, <3>1, <3>2, LosesLast
    <2> QED
      BY <2>3, <2>4, <2>5
  <1>11. CountInv'
    BY <1>a, <1>8, StatusCount
  <1>12. TypeOK'
    BY <1>a, <1>5, <1>8 DEF TypeOK
  <1>13. DataInv'
    BY <1>a, <1>4, <1>5, DataFrame DEF IInv
  <1> QED
    BY <1>a, <1>5, <1>7, <1>10, <1>11, <1>12, <1>13, LeaseStep

\* exec and exit take one record after the other.
LEMMA RetireAllKeeps ==
    ASSUME Configuration, IInv, NEW t \in All, RetireAll(t)
    PROVE  IInv'
  <1>a. /\ TypeOK /\ UNCHANGED <<proc, live, count, writeFile, mem, disk, gate, snap, failures>>
        /\ UNCHANGED <<pending, inProgress, abandoned>> /\ th[t].pc = "retireall"
    BY DEF IInv, RetireAll, cacheVars, queueVars
  <1>b. /\ th[t] \in Frame /\ th[t].todo = {} /\ th[t].new = {} /\ th[t].held = {}
        /\ th[t].on # None /\ inProgress # t /\ Phase(t) = "retireall" /\ ShapeOK(t)
    BY <1>a, BetweenFacts DEF IInv, ShapeInv
  <1>p. PICK c \in Mapped(th[t].on) :
           /\ lease' = Cut([k \in {c} |-> lease[c].pieces - 1])
           /\ IF lease[c].pieces - 1 = 0
              THEN Step(t, [th[t] EXCEPT !.pc = "drain", !.todo = {c}])
              ELSE UNCHANGED th
    BY DEF RetireAll
  <1>q. c \in Leases /\ lease[c].holder = th[t].on
    BY <1>p DEF Mapped
  <1> DEFINE n == lease[c].pieces - 1
  <1>c. /\ c \in Leases /\ lease[c].holder = th[t].on /\ n = lease[c].pieces - 1
        /\ lease' = Cut([k \in {c} |-> n])
        /\ IF n = 0 THEN Step(t, [th[t] EXCEPT !.pc = "drain", !.todo = {c}])
                    ELSE UNCHANGED th
    BY <1>p, <1>q
  <1> HIDE DEF n
  <1>d. n \in 0 .. MaxPieces
    <2>1. lease[c].pieces > 0
      BY <1>b, <1>c DEF IInv, LeaseInv, StatusOK
    <2> QED
      BY <1>a, <1>c, <2>1, LeaseFields DEF Configuration
  <1> DEFINE f == [k \in {c} |-> n]
  <1>e. f \in [{c} -> 0 .. MaxPieces] /\ {c} \in SUBSET Leases /\ f[c] = n
    BY <1>d, <1>q
  <1>8. /\ lease' \in [Leases -> Lease]
        /\ \A l \in Leases : /\ lease'[l].status = lease[l].status
                             /\ lease'[l].shared = lease[l].shared
                             /\ lease'[l].reserved = lease[l].reserved
        /\ \A l \in Leases \ {c} : lease'[l] = lease[l]
        /\ lease'[c].pieces = n
        /\ lease'[c].holder = IF n = 0 THEN None ELSE lease[c].holder
    <2>1. /\ Cut(f) \in [Leases -> Lease]
          /\ \A l \in Leases : /\ Cut(f)[l].status = lease[l].status
                               /\ Cut(f)[l].shared = lease[l].shared
                               /\ Cut(f)[l].reserved = lease[l].reserved
          /\ \A l \in Leases \ {c} : Cut(f)[l] = lease[l]
          /\ \A l \in {c} : /\ Cut(f)[l].pieces = f[l]
                            /\ Cut(f)[l].holder = IF f[l] = 0 THEN None ELSE lease[l].holder
      BY <1>a, <1>e, CutFacts
    <2> QED
      BY <1>c, <1>e, <2>1
  <1>11. CountInv'
    BY <1>a, <1>8, StatusCount
  <1>12. CASE n = 0
    <2> DEFINE r == [th[t] EXCEPT !.pc = "drain", !.todo = {c}]
    <2>3. r \in Frame
      BY <1>b, <1>q DEF Frame, Codes
    <2>4. r.pc = "drain" /\ r.todo = {c} /\ r.held = {} /\ r.new = {} /\ r.ret = th[t].ret
      BY <1>b DEF Frame
    <2>5. Others(t) /\ th' \in [Threads \cup {Main} -> Frame] /\ th'[t] = r
      BY <1>a, <1>c, <1>12, <2>3, Moved
    <2>6. Phase(t)' = "drain" /\ gate # t
      BY <1>a, <1>b, <2>4, <2>5 DEF Phase, ShapeOK
    <2>7. ShapeOK(t)'
      BY <1>a, <1>b, <2>4, <2>5, <2>6 DEF ShapeOK
    <2>10. ASSUME NEW l \in Leases PROVE Sound(l)'
      <3>1. Sound(l) /\ SamePlace(l)
        BY <1>a, AllSound, SameQueue
      <3>2. CASE l # c
        <4>1. SameLease(l)
          BY <1>8, <3>2 DEF SameLease
        <4>2. SameRoles(t, l)
          BY <1>a, <1>b, <2>4, <2>5, <2>6, <3>2
          DEF SameRoles, Making, Placing, Going, Done, Writing
        <4> QED
          BY <1>a, <2>5, <3>1, <4>1, <4>2, SoundKept
      <3>3. CASE l = c
        <4>1. lease'[l].holder = None /\ lease[l].holder # None
          BY <1>b, <1>c, <1>8, <1>12, <3>3
        <4>2. /\ Going(t, l)' /\ ~Making(t, l)' /\ ~Placing(t, l)' /\ l \notin th'[t].new
              /\ ~Done(t, l)' /\ (l \in th'[t].held <=> l \in th[t].held) /\ ~Writing(t, l)'
          BY <1>b, <2>4, <2>5, <2>6, <3>3 DEF Going, Making, Placing, Done, Writing
        <4> QED
          BY <1>a, <1>8, <2>5, <3>1, <4>1, <4>2, LosesLast
      <3> QED
        BY <3>2, <3>3
    <2>12. TypeOK'
      BY <1>a, <2>5, <1>8 DEF TypeOK
    <2>13. DataInv'
      BY <1>a, <2>4, <2>5, DataFrame DEF IInv
    <2> QED
      BY <1>a, <2>5, <2>7, <2>10, <1>11, <2>12, <2>13, LeaseStep
  <1>13. CASE n # 0
    <2>1. UNCHANGED th
      BY <1>c, <1>13
    <2>2. Others(t) /\ Phase(t)' = Phase(t)
      BY <1>a, <2>1 DEF Others, Phase
    <2>3. ShapeOK(t)'
      BY <1>a, <1>b, <2>1, <2>2 DEF ShapeOK
    <2>4. ASSUME NEW l \in Leases PROVE Sound(l)'
      <3>1. Sound(l) /\ SamePlace(l)
        BY <1>a, AllSound, SameQueue
      <3>2. SameRoles(t, l)
        BY <2>1, <2>2 DEF SameRoles, Making, Placing, Going, Done, Writing
      <3>3. CASE l # c
        <4>1. SameLease(l)
          BY <1>8, <3>3 DEF SameLease
        <4> QED
          BY <1>a, <2>2, <3>1, <3>2, <4>1, SoundKept
      <3>4. CASE l = c
        <4>1. lease[l].holder # None /\ lease'[l].holder = lease[l].holder /\ lease'[l].pieces > 0
          <5>1. n > 0
            BY <1>d, <1>13
          <5>2. lease'[c].holder = lease[c].holder /\ lease'[c].pieces = n
            BY <1>8, <1>13
          <5>3. lease[c].holder # None
            BY <1>b, <1>c
          <5> QED
            BY <5>1, <5>2, <5>3, <3>4
        <4> QED
          BY <1>a, <1>8, <2>2, <3>1, <3>2, <4>1, StaysMapped
      <3> QED
        BY <3>3, <3>4
    <2>5. TypeOK'
      BY <1>a, <2>1, <1>8 DEF TypeOK
    <2>6. DataInv'
      BY <1>a, <2>1, <2>2, DataFrame DEF IInv
    <2> QED
      BY <1>a, <2>2, <2>3, <2>4, <1>11, <2>5, <2>6, LeaseStep
  <1> QED
    BY <1>12, <1>13

\* The facts of a thread in the middle of mmap.
LEMMA MmapFacts ==
    ASSUME Configuration, IInv, NEW t \in All, th[t].pc \in {"retain", "commit"}
    PROVE  /\ th[t] \in Frame /\ th[t].cur \in Leases /\ inProgress # t /\ gate # t
           /\ Phase(t) = th[t].pc /\ th[t].todo = {} /\ th[t].held = {} /\ th[t].new = {}
           /\ t \in Threads /\ Proc[t] \in Procs /\ Proc[t] # None /\ t # Main
  <1>1. ShapeOK(t) /\ th[t] \in Frame /\ th[t].cur \in Leases \cup {None}
    BY FrameFields DEF IInv, ShapeInv
  <1>2. inProgress # t /\ gate # t /\ Phase(t) = th[t].pc
    BY <1>1 DEF ShapeOK, Phase
  <1>3. t # Main
    BY <1>1 DEF ShapeOK
  <1> QED
    BY <1>1, <1>2, <1>3, ConstantFacts DEF ShapeOK, All

\* The new lease is counted.
LEMMA RetainKeeps ==
    ASSUME Configuration, IInv, NEW t \in All, Retain(t)
    PROVE  IInv'
  <1>a. /\ th[t] \in Frame /\ inProgress # t /\ gate # t
        /\ Phase(t) = "retain" /\ th[t].todo = {} /\ th[t].held = {} /\ th[t].new = {}
        /\ t # Main /\ th[t].pc = "retain"
    BY MmapFacts DEF Retain
  <1>b. PICK c \in Leases : c = th[t].cur
    BY MmapFacts DEF Retain
  <1> DEFINE r == [th[t] EXCEPT !.pc = "commit"]
  <1>0. /\ TypeOK /\ UNCHANGED <<proc, live, writeFile, mem, disk, gate, snap, failures>>
        /\ UNCHANGED <<pending, inProgress, abandoned>> /\ gate = None /\ None \notin All
        /\ None \notin Leases
        /\ count' = count + 1 /\ lease' = [lease EXCEPT ![c].status = "retained"] /\ Step(t, r)
    BY <1>b, ConstantFacts DEF IInv, Retain, queueVars
  <1>1. r \in Frame
    BY <1>a DEF Frame, Codes
  <1>2. r.pc = "commit" /\ r.cur = c /\ r.todo = {} /\ r.held = {} /\ r.new = {} /\ r.ret = th[t].ret
    BY <1>a, <1>b DEF Frame
  <1>3. Others(t) /\ th' \in [Threads \cup {Main} -> Frame] /\ th'[t] = r
    BY <1>0, <1>1, Moved
  <1>4. Phase(t)' = "commit"
    BY <1>0, <1>a, <1>2, <1>3 DEF Phase
  <1>5. ShapeOK(t)'
    BY <1>0, <1>a, <1>2, <1>3, <1>4 DEF ShapeOK
  <1>6. Sound(c) /\ Has(t, c) /\ Making(t, c)
    BY <1>a, <1>b, AllSound DEF Has, Making
  <1>7. lease[c].status = "made" /\ lease[c].pieces > 0 /\ lease[c].holder = None
    BY <1>6, HandFacts DEF Sound, StatusOK
  <1>8. /\ lease' \in [Leases -> Lease]
        /\ \A l \in Leases : l # c => lease'[l] = lease[l]
        /\ lease'[c].status = "retained" /\ lease'[c].pieces = lease[c].pieces
        /\ lease'[c].holder = None /\ lease'[c].shared = lease[c].shared
        /\ lease'[c].reserved = lease[c].reserved
    BY <1>0, <1>7, StatusSet
  <1>9. Sound(c)'
    <2>1. Has(t, c)'
      BY <1>2, <1>3, <1>4 DEF Has, Placing
    <2>2. ~Making(t, c)' /\ ~Going(t, c)' /\ ~Done(t, c)'
            /\ ~Writing(t, c)' /\ c \notin th'[t].new
      BY <1>2, <1>3, <1>4 DEF Making, Going, Done, Writing
    <2>3. SamePlace(c) /\ (c \in th'[t].held <=> c \in th[t].held)
      BY <1>0, <1>a, <1>2, <1>3, SameQueue
    <2> QED
      BY <1>0, <1>3, <1>6, <1>7, <1>8, <2>1, <2>2, <2>3, HandKept
  <1>10. ASSUME NEW l \in Leases, l # c PROVE Sound(l)'
    <2>1. SameLease(l) /\ SamePlace(l) /\ Sound(l)
      BY <1>0, <1>8, <1>10, AllSound, SameQueue DEF SameLease
    <2>2. SameRoles(t, l)
      BY <1>a, <1>b, <1>2, <1>3, <1>4, <1>10 DEF SameRoles, Making, Placing, Going, Done,
         Writing
    <2> QED
      BY <1>0, <1>3, <2>1, <2>2, SoundKept
  <1>11. CountInv' /\ count' \in 0 .. Cardinality(Leases)
    BY <1>0, <1>7, <1>8, CountAdd
  <1>12. TypeOK'
    BY <1>0, <1>3, <1>8, <1>11 DEF TypeOK
  <1>13. \A u \in All : th'[u].pc # "io"
    BY <1>0, <1>2, <1>3 DEF IInv, ShapeInv, ShapeOK, Others
  <1>14. snap = None /\ count \in Nat
    BY <1>0 DEF IInv, DataInv, TypeOK
  <1>15. DataInv'
    <2>1. disk <= mem /\ (~writeFile => disk = mem)
      BY DEF IInv, DataInv
    <2>2. count' # 0
      BY <1>0, <1>14
    <2> QED
      BY <1>0, <1>13, <1>14, <2>1, <2>2 DEF DataInv
  <1> QED
    BY <1>0, <1>a, <1>3, <1>5, <1>9, <1>10, <1>11, <1>12, <1>15, LeaseStep

\* The record is put into the table: the lease goes from the thread to the process.
LEMMA CommitKeeps ==
    ASSUME Configuration, IInv, NEW t \in All, Commit(t)
    PROVE  IInv'
  <1>a. /\ th[t] \in Frame /\ inProgress # t /\ gate # t
        /\ Phase(t) = "commit" /\ th[t].todo = {} /\ th[t].held = {} /\ th[t].new = {}
        /\ t # Main /\ th[t].pc = "commit" /\ Proc[t] \in Procs /\ Proc[t] # None
    BY MmapFacts DEF Commit
  <1>b. PICK c \in Leases : c = th[t].cur
    BY MmapFacts DEF Commit
  <1>c. PICK f \in Surgeries(Proc[t]) :
           /\ lease' = [Cut(f) EXCEPT ![c].holder = Proc[t]]
           /\ Step(t, [th[t] EXCEPT !.pc = "drain", !.todo = Last(f), !.cur = None])
    BY <1>b DEF Commit
  <1>0. /\ TypeOK /\ UNCHANGED <<proc, live, count, writeFile, mem, disk, gate, snap, failures>>
        /\ UNCHANGED <<pending, inProgress, abandoned>> /\ None \notin Leases
    BY ConstantFacts DEF IInv, Commit, cacheVars, queueVars
  <1> DEFINE D == Mapped(Proc[t])
  <1>e. /\ f \in [D -> 0 .. MaxPieces] /\ D \subseteq Leases
        /\ \A l : l \in Last(f) <=> l \in D /\ f[l] = 0
    BY <1>0, <1>a, <1>c, SurgeryFacts
  <1>f. PICK T \in SUBSET Leases : T = Last(f)
    BY <1>e
  <1> DEFINE r == [th[t] EXCEPT !.pc = "drain", !.todo = T, !.cur = None]
  <1>1. r \in Frame
    BY <1>a DEF Frame, Codes
  <1>2. r.pc = "drain" /\ r.cur = None /\ r.todo = T /\ r.held = {} /\ r.new = {} /\ r.ret = th[t].ret
    BY <1>a DEF Frame
  <1>3. Others(t) /\ th' \in [Threads \cup {Main} -> Frame] /\ th'[t] = r
    BY <1>0, <1>c, <1>f, <1>1, Moved
  <1>4. Phase(t)' = "drain"
    BY <1>0, <1>a, <1>2, <1>3 DEF Phase
  <1>5. ShapeOK(t)'
    BY <1>0, <1>a, <1>2, <1>3, <1>4 DEF ShapeOK
  <1>6. Sound(c) /\ Has(t, c) /\ Placing(t, c)
    BY <1>a, <1>b, AllSound DEF Has, Placing
  <1>7. lease[c].status = "retained" /\ lease[c].pieces > 0 /\ lease[c].holder = None
    BY <1>6, HandFacts DEF Sound, StatusOK
  <1>9. \A l \in Leases : l \in D <=> lease[l].holder = Proc[t]
    BY DEF Mapped
  <1>10. c \notin D /\ c \notin T
    BY <1>a, <1>e, <1>f, <1>7, <1>9
  <1>g. /\ Cut(f) \in [Leases -> Lease]
        /\ \A l \in Leases : /\ Cut(f)[l].status = lease[l].status
                             /\ Cut(f)[l].shared = lease[l].shared
                             /\ Cut(f)[l].reserved = lease[l].reserved
        /\ \A l \in Leases \ D : Cut(f)[l] = lease[l]
        /\ \A l \in D : /\ Cut(f)[l].pieces = f[l]
                        /\ Cut(f)[l].holder = IF f[l] = 0 THEN None ELSE lease[l].holder
    BY <1>0, <1>e, CutFacts
  <1>h. PICK F \in [Leases -> Lease] : F = Cut(f)
    BY <1>g
  <1>i. /\ lease' \in [Leases -> Lease]
        /\ \A l \in Leases : l # c => lease'[l] = F[l]
        /\ lease'[c] = [F[c] EXCEPT !.holder = Proc[t]]
    <2>1. lease' = [F EXCEPT ![c].holder = Proc[t]]
      BY <1>c, <1>h
    <2> QED
      BY <1>a, <2>1 DEF Lease
  <1>j. /\ lease'[c].holder = Proc[t] /\ lease'[c].status = F[c].status
        /\ lease'[c].pieces = F[c].pieces /\ lease'[c].shared = F[c].shared
        /\ lease'[c].reserved = F[c].reserved
    BY <1>h, <1>i DEF Lease
  <1>8. /\ \A l \in Leases : /\ lease'[l].status = lease[l].status
                             /\ lease'[l].shared = lease[l].shared
                             /\ lease'[l].reserved = lease[l].reserved
        /\ \A l \in Leases \ D : l # c => lease'[l] = lease[l]
        /\ \A l \in D : /\ lease'[l].pieces = f[l]
                        /\ lease'[l].holder = IF f[l] = 0 THEN None ELSE lease[l].holder
        /\ lease'[c].pieces = lease[c].pieces
    <2>1. /\ lease'[c].status = lease[c].status /\ lease'[c].shared = lease[c].shared
          /\ lease'[c].reserved = lease[c].reserved /\ lease'[c].pieces = lease[c].pieces
      BY <1>g, <1>h, <1>j, <1>10
    <2>2. ASSUME NEW l \in Leases, l # c
          PROVE  /\ lease'[l].status = lease[l].status
                 /\ lease'[l].shared = lease[l].shared
                 /\ lease'[l].reserved = lease[l].reserved
                 /\ l \notin D => lease'[l] = lease[l]
                 /\ l \in D => /\ lease'[l].pieces = f[l]
                              /\ lease'[l].holder = IF f[l] = 0 THEN None ELSE lease[l].holder
      <3>1. lease'[l] = Cut(f)[l]
        BY <1>h, <1>i, <2>2
      <3> QED
        BY <1>g, <3>1
    <2> QED
      BY <1>e, <1>10, <2>1, <2>2
  <1>11. ASSUME NEW l \in Leases PROVE Sound(l)'
    <2>1. Sound(l) /\ SamePlace(l)
      BY <1>0, AllSound, SameQueue
    <2>2. l # c /\ l \notin T => SameRoles(t, l)
      BY <1>0, <1>a, <1>b, <1>2, <1>3, <1>4 DEF SameRoles, Making, Placing, Going, Done, Writing
    <2>3. CASE l \notin D /\ l # c
      <3>1. SameLease(l) /\ l \notin T
        BY <1>8, <1>e, <1>f, <2>3 DEF SameLease
      <3> QED
        BY <1>0, <1>3, <2>1, <2>2, <2>3, <3>1, SoundKept
    <2>4. CASE l \in D /\ f[l] # 0
      <3>1. l \notin T /\ lease'[l].pieces > 0 /\ lease'[l].holder = lease[l].holder
        BY <1>8, <1>e, <1>f, <2>4
      <3>2. l # c /\ lease[l].holder # None
        BY <1>a, <1>9, <1>10, <2>4
      <3> QED
        BY <1>0, <1>3, <1>8, <2>1, <2>2, <3>1, <3>2, StaysMapped
    <2>5. CASE l \in D /\ f[l] = 0
      <3>1. l \in T /\ lease'[l].holder = None /\ lease[l].holder # None
        BY <1>a, <1>8, <1>9, <1>e, <1>f, <2>5
      <3>2. /\ Going(t, l)' /\ ~Making(t, l)' /\ ~Placing(t, l)' /\ l \notin th'[t].new
            /\ ~Done(t, l)' /\ (l \in th'[t].held <=> l \in th[t].held) /\ ~Writing(t, l)'
        BY <1>a, <1>2, <1>3, <1>4, <3>1 DEF Going, Making, Placing, Done, Writing
      <3> QED
        BY <1>0, <1>3, <1>8, <2>1, <3>1, <3>2, LosesLast
    <2>6. CASE l = c
      <3>1. /\ ~Has(t, c)' /\ ~Done(t, c)' /\ (c \in th'[t].held <=> c \in th[t].held)
            /\ ~Writing(t, c)'
        BY <1>0, <1>a, <1>2, <1>3, <1>4, <1>10 DEF Has, Going, Making, Placing, Done, Writing
      <3>2. lease'[c].holder # None /\ lease'[c].status = "retained" /\ lease'[c].pieces > 0
        BY <1>a, <1>j, <1>7, <1>8
      <3> QED
        BY <1>0, <1>3, <1>6, <1>8, <2>1, <2>6, <3>1, <3>2, HandPublished
    <2> QED
      BY <2>3, <2>4, <2>5, <2>6
  <1>12. CountInv'
    BY <1>0, <1>8, StatusCount
  <1>13. TypeOK'
    BY <1>0, <1>3, <1>i DEF TypeOK
  <1>14. DataInv'
    BY <1>0, <1>2, <1>3, DataFrame DEF IInv
  <1> QED
    BY <1>0, <1>a, <1>3, <1>5, <1>11, <1>12, <1>13, <1>14, LeaseStep

\* The mapping fails: the lease, never in the table, is to be retired.
LEMMA CommitFailsKeeps ==
    ASSUME Configuration, IInv, NEW t \in All, CommitFails(t)
    PROVE  IInv'
  <1>a. /\ th[t] \in Frame /\ inProgress # t /\ gate # t
        /\ Phase(t) = "commit" /\ th[t].todo = {} /\ th[t].held = {} /\ th[t].new = {}
        /\ t # Main /\ th[t].pc = "commit"
    BY MmapFacts DEF CommitFails
  <1>b. PICK c \in Leases : c = th[t].cur
    BY MmapFacts DEF CommitFails
  <1> DEFINE r == [th[t] EXCEPT !.pc = "drain", !.todo = {c}, !.cur = None]
  <1>0. /\ TypeOK /\ UNCHANGED <<proc, live, count, writeFile, mem, disk, gate, snap, failures>>
        /\ UNCHANGED <<pending, inProgress, abandoned>> /\ None \notin Leases
        /\ lease' = [lease EXCEPT ![c].pieces = 0] /\ Step(t, r)
    BY <1>b, ConstantFacts DEF IInv, CommitFails, cacheVars, queueVars
  <1>1. r \in Frame
    BY <1>a DEF Frame, Codes
  <1>2. r.pc = "drain" /\ r.cur = None /\ r.todo = {c} /\ r.held = {} /\ r.new = {} /\ r.ret = th[t].ret
    BY <1>a DEF Frame
  <1>3. Others(t) /\ th' \in [Threads \cup {Main} -> Frame] /\ th'[t] = r
    BY <1>0, <1>1, Moved
  <1>4. Phase(t)' = "drain"
    BY <1>0, <1>a, <1>2, <1>3 DEF Phase
  <1>5. ShapeOK(t)'
    BY <1>0, <1>a, <1>2, <1>3, <1>4 DEF ShapeOK
  <1>6. Sound(c) /\ Has(t, c) /\ Placing(t, c)
    BY <1>a, <1>b, AllSound DEF Has, Placing
  <1>7. lease[c].status = "retained" /\ lease[c].holder = None
    BY <1>6, HandFacts DEF Sound, StatusOK
  <1>8. /\ lease' \in [Leases -> Lease]
        /\ \A l \in Leases : l # c => lease'[l] = lease[l]
        /\ lease'[c].status = "retained" /\ lease'[c].holder = None
        /\ lease'[c].shared = lease[c].shared /\ lease'[c].reserved = lease[c].reserved
    <2> DEFINE k == [lease[c] EXCEPT !.pieces = 0]
    <2>1. 0 \in 0 .. MaxPieces /\ lease[c] \in Lease
      BY <1>0, LeaseFields DEF Configuration
    <2>2. /\ k \in Lease /\ k.status = lease[c].status /\ k.holder = lease[c].holder
          /\ k.shared = lease[c].shared /\ k.reserved = lease[c].reserved
      BY <2>1 DEF Lease
    <2>3. lease' = [lease EXCEPT ![c] = k]
      BY <1>0
    <2> QED
      BY <1>0, <1>7, <2>2, <2>3, LeaseReplaced
  <1>9. Sound(c)'
    <2>1. Has(t, c)'
      BY <1>2, <1>3 DEF Has, Going
    <2>2. ~Making(t, c)' /\ ~Placing(t, c)' /\ ~Done(t, c)'
            /\ ~Writing(t, c)' /\ c \notin th'[t].new
      BY <1>2, <1>3, <1>4 DEF Making, Placing, Done, Writing
    <2>3. SamePlace(c) /\ (c \in th'[t].held <=> c \in th[t].held)
      BY <1>0, <1>a, <1>2, <1>3, SameQueue
    <2> QED
      BY <1>0, <1>3, <1>6, <1>7, <1>8, <2>1, <2>2, <2>3, HandKept
  <1>10. ASSUME NEW l \in Leases, l # c PROVE Sound(l)'
    <2>1. SameLease(l) /\ SamePlace(l) /\ Sound(l)
      BY <1>0, <1>8, <1>10, AllSound, SameQueue DEF SameLease
    <2>2. SameRoles(t, l)
      BY <1>a, <1>b, <1>2, <1>3, <1>4, <1>10 DEF SameRoles, Making, Placing, Going, Done,
         Writing
    <2> QED
      BY <1>0, <1>3, <2>1, <2>2, SoundKept
  <1>11. CountInv'
    BY <1>0, <1>7, <1>8, StatusCount
  <1>12. TypeOK'
    BY <1>0, <1>3, <1>8 DEF TypeOK
  <1>13. DataInv'
    BY <1>0, <1>2, <1>3, DataFrame DEF IInv
  <1> QED
    BY <1>0, <1>a, <1>3, <1>5, <1>9, <1>10, <1>11, <1>12, <1>13, LeaseStep

----------------------------------------------------------------------------
(* clone: reservations and the child's leases.                              *)

\* Thread t has of lease l what it had.
SameHands(t, l) ==
    /\ Making(t, l)' <=> Making(t, l)
    /\ Placing(t, l)' <=> Placing(t, l)
    /\ Going(t, l)' <=> Going(t, l)
    /\ l \in th'[t].new <=> l \in th[t].new
    /\ Done(t, l)' <=> Done(t, l)

\* A lease of which only the reservations change.
LEMMA HandsKept ==
    ASSUME NEW t \in All, Others(t), NEW l \in Leases, Sound(l), SameHands(t, l), SamePlace(l),
           writeFile' = writeFile,
           lease'[l].status = lease[l].status, lease'[l].holder = lease[l].holder,
           lease'[l].pieces = lease[l].pieces, lease'[l].shared = lease[l].shared
    PROVE  PlaceOK(l)' /\ StatusOK(l)'
  <1>1. \A u \in All : /\ Making(u, l)' <=> Making(u, l)
                       /\ Placing(u, l)' <=> Placing(u, l)
                       /\ Going(u, l)' <=> Going(u, l)
                       /\ l \in th'[u].new <=> l \in th[u].new
                       /\ Done(u, l)' <=> Done(u, l)
    BY OtherRoles DEF SameHands
  <1>2. \A u \in All : Has(u, l)' <=> Has(u, l)
    BY <1>1 DEF Has
  <1>3. PlaceOK(l)'
    BY <1>2 DEF PlaceOK, SamePlace, Sound
  <1>4. StatusOK(l)'
    BY <1>1 DEF StatusOK, SamePlace, Sound
  <1> QED
    BY <1>3, <1>4

\* A clone reserves a lease of its process.
LEMMA Reserved ==
    ASSUME Configuration, IInv, NEW t \in Threads, Others(t), NEW l \in Leases,
           lease[l].holder # None, SameHands(t, l), SamePlace(l), writeFile' = writeFile,
           lease'[l] = [lease[l] EXCEPT !.reserved = lease[l].reserved + 1],
           l \notin th[t].held, l \in th'[t].held, ~Writing(t, l)'
    PROVE  Sound(l)' /\ lease'[l] \in Lease /\ lease'[l].status = lease[l].status
  <1>0. t \in All /\ TypeOK /\ Sound(l) /\ lease[l] \in Lease /\ lease[l].reserved \in Nat
    BY AllSound, LeaseFields DEF IInv, All
  <1>1. /\ lease'[l].status = lease[l].status /\ lease'[l].holder = lease[l].holder
        /\ lease'[l].pieces = lease[l].pieces /\ lease'[l].shared = lease[l].shared
        /\ lease'[l].reserved = lease[l].reserved + 1
    BY <1>0 DEF Lease
  <1>2. PlaceOK(l)' /\ StatusOK(l)'
    BY <1>0, <1>1, HandsKept
  <1> DEFINE H == {u \in Threads : l \in th[u].held}
             K == {u \in Threads : l \in th'[u].held}
  <1>3. IsFiniteSet(H) /\ K = H \cup {t} /\ t \notin H
    <2>1. IsFiniteSet(H)
      BY ConstantFacts, FS_Subset
    <2>2. \A u \in Threads : u # t => (l \in th'[u].held <=> l \in th[u].held)
      BY DEF Others, All
    <2> QED
      BY <2>1, <2>2
  <1>4. Cardinality(K) = Cardinality(H) + 1
    BY <1>3, FS_AddElement
  <1>5. lease[l].reserved = Cardinality(H)
    BY <1>0 DEF Sound, ReserveOK
  <1>6. \A u \in All : ~Writing(u, l)
    <2> SUFFICES ASSUME NEW u \in All, Writing(u, l) PROVE FALSE
      OBVIOUS
    <2>1. th[u].pc \in {"gate", "io"} /\ th[u].cur = l /\ th[u].cur # None
      BY ConstantFacts DEF Writing
    <2>2. lease[th[u].cur].holder = None
      BY <2>1, CurRetained
    <2> QED
      BY <2>1, <2>2
  <1>7. \A u \in All : ~Writing(u, l)'
    BY <1>0, <1>6, OtherRoles
  <1>8. lease'[l].status = "retained"
    BY <1>0, <1>1 DEF Sound, StatusOK
  <1>9. ReserveOK(l)'
    BY <1>1, <1>4, <1>5, <1>7, <1>8 DEF ReserveOK
  <1>10. lease[l].reserved + 1 \in 0 .. Cardinality(Threads)
    <2>1. K \in SUBSET Threads
      OBVIOUS
    <2>2. Cardinality(K) <= Cardinality(Threads) /\ Cardinality(Threads) \in Nat
      BY <2>1, ConstantFacts, FS_Subset, FS_CardinalityType
    <2> QED
      BY <1>0, <1>4, <1>5, <2>2
  <1>11. lease'[l] \in Lease
    BY <1>0, <1>10 DEF Lease
  <1> QED
    BY <1>1, <1>2, <1>9, <1>11 DEF Sound

\* A clone that cannot have its child.
LEMMA CloneFailsKeeps ==
    ASSUME Configuration, IInv, NEW t \in Threads, CloneFails(t)
    PROVE  IInv'
  <1>a. /\ TypeOK /\ UNCHANGED <<live, count, writeFile, mem, disk, gate, snap, failures>>
        /\ UNCHANGED <<pending, inProgress, abandoned>>
        /\ th[t].pc = "idle" /\ t \in All /\ t # Main /\ Proc[t] # None
        /\ None \notin Leases /\ None \notin Procs
    BY ConstantFacts DEF IInv, CloneFails, Begin, cacheVars, queueVars, All
  <1>b. PICK p \in Procs, some \in SUBSET Mapped(Proc[t]) :
        /\ proc' = [proc EXCEPT ![p] = "failed"]
        /\ lease' = [l \in Leases |->
             IF l \in some THEN [lease[l] EXCEPT !.reserved = @ + 1] ELSE lease[l]]
        /\ Step(t, [th[t] EXCEPT !.pc = "release", !.on = p, !.held = some])
    BY DEF CloneFails
  <1>c. some \subseteq Leases /\ \A l \in some : lease[l].holder # None
    BY <1>a DEF Mapped
  <1> DEFINE r == [th[t] EXCEPT !.pc = "release", !.on = p, !.held = some]
  <1>1. th[t] = Idle /\ th[t] \in Frame /\ inProgress # t /\ gate # t
    BY <1>a, IdleFacts, FrameFields
  <1>2. r \in Frame
    BY <1>1, <1>c DEF Frame, Codes
  <1>3. /\ r.pc = "release" /\ r.cur = None /\ r.todo = {} /\ r.held = some /\ r.new = {}
        /\ r.ret = "idle" /\ r.on = p
    BY <1>1 DEF Idle
  <1>4. Others(t) /\ th' \in [Threads \cup {Main} -> Frame] /\ th'[t] = r
    BY <1>a, <1>b, <1>2, Moved
  <1>5. Phase(t)' = "release"
    BY <1>a, <1>1, <1>3, <1>4 DEF Phase
  <1>6. /\ th[t].pc = "idle" /\ th[t].cur = None /\ th[t].todo = {} /\ th[t].held = {}
        /\ th[t].new = {} /\ Phase(t) = "idle"
    BY <1>1 DEF Idle, Phase
  <1>7. ShapeOK(t)'
    BY <1>a, <1>1, <1>3, <1>4, <1>5 DEF ShapeOK
  <1>8. \A l \in Leases : SameHands(t, l) /\ ~Writing(t, l)'
    BY <1>a, <1>3, <1>4, <1>5, <1>6 DEF SameHands, Making, Placing, Going, Done, Writing
  <1>9. ASSUME NEW l \in Leases
        PROVE  Sound(l)' /\ lease'[l] \in Lease /\ lease'[l].status = lease[l].status
    <2>1. Sound(l) /\ SamePlace(l) /\ lease[l] \in Lease
      BY <1>a, AllSound, SameQueue, LeaseFields
    <2>2. CASE l \in some
      <3>1. lease'[l] = [lease[l] EXCEPT !.reserved = lease[l].reserved + 1]
        BY <1>b, <2>2
      <3>2. lease[l].holder # None /\ l \notin th[t].held /\ l \in th'[t].held
        BY <1>c, <1>3, <1>4, <1>6, <2>2
      <3>3. Others(t) /\ SameHands(t, l)
              /\ ~Writing(t, l)' /\ SamePlace(l) /\ writeFile' = writeFile
        BY <1>a, <1>4, <1>8, <2>1
      <3> QED
        BY <3>1, <3>2, <3>3, Reserved
    <2>3. CASE l \notin some
      <3>1. lease'[l] = lease[l]
        BY <1>b, <2>3
      <3>2. SameRoles(t, l)
        BY <1>8, <1>3, <1>4, <1>6, <2>3 DEF SameRoles, SameHands
      <3>3. Sound(l)'
        BY <1>a, <1>4, <2>1, <3>1, <3>2, SoundKept DEF SameLease
      <3> QED
        BY <2>1, <3>1, <3>3
    <2> QED
      BY <2>2, <2>3
  <1>10. lease' \in [Leases -> Lease]
    <2>1. lease' = [l \in Leases |-> lease'[l]]
      BY <1>b
    <2> QED
      BY <1>9, <2>1
  <1>11. CountInv'
    BY <1>a, <1>9, StatusCount
  <1>12. TypeOK'
    BY <1>a, <1>b, <1>4, <1>10 DEF TypeOK
  <1>13. DataInv'
    BY <1>a, <1>3, <1>4, DataFrame DEF IInv
  <1> QED
    BY <1>a, <1>4, <1>7, <1>9, <1>11, <1>12, <1>13, LeaseStep

\* A clone reserves the leases of its parent, and makes one for each of them.
LEMMA CloneKeeps ==
    ASSUME Configuration, IInv, NEW t \in Threads, Clone(t)
    PROVE  IInv'
  <1>a. /\ TypeOK /\ UNCHANGED <<live, count, writeFile, mem, disk, gate, snap, failures>>
        /\ UNCHANGED <<pending, inProgress, abandoned>>
        /\ th[t].pc = "idle" /\ t \in All /\ t # Main /\ Proc[t] # None
        /\ None \notin Leases /\ None \notin Procs
    BY ConstantFacts DEF IInv, Clone, Begin, cacheVars, queueVars, All
  <1> DEFINE F == Mapped(Proc[t])
             copies == {h \in [F -> Free] : IsInjective(h)}
             g == CHOOSE h \in copies : TRUE
  <1>b. F \in SUBSET Leases
    BY DEF Mapped
  <1>c. PICK p \in Procs :
        /\ copies # {}
        /\ proc' = [proc EXCEPT ![p] = "building"]
        /\ lease' = [l \in Leases |->
             IF l \in F THEN [lease[l] EXCEPT !.reserved = @ + 1]
             ELSE IF l \in Range(g)
             THEN LET s == CHOOSE s \in F : g[s] = l IN
                  [Unused EXCEPT !.status = "made", !.shared = lease[s].shared,
                                 !.pieces = lease[s].pieces]
             ELSE lease[l]]
        /\ Step(t, [th[t] EXCEPT !.pc = IF F = {} THEN "release" ELSE "acquire",
                                 !.on = p, !.held = F, !.new = Range(g)])
    BY DEF Clone
  <1>i. g \in [F -> Free]
    <2>1. g \in copies
      BY <1>c
    <2> QED
      BY <2>1
  <1>d. \A l \in F : lease[l].holder = Proc[t] /\ lease[l].holder # None
    BY <1>a DEF Mapped
  <1> HIDE DEF F, g
  <1>e. PICK N \in SUBSET Leases : N = Range(g)
    BY <1>i DEF Range, Free
  <1>f. \A l \in N : lease[l].status = "free" /\ \E s \in F : g[s] = l
    BY <1>i, <1>e DEF Range, Free
  <1>g. \A l \in N : l \notin F
    BY <1>d, <1>f, FreeFacts
  <1>h. N # {} => F # {}
    BY <1>f
  <1> DEFINE next == IF F = {} THEN "release" ELSE "acquire"
             r == [th[t] EXCEPT !.pc = next, !.on = p, !.held = F, !.new = N]
  <1>1. th[t] = Idle /\ th[t] \in Frame /\ inProgress # t /\ gate # t
    BY <1>a, IdleFacts, FrameFields
  <1>2. r \in Frame
    BY <1>b, <1>1 DEF Frame, Codes
  <1>3. /\ r.pc = next /\ r.cur = None /\ r.todo = {} /\ r.held = F /\ r.new = N
        /\ r.ret = "idle" /\ r.on = p
    BY <1>1 DEF Idle
  <1>4. Others(t) /\ th' \in [Threads \cup {Main} -> Frame] /\ th'[t] = r
    BY <1>a, <1>c, <1>e, <1>2, Moved
  <1>5. Phase(t)' = next
    BY <1>a, <1>1, <1>3, <1>4 DEF Phase
  <1>6. /\ th[t].pc = "idle" /\ th[t].cur = None /\ th[t].todo = {} /\ th[t].held = {}
        /\ th[t].new = {} /\ Phase(t) = "idle"
    BY <1>1 DEF Idle, Phase
  <1>7. ShapeOK(t)'
    BY <1>a, <1>h, <1>1, <1>3, <1>4, <1>5 DEF ShapeOK
  <1>8. \A l \in Leases : /\ ~Making(t, l)' /\ ~Placing(t, l)' /\ ~Going(t, l)' /\ ~Done(t, l)'
                          /\ ~Writing(t, l)'
                          /\ ~Making(t, l) /\ ~Placing(t, l) /\ ~Going(t, l) /\ ~Done(t, l)
    BY <1>a, <1>3, <1>4, <1>5, <1>6 DEF Making, Placing, Going, Done, Writing
  <1>9. \A l \in Leases : l \notin N => SameHands(t, l)
    BY <1>3, <1>4, <1>6, <1>8 DEF SameHands
  <1>10. ASSUME NEW l \in Leases
         PROVE  /\ Sound(l)' /\ lease'[l] \in Lease
                /\ lease'[l].status = "retained" <=> lease[l].status = "retained"
    <2>1. Sound(l) /\ SamePlace(l) /\ lease[l] \in Lease
      BY <1>a, AllSound, SameQueue, LeaseFields
    <2>2. CASE l \in F
      <3>1. lease'[l] = [lease[l] EXCEPT !.reserved = lease[l].reserved + 1]
        BY <1>c, <2>2
      <3>2. lease[l].holder # None /\ l \notin th[t].held /\ l \in th'[t].held /\ l \notin N
        BY <1>d, <1>g, <1>3, <1>4, <1>6, <2>2
      <3>3. Others(t) /\ SameHands(t, l)
              /\ ~Writing(t, l)' /\ SamePlace(l) /\ writeFile' = writeFile
        BY <1>a, <1>4, <1>8, <1>9, <2>1, <3>2
      <3>4. Sound(l)' /\ lease'[l] \in Lease /\ lease'[l].status = lease[l].status
        BY <3>1, <3>2, <3>3, Reserved
      <3> QED
        BY <3>4
    <2>3. CASE l \notin F /\ l \notin N
      <3>1. lease'[l] = lease[l]
        BY <1>c, <1>e, <2>3
      <3>2. SameRoles(t, l)
        BY <1>8, <1>3, <1>4, <1>6, <2>3 DEF SameRoles
      <3>3. Sound(l)'
        BY <1>a, <1>4, <2>1, <3>1, <3>2, SoundKept DEF SameLease
      <3> QED
        BY <2>1, <3>1, <3>3
    <2>4. CASE l \in N
      <3>1. PICK s \in F :
               lease'[l] = [Unused EXCEPT !.status = "made", !.shared = lease[s].shared,
                                          !.pieces = lease[s].pieces]
        <4>1. (CHOOSE s \in F : g[s] = l) \in F
          BY <1>f, <2>4
        <4> QED
          BY <1>c, <1>e, <1>g, <2>4, <4>1
      <3>2. /\ lease[s] \in Lease /\ lease[s].shared \in BOOLEAN /\ lease[s].pieces \in 0 .. MaxPieces
            /\ lease[s].pieces > 0 /\ (lease[s].shared => writeFile) /\ lease[s].status = "retained"
        BY <1>a, <1>b, <1>d, LeaseFields, AllSound DEF Sound, StatusOK
      <3>3. /\ lease'[l].status = "made" /\ lease'[l].holder = None
            /\ lease'[l].shared = lease[s].shared /\ lease'[l].pieces = lease[s].pieces
            /\ lease'[l].reserved = 0
        BY <3>1 DEF Unused
      <3>4. lease'[l] \in Lease
        <4>1. 0 \in 0 .. Cardinality(Threads)
          BY ConstantFacts, FS_CardinalityType
        <4>2. PICK b \in BOOLEAN,
                n \in 0 .. MaxPieces : b = lease[s].shared /\ n = lease[s].pieces
          BY <3>2
        <4>3. lease'[l] = [Unused EXCEPT !.status = "made", !.shared = b, !.pieces = n]
          BY <3>1, <4>2
        <4> QED
          BY <4>1, <4>3 DEF Unused, Lease, Errors
      <3>5. /\ lease[l].status = "free" /\ ~Queued(l) /\ l \notin abandoned
            /\ \A u \in All : ~Has(u, l) /\ ~Done(u, l)
            /\ \A u \in Threads : l \notin th[u].held
        BY <1>f, <2>4, FreeFacts
      <3>6. ~Queued(l)' /\ l \notin abandoned'
        BY <2>1, <3>5 DEF SamePlace
      <3>7. \A u \in All : u # t => ~Has(u, l)' /\ ~Done(u, l)'
        BY <1>a, <1>4, <3>5, OtherRoles
      <3>8. \A u \in All : u # t => ~Making(u, l)' /\ ~Placing(u, l)'
              /\ ~Going(u, l)' /\ l \notin th'[u].new
        BY <3>7 DEF Has
      <3>9. PlaceOK(l)'
        BY <3>3, <3>6, <3>7 DEF PlaceOK
      <3>10. lease'[l].shared => writeFile'
        BY <1>a, <3>2, <3>3
      <3>11. lease'[l].pieces > 0
        BY <3>2, <3>3
      <3>12. StatusOK(l)'
        BY <1>8, <3>3, <3>6, <3>7, <3>8, <3>10, <3>11 DEF StatusOK
      <3>13. \A u \in Threads : l \notin th'[u].held
        BY <1>g, <1>3, <1>4, <2>4, <3>5 DEF Others, All
      <3>14. {u \in Threads : l \in th'[u].held} = {}
        BY <3>13
      <3>15. ReserveOK(l)'
        BY <3>3, <3>13, <3>14, FS_EmptySet DEF ReserveOK
      <3> QED
        BY <3>3, <3>4, <3>5, <3>9, <3>12, <3>15 DEF Sound
    <2> QED
      BY <2>2, <2>3, <2>4
  <1>11. lease' \in [Leases -> Lease]
    <2> DEFINE e(l) == IF l \in F THEN [lease[l] EXCEPT !.reserved = @ + 1]
                       ELSE IF l \in Range(g)
                       THEN LET s == CHOOSE s \in F : g[s] = l IN
                            [Unused EXCEPT !.status = "made", !.shared = lease[s].shared,
                                           !.pieces = lease[s].pieces]
                       ELSE lease[l]
    <2>0. lease' = [l \in Leases |-> e(l)]
      BY <1>c
    <2> HIDE DEF e
    <2>1. lease' = [l \in Leases |-> lease'[l]]
      BY <2>0
    <2> QED
      BY <1>10, <2>1
  <1>12. CountInv'
    <2>1. {l \in Leases : lease'[l].status = "retained"} = {l \in Leases : lease[l].status = "retained"}
      BY <1>10
    <2> QED
      BY <1>a, <2>1 DEF IInv, CountInv
  <1>13. TypeOK'
    BY <1>a, <1>c, <1>4, <1>11 DEF TypeOK
  <1>14. DataInv'
    <2>1. th'[t].pc # "io"
      BY <1>3, <1>4
    <2> QED
      BY <1>a, <1>4, <2>1, DataFrame DEF IInv
  <1> QED
    BY <1>a, <1>4, <1>7, <1>10, <1>12, <1>13, <1>14, LeaseStep

\* The facts of a thread that builds a child.
LEMMA CloneFacts ==
    ASSUME Configuration, IInv, NEW t \in All, th[t].pc \in {"acquire", "release"}
    PROVE  /\ TypeOK /\ th[t] \in Frame /\ th[t].held \subseteq Leases /\ th[t].new \subseteq Leases
           /\ inProgress # t /\ gate # t /\ Phase(t) = th[t].pc /\ th[t].todo = {}
           /\ th[t].pc = "release" => th[t].new = {}
           /\ t \in Threads /\ t # Main /\ th[t].on \in Procs /\ th[t].on # None
  <1>1. /\ ShapeOK(t) /\ th[t] \in Frame /\ th[t].on \in Procs \cup {None}
        /\ th[t].held \subseteq Leases /\ th[t].new \subseteq Leases /\ TypeOK
    BY FrameFields DEF IInv, ShapeInv
  <1>2. inProgress # t /\ gate # t /\ Phase(t) = th[t].pc
    BY <1>1 DEF ShapeOK, Phase
  <1>3. t # Main
    BY <1>1 DEF ShapeOK
  <1> QED
    BY <1>1, <1>2, <1>3 DEF ShapeOK, All

\* A clone gives its reservations back, one after the other.
LEMMA ReleaseKeeps ==
    ASSUME Configuration, IInv, NEW t \in All, Release(t)
    PROVE  IInv'
  <1>a. /\ TypeOK /\ th[t] \in Frame /\ th[t].held \subseteq Leases /\ th[t].new = {}
        /\ inProgress # t /\ gate # t /\ Phase(t) = "release" /\ th[t].pc = "release"
        /\ th[t].todo = {} /\ t \in Threads /\ t # Main /\ th[t].on # None
    BY CloneFacts DEF Release
  <1>b. /\ UNCHANGED <<proc, live, count, writeFile, mem, disk, gate, snap, failures>>
        /\ UNCHANGED <<pending, inProgress, abandoned>>
    BY DEF Release, cacheVars, queueVars
  <1>c. PICK c \in Leases, next \in {"retry", "release"} :
        /\ c \in th[t].held
        /\ lease' = [lease EXCEPT ![c].reserved = @ - 1]
        /\ Step(t, [th[t] EXCEPT !.held = th[t].held \ {c}, !.ret = "release", !.pc = next])
    BY <1>a DEF Release
  <1> DEFINE r == [th[t] EXCEPT !.held = th[t].held \ {c}, !.ret = "release", !.pc = next]
  <1>1. r \in Frame
    BY <1>a DEF Frame, Codes
  <1>2. /\ r.pc = next /\ r.cur = th[t].cur /\ r.todo = {} /\ r.held = th[t].held \ {c} /\ r.new = {}
        /\ r.ret = "release" /\ r.on = th[t].on
    BY <1>a DEF Frame
  <1>3. Others(t) /\ th' \in [Threads \cup {Main} -> Frame] /\ th'[t] = r
    BY <1>a, <1>b, <1>c, <1>1, Moved
  <1>4. Phase(t)' = "release"
    BY <1>a, <1>b, <1>2, <1>3 DEF Phase
  <1>5. ShapeOK(t)'
    BY <1>a, <1>b, <1>2, <1>3, <1>4 DEF ShapeOK, Returns
  <1>6. \A l \in Leases : SameHands(t, l) /\ ~Writing(t, l)'
    BY <1>a, <1>2, <1>3, <1>4 DEF SameHands, Making, Placing, Going, Done, Writing
  <1> DEFINE H == {u \in Threads : c \in th[u].held}
             K == {u \in Threads : c \in th'[u].held}
  <1>7. IsFiniteSet(H) /\ K = H \ {t} /\ t \in H /\ IsFiniteSet(K)
    <2>1. IsFiniteSet(H) /\ t \in H
      BY <1>a, <1>c, ConstantFacts, FS_Subset
    <2>2. \A u \in Threads : u # t => (c \in th'[u].held <=> c \in th[u].held)
      BY <1>3 DEF Others, All
    <2>3. c \notin th'[t].held
      BY <1>2, <1>3
    <2>4. K = H \ {t}
      BY <2>2, <2>3
    <2> QED
      BY <2>1, <2>4, FS_RemoveElement
  <1>8. Cardinality(K) = Cardinality(H) - 1 /\ Cardinality(K) \in Nat
    BY <1>7, FS_RemoveElement, FS_CardinalityType
  <1>9. Sound(c) /\ SamePlace(c) /\ lease[c] \in Lease /\ lease[c].reserved \in 0 .. Cardinality(Threads)
    BY <1>a, <1>b, AllSound, SameQueue, LeaseFields
  <1>10. lease[c].reserved = Cardinality(H) /\ lease[c].status = "retained"
    BY <1>a, <1>c, <1>9 DEF Sound, ReserveOK
  <1>11. lease[c].reserved - 1 \in 0 .. Cardinality(Threads)
    <2>1. Cardinality(Threads) \in Nat /\ Cardinality(H) \in Nat
      BY <1>7, ConstantFacts, FS_CardinalityType
    <2> QED
      BY <1>8, <1>9, <1>10, <2>1
  <1>12. /\ lease' \in [Leases -> Lease]
         /\ \A l \in Leases : l # c => lease'[l] = lease[l]
         /\ lease'[c].status = lease[c].status /\ lease'[c].holder = lease[c].holder
         /\ lease'[c].pieces = lease[c].pieces /\ lease'[c].shared = lease[c].shared
         /\ lease'[c].reserved = lease[c].reserved - 1
    BY <1>a, <1>c, <1>11 DEF TypeOK, Lease
  <1>13. Sound(c)'
    <2>1. PlaceOK(c)' /\ StatusOK(c)'
      BY <1>b, <1>3, <1>6, <1>9, <1>12, HandsKept
    <2>2. \A u \in All : ~Writing(u, c)
      BY <1>a, <1>c, <1>9 DEF Sound, ReserveOK
    <2>3. \A u \in All : ~Writing(u, c)'
      BY <1>3, <1>6, <2>2, OtherRoles
    <2>4. ReserveOK(c)'
      BY <1>8, <1>10, <1>12, <2>3 DEF ReserveOK
    <2> QED
      BY <2>1, <2>4 DEF Sound
  <1>14. ASSUME NEW l \in Leases, l # c PROVE Sound(l)'
    <2>1. SameLease(l) /\ SamePlace(l) /\ Sound(l)
      BY <1>b, <1>12, <1>14, AllSound, SameQueue DEF SameLease
    <2>2. SameRoles(t, l)
      BY <1>2, <1>3, <1>6, <1>14 DEF SameRoles, SameHands
    <2> QED
      BY <1>b, <1>3, <2>1, <2>2, SoundKept
  <1>15. CountInv'
    BY <1>b, <1>12, StatusCount
  <1>16. TypeOK'
    BY <1>a, <1>b, <1>3, <1>12 DEF TypeOK
  <1>17. DataInv'
    BY <1>b, <1>2, <1>3, DataFrame DEF IInv
  <1> QED
    BY <1>a, <1>b, <1>3, <1>5, <1>13, <1>14, <1>15, <1>16, <1>17, LeaseStep

\* The child's leases are given back before the first of them is retained.
LEMMA AcquireFailsKeeps ==
    ASSUME Configuration, IInv, NEW t \in All, AcquireFails(t)
    PROVE  IInv'
  <1>a. /\ TypeOK /\ th[t] \in Frame /\ th[t].held \subseteq Leases /\ th[t].new \subseteq Leases
        /\ inProgress # t /\ gate # t /\ Phase(t) = "acquire" /\ th[t].pc = "acquire"
        /\ th[t].todo = {} /\ t \in Threads /\ t # Main /\ th[t].on # None /\ th[t].on \in Procs
    BY CloneFacts DEF AcquireFails
  <1> DEFINE r == [th[t] EXCEPT !.pc = "release", !.new = {}]
  <1>b. /\ UNCHANGED <<live, count, writeFile, mem, disk, gate, snap, failures>>
        /\ UNCHANGED <<pending, inProgress, abandoned>>
        /\ proc' = [proc EXCEPT ![th[t].on] = "failed"]
        /\ lease' = [l \in Leases |-> IF l \in th[t].new THEN Unused ELSE lease[l]]
        /\ Step(t, r)
    BY DEF AcquireFails, cacheVars, queueVars
  <1>c. \A l \in th[t].new : lease[l].status = "made"
    BY DEF AcquireFails, Made
  <1>1. r \in Frame
    BY <1>a DEF Frame, Codes
  <1>2. /\ r.pc = "release" /\ r.cur = th[t].cur /\ r.todo = {} /\ r.held = th[t].held /\ r.new = {}
        /\ r.ret = th[t].ret /\ r.on = th[t].on
    BY <1>a DEF Frame
  <1>3. Others(t) /\ th' \in [Threads \cup {Main} -> Frame] /\ th'[t] = r
    BY <1>a, <1>b, <1>1, Moved
  <1>4. Phase(t)' = "release"
    BY <1>a, <1>b, <1>2, <1>3 DEF Phase
  <1>5. ShapeOK(t)'
    BY <1>a, <1>b, <1>2, <1>3, <1>4 DEF ShapeOK
  <1>6. \A l \in Leases : /\ ~Making(t, l)' /\ ~Placing(t, l)' /\ ~Going(t, l)' /\ ~Done(t, l)'
                          /\ ~Writing(t, l)' /\ l \notin th'[t].new
                          /\ ~Making(t, l) /\ ~Placing(t, l) /\ ~Going(t, l) /\ ~Done(t, l)
    BY <1>a, <1>2, <1>3, <1>4 DEF Making, Placing, Going, Done, Writing
  <1>7. ASSUME NEW l \in Leases
        PROVE  /\ Sound(l)' /\ lease'[l] \in Lease
               /\ lease'[l].status = "retained" <=> lease[l].status = "retained"
    <2>1. Sound(l) /\ SamePlace(l) /\ lease[l] \in Lease
      BY <1>a, <1>b, AllSound, SameQueue, LeaseFields
    <2>2. CASE l \notin th[t].new
      <3>1. lease'[l] = lease[l]
        BY <1>b, <2>2
      <3>2. SameRoles(t, l)
        BY <1>6, <1>2, <1>3, <2>2 DEF SameRoles
      <3>3. Sound(l)'
        BY <1>b, <1>3, <2>1, <3>1, <3>2, SoundKept DEF SameLease
      <3> QED
        BY <2>1, <3>1, <3>3
    <2>3. CASE l \in th[t].new
      <3>1. lease'[l] = Unused
        BY <1>b, <2>3
      <3>2. /\ lease'[l].status = "free" /\ lease'[l].holder = None /\ lease'[l].reserved = 0
        BY <3>1 DEF Unused
      <3>3. lease'[l] \in Lease
        <4>1. 0 \in 0 .. Cardinality(Threads) /\ 0 \in 0 .. MaxPieces
          BY ConstantFacts, FS_CardinalityType DEF Configuration
        <4> QED
          BY <3>1, <4>1 DEF Unused, Lease, Errors
      <3>4. /\ ~Queued(l) /\ l \notin abandoned
            /\ \A u \in All : (Has(u, l) => u = t) /\ ~Done(u, l)
        <4>1. Has(t, l)
          BY <2>3 DEF Has
        <4> QED
          BY <2>1, <4>1, HandFacts
      <3>5. ~Queued(l)' /\ l \notin abandoned'
        BY <2>1, <3>4 DEF SamePlace
      <3>6. ~Has(t, l)' /\ ~Done(t, l)'
        BY <1>6 DEF Has
      <3>7. \A u \in All : ~Has(u, l)' /\ ~Done(u, l)'
        BY <1>3, <3>4, <3>6, OtherRoles
      <3>8. \A u \in All : ~Making(u, l)' /\ ~Placing(u, l)'
              /\ ~Going(u, l)' /\ l \notin th'[u].new
        BY <3>7 DEF Has
      <3>9. PlaceOK(l)'
        BY <3>2, <3>5, <3>7 DEF PlaceOK
      <3>10. StatusOK(l)'
        BY <3>2, <3>5, <3>7, <3>8 DEF StatusOK
      <3>11. \A u \in Threads : l \notin th[u].held
        BY <1>c, <2>1, <2>3 DEF Sound, ReserveOK
      <3>12. \A u \in Threads : l \notin th'[u].held
        BY <1>2, <1>3, <3>11 DEF Others, All
      <3>13. {u \in Threads : l \in th'[u].held} = {}
        BY <3>12
      <3>14. ReserveOK(l)'
        BY <3>2, <3>12, <3>13, FS_EmptySet DEF ReserveOK
      <3> QED
        BY <1>c, <2>3, <3>2, <3>3, <3>9, <3>10, <3>14 DEF Sound
    <2> QED
      BY <2>2, <2>3
  <1>8. lease' \in [Leases -> Lease]
    <2>1. lease' = [l \in Leases |-> lease'[l]]
      BY <1>b
    <2> QED
      BY <1>7, <2>1
  <1>9. CountInv'
    <2>1. {l \in Leases : lease'[l].status = "retained"} = {l \in Leases : lease[l].status = "retained"}
      BY <1>7
    <2> QED
      BY <1>b, <2>1 DEF IInv, CountInv
  <1>10. TypeOK'
    BY <1>a, <1>b, <1>3, <1>8 DEF TypeOK
  <1>11. DataInv'
    BY <1>b, <1>2, <1>3, DataFrame DEF IInv
  <1> QED
    BY <1>a, <1>b, <1>3, <1>5, <1>7, <1>9, <1>10, <1>11, LeaseStep

\* A lease is retained while nobody has the gate: what is known of the bytes.
LEMMA RetainData ==
    ASSUME Configuration, IInv, NEW t \in All, Others(t), gate = None,
           th'[t].pc # "io", count' = count + 1,
           UNCHANGED <<writeFile, mem, disk, gate, snap>>
    PROVE  DataInv'
  <1>1. None \notin All
    BY ConstantFacts
  <1>2. \A u \in All : th'[u].pc # "io"
    BY <1>1 DEF IInv, ShapeInv, ShapeOK, Others
  <1>3. snap = None /\ count \in Nat
    BY DEF IInv, DataInv, TypeOK
  <1>4. disk <= mem /\ (~writeFile => disk = mem)
    BY DEF IInv, DataInv
  <1>5. count' # 0
    BY <1>3
  <1> QED
    BY <1>2, <1>3, <1>4, <1>5 DEF DataInv

\* One of the child's leases is retained; with the last one its table is
\* published.
LEMMA AcquireKeeps ==
    ASSUME Configuration, IInv, NEW t \in All, Acquire(t)
    PROVE  IInv'
  <1>a. /\ TypeOK /\ th[t] \in Frame /\ th[t].held \subseteq Leases /\ th[t].new \subseteq Leases
        /\ inProgress # t /\ gate # t /\ Phase(t) = "acquire" /\ th[t].pc = "acquire"
        /\ th[t].todo = {} /\ t \in Threads /\ t # Main /\ th[t].on # None /\ th[t].on \in Procs
        /\ ShapeOK(t)
    BY CloneFacts DEF Acquire, IInv, ShapeInv
  <1>b. /\ UNCHANGED <<proc, live, writeFile, mem, disk, gate, snap, failures>>
        /\ UNCHANGED <<pending, inProgress, abandoned>>
        /\ gate = None /\ count' = count + 1
    BY DEF Acquire, queueVars
  <1>c. PICK c \in Made(t) :
        IF Made(t) = {c}
        THEN /\ lease' = [k \in Leases |->
                   IF k \notin th[t].new THEN lease[k]
                   ELSE [lease[k] EXCEPT !.status = "retained", !.holder = th[t].on]]
             /\ Step(t, [th[t] EXCEPT !.pc = "release", !.new = {}])
        ELSE /\ lease' = [lease EXCEPT ![c].status = "retained"]
             /\ UNCHANGED th
    BY DEF Acquire
  <1>d. c \in Leases /\ c \in th[t].new /\ lease[c].status = "made"
    BY <1>a, <1>c DEF Made
  <1>e. \A l \in Leases : Sound(l) /\ SamePlace(l) /\ lease[l] \in Lease
    BY <1>a, <1>b, AllSound, SameQueue, LeaseFields
  <1>f. ASSUME NEW l \in th[t].new
        PROVE  /\ Has(t, l) /\ lease[l].pieces > 0 /\ lease[l].holder = None
               /\ lease[l].status \in {"made", "retained"}
    <2>1. Has(t, l) /\ l \in Leases /\ Sound(l)
      BY <1>a, <1>e DEF Has
    <2>2. lease[l].holder = None
      BY <2>1, HandFacts
    <2> QED
      BY <2>1, <2>2 DEF Sound, StatusOK
  <1>1. CASE Made(t) # {c}
    <2>1. lease' = [lease EXCEPT ![c].status = "retained"] /\ UNCHANGED th
      BY <1>c, <1>1
    <2>2. Others(t) /\ Phase(t)' = Phase(t)
      BY <1>b, <2>1 DEF Others, Phase
    <2>3. ShapeOK(t)'
      BY <1>a, <1>b, <2>1, <2>2 DEF ShapeOK
    <2>4. /\ lease' \in [Leases -> Lease]
          /\ \A l \in Leases : l # c => lease'[l] = lease[l]
          /\ lease'[c].status = "retained" /\ lease'[c].pieces = lease[c].pieces
          /\ lease'[c].holder = lease[c].holder /\ lease'[c].shared = lease[c].shared
          /\ lease'[c].reserved = lease[c].reserved
      BY <1>a, <1>d, <2>1, StatusSet
    <2>5. \A l \in Leases : /\ SameRoles(t, l) /\ (Writing(t, l)' => Writing(t, l))
                            /\ ~Making(t, l)' /\ ~Placing(t, l)' /\ ~Going(t, l)'
                                 /\ ~Done(t, l)'
      BY <1>a, <2>1, <2>2 DEF SameRoles, Making, Placing, Going, Done, Writing
    <2>6. Sound(c)'
      <3>1. Has(t, c)'
        BY <1>d, <2>1 DEF Has
      <3>2. Has(t, c) /\ lease'[c].holder = None /\ lease'[c].pieces > 0
        BY <1>d, <1>f, <2>4
      <3>3. c \in th'[t].held <=> c \in th[t].held
        BY <2>1
      <3> QED
        BY <1>b, <1>d, <1>e, <2>2, <2>4, <2>5, <3>1, <3>2, <3>3, HandKept
    <2>7. ASSUME NEW l \in Leases, l # c PROVE Sound(l)'
      <3>1. SameLease(l)
        BY <2>4, <2>7 DEF SameLease
      <3> QED
        BY <1>b, <1>e, <2>2, <2>5, <3>1, SoundKept
    <2>8. CountInv' /\ count' \in 0 .. Cardinality(Leases)
      BY <1>b, <1>d, <2>4, CountAdd
    <2>9. TypeOK'
      BY <1>a, <1>b, <2>1, <2>4, <2>8 DEF TypeOK
    <2>10. DataInv'
      BY <1>a, <1>b, <2>1, <2>2, RetainData
    <2> QED
      BY <1>a, <1>b, <2>2, <2>3, <2>6, <2>7, <2>8, <2>9, <2>10, LeaseStep
  <1>2. CASE Made(t) = {c}
    <2> DEFINE r == [th[t] EXCEPT !.pc = "release", !.new = {}]
    <2>1. /\ lease' = [k \in Leases |->
                   IF k \notin th[t].new THEN lease[k]
                   ELSE [lease[k] EXCEPT !.status = "retained", !.holder = th[t].on]]
          /\ Step(t, r)
      BY <1>c, <1>2
    <2>2. r \in Frame
      BY <1>a DEF Frame, Codes
    <2>3. /\ r.pc = "release" /\ r.cur = th[t].cur /\ r.todo = {} /\ r.held = th[t].held /\ r.new = {}
          /\ r.ret = th[t].ret /\ r.on = th[t].on
      BY <1>a DEF Frame
    <2>4. Others(t) /\ th' \in [Threads \cup {Main} -> Frame] /\ th'[t] = r
      BY <1>a, <1>b, <2>1, <2>2, Moved
    <2>5. Phase(t)' = "release"
      BY <1>a, <1>b, <2>3, <2>4 DEF Phase
    <2>6. ShapeOK(t)'
      BY <1>a, <1>b, <2>3, <2>4, <2>5 DEF ShapeOK
    <2>7. \A l \in Leases : /\ ~Making(t, l)' /\ ~Placing(t, l)' /\ ~Going(t, l)'
                            /\ ~Done(t, l)' /\ ~Writing(t, l)' /\ l \notin th'[t].new
                            /\ ~Making(t, l) /\ ~Placing(t, l) /\ ~Going(t, l) /\ ~Done(t, l)
      BY <1>a, <2>3, <2>4, <2>5 DEF Making, Placing, Going, Done, Writing
    <2>8. \A l \in th[t].new : l # c => lease[l].status = "retained"
      BY <1>f, <1>2 DEF Made
    <2>9. ASSUME NEW l \in Leases
          PROVE  /\ Sound(l)' /\ lease'[l] \in Lease
                 /\ l # c => lease'[l].status = lease[l].status
                 /\ l = c => lease'[l].status = "retained"
      <3>1. CASE l \notin th[t].new
        <4>1. lease'[l] = lease[l]
          BY <2>1, <3>1
        <4>2. SameRoles(t, l)
          BY <2>7, <2>3, <2>4, <3>1 DEF SameRoles
        <4>3. Sound(l)'
          BY <1>b, <1>e, <2>4, <4>1, <4>2, SoundKept DEF SameLease
        <4> QED
          BY <1>d, <1>e, <3>1, <4>1, <4>3
      <3>2. CASE l \in th[t].new
        <4>1. lease'[l] = [lease[l] EXCEPT !.status = "retained", !.holder = th[t].on]
          BY <2>1, <3>2
        <4>2. /\ lease'[l] \in Lease /\ lease'[l].status = "retained" /\ lease'[l].holder = th[t].on
              /\ lease'[l].pieces = lease[l].pieces /\ lease'[l].shared = lease[l].shared
              /\ lease'[l].reserved = lease[l].reserved
          BY <1>a, <1>e, <4>1 DEF Lease
        <4>3. Has(t, l) /\ lease'[l].pieces > 0 /\ lease'[l].holder # None
          BY <1>a, <1>f, <3>2, <4>2
        <4>4. /\ ~Has(t, l)' /\ ~Done(t, l)' /\ ~Writing(t, l)'
              /\ l \in th'[t].held <=> l \in th[t].held
          BY <2>7, <2>3, <2>4 DEF Has
        <4>5. Sound(l)'
          BY <1>b, <1>e, <2>4, <4>2, <4>3, <4>4, HandPublished
        <4> QED
          BY <2>8, <3>2, <4>2, <4>5
      <3> QED
        BY <3>1, <3>2
    <2>10. lease' \in [Leases -> Lease]
      <3>1. lease' = [l \in Leases |-> lease'[l]]
        BY <2>1
      <3> QED
        BY <2>9, <3>1
    <2>11. CountInv' /\ count' \in 0 .. Cardinality(Leases)
      BY <1>b, <1>d, <2>9, CountAdd
    <2>12. TypeOK'
      BY <1>a, <1>b, <2>4, <2>10, <2>11 DEF TypeOK
    <2>13. DataInv'
      BY <1>a, <1>b, <2>3, <2>4, RetainData
    <2> QED
      BY <1>a, <1>b, <2>4, <2>6, <2>9, <2>11, <2>12, <2>13, LeaseStep
  <1> QED
    BY <1>1, <1>2

----------------------------------------------------------------------------
(* The invariant and what follows from it.                                  *)

\* The initial state: the first leases are in the table of the first process.
LEMMA InitHolds ==
    ASSUME Configuration, Init
    PROVE  IInv
  <1>1. /\ \A t \in All : th[t] = Idle
        /\ inProgress = None /\ pending = <<>> /\ abandoned = {} /\ gate = None /\ snap = None
        /\ None \notin All /\ None \notin Leases /\ mem = 0 /\ disk = 0 /\ failures = 0
        /\ Early \subseteq Leases /\ Root \in Procs /\ Root # None
    BY ConstantFacts DEF Init, All, Configuration
  <1>2. /\ Idle.todo = {} /\ Idle.held = {} /\ Idle.new = {} /\ Idle.pc = "idle"
        /\ Idle.ret = "idle" /\ Idle.cur = None
    BY DEF Idle
  <1>3. \A t \in All : Phase(t) = "idle"
    BY <1>1, <1>2 DEF Phase
  <1>4. ShapeInv
    BY <1>1, <1>2, <1>3 DEF ShapeInv, ShapeOK
  <1>5. QueueInv
    BY <1>1 DEF QueueInv
  <1>6. 0 \in 0 .. Cardinality(Threads) /\ 0 \in 0 .. MaxPieces /\ 1 \in 0 .. MaxPieces
    BY ConstantFacts, FS_CardinalityType DEF Configuration
  <1>7. \A l \in Leases \ Early : /\ lease[l] = Unused
                                  /\ lease[l] \in Lease /\ lease[l].status = "free"
                                  /\ lease[l].holder = None /\ lease[l].reserved = 0
    BY <1>6 DEF Init, Unused, Lease, Errors
  <1>8. \A l \in Early : /\ lease[l] \in Lease /\ lease[l].status = "retained" /\ lease[l].holder = Root
                         /\ lease[l].pieces = 1 /\ lease[l].reserved = 0
    BY <1>1, <1>6 DEF Init, Unused, Lease, Errors
  <1>9. lease \in [Leases -> Lease]
    <2>1. lease = [l \in Leases |-> lease[l]]
      BY DEF Init
    <2> QED
      BY <1>7, <1>8, <2>1
  <1>10. \A t \in All, l \in Leases : ~Has(t, l) /\ ~Done(t, l)
           /\ ~Writing(t, l) /\ l \notin th[t].held
    BY <1>1, <1>2, <1>3 DEF Has, Making, Placing, Going, Done, Writing
  <1>11. \A l : ~Queued(l)
    BY <1>1 DEF Queued, Range
  <1>12. \A l \in Early : writeFile
    BY DEF Init
  <1>13. ASSUME NEW l \in Leases PROVE PlaceOK(l) /\ StatusOK(l) /\ ReserveOK(l)
    <2>1. PlaceOK(l)
      BY <1>1, <1>7, <1>8, <1>10, <1>11 DEF PlaceOK
    <2>2. \A t \in All : ~Making(t, l) /\ ~Placing(t, l) /\ ~Going(t, l) /\ l \notin th[t].new
      BY <1>10 DEF Has
    <2>3. StatusOK(l)
      BY <1>1, <1>7, <1>8, <1>10, <1>11, <1>12, <2>2 DEF StatusOK
    <2>4. {t \in Threads : l \in th[t].held} = {}
      BY <1>10 DEF All
    <2>5. ReserveOK(l)
      BY <1>7, <1>8, <1>10, <2>4, FS_EmptySet DEF ReserveOK, All
    <2> QED
      BY <2>1, <2>3, <2>5
  <1>14. {l \in Leases : lease[l].status = "retained"} = Early
    BY <1>1, <1>7, <1>8
  <1>15. CountInv
    BY <1>14 DEF CountInv, Init
  <1>16. Cardinality(Early) \in Nat /\ Cardinality(Early) <= Cardinality(Leases) /\ Cardinality(Leases) \in Nat
    BY <1>1, ConstantFacts, FS_Subset, FS_CardinalityType
  <1>17. TypeOK
    <2>1. count \in 0 .. Cardinality(Leases) /\ writeFile \in BOOLEAN
      BY <1>16 DEF Init
    <2>2. 0 \in 0 .. MaxWrites /\ 0 \in 0 .. MaxFailures
      BY DEF Configuration
    <2>3. th \in [Threads \cup {Main} -> Frame]
      BY IdleTyped DEF Init
    <2>4. /\ proc \in [Procs -> {"unborn", "building", "failed", "alive", "execing",
               "ending", "dead"}]
          /\ live \subseteq Threads
      BY DEF Init
    <2> QED
      BY <1>1, <1>9, <2>1, <2>2, <2>3, <2>4 DEF TypeOK
  <1>18. DataInv
    BY <1>1, <1>2 DEF DataInv
  <1> QED
    BY <1>4, <1>5, <1>13, <1>15, <1>17, <1>18 DEF IInv, LeaseInv

\* Every step of a call keeps it.
LEMMA ContinuesKeeps ==
    ASSUME Configuration, IInv, NEW t \in All, Continues(t)
    PROVE  IInv'
  BY RetireKeeps, PrepareKeeps, PrepareFailsKeeps, WriteKeeps, WriteKeepsMsync, WriteFailsKeeps,
     QueueKeeps, RetryKeeps, AttemptedKeeps, AttemptedFailedKeeps, RetainKeeps, CommitKeeps,
     CommitFailsKeeps, UnmapLockedKeeps, DrainKeeps, RetireAllKeeps, RetiredAllKeeps,
     AcquireKeeps, AcquireFailsKeeps, ReleaseKeeps, PublishKeeps, DiscardKeeps
  DEF Continues

\* Every first step of a call keeps it.
LEMMA BeginsKeeps ==
    ASSUME Configuration, IInv, NEW t \in Threads, Begins(t)
    PROVE  IInv'
  BY StoreKeeps, PwriteKeeps, MsyncKeeps, MmapKeeps, UnmapKeeps, MmapAnonymousKeeps,
     ExecKeeps, ExitKeeps, CloneKeeps, CloneFailsKeeps
  DEF Begins

\* A step that changes nothing.
LEMMA StutterKeeps ==
    ASSUME IInv, UNCHANGED vars
    PROVE  IInv'
  <1>1. UNCHANGED <<proc, live, lease, count, writeFile, mem, disk, gate, snap, failures,
                    pending, inProgress, abandoned, th>>
    BY DEF vars
  <1>2. \A t \in All : Phase(t)' = Phase(t)
    BY <1>1 DEF Phase
  <1>3. TypeOK' /\ QueueInv' /\ CountInv' /\ DataInv'
    BY <1>1 DEF IInv, TypeOK, QueueInv, CountInv, DataInv
  <1>4. ShapeInv'
    BY <1>1, <1>2 DEF IInv, ShapeInv, ShapeOK
  <1>5. LeaseInv'
    BY <1>1, <1>2 DEF IInv, LeaseInv, PlaceOK, StatusOK, ReserveOK, Has, Making, Placing, Going,
                      Done, Writing, Queued
  <1> QED
    BY <1>3, <1>4, <1>5 DEF IInv

\* Every step keeps it.
LEMMA NextKeeps ==
    ASSUME Configuration, IInv, [Next]_vars
    PROVE  IInv'
  <1>1. \A t \in Threads : t \in All
    BY DEF All
  <1>2. Main \in All
    BY DEF All
  <1> QED
    BY <1>1, <1>2, BeginsKeeps, ContinuesKeeps, ShutdownKeeps, DestroyKeeps, AbandonKeeps,
       StutterKeeps
    DEF Next

\* The invariant holds in every behaviour.
LEMMA Inductive == Configuration => (Spec => []IInv)
  <1> SUFFICES ASSUME Configuration PROVE Spec => []IInv
    OBVIOUS
  <1>1. Init => IInv
    BY InitHolds
  <1>2. IInv /\ [Next]_vars => IInv'
    BY NextKeeps
  <1> QED
    BY <1>1, <1>2, PTL DEF Spec

\* Every variable keeps its type.  In particular mappingLeaseCount and the number of
\* reservations never go below zero: the panics of retireMapping and of
\* releaseCloneReservation cannot happen.
THEOREM LeaseTypeCorrect == Configuration => (Spec => []TypeOK)
  <1>1. IInv => TypeOK
    BY DEF IInv
  <1> QED
    BY <1>1, Inductive, PTL

\* mappingLeaseCount is the number of leases retained and not yet retired, and every
\* record is of such a lease: MappedFileLease::retire gives up a lease once, however
\* a drain, the queue's retries, failed writebacks and clones follow one another.
THEOREM CountIsExact == Configuration => (Spec => []LeasesCounted)
  <1>1. IInv => LeasesCounted
    BY DEF IInv, CountInv, LeaseInv, StatusOK, LeasesCounted
  <1> QED
    BY <1>1, Inductive, PTL

\* When the last lease is gone every byte stored through a mapping is in the file: the
\* retirement that is the last one carries the bytes, and a failure keeps the lease
\* (MappedFileCache::retireMapping).
THEOREM NothingIsLost == Configuration => (Spec => []NothingUnwritten)
  <1>1. IInv => NothingUnwritten
    BY DEF IInv, DataInv, NothingUnwritten
  <1> QED
    BY <1>1, Inductive, PTL

\* A lease that a clone has reserved stays retained until the clone lets go of it,
\* also when its last record is unmapped meanwhile (tryReserveClone, and the
\* test of the reservations in MappedFileLease::retire).
THEOREM ReservationsHold == Configuration => (Spec => []ReservedStays)
  <1>1. IInv => ReservedStays
    BY DEF IInv, LeaseInv, ReserveOK, ReservedStays
  <1> QED
    BY <1>1, Inductive, PTL

\* A retained lease with no record is queued, in the hands of a thread, or was given up
\* by shutdown: no error path of unmap, mmap, clone, exec or exit drops one.
THEOREM NoLeaseForgotten == Configuration => (Spec => []NoneForgotten)
  <1>1. ASSUME IInv PROVE NoneForgotten
    <2> SUFFICES ASSUME NEW l \in Leases, lease[l].status = "retained", lease[l].holder = None
                 PROVE  \/ l \in Range(pending) \cup abandoned
                        \/ \E t \in All : l \in {th[t].cur} \cup th[t].todo \cup th[t].new
      BY DEF NoneForgotten, All
    <2>1. Queued(l) \/ l \in abandoned \/ \E t \in All : Has(t, l)
      BY <1>1 DEF IInv, LeaseInv, PlaceOK
    <2>2. \A t \in All : Has(t, l) => l \in {th[t].cur} \cup th[t].todo \cup th[t].new
      BY DEF Has, Making, Placing, Going
    <2> QED
      BY <2>1, <2>2 DEF Queued
  <1> QED
    BY <1>1, Inductive, PTL

\* The file never goes back to older bytes: what was copied under the gate for a
\* writeback is not older than the file when it is written.
THEOREM FileMovesForward == Configuration => (Spec => DiskMovesForward)
  <1> SUFFICES ASSUME Configuration PROVE Spec => DiskMovesForward
    OBVIOUS
  <1>1. ASSUME IInv, [Next]_vars PROVE [disk' >= disk]_disk
    <2>0. /\ disk \in Int /\ mem \in Int /\ disk <= mem /\ (snap = None \/ (snap \in Int /\ disk <= snap))
      BY <1>1 DEF IInv, TypeOK, DataInv
    <2> SUFFICES ASSUME disk' # disk PROVE disk' >= disk
      OBVIOUS
    <2>1. ASSUME NEW t \in All, Continues(t) PROVE disk' \in {disk,
                   snap} /\ (disk' = snap => snap # None)
      <3>1. CASE Write(t)
        BY <2>0, <3>1 DEF Write
      <3>2. CASE WriteFails(t)
        BY <3>2 DEF WriteFails
      <3>3. CASE ~Write(t) /\ ~WriteFails(t)
        BY <2>1, <3>3 DEF Continues, Retire, Prepare, PrepareFails, Queue, Retry, Attempted,
              Retain, Commit, CommitFails, UnmapLocked, Drain, RetireAll, RetiredAll, Acquire,
              AcquireFails, Release, Publish, Discard, cacheVars
      <3> QED
        BY <3>1, <3>2, <3>3
    <2>2. ASSUME NEW t \in Threads, Begins(t) PROVE disk' \in {disk, mem + 1}
      BY <2>2 DEF Begins, Store, Pwrite, Msync, Mmap, Unmap, MmapAnonymous, Exec, Exit, Clone,
              CloneFails, cacheVars
    <2>3. ASSUME Shutdown \/ Destroy \/ Abandon \/ UNCHANGED vars PROVE disk' = disk
      BY <2>3 DEF Shutdown, Destroy, Abandon, cacheVars, vars
    <2>4. CASE \E t \in All : Continues(t)
      BY <2>0, <2>1, <2>4
    <2>5. CASE \E t \in Threads : Begins(t)
      BY <2>0, <2>2, <2>5
    <2> QED
      BY <1>1, <2>3, <2>4, <2>5 DEF Next, All
  <1> QED
    BY <1>1, Inductive, PTL DEF Spec, DiskMovesForward
=============================================================================
