------------------------- MODULE MappedPagesProofs -------------------------
(***************************************************************************)
(* Proofs about MappedPages, for any threads, any number of descriptors      *)
(* and pages and any bounds.                                                 *)
(*                                                                           *)
(* A change of the file has two halves, the file's and the cache's, with the *)
(* gate held between them and page faults free to run.  The invariant says   *)
(* what may differ between the halves, and that a value loaded before the    *)
(* second half is right unless that half touches its page, because the half  *)
(* also begins a new generation, in which the value is thrown away.          *)
(***************************************************************************)
EXTENDS MappedPages, TLAPS

\* Nobody is between the file's half and the cache's half of a change.
Quiet == \A t \in Threads : th[t].pc \notin {"written", "resized"}
Resident(k) == data[k] # None
Clean(k) == Resident(k) /\ ~dirty[k] /\ k \notin torn
Loaded(t) == th[t].pc = "install" /\ th[t].gen = generation /\ ~Resident(th[t].page)

\* A page beyond the end of the file is empty.
EmptyBeyond == \A k \in Pages : fileLength < k => file[k] = 0

\* With nobody between the file and the cache, they agree, and so does a value
\* that was loaded in this generation.
Settled ==
    Quiet =>
        /\ length = fileLength
        /\ \A k \in Pages : Clean(k) => data[k] = file[k]
        /\ \A t \in Threads : Loaded(t) => th[t].value = file[th[t].page]

\* Between the two halves of a write only the written page may differ, and what it
\* skipped is empty.  The page that the buffer is in has been loaded.
HalfWritten(w) ==
    /\ file[th[w].page] = th[w].value
    /\ fileLength = Larger(length, th[w].page)
    /\ \A k \in Pages \ {th[w].page} : Clean(k) => data[k] = file[k]
    /\ \A k \in Pages : length < k /\ k < th[w].page => file[k] = 0
    /\ th[w].from # None => Resident(th[w].from)
\* ... for the thread that writes.
WriteHalfDone == \A w \in Threads : th[w].pc = "written" => HalfWritten(w)

\* Between the two halves of a change of length only the pages that it zeroes may.
HalfResized(w) ==
    /\ fileLength = th[w].value
    /\ \A k \in Pages :
        IF (length < k) <=> (fileLength < k)
        THEN Clean(k) => data[k] = file[k]
        ELSE file[k] = 0
\* ... for the thread that changes the length.
ResizeHalfDone == \A w \in Threads : th[w].pc = "resized" => HalfResized(w)

\* A value loaded in this generation is right for every page that the second half
\* of the change under way leaves alone.
LoadedInv ==
    \A t, w \in Threads : Loaded(t) =>
        /\ th[w].pc = "written" /\ th[t].page # th[w].page =>
              th[t].value = file[th[t].page]
        /\ th[w].pc = "resized" /\ ((length < th[t].page) <=> (fileLength < th[t].page)) =>
              th[t].value = file[th[t].page]

\* What a flush has copied is resident, was stored to and lies in the file.
FlushInv ==
    \A w \in Threads : th[w].pc = "flush" =>
        \A k \in DOMAIN th[w].snap : Resident(k) /\ dirty[k] /\ k <= length

\* A fault knows the mapping it read as long as it is there, and has its page.
Knows(t) ==
    /\ th[t].gen <= generation
    /\ th[t].pc = "idle" => th[t].op = "none"
    /\ th[t].pc \in {"check", "load", "install", "map"} =>
          /\ th[t].key <= map.key
          /\ th[t].key = map.key => th[t].page = map.page /\ th[t].shared = map.shared
    /\ th[t].pc = "install" => th[t].value \in Values
    /\ th[t].pc = "map" => Resident(th[t].page) /\ (th[t].shared => dirty[th[t].page])

\* The part of the invariant about the file and the cache, and about the address.
FileInv == EmptyBeyond /\ Settled /\ WriteHalfDone /\ ResizeHalfDone /\ LoadedInv /\ FlushInv
EntryInv == (\A t \in Threads : Knows(t)) /\ EntryIsMapped /\ SharedIsDirty
IInv == TypeOK /\ FileInv /\ EntryInv

----------------------------------------------------------------------------
(* Frames and locks.                                                        *)

\* The step moves thread t only.
Others(t) == \A u \in Threads : u # t => th'[u] = th[u]

\* The fields of a frame.
LEMMA FrameTypes ==
    ASSUME TypeOK, NEW u \in Threads
    PROVE  /\ th[u] \in Frame
           /\ th[u].pc \in Codes /\ th[u].op \in FileOps \cup {"none"} /\ th[u].file \in Files
           /\ th[u].page \in Pages /\ th[u].from \in Pages \cup {None} /\ th[u].key \in Nat
           /\ th[u].shared \in BOOLEAN /\ th[u].gen \in Nat
BY DEF TypeOK, Frame

\* What a flush has copied: values of pages.
LEMMA SnapTypes ==
    ASSUME TypeOK, NEW u \in Threads, NEW k \in DOMAIN th[u].snap
    PROVE  k \in Pages /\ th[u].snap[k] \in Values
BY DEF TypeOK, Frame

\* An idle thread's frame is a frame.
LEMMA IdleTyped == Configuration => Idle \in Frame
<1> SUFFICES ASSUME Configuration PROVE Idle \in Frame
    OBVIOUS
<1>1. [k \in {} |-> 0] \in [{} -> Values] /\ {} \in SUBSET Pages
    OBVIOUS
<1>2. [k \in {} |-> 0] \in UNION {[S -> Values] : S \in SUBSET Pages}
    BY <1>1
<1> QED BY <1>2 DEF Configuration, Idle, Frame, Codes, Pages, Values

\* A step that leaves the locks alone and stays on its side of them.
LEMMA OwnersStay ==
    ASSUME TypeOK, NEW t \in Threads, Others(t), UNCHANGED locks,
           Changing(t)' <=> Changing(t), Calling(t)' <=> Calling(t),
           Calling(t) => th'[t].file = th[t].file
    PROVE  Owners'
BY DEF TypeOK, Owners, Others, locks, Changing, Calling

\* A step that takes the gate for a call that has its filePosMutex.
LEMMA OwnersTake ==
    ASSUME Configuration, TypeOK, NEW t \in Threads, Others(t),
           th[t].pc = "gate", gate = None, gate' = t, pos' = pos,
           Changing(t)', th'[t].file = th[t].file
    PROVE  Owners'
<1>1. \A u \in Threads : ~Changing(u)
    BY DEF TypeOK, Owners, Configuration
<1>2. \A u \in Threads : Changing(u)' <=> gate' = u
    BY <1>1 DEF Others, Changing
<1>3. Calling(t) /\ Calling(t)'
    BY DEF Calling, Changing
<1>4. \A u \in Threads : u # t => (Calling(u)' <=> Calling(u)) /\ th'[u] = th[u]
    BY DEF Others, Calling, Changing
<1> QED BY <1>2, <1>3, <1>4 DEF TypeOK, Owners

\* A step that gives back what its call has.
LEMMA OwnersRelease ==
    ASSUME Configuration, TypeOK, NEW t \in Threads, Others(t), Calling(t), ~Calling(t)',
           pos' = [pos EXCEPT ![th[t].file] = None],
           gate' = IF Changing(t) THEN None ELSE gate
    PROVE  Owners'
<1>1. th[t].file \in Files /\ pos[th[t].file] = t
    BY FrameTypes DEF TypeOK, Owners
<1>2. \A u \in Threads : Changing(u)' <=> gate' = u
    BY DEF TypeOK, Owners, Others, Calling, Changing, Configuration
<1>3. \A u \in Threads, f \in Files : pos'[f] = u <=> Calling(u)' /\ th'[u].file = f
  <2> SUFFICES ASSUME NEW u \in Threads, NEW f \in Files
               PROVE  pos'[f] = u <=> Calling(u)' /\ th'[u].file = f
      OBVIOUS
  <2>1. CASE u = t
      BY <1>1, <2>1 DEF TypeOK, Owners, Configuration
  <2>2. CASE u # t
    <3>1. th'[u] = th[u] /\ (Calling(u)' <=> Calling(u))
        BY <2>2 DEF Others, Calling, Changing
    <3> QED BY <1>1, <2>2, <3>1 DEF TypeOK, Owners, Configuration
  <2> QED BY <2>1, <2>2
<1> QED BY <1>2, <1>3 DEF Owners

\* A fault's return: to the guest or into the call that it is part of.
LEMMA Returned ==
    ASSUME Configuration, TypeOK, NEW t \in Threads, Return(t), th[t].pc \in FaultCodes,
           UNCHANGED locks
    PROVE  /\ th' \in [Threads -> Frame] /\ Others(t) /\ Owners'
           /\ th'[t].pc \in {"idle", "buffer"} /\ th'[t].page \in Pages /\ th'[t].gen = 0
           /\ th'[t].pc = "idle" => th'[t].op = "none"
<1>1. th[t] \in Frame /\ th[t].op \in FileOps \cup {"none"} /\ th[t].file \in Files
    BY FrameTypes
<1>2. Idle \in Frame
    BY IdleTyped
<1> DEFINE back == [Idle EXCEPT !.pc = "buffer", !.op = th[t].op, !.file = th[t].file]
<1>3. /\ back \in Frame /\ back.pc = "buffer" /\ back.op = th[t].op
      /\ back.file = th[t].file /\ back.page = Idle.page /\ back.gen = 0
    BY <1>1, <1>2 DEF Frame, Codes, GateCodes, Idle
<1>4. th' = [th EXCEPT ![t] = IF th[t].op = "none" THEN Idle ELSE back]
    BY DEF Return
<1> HIDE DEF back
<1>5. th' \in [Threads -> Frame] /\ Others(t)
    BY <1>2, <1>3, <1>4 DEF TypeOK, Others
<1>6. Idle.page \in Pages /\ Idle.gen = 0 /\ Idle.pc = "idle" /\ Idle.op = "none"
    BY DEF Idle, Configuration, Pages
<1>7. th'[t] = IF th[t].op = "none" THEN Idle ELSE back
    BY <1>4 DEF TypeOK
<1>8. /\ Changing(t)' <=> Changing(t)
      /\ Calling(t)' <=> Calling(t)
      /\ Calling(t) => th'[t].file = th[t].file
    BY <1>3, <1>6, <1>7 DEF Changing, Calling, FaultCodes, GateCodes
<1>9. Owners'
    BY <1>5, <1>8, OwnersStay
<1> QED BY <1>3, <1>5, <1>6, <1>7, <1>9

\* A call's return: the thread is idle and has no lock.
LEMMA Left ==
    ASSUME Configuration, TypeOK, NEW t \in Threads, Leave(t), Changing(t)
    PROVE  /\ th' \in [Threads -> Frame] /\ Others(t) /\ th'[t] = Idle
           /\ gate = t /\ gate' = None /\ Owners'
           /\ pos' \in [Files -> Threads \cup {None}]
           /\ Idle.pc = "idle" /\ Idle.op = "none" /\ Idle.gen = 0 /\ Idle.page \in Pages
<1>1. th' \in [Threads -> Frame] /\ Others(t) /\ th'[t] = Idle
    BY IdleTyped DEF TypeOK, Leave, Others
<1>2. Idle.pc = "idle" /\ Idle.op = "none" /\ Idle.gen = 0 /\ Idle.page \in Pages
    BY DEF Idle, Configuration, Pages
<1>3. Calling(t) /\ ~Calling(t)'
    BY <1>1, <1>2 DEF Calling, Changing, FaultCodes, GateCodes
<1>4. Owners'
    BY <1>1, <1>3, OwnersRelease DEF Leave
<1>5. gate = t /\ gate' = None /\ pos' \in [Files -> Threads \cup {None}]
    BY DEF TypeOK, Owners, Leave
<1> QED BY <1>1, <1>2, <1>4, <1>5

\* Beside the owner of the gate, or one that takes it, nobody changes the file.
LEMMA Alone ==
    ASSUME Configuration, TypeOK, NEW t \in Threads, Others(t), gate \in {None, t}
    PROVE  \A u \in Threads : u # t =>
              /\ ~Changing(u) /\ ~Changing(u)'
              /\ th'[u].pc \notin GateCodes
BY DEF TypeOK, Owners, Others, Changing, Configuration

----------------------------------------------------------------------------
(* What a step leaves alone.                                                *)

\* Using a page for a shared mapping marks it and unmarks none.
LEMMA UseMarks ==
    ASSUME dirty \in [Pages -> BOOLEAN], NEW j \in Pages, NEW shared \in BOOLEAN,
           Use(j, shared)
    PROVE  /\ dirty' \in [Pages -> BOOLEAN]
           /\ \A k \in Pages : dirty[k] => dirty'[k]
           /\ shared => dirty'[j]
<1>1. CASE shared = TRUE
    BY <1>1 DEF Use
<1>2. CASE shared = FALSE
    BY <1>2 DEF Use
<1> QED BY <1>1, <1>2

\* A page that is resident stays so, and so does its mark.
Grows ==
    /\ \A k \in Pages : Resident(k) => Resident(k)'
    /\ \A k \in Pages : dirty[k] => dirty'[k]
    /\ generation' \in Nat /\ generation <= generation'

\* Steps that change neither mapping nor entry concern only the thread that makes
\* them.
LEMMA EntryFrame ==
    ASSUME IInv, NEW t \in Threads, Others(t), UNCHANGED <<map, pte>>, Grows, Knows(t)'
    PROVE  EntryInv'
<1>1. TypeOK /\ EntryInv
    BY DEF IInv
<1>2. \A u \in Threads : Knows(u)'
  <2> SUFFICES ASSUME NEW u \in Threads, u # t PROVE Knows(u)'
      OBVIOUS
  <2>1. th'[u] = th[u] /\ th[u].page \in Pages /\ th[u].gen \in Nat /\ generation \in Nat
      BY <1>1, FrameTypes DEF Others, TypeOK
  <2> QED BY <1>1, <2>1 DEF EntryInv, Knows, Grows, Resident
<1>3. EntryIsMapped' /\ SharedIsDirty'
    BY <1>1 DEF EntryInv, EntryIsMapped, SharedIsDirty, Grows, Resident, TypeOK
<1> QED BY <1>2, <1>3 DEF EntryInv

\* What faults and stores do to the cache: a page appears with a value that was
\* loaded in this generation, or a page that is marked changes.
Touches(t) ==
    \A k \in Pages :
        \/ data'[k] = data[k]
        \/ Resident(k) /\ Resident(k)' /\ dirty[k]
        \/ Loaded(t) /\ th[t].page = k /\ data'[k] = th[t].value

\* The threads between two halves of a change, or in a writeback.
Halfway(u) == th[u].pc \in {"written", "resized", "flush"}

\* Steps that only touch the cache in this way keep the file's part.
LEMMA TouchFrame ==
    ASSUME IInv, NEW t \in Threads, Others(t), Touches(t),
           UNCHANGED <<file, fileLength, length, generation, torn>>,
           \A k \in Pages : Resident(k) => Resident(k)',
           \A k \in Pages : dirty[k] => dirty'[k],
           th'[t] = th[t] \/ (th[t].pc \notin {"written", "resized"} /\ ~Halfway(t)'),
           Loaded(t)' => (Loaded(t) /\ th'[t] = th[t]) \/ th'[t].value = file[th'[t].page],
           th'[t].page \in Pages
    PROVE  FileInv'
<1>1. TypeOK /\ FileInv
    BY DEF IInv
<1>a. \A u \in Threads : th[u].page \in Pages /\ th'[u].page \in Pages
    BY <1>1, FrameTypes DEF Others
<1>b. \A u \in Threads : Halfway(u)' => th'[u] = th[u]
    BY DEF Others
<1>2. EmptyBeyond'
    BY <1>1 DEF FileInv, EmptyBeyond
<1>3. Quiet' => Quiet
    BY DEF Quiet, Others
<1>4. \A u \in Threads : Loaded(u)' => (Loaded(u) /\ th'[u] = th[u]) \/ th'[u].value = file[th'[u].page]
    BY <1>a DEF Others, Loaded
\* A clean page was clean, or has just been loaded.
<1>c. \A k \in Pages : Clean(k)' =>
         (Clean(k) /\ data'[k] = data[k]) \/ (Loaded(t) /\ th[t].page = k /\ data'[k] = th[t].value)
    BY DEF Clean, Touches, Resident
<1>5. Settled'
    BY <1>1, <1>3, <1>4, <1>a, <1>c DEF FileInv, Settled
<1>6. WriteHalfDone'
  <2> SUFFICES ASSUME NEW w \in Threads, th'[w].pc = "written" PROVE HalfWritten(w)'
      BY DEF WriteHalfDone
  <2>1. th'[w] = th[w] /\ HalfWritten(w)
      BY <1>1, <1>b DEF Halfway, FileInv, WriteHalfDone
  <2>2. th[w].from \in Pages \cup {None}
      BY <1>1, FrameTypes
  <2>3. \A k \in Pages \ {th[w].page} : Clean(k)' => data'[k] = file'[k]
      BY <1>1, <1>c, <2>1 DEF HalfWritten, FileInv, LoadedInv
  <2> QED BY <2>1, <2>2, <2>3 DEF HalfWritten
<1>7. ResizeHalfDone'
  <2> SUFFICES ASSUME NEW w \in Threads, th'[w].pc = "resized" PROVE HalfResized(w)'
      BY DEF ResizeHalfDone
  <2>1. th'[w] = th[w] /\ HalfResized(w)
      BY <1>1, <1>b DEF Halfway, FileInv, ResizeHalfDone
  <2> QED BY <1>1, <1>c, <2>1 DEF HalfResized, FileInv, LoadedInv
<1>8. LoadedInv'
    BY <1>1, <1>4, <1>b, <1>a DEF FileInv, LoadedInv, Halfway
<1>9. FlushInv'
  <2> SUFFICES ASSUME NEW w \in Threads, th'[w].pc = "flush", NEW k \in DOMAIN th'[w].snap
               PROVE  Resident(k)' /\ dirty'[k] /\ k <= length'
      BY DEF FlushInv
  <2>1. th'[w] = th[w]
      BY <1>b DEF Halfway
  <2>2. k \in Pages
      BY <1>1, <2>1, SnapTypes
  <2> QED BY <1>1, <2>1, <2>2 DEF FileInv, FlushInv
<1> QED BY <1>2, <1>5, <1>6, <1>7, <1>8, <1>9 DEF FileInv

\* Steps that leave file, cache and mapping alone, outside the halves of a change.
LEMMA CallFrame ==
    ASSUME IInv, NEW t \in Threads, Others(t), UNCHANGED <<fileVars, cacheVars, map, pte>>,
           th'[t] = th[t] \/ (th[t].pc \notin {"written", "resized"} /\ ~Halfway(t)'),
           ~Loaded(t)', th'[t].page \in Pages, Knows(t)'
    PROVE  FileInv' /\ EntryInv'
<1>1. Grows /\ Touches(t)
    BY DEF IInv, TypeOK, Grows, Touches, Resident, cacheVars
<1>2. UNCHANGED <<file, fileLength, length, generation, torn>>
    BY DEF fileVars, cacheVars
<1>3. EntryInv'
    BY <1>1, EntryFrame
<1>4. FileInv'
    BY <1>1, <1>2, TouchFrame DEF Grows
<1> QED BY <1>3, <1>4

----------------------------------------------------------------------------
(* A page fault.                                                            *)

\* A fault reads the mapping.
LEMMA FaultKeeps ==
    ASSUME Configuration, IInv, NEW t \in Threads, Fault(t)
    PROVE  IInv'
<1>1. TypeOK /\ FileInv /\ EntryInv
    BY DEF IInv
<1>2. UNCHANGED <<fileVars, cacheVars, locks, guestVars, counts>> /\ th[t].pc \in {"idle", "fault"}
    BY DEF Fault
<1>3. CASE pte # None
  <2>1. Return(t) /\ th[t].pc = "fault"
      BY <1>3 DEF Fault
  <2>2. /\ th' \in [Threads -> Frame] /\ Others(t) /\ Owners'
        /\ th'[t].pc \in {"idle", "buffer"} /\ th'[t].page \in Pages /\ th'[t].gen = 0
        /\ th'[t].pc = "idle" => th'[t].op = "none"
      BY <1>1, <1>2, <2>1, Returned DEF FaultCodes
  <2>3. Knows(t)'
      BY <1>1, <1>2, <2>2 DEF Knows, TypeOK, cacheVars
  <2>4. ~Loaded(t)' /\ ~Halfway(t)' /\ UNCHANGED <<map, pte>>
      BY <1>2, <2>2 DEF Loaded, Halfway, guestVars
  <2>5. FileInv' /\ EntryInv'
      BY <1>2, <2>1, <2>2, <2>3, <2>4, CallFrame
  <2> QED BY <1>1, <1>2, <2>2, <2>5 DEF IInv, TypeOK, fileVars, cacheVars, locks, guestVars, counts
<1>4. CASE pte = None
  <2> DEFINE r == [th[t] EXCEPT !.pc = "check", !.page = map.page, !.key = map.key,
                                !.shared = map.shared]
  <2>1. th' = [th EXCEPT ![t] = r]
      BY <1>4 DEF Fault
  <2>2. /\ r \in Frame /\ r.pc = "check" /\ r.page = map.page /\ r.key = map.key
        /\ r.shared = map.shared /\ r.gen = th[t].gen /\ r.op = th[t].op /\ r.file = th[t].file
    <3>1. th[t] \in Frame /\ map.page \in Pages /\ map.key \in Nat /\ map.shared \in BOOLEAN
        BY <1>1, FrameTypes DEF TypeOK
    <3> QED BY <3>1 DEF Frame, Codes, FaultCodes
  <2> HIDE DEF r
  <2>3. th' \in [Threads -> Frame] /\ Others(t) /\ th'[t] = r
      BY <1>1, <2>1, <2>2 DEF TypeOK, Others
  <2>4. Owners'
    <3>1. th[t].pc = "idle" => th[t].op = "none"
        BY <1>1 DEF EntryInv, Knows
    <3>2. /\ Changing(t)' <=> Changing(t)
          /\ Calling(t)' <=> Calling(t)
        BY <1>2, <2>2, <2>3, <3>1 DEF Changing, Calling, FaultCodes, GateCodes
    <3> QED BY <1>1, <1>2, <2>2, <2>3, <3>2, OwnersStay
  <2>5. Knows(t)'
      BY <1>1, <1>2, <2>2, <2>3 DEF EntryInv, Knows, TypeOK, cacheVars, guestVars
  <2>6. ~Loaded(t)' /\ ~Halfway(t)' /\ UNCHANGED <<map, pte>> /\ th'[t].page \in Pages
      BY <1>1, <1>2, <2>2, <2>3 DEF Loaded, Halfway, guestVars, TypeOK
  <2>7. FileInv' /\ EntryInv'
      BY <1>2, <2>3, <2>5, <2>6, CallFrame
  <2> QED BY <1>1, <1>2, <2>3, <2>4, <2>7 DEF IInv, TypeOK, fileVars, cacheVars, locks, guestVars, counts
<1> QED BY <1>3, <1>4

\* getOrCreatePage looks for the page, marks it, or notes the generation.
LEMMA CheckKeeps ==
    ASSUME Configuration, IInv, NEW t \in Threads, Check(t)
    PROVE  IInv'
<1> USE DEF Goto
<1>1. TypeOK /\ FileInv /\ EntryInv
    BY DEF IInv
<1>2. /\ th' \in [Threads -> Frame] /\ Others(t)
      /\ th[t].pc = "check" /\ th'[t].op = th[t].op /\ th'[t].file = th[t].file
      /\ th'[t].page = th[t].page /\ th'[t].key = th[t].key /\ th'[t].shared = th[t].shared
      /\ \/ th'[t].pc = "map" /\ th'[t].gen = th[t].gen
         \/ th'[t].pc = "load" /\ th'[t].gen = generation
    BY <1>1 DEF TypeOK, Frame, Codes, FaultCodes, Check, Others
<1>3. UNCHANGED <<fileVars, data, length, generation, torn, locks, guestVars, counts>>
    BY DEF Check
<1>4. /\ th[t].page \in Pages /\ th[t].shared \in BOOLEAN
    BY <1>1, FrameTypes
<1>5. /\ dirty' \in [Pages -> BOOLEAN]
      /\ \A k \in Pages : dirty[k] => dirty'[k]
      /\ th'[t].pc = "map" => Resident(th[t].page) /\ (th[t].shared => dirty'[th[t].page])
  <2>1. CASE data[th[t].page] # None
    <3>1. Use(th[t].page, th[t].shared)
        BY <2>1 DEF Check
    <3> QED BY <1>1, <1>4, <2>1, <3>1, UseMarks DEF TypeOK, Resident
  <2>2. CASE data[th[t].page] = None
      BY <1>1, <1>4, <2>2 DEF TypeOK, Frame, Check
  <2> QED BY <2>1, <2>2
<1>6. TypeOK'
  <2>1. Owners'
      BY <1>1, <1>2, <1>3, OwnersStay DEF Changing, Calling, FaultCodes, GateCodes
  <2> QED BY <1>1, <1>2, <1>3, <1>5, <2>1 DEF TypeOK, fileVars, locks, guestVars, counts
<1>7. Knows(t)'
    BY <1>1, <1>2, <1>3, <1>5 DEF EntryInv, Knows, TypeOK, Resident, guestVars
<1>8. EntryInv'
    BY <1>1, <1>2, <1>3, <1>5, <1>7, EntryFrame DEF Grows, Resident, TypeOK, guestVars
<1>9. FileInv'
    BY <1>2, <1>3, <1>4, <1>5, TouchFrame DEF Touches, Halfway, Resident, Loaded, fileVars
<1> QED BY <1>6, <1>8, <1>9 DEF IInv

\* The page is read from the file, whatever is done to the file meanwhile.
LEMMA LoadKeeps ==
    ASSUME Configuration, IInv, NEW t \in Threads, Load(t)
    PROVE  IInv'
<1> USE DEF fileVars, cacheVars
<1>1. TypeOK /\ FileInv /\ EntryInv
    BY DEF IInv
<1>a. th[t].page \in Pages /\ file[th[t].page] \in Values
    BY <1>1, FrameTypes DEF TypeOK
<1>b. /\ [th[t] EXCEPT !.pc = "install", !.value = file[th[t].page]] \in Frame
      /\ th' = [th EXCEPT ![t] = [@ EXCEPT !.pc = "install", !.value = file[th[t].page]]]
  <2> DEFINE v == file[th[t].page]
  <2>1. v \in Values /\ th[t] \in Frame
      BY <1>1, <1>a DEF TypeOK
  <2> HIDE DEF v
  <2>2. [th[t] EXCEPT !.pc = "install", !.value = v] \in Frame
      BY <2>1 DEF Frame, Codes, FaultCodes
  <2> QED BY <2>2 DEF v, Load
<1>2. /\ th' \in [Threads -> Frame] /\ Others(t)
      /\ th[t].pc = "load" /\ th'[t].pc = "install"
      /\ th'[t].op = th[t].op /\ th'[t].file = th[t].file
      /\ th'[t].page = th[t].page /\ th'[t].key = th[t].key /\ th'[t].shared = th[t].shared
      /\ th'[t].gen = th[t].gen /\ th'[t].value = file[th[t].page]
    BY <1>1, <1>b DEF TypeOK, Frame, Load, Others
<1>3. UNCHANGED <<file, fileLength, data, dirty, length, generation, torn, locks, guestVars, counts>>
    BY DEF Load
<1>5. TypeOK'
  <2>1. Owners'
      BY <1>1, <1>2, <1>3, OwnersStay DEF Changing, Calling, FaultCodes, GateCodes
  <2> QED BY <1>1, <1>2, <1>3, <2>1 DEF TypeOK, locks, guestVars, counts
<1>6. Knows(t)'
    BY <1>1, <1>2, <1>3, <1>a DEF EntryInv, Knows, guestVars
<1>7. EntryInv'
    BY <1>1, <1>2, <1>3, <1>6, EntryFrame DEF Grows, Resident, TypeOK, guestVars
<1>8. FileInv'
    BY <1>2, <1>3, <1>a, TouchFrame DEF Touches, Halfway, Resident
<1> QED BY <1>5, <1>7, <1>8 DEF IInv

\* Only a value of this generation is installed.
LEMMA InstallKeeps ==
    ASSUME Configuration, IInv, NEW t \in Threads, Install(t)
    PROVE  IInv'
<1> USE DEF Goto, fileVars
<1>1. TypeOK /\ FileInv /\ EntryInv
    BY DEF IInv
<1>2. /\ th' \in [Threads -> Frame] /\ Others(t)
      /\ th[t].pc = "install" /\ th'[t].pc \in {"map", "check"}
      /\ th'[t].op = th[t].op /\ th'[t].file = th[t].file
      /\ th'[t].page = th[t].page /\ th'[t].key = th[t].key /\ th'[t].shared = th[t].shared
      /\ th'[t].gen = th[t].gen
    BY <1>1 DEF TypeOK, Frame, Codes, FaultCodes, Install, Others
<1>3. UNCHANGED <<file, fileLength, length, generation, torn, locks, guestVars, counts>>
    BY DEF Install
<1>4. /\ th[t].page \in Pages /\ th[t].shared \in BOOLEAN /\ th[t].value \in Values
      /\ None \notin Values
    BY <1>1, <1>2, FrameTypes DEF EntryInv, Knows, Configuration
<1>5. /\ data' \in [Pages -> Values \cup {None}]
      /\ dirty' \in [Pages -> BOOLEAN]
      /\ \A k \in Pages : dirty[k] => dirty'[k]
      /\ \A k \in Pages : Resident(k) => data'[k] = data[k]
      /\ Touches(t)
      /\ th'[t].pc = "map" => Resident(th[t].page)' /\ (th[t].shared => dirty'[th[t].page])
  <2>1. CASE data[th[t].page] # None
    <3>1. data' = data /\ Use(th[t].page, th[t].shared)
        BY <2>1 DEF Install
    <3>2. /\ dirty' \in [Pages -> BOOLEAN]
          /\ \A k \in Pages : dirty[k] => dirty'[k]
          /\ th[t].shared => dirty'[th[t].page]
        BY <1>1, <1>4, <3>1, UseMarks DEF TypeOK
    <3>3. Touches(t) /\ \A k \in Pages : Resident(k) => data'[k] = data[k]
        BY <3>1 DEF Touches
    <3>4. data' \in [Pages -> Values \cup {None}] /\ Resident(th[t].page)'
        BY <1>1, <1>2, <2>1, <3>1 DEF TypeOK, Resident
    <3> QED BY <3>2, <3>3, <3>4
  <2>2. CASE data[th[t].page] = None /\ th[t].gen = generation
      BY <1>1, <1>2, <1>4, <2>2 DEF TypeOK, Install, Use, Resident, Touches, Loaded
  <2>3. CASE data[th[t].page] = None /\ th[t].gen # generation
      BY <1>1, <1>4, <2>3 DEF TypeOK, Frame, Install, Resident, Touches
  <2> QED BY <2>1, <2>2, <2>3
<1>6. TypeOK'
  <2>1. Owners'
      BY <1>1, <1>2, <1>3, OwnersStay DEF Changing, Calling, FaultCodes, GateCodes
  <2> QED BY <1>1, <1>2, <1>3, <1>5, <2>1 DEF TypeOK, locks, guestVars, counts
<1>7. Knows(t)'
    BY <1>1, <1>2, <1>3, <1>5 DEF EntryInv, Knows, TypeOK, Resident, guestVars
<1>8. EntryInv'
    BY <1>1, <1>2, <1>3, <1>5, <1>7, EntryFrame DEF Grows, Resident, TypeOK, guestVars
<1>9. FileInv'
    BY <1>2, <1>3, <1>4, <1>5, TouchFrame DEF Halfway, Resident, Loaded
<1> QED BY <1>6, <1>8, <1>9 DEF IInv

\* Only the page of the mapping that is still there is entered.
LEMMA SetPageKeeps ==
    ASSUME Configuration, IInv, NEW t \in Threads, SetPage(t)
    PROVE  IInv'
<1> USE DEF Goto, fileVars, cacheVars
<1>1. TypeOK /\ FileInv /\ EntryInv
    BY DEF IInv
<1>3. /\ UNCHANGED <<file, fileLength, data, dirty, length, generation, torn, locks, map, buffer, counts>>
      /\ th[t].pc = "map"
    BY DEF SetPage
<1>2. /\ th' \in [Threads -> Frame] /\ Others(t) /\ Owners'
      /\ th'[t].pc \in {"idle", "buffer", "fault"} /\ th'[t].page \in Pages
      /\ th'[t].gen <= generation
      /\ th'[t].pc = "idle" => th'[t].op = "none"
  <2>1. CASE Return(t)
    <3>1. /\ th' \in [Threads -> Frame] /\ Others(t) /\ Owners'
          /\ th'[t].pc \in {"idle", "buffer"} /\ th'[t].page \in Pages /\ th'[t].gen = 0
          /\ th'[t].pc = "idle" => th'[t].op = "none"
        BY <1>1, <1>3, <2>1, Returned DEF FaultCodes
    <3> QED BY <1>1, <3>1 DEF TypeOK
  <2>2. CASE Goto(t, "fault")
    <3>1. /\ th' \in [Threads -> Frame] /\ Others(t) /\ th'[t].pc = "fault"
          /\ th'[t].op = th[t].op /\ th'[t].file = th[t].file /\ th'[t].gen = th[t].gen
          /\ th'[t].page \in Pages
      <4>1. th[t] \in Frame /\ th[t].page \in Pages
          BY <1>1, FrameTypes
      <4>2. th' = [th EXCEPT ![t] = [@ EXCEPT !.pc = "fault"]]
          BY <2>2
      <4>3. [th[t] EXCEPT !.pc = "fault"] \in Frame
          BY <4>1 DEF Frame, Codes, FaultCodes
      <4> QED BY <1>1, <4>1, <4>2, <4>3 DEF TypeOK, Others, Frame
    <3>2. Owners'
        BY <1>1, <1>3, <3>1, OwnersStay DEF Changing, Calling, FaultCodes, GateCodes
    <3> QED BY <1>1, <3>1, <3>2 DEF EntryInv, Knows
  <2> QED BY <2>1, <2>2 DEF SetPage
<1>4. th[t].page \in Pages
    BY <1>1, FrameTypes
<1>5. pte' = pte \/ (th[t].key = map.key /\ pte' = th[t].page)
  <2>1. CASE pte # None
      BY <2>1 DEF SetPage
  <2>2. CASE pte = None /\ map.key # th[t].key
      BY <2>2 DEF SetPage
  <2>3. CASE pte = None /\ map.key = th[t].key
      BY <2>3 DEF SetPage
  <2> QED BY <2>1, <2>2, <2>3
<1>6. TypeOK'
    BY <1>1, <1>2, <1>3, <1>4, <1>5 DEF TypeOK, locks, counts
<1>7. Knows(t)'
    BY <1>2, <1>3 DEF Knows
<1>8. \A u \in Threads : Knows(u)'
    BY <1>1, <1>2, <1>3, <1>7 DEF EntryInv, Knows, Others, Resident
<1>9. EntryIsMapped' /\ SharedIsDirty'
    BY <1>1, <1>2, <1>3, <1>5 DEF EntryInv, EntryIsMapped, SharedIsDirty, Knows, Resident
<1>10. FileInv'
    BY <1>2, <1>3, TouchFrame DEF Touches, Halfway, Resident, Loaded
<1> QED BY <1>6, <1>8, <1>9, <1>10 DEF IInv, EntryInv

----------------------------------------------------------------------------
(* The guest's own steps.                                                   *)

\* A store changes a page that is marked.
LEMMA StoreKeeps ==
    ASSUME Configuration, IInv, NEW t \in Threads, Store(t)
    PROVE  IInv'
<1> USE DEF fileVars
<1>1. TypeOK /\ FileInv /\ EntryInv
    BY DEF IInv
<1>2. /\ UNCHANGED <<file, fileLength, dirty, length, generation, torn, locks, guestVars>>
      /\ changes' = changes /\ th' = th
    BY DEF Store
<1>3. /\ pte \in Pages /\ dirty[pte] /\ Resident(pte) /\ version + 1 \in Values
      /\ version' = version + 1 /\ data' = [data EXCEPT ![pte] = version + 1]
      /\ None \notin Values
    BY <1>1 DEF Store, TypeOK, EntryInv, SharedIsDirty, EntryIsMapped, Resident, Values, Configuration
<1>4. /\ data' \in [Pages -> Values \cup {None}]
      /\ \A k \in Pages : k # pte => data'[k] = data[k]
      /\ Resident(pte)'
    BY <1>1, <1>2, <1>3 DEF TypeOK, Resident, guestVars
<1>5. TypeOK'
  <2>1. Owners'
      BY <1>1, <1>2 DEF TypeOK, Owners, Changing, Calling, locks
  <2> QED BY <1>1, <1>2, <1>3, <1>4, <2>1 DEF TypeOK, locks, guestVars
<1>6. Grows /\ Others(t) /\ Touches(t)
    BY <1>1, <1>2, <1>3, <1>4 DEF Grows, Others, Touches, Resident, TypeOK
<1>7. Knows(t)'
  <2>1. Knows(t) /\ th[t].page \in Pages
      BY <1>1, FrameTypes DEF EntryInv
  <2> QED BY <1>2, <1>6, <2>1 DEF Knows, Grows, guestVars
<1>8. EntryInv'
    BY <1>2, <1>6, <1>7, EntryFrame DEF guestVars
<1>9. Loaded(t)' => Loaded(t)
    BY <1>1, <1>2, <1>4, <1>6, FrameTypes DEF Loaded, Grows
<1>10. th'[t] = th[t] /\ th'[t].page \in Pages
    BY <1>1, <1>2, FrameTypes
<1>11. FileInv'
    BY <1>2, <1>6, <1>9, <1>10, TouchFrame DEF Grows
<1> QED BY <1>5, <1>8, <1>11 DEF IInv

\* A store to other memory concerns no page of the file.
LEMMA FillKeeps ==
    ASSUME Configuration, IInv, NEW t \in Threads, Fill(t)
    PROVE  IInv'
<1> USE DEF fileVars, cacheVars
<1>1. TypeOK /\ FileInv /\ EntryInv
    BY DEF IInv
<1>2. /\ version' \in Values /\ buffer' \in Values
      /\ UNCHANGED <<fileVars, cacheVars, locks, map, pte, changes, th>>
    BY <1>1 DEF Fill, TypeOK, Values, Configuration
<1>3. TypeOK'
    BY <1>1, <1>2 DEF TypeOK, Owners, Changing, Calling, locks
<1>4. FileInv'
    BY <1>1, <1>2 DEF FileInv, EmptyBeyond, Settled, Quiet, Resident, Clean, Loaded,
       WriteHalfDone, HalfWritten, ResizeHalfDone, HalfResized, LoadedInv, FlushInv
<1>5. EntryInv'
    BY <1>1, <1>2 DEF EntryInv, Knows, EntryIsMapped, SharedIsDirty, Resident
<1> QED BY <1>3, <1>4, <1>5 DEF IInv

----------------------------------------------------------------------------
(* write(2), ftruncate(2), msync(2) and mmap(2).                            *)

\* A call takes the filePosMutex of its descriptor.
LEMMA FileCallKeeps ==
    ASSUME Configuration, IInv, NEW t \in Threads, FileCall(t)
    PROVE  IInv'
<1>1. TypeOK /\ FileInv /\ EntryInv
    BY DEF IInv
<1>2. PICK op \in FileOps, f \in Files :
        /\ pos[f] = None /\ pos' = [pos EXCEPT ![f] = t]
        /\ th' = [th EXCEPT ![t].pc = "gate", ![t].op = op, ![t].file = f]
    BY DEF FileCall
<1>3. /\ th[t].pc = "idle" /\ changes' \in 0 .. MaxChanges
      /\ UNCHANGED <<fileVars, cacheVars, gate, guestVars, version>>
    BY <1>1 DEF FileCall, TypeOK, Configuration
<1> DEFINE r == [th[t] EXCEPT !.pc = "gate", !.op = op, !.file = f]
<1>4. th' = [th EXCEPT ![t] = r]
    BY <1>2
<1>5. /\ r \in Frame /\ r.pc = "gate" /\ r.op = op /\ r.file = f
      /\ r.page = th[t].page /\ r.gen = th[t].gen
  <2>1. th[t] \in Frame
      BY <1>1, FrameTypes
  <2> QED BY <2>1 DEF Frame, Codes
<1> HIDE DEF r
<1>6. th' \in [Threads -> Frame] /\ Others(t) /\ th'[t] = r
    BY <1>1, <1>4, <1>5 DEF TypeOK, Others
<1>7. ~Changing(t) /\ ~Calling(t) /\ ~Changing(t)' /\ Calling(t)'
    BY <1>3, <1>5, <1>6 DEF Changing, Calling, FaultCodes, GateCodes
<1>8. Owners'
  <2>1. \A u \in Threads : u # t => (Calling(u)' <=> Calling(u)) /\ (Changing(u)' <=> Changing(u))
      BY <1>6 DEF Others, Calling, Changing
  <2>2. \A u \in Threads : Changing(u)' <=> gate' = u
      BY <1>1, <1>3, <1>7, <2>1 DEF TypeOK, Owners
  <2>3. \A u \in Threads, g \in Files : pos'[g] = u <=> Calling(u)' /\ th'[u].file = g
    <3> SUFFICES ASSUME NEW u \in Threads, NEW g \in Files
                 PROVE  pos'[g] = u <=> Calling(u)' /\ th'[u].file = g
        OBVIOUS
    <3>1. CASE u = t
        BY <1>1, <1>2, <1>5, <1>6, <1>7, <3>1 DEF TypeOK, Owners
    <3>2. CASE u # t
      <4>1. th'[u] = th[u]
          BY <1>6, <3>2 DEF Others
      <4> QED BY <1>1, <1>2, <2>1, <3>2, <4>1 DEF TypeOK, Owners, Configuration
    <3> QED BY <3>1, <3>2
  <2> QED BY <2>2, <2>3 DEF Owners
<1>9. pos' \in [Files -> Threads \cup {None}]
    BY <1>1, <1>2 DEF TypeOK
<1>10. TypeOK'
    BY <1>1, <1>3, <1>6, <1>8, <1>9 DEF TypeOK, fileVars, cacheVars, guestVars
<1>11. Knows(t)' /\ ~Loaded(t)' /\ ~Halfway(t)' /\ th'[t].page \in Pages
    BY <1>1, <1>3, <1>5, <1>6, FrameTypes DEF EntryInv, Knows, Loaded, Halfway, cacheVars
<1>12. FileInv' /\ EntryInv'
    BY <1>3, <1>6, <1>11, CallFrame DEF guestVars
<1> QED BY <1>10, <1>12 DEF IInv

\* A write takes the gate before it touches its buffer.
LEMMA BeginWriteKeeps ==
    ASSUME Configuration, IInv, NEW t \in Threads, BeginWrite(t)
    PROVE  IInv'
<1>1. TypeOK /\ FileInv /\ EntryInv
    BY DEF IInv
<1>2. /\ th[t].pc = "gate" /\ gate = None /\ gate' = t
      /\ th' = [th EXCEPT ![t] = [@ EXCEPT !.pc = "buffer"]]
      /\ UNCHANGED <<fileVars, cacheVars, pos, guestVars, counts>>
    BY DEF BeginWrite, AtGate, Goto
<1>3. /\ th' \in [Threads -> Frame] /\ Others(t) /\ th'[t].pc = "buffer"
      /\ th'[t].file = th[t].file /\ th'[t].page = th[t].page /\ th'[t].gen = th[t].gen
  <2>1. th[t] \in Frame
      BY <1>1, FrameTypes
  <2>2. [th[t] EXCEPT !.pc = "buffer"] \in Frame
      BY <2>1 DEF Frame, Codes, GateCodes
  <2> QED BY <1>1, <1>2, <2>1, <2>2 DEF TypeOK, Others, Frame
<1>4. Owners'
    BY <1>1, <1>2, <1>3, OwnersTake DEF Changing, GateCodes
<1>5. TypeOK'
    BY <1>1, <1>2, <1>3, <1>4 DEF TypeOK, fileVars, cacheVars, guestVars, counts
<1>6. Knows(t)' /\ ~Loaded(t)' /\ ~Halfway(t)' /\ th'[t].page \in Pages
    BY <1>1, <1>2, <1>3, FrameTypes DEF EntryInv, Knows, Loaded, Halfway, cacheVars
<1>7. FileInv' /\ EntryInv'
    BY <1>2, <1>3, <1>6, CallFrame DEF guestVars
<1> QED BY <1>5, <1>7 DEF IInv

\* A write that needs the page of its buffer keeps both locks.
LEMMA BufferFaultKeeps ==
    ASSUME Configuration, IInv, NEW t \in Threads, BufferFault(t)
    PROVE  IInv'
<1>1. TypeOK /\ FileInv /\ EntryInv
    BY DEF IInv
<1>2. /\ th[t].pc = "buffer" /\ th[t].op = "writeMapped"
      /\ th' = [th EXCEPT ![t] = [@ EXCEPT !.pc = "fault"]]
      /\ UNCHANGED <<fileVars, cacheVars, locks, guestVars, counts>>
    BY DEF BufferFault, Goto
<1>3. /\ th' \in [Threads -> Frame] /\ Others(t) /\ th'[t].pc = "fault"
      /\ th'[t].op = th[t].op
      /\ th'[t].file = th[t].file /\ th'[t].page = th[t].page /\ th'[t].gen = th[t].gen
  <2>1. th[t] \in Frame
      BY <1>1, FrameTypes
  <2>2. [th[t] EXCEPT !.pc = "fault"] \in Frame
      BY <2>1 DEF Frame, Codes, FaultCodes
  <2> QED BY <1>1, <1>2, <2>1, <2>2 DEF TypeOK, Others, Frame
<1>4. Changing(t) /\ Changing(t)' /\ Calling(t) /\ Calling(t)'
    BY <1>2, <1>3 DEF Changing, Calling, FaultCodes, GateCodes
<1>5. Owners'
    BY <1>1, <1>2, <1>3, <1>4, OwnersStay
<1>6. TypeOK'
    BY <1>1, <1>2, <1>3, <1>5 DEF TypeOK, fileVars, cacheVars, locks, guestVars, counts
<1>7. Knows(t)' /\ ~Loaded(t)' /\ ~Halfway(t)' /\ th'[t].page \in Pages
    BY <1>1, <1>2, <1>3, FrameTypes DEF EntryInv, Knows, Loaded, Halfway, cacheVars
<1>8. FileInv' /\ EntryInv'
    BY <1>2, <1>3, <1>7, CallFrame DEF guestVars
<1> QED BY <1>6, <1>8 DEF IInv

\* A call that ends with the file and the cache as they are.
LEMMA LeaveKeeps ==
    ASSUME Configuration, IInv, NEW t \in Threads, th[t].pc \in {"buffer", "flush"}, Leave(t),
           UNCHANGED <<fileVars, cacheVars, guestVars, counts>>
    PROVE  IInv'
<1>1. TypeOK /\ FileInv /\ EntryInv
    BY DEF IInv
<1>2. /\ th' \in [Threads -> Frame] /\ Others(t) /\ th'[t] = Idle
      /\ gate = t /\ gate' = None /\ Owners'
      /\ pos' \in [Files -> Threads \cup {None}]
      /\ Idle.pc = "idle" /\ Idle.op = "none" /\ Idle.gen = 0 /\ Idle.page \in Pages
    BY <1>1, Left DEF Changing, GateCodes
<1>3. TypeOK'
    BY <1>1, <1>2 DEF TypeOK, fileVars, cacheVars, guestVars, counts
<1>4. Knows(t)' /\ ~Loaded(t)' /\ ~Halfway(t)' /\ th'[t].page \in Pages
    BY <1>1, <1>2 DEF Knows, Loaded, Halfway, TypeOK, cacheVars
<1>5. FileInv' /\ EntryInv'
    BY <1>2, <1>4, CallFrame DEF guestVars
<1> QED BY <1>3, <1>5 DEF IInv

\* write(2), first half: the file changes and the cache does not yet.
LEMMA WriteFileKeeps ==
    ASSUME Configuration, IInv, NEW t \in Threads, WriteFile(t)
    PROVE  IInv'
<1> USE DEF cacheVars
<1> DEFINE own == th[t].op = "write"
           value == IF own THEN buffer ELSE data[pte]
           from == IF own THEN None ELSE pte
<1>1. TypeOK /\ FileInv /\ EntryInv
    BY DEF IInv
<1>2. /\ th[t].pc = "buffer" /\ (own \/ pte # None)
      /\ UNCHANGED <<cacheVars, guestVars, counts>>
    BY DEF WriteFile
<1>3. CASE Leave(t) /\ UNCHANGED fileVars
    BY <1>2, <1>3, LeaveKeeps
<1>4. ASSUME NEW k \in Pages,
             file' = [file EXCEPT ![k] = value],
             fileLength' = Larger(fileLength, k),
             th' = [th EXCEPT ![t].pc = "written", ![t].page = k, ![t].value = value,
                              ![t].from = from],
             UNCHANGED locks
      PROVE  IInv'
  <2>1. value \in Values /\ from \in Pages \cup {None} /\ (from # None => Resident(from))
    <3>1. CASE own
        BY <1>1, <3>1 DEF TypeOK
    <3>2. CASE ~own
        BY <1>1, <1>2, <3>2 DEF TypeOK, EntryInv, EntryIsMapped, Resident
    <3> QED BY <3>1, <3>2
  <2> HIDE DEF value, from
  <2> DEFINE r == [th[t] EXCEPT !.pc = "written", !.page = k, !.value = value, !.from = from]
  <2>2. th' = [th EXCEPT ![t] = r]
      BY <1>4
  <2>3. /\ r \in Frame /\ r.pc = "written" /\ r.page = k /\ r.value = value /\ r.from = from
        /\ r.gen = th[t].gen /\ r.file = th[t].file
    <3>1. th[t] \in Frame
        BY <1>1, FrameTypes
    <3> QED BY <2>1, <3>1 DEF Frame, Codes, GateCodes
  <2> HIDE DEF r
  <2>4. th' \in [Threads -> Frame] /\ Others(t) /\ th'[t] = r
      BY <1>1, <2>2, <2>3 DEF TypeOK, Others
  <2>5. Changing(t) /\ Changing(t)' /\ Calling(t) /\ Calling(t)' /\ gate = t
      BY <1>1, <1>2, <2>3, <2>4 DEF Changing, Calling, GateCodes, TypeOK, Owners
  <2>6. \A u \in Threads : u # t => ~Changing(u) /\ ~Changing(u)' /\ th'[u].pc \notin GateCodes
      BY <1>1, <2>4, <2>5, Alone
  <2>7. /\ file' \in [Pages -> Values] /\ fileLength' \in 0 .. NumPages
        /\ \A j \in Pages : j # k => file'[j] = file[j]
        /\ file'[k] = value /\ fileLength' >= k /\ fileLength' >= fileLength
      BY <1>1, <1>4, <2>1 DEF TypeOK, Larger, Pages, Configuration
  <2>8. Owners'
      BY <1>1, <1>4, <2>3, <2>4, <2>5, OwnersStay
  <2>9. TypeOK'
      BY <1>1, <1>2, <1>4, <2>4, <2>7, <2>8 DEF TypeOK, locks, guestVars, counts
  <2>10. EntryInv'
    <3>1. Knows(t)'
        BY <1>1, <1>2, <2>3, <2>4 DEF EntryInv, Knows
    <3> QED BY <1>1, <1>2, <2>4, <3>1, EntryFrame DEF Grows, Resident, TypeOK, guestVars
  <2>11. Quiet
      BY <1>2, <2>6 DEF Quiet, Changing, GateCodes
  <2>12. /\ length = fileLength /\ EmptyBeyond
         /\ \A j \in Pages : Clean(j) => data[j] = file[j]
         /\ \A u \in Threads : Loaded(u) => th[u].value = file[th[u].page]
      BY <1>1, <2>11 DEF FileInv, Settled
  <2>13. EmptyBeyond'
      BY <1>1, <2>7, <2>12 DEF EmptyBeyond, TypeOK, Pages, Configuration
  <2>14. ~Quiet'
      BY <2>3, <2>4 DEF Quiet
  <2>15. WriteHalfDone'
    <3> SUFFICES ASSUME NEW w \in Threads, th'[w].pc = "written"
                 PROVE  HalfWritten(w)'
        BY DEF WriteHalfDone
    <3>1. w = t
        BY <2>6 DEF GateCodes
    <3>2. \A j \in Pages \ {k} : Clean(j)' => data'[j] = file'[j]
        BY <1>2, <2>7, <2>12 DEF Clean, Resident
    <3>3. \A j \in Pages : length' < j /\ j < k => file'[j] = 0
        BY <1>2, <2>7, <2>12 DEF EmptyBeyond, Pages
    <3>4. th'[t].from # None => data'[th'[t].from] # None
        BY <1>2, <2>1, <2>3, <2>4 DEF Resident
    <3> QED BY <1>2, <1>4, <2>3, <2>4, <2>7, <2>12, <3>1, <3>2, <3>3, <3>4 DEF HalfWritten, Resident
  <2>16. ResizeHalfDone' /\ FlushInv'
      BY <2>3, <2>4, <2>6 DEF ResizeHalfDone, FlushInv, GateCodes
  <2>17. LoadedInv'
    <3> SUFFICES ASSUME NEW u \in Threads, NEW w \in Threads, Loaded(u)'
                 PROVE  /\ th'[w].pc = "written" /\ th'[u].page # th'[w].page =>
                              th'[u].value = file'[th'[u].page]
                        /\ th'[w].pc # "resized"
        BY DEF LoadedInv
    <3>1. u # t /\ Loaded(u) /\ th'[u] = th[u] /\ th[u].page \in Pages
        BY <1>1, <1>2, <2>3, <2>4, FrameTypes DEF Loaded, Others, Resident
    <3> QED BY <2>3, <2>4, <2>6, <2>7, <2>12, <3>1 DEF GateCodes
  <2>18. FileInv'
      BY <2>13, <2>14, <2>15, <2>16, <2>17 DEF FileInv, Settled
  <2> QED BY <2>9, <2>10, <2>18 DEF IInv
<1> QED BY <1>3, <1>4 DEF WriteFile

\* Second half: the resident page gets what the buffer has now, and a new generation
\* begins.
LEMMA UpdateWriteKeeps ==
    ASSUME Configuration, IInv, NEW t \in Threads, UpdateWrite(t)
    PROVE  IInv'
<1> DEFINE k == th[t].page
           from == th[t].from
           again == IF from = None THEN buffer ELSE BeforeWrite(from, k)
<1>1. TypeOK /\ FileInv /\ EntryInv
    BY DEF IInv
<1>2. /\ th[t].pc = "written" /\ k \in Pages /\ from \in Pages \cup {None}
      /\ file[k] = th[t].value
      /\ fileLength = Larger(length, k)
      /\ \A j \in Pages \ {k} : Clean(j) => data[j] = file[j]
      /\ \A j \in Pages : length < j /\ j < k => file[j] = 0
      /\ from # None => Resident(from)
      /\ EmptyBeyond
    BY <1>1, FrameTypes DEF UpdateWrite, FileInv, WriteHalfDone, HalfWritten
<1>3. /\ data' = [j \in Pages |-> IF j = k /\ data[k] # None THEN again ELSE BeforeWrite(j, k)]
      /\ torn' = IF data[k] # None /\ again # th[t].value THEN torn \cup {k} ELSE torn \ {k}
      /\ length' = Larger(length, k)
      /\ generation' = generation + 1 /\ Leave(t)
      /\ UNCHANGED <<fileVars, dirty, guestVars, counts>>
    BY DEF UpdateWrite
<1>4. /\ th' \in [Threads -> Frame] /\ Others(t) /\ th'[t] = Idle
      /\ gate = t /\ gate' = None /\ Owners'
      /\ pos' \in [Files -> Threads \cup {None}]
      /\ Idle.pc = "idle" /\ Idle.op = "none" /\ Idle.gen = 0 /\ Idle.page \in Pages
    BY <1>1, <1>2, <1>3, Left DEF Changing, GateCodes
<1>5. \A u \in Threads : th'[u].pc \notin GateCodes
    BY <1>1, <1>4, Alone DEF GateCodes
<1>a. \A j \in Pages : /\ BeforeWrite(j, k) \in Values \cup {None}
                       /\ BeforeWrite(j, k) = None <=> data[j] = None
    BY <1>1 DEF BeforeWrite, TypeOK, Values, Configuration
<1>b. again \in Values
  <2>1. CASE from = None
      BY <1>1, <2>1 DEF TypeOK
  <2>2. CASE from # None
      BY <1>2, <1>a, <2>2 DEF Resident
  <2> QED BY <2>1, <2>2
<1> HIDE DEF again
<1>6. /\ data' \in [Pages -> Values \cup {None}]
      /\ \A j \in Pages : Resident(j)' <=> Resident(j)
    BY <1>2, <1>3, <1>a, <1>b DEF Resident, Configuration
<1>c. length' = fileLength /\ length' \in 0 .. NumPages /\ generation' \in Nat /\ torn' \subseteq Pages
    BY <1>1, <1>2, <1>3 DEF TypeOK
<1>7. TypeOK'
    BY <1>1, <1>3, <1>4, <1>6, <1>c DEF TypeOK, fileVars, guestVars, counts
<1>8. EntryInv'
  <2>1. Grows
      BY <1>1, <1>3, <1>6 DEF Grows, TypeOK
  <2>2. Knows(t)'
      BY <1>1, <1>3, <1>4 DEF Knows, TypeOK
  <2> QED BY <1>3, <1>4, <2>1, <2>2, EntryFrame DEF guestVars
<1>9. EmptyBeyond'
    BY <1>2, <1>3 DEF EmptyBeyond, fileVars
<1>10. \A j \in Pages : Clean(j)' => data'[j] = file'[j]
  <2> SUFFICES ASSUME NEW j \in Pages, Clean(j)'
               PROVE  data'[j] = file[j]
      BY <1>3 DEF fileVars
  <2>0. Resident(j) /\ ~dirty[j] /\ j \notin torn'
      BY <1>3, <1>6 DEF Clean
  <2>1. CASE j = k
      BY <1>2, <1>3, <2>0, <2>1 DEF Resident
  <2>2. CASE j # k
    <3>1. Clean(j)
        BY <1>3, <2>0, <2>2 DEF Clean
    <3> QED BY <1>2, <1>3, <2>2, <3>1 DEF BeforeWrite
  <2> QED BY <2>1, <2>2
<1>11. \A u \in Threads : ~Loaded(u)'
  <2> SUFFICES ASSUME NEW u \in Threads, Loaded(u)' PROVE FALSE
      OBVIOUS
  <2>1. u # t
      BY <1>4 DEF Loaded
  <2>2. th'[u] = th[u] /\ th[u].gen \in Nat /\ th[u].gen <= generation /\ generation \in Nat
      BY <1>1, <1>4, <2>1, FrameTypes DEF Others, EntryInv, Knows, TypeOK
  <2> QED BY <1>3, <2>2 DEF Loaded
<1>12. Settled'
    BY <1>3, <1>c, <1>10, <1>11 DEF Settled, fileVars
<1>13. WriteHalfDone' /\ ResizeHalfDone' /\ FlushInv' /\ LoadedInv'
    BY <1>5 DEF WriteHalfDone, ResizeHalfDone, FlushInv, LoadedInv, GateCodes
<1>14. FileInv'
    BY <1>9, <1>12, <1>13 DEF FileInv
<1> QED BY <1>7, <1>8, <1>14 DEF IInv

\* ftruncate, first half: the file's length changes.
LEMMA TruncateKeeps ==
    ASSUME Configuration, IInv, NEW t \in Threads, Truncate(t)
    PROVE  IInv'
<1> USE DEF cacheVars
<1>1. TypeOK /\ FileInv /\ EntryInv
    BY DEF IInv
<1>2. th[t].pc = "gate" /\ gate = None /\ gate' = t
    BY DEF Truncate, AtGate
<1>3. PICK n \in 0 .. NumPages :
        /\ file' = [k \in Pages |-> IF k <= n /\ k <= fileLength THEN file[k] ELSE 0]
        /\ fileLength' = n
        /\ th' = [th EXCEPT ![t].pc = "resized", ![t].value = n]
    BY DEF Truncate
<1>4. UNCHANGED <<cacheVars, pos, guestVars, counts>>
    BY DEF Truncate
<1>5. /\ th' \in [Threads -> Frame] /\ Others(t) /\ th'[t].file = th[t].file
      /\ th'[t].pc = "resized" /\ th'[t].value = n /\ th'[t].gen = th[t].gen
  <2> DEFINE r == [th[t] EXCEPT !.pc = "resized", !.value = n]
  <2>1. th[t] \in Frame /\ th' = [th EXCEPT ![t] = r]
      BY <1>1, <1>3 DEF TypeOK
  <2>2. /\ r \in Frame /\ r.pc = "resized" /\ r.value = n /\ r.gen = th[t].gen
        /\ r.file = th[t].file
      BY <2>1 DEF Frame, Codes, GateCodes
  <2> HIDE DEF r
  <2> QED BY <1>1, <2>1, <2>2 DEF TypeOK, Others
<1>6. \A u \in Threads : u # t => ~Changing(u) /\ ~Changing(u)' /\ th'[u].pc \notin GateCodes
    BY <1>1, <1>2, <1>5, Alone
<1>7. file' \in [Pages -> Values]
    BY <1>1, <1>3 DEF TypeOK, Values, Configuration
<1>8. TypeOK'
  <2>1. Owners'
      BY <1>1, <1>2, <1>4, <1>5, OwnersTake DEF Changing, GateCodes
  <2> QED BY <1>1, <1>2, <1>3, <1>4, <1>5, <1>7, <2>1 DEF TypeOK, guestVars, counts
<1>9. EntryInv'
  <2>1. Knows(t)'
      BY <1>1, <1>4, <1>5 DEF EntryInv, Knows
  <2> QED BY <1>1, <1>4, <1>5, <2>1, EntryFrame DEF Grows, Resident, TypeOK, guestVars
<1>10. /\ length = fileLength /\ EmptyBeyond
       /\ \A k \in Pages : Clean(k) => data[k] = file[k]
       /\ \A u \in Threads : Loaded(u) => th[u].value = file[th[u].page]
  <2>1. Quiet
      BY <1>2, <1>6 DEF Quiet, Changing, GateCodes
  <2> QED BY <1>1, <2>1 DEF FileInv, Settled
<1>11. EmptyBeyond'
    BY <1>3 DEF EmptyBeyond, Pages
<1>12. ~Quiet'
    BY <1>5 DEF Quiet
\* A page on the same side of both lengths keeps its contents.
<1>13. \A k \in Pages :
          IF (length' < k) <=> (fileLength' < k) THEN file'[k] = file[k] ELSE file'[k] = 0
    BY <1>1, <1>3, <1>4, <1>10 DEF EmptyBeyond, Pages, TypeOK, Configuration
<1>14. ResizeHalfDone'
  <2> SUFFICES ASSUME NEW w \in Threads, th'[w].pc = "resized"
               PROVE  HalfResized(w)'
      BY DEF ResizeHalfDone
  <2>1. w = t
      BY <1>6 DEF GateCodes
  <2> QED BY <1>3, <1>4, <1>5, <1>10, <1>13, <2>1 DEF HalfResized, Clean, Resident
<1>15. WriteHalfDone' /\ FlushInv'
    BY <1>5, <1>6 DEF WriteHalfDone, FlushInv, GateCodes
<1>16. LoadedInv'
  <2> SUFFICES ASSUME NEW u \in Threads, NEW w \in Threads, Loaded(u)'
               PROVE  /\ th'[w].pc # "written"
                      /\ ((length' < th'[u].page) <=> (fileLength' < th'[u].page)) =>
                            th'[u].value = file'[th'[u].page]
      BY DEF LoadedInv
  <2>1. u # t /\ Loaded(u) /\ th'[u] = th[u] /\ th[u].page \in Pages
      BY <1>1, <1>4, <1>5, FrameTypes DEF Loaded, Others, Resident
  <2> QED BY <1>5, <1>6, <1>10, <1>13, <2>1 DEF GateCodes
<1>17. FileInv'
    BY <1>11, <1>12, <1>14, <1>15, <1>16 DEF FileInv, Settled
<1> QED BY <1>8, <1>9, <1>17 DEF IInv

\* Second half: what lies between the two lengths is zeroed in the cache.
LEMMA SetLengthKeeps ==
    ASSUME Configuration, IInv, NEW t \in Threads, SetLength(t)
    PROVE  IInv'
<1> USE DEF fileVars
<1>1. TypeOK /\ FileInv /\ EntryInv
    BY DEF IInv
<1>2. th[t].pc = "resized" /\ HalfResized(t) /\ EmptyBeyond
    BY <1>1 DEF SetLength, FileInv, ResizeHalfDone
<1>3. /\ data' = [k \in Pages |->
            IF data[k] # None /\ (length < k) # (fileLength < k) THEN 0 ELSE data[k]]
      /\ torn' = {k \in torn : ~((length < k) # (fileLength < k))}
      /\ length' = fileLength
      /\ generation' = generation + 1 /\ Leave(t)
      /\ UNCHANGED <<fileVars, dirty, guestVars, counts>>
    BY <1>2 DEF SetLength, HalfResized, Resize, Between
<1>4. /\ th' \in [Threads -> Frame] /\ Others(t) /\ th'[t] = Idle
      /\ gate = t /\ gate' = None /\ Owners'
      /\ pos' \in [Files -> Threads \cup {None}]
      /\ Idle.pc = "idle" /\ Idle.op = "none" /\ Idle.gen = 0 /\ Idle.page \in Pages
    BY <1>1, <1>2, <1>3, Left DEF Changing, GateCodes
<1>5. \A u \in Threads : th'[u].pc \notin GateCodes
    BY <1>1, <1>4, Alone DEF GateCodes
<1>6. /\ data' \in [Pages -> Values \cup {None}]
      /\ \A k \in Pages : Resident(k)' <=> Resident(k)
    BY <1>1, <1>3 DEF TypeOK, Resident, Configuration, Values
<1>7. TypeOK'
    BY <1>1, <1>3, <1>4, <1>6 DEF TypeOK, guestVars, counts
<1>8. EntryInv'
  <2>1. Grows
      BY <1>1, <1>3, <1>6 DEF Grows, TypeOK
  <2>2. Knows(t)'
      BY <1>1, <1>3, <1>4 DEF Knows, TypeOK
  <2> QED BY <1>3, <1>4, <2>1, <2>2, EntryFrame DEF guestVars
<1>9. EmptyBeyond'
    BY <1>2, <1>3 DEF EmptyBeyond
<1>10. \A k \in Pages : Clean(k)' => data'[k] = file'[k]
  <2> SUFFICES ASSUME NEW k \in Pages, Clean(k)'
               PROVE  data'[k] = file[k]
      BY <1>3
  <2>0. Resident(k) /\ ~dirty[k] /\ k \notin torn'
      BY <1>3, <1>6 DEF Clean
  <2>1. CASE (length < k) <=> (fileLength < k)
    <3>1. Clean(k)
        BY <1>3, <2>0, <2>1 DEF Clean
    <3> QED BY <1>2, <1>3, <2>1, <3>1 DEF HalfResized
  <2>2. CASE ~((length < k) <=> (fileLength < k))
      BY <1>2, <1>3, <2>0, <2>2 DEF HalfResized, Resident
  <2> QED BY <2>1, <2>2
<1>11. \A u \in Threads : ~Loaded(u)'
  <2> SUFFICES ASSUME NEW u \in Threads, Loaded(u)' PROVE FALSE
      OBVIOUS
  <2>1. u # t
      BY <1>4 DEF Loaded
  <2>2. th'[u] = th[u] /\ th[u].gen \in Nat /\ th[u].gen <= generation /\ generation \in Nat
      BY <1>1, <1>4, <2>1, FrameTypes DEF Others, EntryInv, Knows, TypeOK
  <2> QED BY <1>3, <2>2 DEF Loaded
<1>12. Settled'
    BY <1>3, <1>10, <1>11 DEF Settled
<1>13. WriteHalfDone' /\ ResizeHalfDone' /\ FlushInv' /\ LoadedInv'
    BY <1>5 DEF WriteHalfDone, ResizeHalfDone, FlushInv, LoadedInv, GateCodes
<1>14. FileInv'
    BY <1>9, <1>12, <1>13 DEF FileInv
<1> QED BY <1>7, <1>8, <1>14 DEF IInv

\* A flush takes the gate and copies the marked pages within the file.
LEMMA MsyncKeeps ==
    ASSUME Configuration, IInv, NEW t \in Threads, Msync(t)
    PROVE  IInv'
<1> USE DEF fileVars, cacheVars
<1> DEFINE flushed == {k \in Pages : data[k] # None /\ dirty[k] /\ k <= length}
           copy == [k \in flushed |-> data[k]]
<1>1. TypeOK /\ FileInv /\ EntryInv
    BY DEF IInv
<1>2. /\ th[t].pc = "gate" /\ gate = None /\ gate' = t
      /\ UNCHANGED <<fileVars, cacheVars, pos, guestVars, counts>>
    BY DEF Msync, AtGate
<1>3. copy \in UNION {[S -> Values] : S \in SUBSET Pages} /\ DOMAIN copy = flushed
  <2>1. copy \in [flushed -> Values] /\ flushed \in SUBSET Pages
      BY <1>1 DEF TypeOK
  <2> QED BY <2>1
<1>4. th' = [th EXCEPT ![t] = [@ EXCEPT !.pc = "flush", !.snap = copy]]
    BY DEF Msync
<1> HIDE DEF copy
<1>5. /\ th' \in [Threads -> Frame] /\ Others(t) /\ th'[t].file = th[t].file
      /\ th'[t].pc = "flush" /\ th'[t].snap = copy /\ th'[t].gen = th[t].gen
  <2> DEFINE r == [th[t] EXCEPT !.pc = "flush", !.snap = copy]
  <2>1. th[t] \in Frame /\ th' = [th EXCEPT ![t] = r]
      BY <1>1, <1>4 DEF TypeOK
  <2>2. r \in Frame /\ r.pc = "flush" /\ r.snap = copy /\ r.gen = th[t].gen /\ r.file = th[t].file
      BY <1>3, <2>1 DEF Frame, Codes, GateCodes
  <2> HIDE DEF r
  <2> QED BY <1>1, <2>1, <2>2 DEF TypeOK, Others
<1>6. \A u \in Threads : u # t => ~Changing(u) /\ ~Changing(u)' /\ th'[u].pc \notin GateCodes
    BY <1>1, <1>2, <1>5, Alone
<1>7. TypeOK'
  <2>1. Owners'
      BY <1>1, <1>2, <1>5, OwnersTake DEF Changing, GateCodes
  <2> QED BY <1>1, <1>2, <1>5, <2>1 DEF TypeOK, guestVars, counts
<1>8. EntryInv'
  <2>1. Knows(t)'
      BY <1>1, <1>2, <1>5 DEF EntryInv, Knows
  <2> QED BY <1>1, <1>2, <1>5, <2>1, EntryFrame DEF Grows, Resident, TypeOK, guestVars
<1>9. \A u \in Threads : Loaded(u)' => Loaded(u) /\ th'[u] = th[u]
    BY <1>2, <1>5 DEF Loaded, Others, Resident
<1>10. EmptyBeyond' /\ Settled'
  <2>1. Quiet
      BY <1>2, <1>6 DEF Quiet, Changing, GateCodes
  <2> QED BY <1>1, <1>2, <1>9, <2>1 DEF FileInv, EmptyBeyond, Settled, Clean, Resident
<1>11. FlushInv'
  <2> SUFFICES ASSUME NEW w \in Threads, th'[w].pc = "flush", NEW k \in DOMAIN th'[w].snap
               PROVE  Resident(k)' /\ dirty'[k] /\ k <= length'
      BY DEF FlushInv
  <2>1. w = t
      BY <1>6 DEF GateCodes
  <2> QED BY <1>2, <1>3, <1>5, <2>1 DEF Resident
<1>12. WriteHalfDone' /\ ResizeHalfDone' /\ LoadedInv'
    BY <1>5, <1>6 DEF WriteHalfDone, ResizeHalfDone, LoadedInv, GateCodes
<1>13. FileInv'
    BY <1>10, <1>11, <1>12 DEF FileInv
<1> QED BY <1>7, <1>8, <1>13 DEF IInv

\* The copies are written; a page stays marked.
LEMMA FlushKeeps ==
    ASSUME Configuration, IInv, NEW t \in Threads, Flush(t)
    PROVE  IInv'
<1> USE DEF fileVars, cacheVars
<1>1. TypeOK /\ FileInv /\ EntryInv
    BY DEF IInv
<1>2. th[t].pc = "flush" /\ UNCHANGED <<cacheVars, guestVars, counts>>
    BY DEF Flush
<1>3. CASE Leave(t) /\ UNCHANGED fileVars
    BY <1>2, <1>3, LeaveKeeps
<1>4. ASSUME NEW k \in DOMAIN th[t].snap,
             file' = [file EXCEPT ![k] = th[t].snap[k]],
             fileLength' = Larger(fileLength, k),
             th' = [th EXCEPT ![t].snap = [j \in DOMAIN th[t].snap \ {k} |-> th[t].snap[j]]],
             UNCHANGED locks
      PROVE  IInv'
  <2> DEFINE rest == [j \in DOMAIN th[t].snap \ {k} |-> th[t].snap[j]]
  <2>1. /\ k \in Pages /\ th[t].snap[k] \in Values
        /\ Resident(k) /\ dirty[k] /\ k <= length
      BY <1>1, <1>2, <1>4, SnapTypes DEF FileInv, FlushInv
  <2>2. /\ rest \in UNION {[S -> Values] : S \in SUBSET Pages}
        /\ DOMAIN rest \subseteq DOMAIN th[t].snap
    <3>1. \A j \in DOMAIN th[t].snap : j \in Pages /\ th[t].snap[j] \in Values
        BY <1>1, SnapTypes
    <3>2. rest \in [DOMAIN th[t].snap \ {k} -> Values] /\ DOMAIN th[t].snap \ {k} \in SUBSET Pages
        BY <3>1
    <3> QED BY <3>2
  <2>3. th' = [th EXCEPT ![t] = [@ EXCEPT !.snap = rest]]
      BY <1>4
  <2> HIDE DEF rest
  <2>4. /\ th' \in [Threads -> Frame] /\ Others(t) /\ th'[t].file = th[t].file
        /\ th'[t].pc = "flush" /\ th'[t].snap = rest /\ th'[t].gen = th[t].gen
    <3> DEFINE r == [th[t] EXCEPT !.snap = rest]
    <3>1. th[t] \in Frame /\ th' = [th EXCEPT ![t] = r]
        BY <1>1, <2>3 DEF TypeOK
    <3>2. r \in Frame /\ r.pc = "flush" /\ r.snap = rest /\ r.gen = th[t].gen /\ r.file = th[t].file
        BY <1>2, <2>2, <3>1 DEF Frame
    <3> HIDE DEF r
    <3> QED BY <1>1, <3>1, <3>2 DEF TypeOK, Others
  <2>5. Changing(t) /\ Changing(t)' /\ Calling(t) /\ Calling(t)' /\ gate = t
      BY <1>1, <1>2, <2>4 DEF Changing, Calling, GateCodes, TypeOK, Owners
  <2>6. \A u \in Threads : u # t => ~Changing(u) /\ ~Changing(u)' /\ th'[u].pc \notin GateCodes
      BY <1>1, <2>4, <2>5, Alone
  <2>a. Quiet
      BY <1>2, <2>6 DEF Quiet, Changing, GateCodes
  <2>b. /\ length = fileLength /\ EmptyBeyond
        /\ \A j \in Pages : Clean(j) => data[j] = file[j]
        /\ \A u \in Threads : Loaded(u) => th[u].value = file[th[u].page]
      BY <1>1, <2>a DEF FileInv, Settled
  <2>7. /\ file' \in [Pages -> Values] /\ fileLength' = fileLength
        /\ \A j \in Pages : j # k => file'[j] = file[j]
      BY <1>1, <1>4, <2>1, <2>b DEF TypeOK, Larger, Pages
  <2>8. TypeOK'
    <3>1. Owners'
        BY <1>1, <1>4, <2>4, <2>5, OwnersStay
    <3> QED BY <1>1, <1>2, <1>4, <2>4, <2>7, <3>1 DEF TypeOK, locks, guestVars, counts
  <2>9. EntryInv'
    <3>1. Knows(t)'
        BY <1>1, <1>2, <2>4 DEF EntryInv, Knows
    <3> QED BY <1>1, <1>2, <2>4, <3>1, EntryFrame DEF Grows, Resident, TypeOK, guestVars
  <2>10. \A u \in Threads : Loaded(u)' =>
            Loaded(u) /\ th'[u] = th[u] /\ th[u].page \in Pages /\ th[u].page # k
      BY <1>1, <1>2, <2>1, <2>4, FrameTypes DEF Loaded, Others, Resident
  <2>11. EmptyBeyond'
      BY <1>1, <2>1, <2>7, <2>b DEF EmptyBeyond, TypeOK, Pages
  <2>12. Settled'
      BY <1>2, <2>1, <2>7, <2>10, <2>b DEF Settled, Clean, Resident
  <2>13. FlushInv'
    <3> SUFFICES ASSUME NEW w \in Threads, th'[w].pc = "flush", NEW j \in DOMAIN th'[w].snap
                 PROVE  Resident(j)' /\ dirty'[j] /\ j <= length'
        BY DEF FlushInv
    <3>1. w = t
        BY <2>6 DEF GateCodes
    <3> QED BY <1>1, <1>2, <2>2, <2>4, <3>1 DEF FileInv, FlushInv, Resident
  <2>14. WriteHalfDone' /\ ResizeHalfDone' /\ LoadedInv'
      BY <2>4, <2>6 DEF WriteHalfDone, ResizeHalfDone, LoadedInv, GateCodes
  <2> QED BY <2>8, <2>9, <2>11, <2>12, <2>13, <2>14 DEF IInv, FileInv
<1> QED BY <1>3, <1>4 DEF Flush

\* mmap gives the cache the length that it has, and begins a new generation.
LEMMA ReconcileKeeps ==
    ASSUME Configuration, IInv, NEW t \in Threads, Reconcile(t)
    PROVE  IInv'
<1> USE DEF fileVars
<1>1. TypeOK /\ FileInv /\ EntryInv
    BY DEF IInv
<1>2. /\ th[t].pc = "gate" /\ gate = None /\ gate' = None
      /\ Resize(fileLength) /\ generation' = generation + 1
      /\ pos' = [pos EXCEPT ![th[t].file] = None]
      /\ th' = [th EXCEPT ![t] = [Idle EXCEPT !.pc = "mapping"]]
      /\ UNCHANGED <<fileVars, dirty, guestVars, counts>>
    BY DEF Reconcile, AtGate
<1> DEFINE r == [Idle EXCEPT !.pc = "mapping"]
<1>3. r \in Frame /\ r.pc = "mapping" /\ r.gen = 0
  <2>1. Idle \in Frame
      BY IdleTyped
  <2> QED BY <2>1 DEF Frame, Codes, Idle
<1> HIDE DEF r
<1>4. th' \in [Threads -> Frame] /\ Others(t) /\ th'[t] = r
    BY <1>1, <1>2, <1>3 DEF TypeOK, Others, r
<1>5. \A u \in Threads : ~Changing(u) /\ th'[u].pc \notin GateCodes
    BY <1>1, <1>2, <1>3, <1>4 DEF TypeOK, Owners, Changing, GateCodes, Others, Configuration
<1>6. length = fileLength /\ \A k \in Pages : Clean(k) => data[k] = file[k]
  <2>1. Quiet
      BY <1>5 DEF Quiet, Changing, GateCodes
  <2> QED BY <1>1, <2>1 DEF FileInv, Settled
<1>7. length' = length /\ torn' = torn /\ \A k \in Pages : data'[k] = data[k]
    BY <1>1, <1>2, <1>6 DEF Resize, Between, TypeOK
<1>a. /\ UNCHANGED <<file, fileLength, dirty, gate, map, pte, buffer, version, changes>>
      /\ generation \in Nat /\ generation' = generation + 1
      /\ pos' \in [Files -> Threads \cup {None}]
    BY <1>1, <1>2 DEF TypeOK, guestVars, counts
<1>8. data' \in [Pages -> Values \cup {None}]
    BY <1>1, <1>2 DEF Resize, TypeOK, Values, Configuration
<1>9. TypeOK'
  <2>1. Calling(t) /\ ~Calling(t)'
      BY <1>2, <1>3, <1>4 DEF Calling, Changing, FaultCodes, GateCodes
  <2>2. gate' = IF Changing(t) THEN None ELSE gate
      BY <1>2, <1>5
  <2>3. pos' = [pos EXCEPT ![th[t].file] = None]
      BY <1>2
  <2>4. Owners'
      BY <1>1, <1>4, <2>1, <2>2, <2>3, OwnersRelease
  <2> QED BY <1>1, <1>4, <1>7, <1>8, <1>a, <2>4 DEF TypeOK
<1>10. EntryInv'
  <2>1. Grows
      BY <1>1, <1>2, <1>7 DEF Grows, Resident, TypeOK
  <2>2. Knows(t)'
      BY <1>3, <1>4, <1>a DEF Knows
  <2> QED BY <1>4, <1>a, <2>1, <2>2, EntryFrame
<1>11. \A u \in Threads : ~Loaded(u)'
  <2> SUFFICES ASSUME NEW u \in Threads, Loaded(u)' PROVE FALSE
      OBVIOUS
  <2>1. u # t
      BY <1>3, <1>4 DEF Loaded
  <2>2. th'[u] = th[u] /\ th[u].gen \in Nat /\ th[u].gen <= generation /\ generation \in Nat
      BY <1>1, <1>4, <2>1, FrameTypes DEF Others, EntryInv, Knows, TypeOK
  <2> QED BY <1>2, <2>2 DEF Loaded
<1>12. EmptyBeyond'
    BY <1>1, <1>2 DEF FileInv, EmptyBeyond
<1>13. Settled'
    BY <1>2, <1>6, <1>7, <1>11 DEF Settled, Clean, Resident
<1>14. WriteHalfDone' /\ ResizeHalfDone' /\ FlushInv' /\ LoadedInv'
    BY <1>5 DEF WriteHalfDone, ResizeHalfDone, FlushInv, LoadedInv, GateCodes
<1>15. FileInv'
    BY <1>12, <1>13, <1>14 DEF FileInv
<1> QED BY <1>9, <1>10, <1>15 DEF IInv

\* Another mapping takes the address; its entry is empty.
LEMMA RemapKeeps ==
    ASSUME Configuration, IInv, NEW t \in Threads, Remap(t)
    PROVE  IInv'
<1> USE DEF fileVars, cacheVars
<1>1. TypeOK /\ FileInv /\ EntryInv
    BY DEF IInv
<1>2. /\ UNCHANGED <<fileVars, cacheVars, locks, buffer, counts>>
      /\ th[t].pc = "mapping" /\ th' = [th EXCEPT ![t] = Idle]
    BY DEF Remap
<1>3. /\ map' \in [key : Nat, page : Pages, shared : BOOLEAN]
      /\ map'.key = map.key + 1 /\ pte' = None
    BY <1>1 DEF Remap, TypeOK
<1>4. /\ th' \in [Threads -> Frame] /\ Others(t) /\ th'[t] = Idle
      /\ Idle.pc = "idle" /\ Idle.op = "none" /\ Idle.gen = 0 /\ Idle.page \in Pages
    BY <1>1, <1>2, IdleTyped DEF TypeOK, Others, Idle, Configuration, Pages
<1>5. TypeOK'
  <2>1. Owners'
      BY <1>1, <1>2, <1>4, OwnersStay DEF Changing, Calling, FaultCodes, GateCodes
  <2> QED BY <1>1, <1>2, <1>3, <1>4, <2>1 DEF TypeOK, locks, counts
<1>6. \A u \in Threads : Knows(u)'
  <2> SUFFICES ASSUME NEW u \in Threads PROVE Knows(u)'
      OBVIOUS
  <2>1. CASE u = t
      BY <1>1, <1>2, <1>4, <2>1 DEF Knows, TypeOK
  <2>2. CASE u # t
    <3>1. Knows(u) /\ th[u].key \in Int /\ map.key \in Int /\ th'[u] = th[u]
        BY <1>1, <1>4, <2>2, FrameTypes DEF EntryInv, TypeOK, Others
    <3> QED BY <1>2, <1>3, <3>1 DEF Knows, Resident
  <2> QED BY <2>1, <2>2
<1>7. EntryInv'
    BY <1>3, <1>6 DEF EntryInv, EntryIsMapped, SharedIsDirty
<1>8. Touches(t) /\ ~Loaded(t)' /\ ~Halfway(t)'
    BY <1>2, <1>4 DEF Touches, Loaded, Halfway
<1>9. \A k \in Pages : (Resident(k) => Resident(k)') /\ (dirty[k] => dirty'[k])
    BY <1>2 DEF Resident
<1>10. FileInv'
    BY <1>2, <1>4, <1>8, <1>9, TouchFrame
<1> QED BY <1>5, <1>7, <1>10 DEF IInv

----------------------------------------------------------------------------

\* Every step keeps the invariant.
LEMMA Inductive == Configuration /\ IInv /\ [Next]_vars => IInv'
<1> SUFFICES ASSUME Configuration, IInv, [Next]_vars PROVE IInv'
    OBVIOUS
<1>1. ASSUME NEW t \in Threads, Loads(t) PROVE IInv'
    BY <1>1, FaultKeeps, CheckKeeps, LoadKeeps, InstallKeeps, SetPageKeeps DEF Loads
<1>2. ASSUME NEW t \in Threads, Changes(t) PROVE IInv'
    BY <1>2, BeginWriteKeeps, BufferFaultKeeps, WriteFileKeeps, UpdateWriteKeeps,
       TruncateKeeps, SetLengthKeeps, MsyncKeeps, FlushKeeps, ReconcileKeeps, RemapKeeps
       DEF Changes
<1>3. CASE UNCHANGED vars
  <2>1. TypeOK'
      BY <1>3 DEF vars, IInv, TypeOK, Owners, Changing, Calling
  <2>2. FileInv'
      BY <1>3 DEF vars, IInv, FileInv, EmptyBeyond, Settled, Quiet, Resident, Clean, Loaded,
         WriteHalfDone, HalfWritten, ResizeHalfDone, HalfResized, LoadedInv, FlushInv
  <2>3. EntryInv'
      BY <1>3 DEF vars, IInv, EntryInv, Knows, EntryIsMapped, SharedIsDirty, Resident
  <2> QED BY <2>1, <2>2, <2>3 DEF IInv
<1> QED BY <1>1, <1>2, <1>3, FileCallKeeps, StoreKeeps, FillKeeps DEF Next

\* The initial state: no page is resident.
LEMMA Initially == Configuration /\ Init => IInv
<1> SUFFICES ASSUME Configuration, Init PROVE IInv
    OBVIOUS
<1>1. \A t \in Threads : th[t] = Idle
    BY DEF Init
<1>2. TypeOK
  <2>1. th \in [Threads -> Frame]
      BY IdleTyped DEF Init
  <2>2. Owners
      BY <1>1 DEF Init, Owners, Calling, Changing, FaultCodes, GateCodes, Idle, Configuration
  <2> QED BY <2>1, <2>2 DEF Init, TypeOK, Configuration, Pages, Values
<1>3. FileInv
    BY <1>1 DEF Init, FileInv, EmptyBeyond, Settled, Clean, Resident, Loaded, WriteHalfDone,
       ResizeHalfDone, LoadedInv, FlushInv, Idle
<1>4. EntryInv
    BY <1>1 DEF Init, EntryInv, Knows, Idle, EntryIsMapped, SharedIsDirty
<1> QED BY <1>2, <1>3, <1>4 DEF IInv

\* The invariant holds in every behaviour.
LEMMA Invariance == Configuration => (Spec => []IInv)
<1> SUFFICES ASSUME Configuration PROVE Spec => []IInv
    OBVIOUS
<1>1. Init => IInv
    BY Initially
<1>2. IInv /\ [Next]_vars => IInv'
    BY Inductive
<1> QED BY <1>1, <1>2, PTL DEF Spec

\* Every variable of MappedPages keeps its type, a descriptor's filePosMutex is held by
\* the thread whose call waits for the gate or has it, and mutationOperationMutex by
\* the thread that is in a change, be it in a fault on its buffer.
THEOREM TypeCorrect == Configuration => (Spec => []TypeOK)
<1>1. IInv => TypeOK
    BY DEF IInv
<1> QED BY <1>1, Invariance, PTL

\* The cache and the file agree whenever nobody has the gate, whichever loads, writes,
\* truncations and writebacks raced, on every page that no store may have changed and
\* that is not torn: the code gives the cache and the file of a write(2) different
\* bytes if the buffer changes between its two reads, and nothing repairs that.
THEOREM FileIsShown == Configuration => (Spec => []Coherent)
<1> SUFFICES ASSUME Configuration PROVE Spec => []Coherent
    OBVIOUS
<1>1. IInv => Coherent
  <2> SUFFICES ASSUME IInv, gate = None
               PROVE  /\ length = fileLength
                      /\ \A k \in Pages \ torn : data[k] # None /\ ~dirty[k] => data[k] = file[k]
      BY DEF Coherent
  <2>1. \A t \in Threads : ~Changing(t)
    <3>1. Owners /\ None \notin Threads
        BY DEF IInv, TypeOK, Configuration
    <3> QED BY <3>1 DEF Owners
  <2>2. Quiet
      BY <2>1 DEF Quiet, Changing, GateCodes
  <2> QED BY <2>2 DEF IInv, FileInv, Settled, Clean, Resident
<1> QED BY <1>1, Invariance, PTL

\* The address shows the page of the mapping that is there now: a fault that loaded
\* a page for a mapping since replaced does not enter it (FilePage::loadPage).
THEOREM EntryShowsMapping == Configuration => (Spec => []EntryIsMapped)
<1>1. IInv => EntryIsMapped
    BY DEF IInv, EntryInv
<1> QED BY <1>1, Invariance, PTL

\* A page that can be stored to through a shared mapping is marked for writeback,
\* whichever of several faults made it resident (MappedFileCache::getOrCreatePage).
THEOREM SharedPageIsDirty == Configuration => (Spec => []SharedIsDirty)
<1>1. IInv => SharedIsDirty
    BY DEF IInv, EntryInv
<1> QED BY <1>1, Invariance, PTL
=============================================================================
