----------------------------- MODULE MappedPages -----------------------------
(***************************************************************************)
(* The pages of a mapped file (MappedFileCache in kmemory.cpp, loadPage in *)
(* soft_file_map.cpp) against write(2), ftruncate(2), msync(2), stores and *)
(* remapping, through the descriptors that are open for the file.          *)
(*                                                                         *)
(* A call on a descriptor takes its filePosMutex and then the file's       *)
(* mutationOperationMutex, which it holds across the change of the file    *)
(* and of the cache: the variables pos and gate.  A page is loaded on the  *)
(* first fault without the gate, with the filePosMutex of the descriptor   *)
(* through which the file was first mapped: the generation of the cache    *)
(* tells whether the file was changed meanwhile.  write(2) may fault on    *)
(* its buffer, with both locks held, and reads the buffer twice: for the   *)
(* file and for the cache.                                                 *)
(*                                                                         *)
(* A page has one byte, and a page beyond the end of the file reads as 0.  *)
(* The bodies of updateWrite and setLength run under mutationMutex, which  *)
(* installing a page and copying pages for a writeback also take: each is  *)
(* one step.                                                               *)
(***************************************************************************)
EXTENDS Integers

CONSTANTS
    Threads,      \* threads that share one address space
    Files,        \* the open descriptors (KFile) of the file
    CacheFile,    \* the one of its first mapping, shared and writable:
                  \* MappedFileCache::file and writeFile
    May,          \* [Threads -> SUBSET Calls]
    NumPages,     \* pages of the file
    MaxVersion,   \* bound on the stores
    MaxChanges,   \* bound on the calls on the descriptors
    None

Pages == 1 .. NumPages
Values == 0 .. MaxVersion

\* The buffer of "write" is ordinary memory of the guest, that of "writeMapped" is
\* the address at which the file is mapped.
FileOps == {"write", "writeMapped", "truncate", "mmap", "msync"}
Calls == {<<"touch">>, <<"store">>, <<"fill">>} \cup (FileOps \X Files)

Configuration ==
    /\ NumPages \in Nat \ {0} /\ MaxVersion \in Nat /\ MaxChanges \in Nat
    /\ CacheFile \in Files
    /\ \A t \in Threads : May[t] \subseteq Calls
    /\ \A t \in Threads, f \in Files : <<"msync", f>> \in May[t] => f = CacheFile
    /\ None \notin Threads \cup Pages \cup Values

ASSUME PageConstants == Configuration

VARIABLES
    file, fileLength,   \* the backing file
    data, dirty,        \* the resident pages and possiblyDirty
    length,             \* MappedFileCache::length
    generation,         \* mutationGeneration
    pos,                \* [Files -> Threads \cup {None}]: owners of filePosMutex
    gate,               \* owner of mutationOperationMutex
    map, pte,           \* the mapping at the address and the page its entry has
    buffer,             \* the guest's other memory
    torn,               \* history: the pages whose copy in the cache is from a write(2)
                        \* that had given the file other bytes
    version, changes,   \* values and calls used so far
    th

vars == <<file, fileLength, data, dirty, length, generation, pos, gate, map, pte,
          buffer, torn, version, changes, th>>
fileVars == <<file, fileLength>>
cacheVars == <<data, dirty, length, generation, torn>>
locks == <<pos, gate>>
guestVars == <<map, pte, buffer>>
counts == <<version, changes>>

Idle == [pc |-> "idle", op |-> "none", file |-> CacheFile, page |-> 1, from |-> None,
         key |-> 0, shared |-> FALSE, gen |-> 0, value |-> 0, snap |-> [k \in {} |-> 0]]

Init ==
    /\ file = [k \in Pages |-> 0] /\ fileLength = NumPages
    /\ data = [k \in Pages |-> None] /\ dirty = [k \in Pages |-> FALSE]
    /\ length = NumPages /\ generation = 0
    /\ pos = [f \in Files |-> None] /\ gate = None
    /\ map \in [key : {0}, page : {1}, shared : BOOLEAN] /\ pte = None
    /\ buffer = 0 /\ torn = {}
    /\ version = 0 /\ changes = 0
    /\ th = [t \in Threads |-> Idle]

Goto(t, l) == th' = [th EXCEPT ![t].pc = l]

\* A fault returns to the guest, or to the write(2) that needed the page.
Return(t) ==
    th' = [th EXCEPT ![t] =
             IF th[t].op = "none" THEN Idle
             ELSE [Idle EXCEPT !.pc = "buffer", !.op = th[t].op, !.file = th[t].file]]

\* A call on a descriptor returns and both locks are released.
Leave(t) ==
    /\ th' = [th EXCEPT ![t] = Idle]
    /\ pos' = [pos EXCEPT ![th[t].file] = None]
    /\ gate' = None

----------------------------------------------------------------------------
(* A page fault: FilePage::loadPage and MappedFileCache::getOrCreatePage.  *)

\* The mapping is read under the memory's mutex, which is then dropped.
Fault(t) ==
    /\ \/ th[t].pc = "idle" /\ <<"touch">> \in May[t] /\ pte = None
       \/ th[t].pc = "fault"
    /\ IF pte # None THEN Return(t)
       ELSE th' = [th EXCEPT ![t].pc = "check", ![t].page = map.page,
                             ![t].key = map.key, ![t].shared = map.shared]
    /\ UNCHANGED <<fileVars, cacheVars, locks, guestVars, counts>>

Use(k, shared) == dirty' = [dirty EXCEPT ![k] = @ \/ shared]

\* Definitions whose names begin with Fault, but for the page fault itself, are
\* mistakes that a property must find; no specification uses them.
\* Fault: a page that is already resident is used as it is.
FaultCheckClean(t) ==
    /\ th[t].pc = "check"
    /\ IF data[th[t].page] # None
       THEN Goto(t, "map")
       ELSE th' = [th EXCEPT ![t].pc = "load", ![t].gen = generation]
    /\ UNCHANGED <<fileVars, cacheVars, locks, guestVars, counts>>

Check(t) ==
    /\ th[t].pc = "check"
    /\ IF data[th[t].page] # None
       THEN Use(th[t].page, th[t].shared) /\ Goto(t, "map")
       ELSE /\ th' = [th EXCEPT ![t].pc = "load", ![t].gen = generation]
            /\ UNCHANGED dirty
    /\ UNCHANGED <<fileVars, data, length, generation, torn, locks, guestVars, counts>>

\* preadNativeUncached.  filePosMutex is recursive: a write(2) through the same
\* descriptor may have it already.
Load(t) ==
    /\ th[t].pc = "load" /\ pos[CacheFile] \in {None, t}
    /\ th' = [th EXCEPT ![t].pc = "install", ![t].value = file[th[t].page]]
    /\ UNCHANGED <<fileVars, cacheVars, locks, guestVars, counts>>

\* Fault: a load that comes too late is tried again with its old generation.
FaultInstallSpins(t) ==
    /\ th[t].pc = "install"
    /\ LET k == th[t].page IN
       IF data[k] # None \/ th[t].gen = generation
       THEN /\ data' = [data EXCEPT ![k] = IF @ = None THEN th[t].value ELSE @]
            /\ Use(k, th[t].shared) /\ Goto(t, "map")
       ELSE Goto(t, "load") /\ UNCHANGED <<data, dirty>>
    /\ UNCHANGED <<fileVars, length, generation, torn, locks, guestVars, counts>>

Install(t) ==
    /\ th[t].pc = "install"
    /\ LET k == th[t].page IN
       IF data[k] # None
       THEN /\ Use(k, th[t].shared) /\ Goto(t, "map")
            /\ UNCHANGED data
       ELSE IF th[t].gen = generation
       THEN /\ data' = [data EXCEPT ![k] = th[t].value]
            /\ Use(k, th[t].shared) /\ Goto(t, "map")
       ELSE Goto(t, "check") /\ UNCHANGED <<data, dirty>>
    /\ UNCHANGED <<fileVars, length, generation, torn, locks, guestVars, counts>>

\* Fault: the mapping is not looked at again.
FaultSetPage(t) ==
    /\ th[t].pc = "map"
    /\ pte' = IF pte = None THEN th[t].page ELSE pte
    /\ Return(t)
    /\ UNCHANGED <<fileVars, cacheVars, locks, map, buffer, counts>>

\* The entry is set if the mapping is still the one that was read.
SetPage(t) ==
    /\ th[t].pc = "map"
    /\ IF pte # None THEN UNCHANGED pte /\ Return(t)
       ELSE IF map.key # th[t].key THEN UNCHANGED pte /\ Goto(t, "fault")
       ELSE pte' = th[t].page /\ Return(t)
    /\ UNCHANGED <<fileVars, cacheVars, locks, map, buffer, counts>>

----------------------------------------------------------------------------
(* The guest's stores.                                                     *)

\* A store to a private mapping goes to a copy.
Store(t) ==
    /\ th[t].pc = "idle" /\ <<"store">> \in May[t]
    /\ pte # None /\ map.shared /\ version < MaxVersion
    /\ version' = version + 1
    /\ data' = [data EXCEPT ![pte] = version + 1]
    /\ UNCHANGED <<fileVars, dirty, length, generation, torn, locks, guestVars, changes, th>>

Fill(t) ==
    /\ th[t].pc = "idle" /\ <<"fill">> \in May[t] /\ version < MaxVersion
    /\ version' = version + 1
    /\ buffer' = version + 1
    /\ UNCHANGED <<fileVars, cacheVars, locks, map, pte, changes, th>>

----------------------------------------------------------------------------
(* write(2), ftruncate(2), msync(2) and mmap(2).                           *)

Larger(m, n) == IF m > n THEN m ELSE n

\* filePosMutex comes first, and is held while the call waits for the gate.
FileCall(t) ==
    /\ th[t].pc = "idle" /\ changes < MaxChanges
    /\ \E op \in FileOps, f \in Files :
        /\ <<op, f>> \in May[t] /\ pos[f] = None
        /\ pos' = [pos EXCEPT ![f] = t]
        /\ th' = [th EXCEPT ![t].pc = "gate", ![t].op = op, ![t].file = f]
    /\ changes' = changes + 1
    /\ UNCHANGED <<fileVars, cacheVars, gate, guestVars, version>>

AtGate(t, ops) == th[t].pc = "gate" /\ th[t].op \in ops /\ gate = None

BeginWrite(t) ==
    /\ AtGate(t, {"write", "writeMapped"})
    /\ gate' = t
    /\ Goto(t, "buffer")
    /\ UNCHANGED <<fileVars, cacheVars, pos, guestVars, counts>>

\* performOnMemory needs the page of the buffer, with both locks held.
BufferFault(t) ==
    /\ th[t].pc = "buffer" /\ th[t].op = "writeMapped" /\ pte = None
    /\ Goto(t, "fault")
    /\ UNCHANGED <<fileVars, cacheVars, locks, guestVars, counts>>

\* The first read of the buffer: the file changes, or the write fails.
WriteFile(t) ==
    LET own == th[t].op = "write"
        value == IF own THEN buffer ELSE data[pte]
    IN
    /\ th[t].pc = "buffer" /\ (own \/ pte # None)
    /\ \/ \E k \in Pages :
            /\ file' = [file EXCEPT ![k] = value]
            /\ fileLength' = Larger(fileLength, k)
            /\ th' = [th EXCEPT ![t].pc = "written", ![t].page = k, ![t].value = value,
                                ![t].from = IF own THEN None ELSE pte]
            /\ UNCHANGED locks
       \/ Leave(t) /\ UNCHANGED fileVars
    /\ UNCHANGED <<cacheVars, guestVars, counts>>

\* A resident page j before a write of page k: the hole that a write beyond the
\* end leaves is zeroed first.
BeforeWrite(j, k) == IF data[j] # None /\ length < j /\ j < k THEN 0 ELSE data[j]

\* updateWrite has the pointer to the buffer: its second read.
UpdateWrite(t) ==
    LET k == th[t].page
        from == th[t].from
        again == IF from = None THEN buffer ELSE BeforeWrite(from, k)
    IN
    /\ th[t].pc = "written"
    /\ data' = [j \in Pages |->
                  IF j = k /\ data[k] # None THEN again ELSE BeforeWrite(j, k)]
    /\ torn' = IF data[k] # None /\ again # th[t].value THEN torn \cup {k} ELSE torn \ {k}
    /\ length' = Larger(length, k)
    /\ generation' = generation + 1
    /\ Leave(t)
    /\ UNCHANGED <<fileVars, dirty, guestVars, counts>>

Truncate(t) ==
    /\ AtGate(t, {"truncate"})
    /\ \E n \in 0 .. NumPages :
        /\ file' = [k \in Pages |-> IF k <= n /\ k <= fileLength THEN file[k] ELSE 0]
        /\ fileLength' = n
        /\ th' = [th EXCEPT ![t].pc = "resized", ![t].value = n]
    /\ gate' = t
    /\ UNCHANGED <<cacheVars, pos, guestVars, counts>>

\* What lies between the old and the new length is zeroed, either way.
Between(k, n) == (length < k) # (n < k)

Resize(n) ==
    /\ data' = [k \in Pages |-> IF data[k] # None /\ Between(k, n) THEN 0 ELSE data[k]]
    /\ torn' = {k \in torn : ~Between(k, n)}
    /\ length' = n

\* Fault: a change of the length alone is no new generation.
FaultSetLength(t) ==
    /\ th[t].pc = "resized"
    /\ Resize(th[t].value)
    /\ Leave(t)
    /\ UNCHANGED <<fileVars, dirty, generation, guestVars, counts>>

SetLength(t) ==
    /\ th[t].pc = "resized"
    /\ Resize(th[t].value)
    /\ generation' = generation + 1
    /\ Leave(t)
    /\ UNCHANGED <<fileVars, dirty, guestVars, counts>>

\* flush of the pages that may have been stored to, within the length.
Msync(t) ==
    /\ AtGate(t, {"msync"})
    /\ LET flushed == {k \in Pages : data[k] # None /\ dirty[k] /\ k <= length} IN
       th' = [th EXCEPT ![t].pc = "flush", ![t].snap = [k \in flushed |-> data[k]]]
    /\ gate' = t
    /\ UNCHANGED <<fileVars, cacheVars, pos, guestVars, counts>>

\* One positioned write after the other; an error ends the call.
Flush(t) ==
    /\ th[t].pc = "flush"
    /\ LET snap == th[t].snap IN
       \/ \E k \in DOMAIN snap :
            /\ \A j \in DOMAIN snap : k <= j
            /\ file' = [file EXCEPT ![k] = snap[k]]
            /\ fileLength' = Larger(fileLength, k)
            /\ th' = [th EXCEPT ![t].snap = [j \in DOMAIN snap \ {k} |-> snap[j]]]
            /\ UNCHANGED locks
       \/ Leave(t) /\ UNCHANGED fileVars
    /\ UNCHANGED <<cacheVars, guestVars, counts>>

\* mmap finds the cache and gives it the file's length, under both locks ...
Reconcile(t) ==
    /\ AtGate(t, {"mmap"})
    /\ Resize(fileLength)
    /\ generation' = generation + 1
    /\ pos' = [pos EXCEPT ![th[t].file] = None]
    /\ th' = [th EXCEPT ![t] = [Idle EXCEPT !.pc = "mapping"]]
    /\ UNCHANGED <<fileVars, dirty, gate, guestVars, counts>>

\* ... and then makes the mapping, under the memory's mutex.
Remap(t) ==
    /\ th[t].pc = "mapping"
    /\ \E k \in Pages, shared \in BOOLEAN :
         map' = [key |-> map.key + 1, page |-> k, shared |-> shared]
    /\ pte' = None
    /\ th' = [th EXCEPT ![t] = Idle]
    /\ UNCHANGED <<fileVars, cacheVars, locks, buffer, counts>>

Loads(t) == Fault(t) \/ Check(t) \/ Load(t) \/ Install(t) \/ SetPage(t)
Changes(t) == \/ BeginWrite(t) \/ BufferFault(t) \/ WriteFile(t) \/ UpdateWrite(t)
              \/ Truncate(t) \/ SetLength(t) \/ Msync(t) \/ Flush(t)
              \/ Reconcile(t) \/ Remap(t)

Next == \E t \in Threads : Loads(t) \/ Changes(t) \/ FileCall(t) \/ Store(t) \/ Fill(t)

\* A thread whose next step stays possible takes it.
Spec == /\ Init /\ [][Next]_vars
        /\ \A t \in Threads : WF_vars(th[t].pc # "idle" /\ (Loads(t) \/ Changes(t)))

----------------------------------------------------------------------------

FaultCodes == {"fault", "check", "load", "install", "map"}
GateCodes == {"buffer", "written", "resized", "flush"}
Codes == {"idle", "gate", "mapping"} \cup FaultCodes \cup GateCodes

Frame == [pc : Codes, op : FileOps \cup {"none"}, file : Files, page : Pages,
          from : Pages \cup {None}, key : Nat, shared : BOOLEAN, gen : Nat,
          value : Values \cup 0 .. NumPages,
          snap : UNION {[S -> Values] : S \in SUBSET Pages}]

\* A thread that has the gate, and one that has the filePosMutex of its descriptor.
Changing(t) == th[t].pc \in GateCodes \/ (th[t].pc \in FaultCodes /\ th[t].op # "none")
Calling(t) == th[t].pc = "gate" \/ Changing(t)

\* The locks are with those that work under them.
Owners ==
    /\ \A t \in Threads : Changing(t) <=> gate = t
    /\ \A t \in Threads, f \in Files : pos[f] = t <=> Calling(t) /\ th[t].file = f

\* Every variable has its type.
TypeOK ==
    /\ file \in [Pages -> Values] /\ fileLength \in 0 .. NumPages
    /\ data \in [Pages -> Values \cup {None}] /\ dirty \in [Pages -> BOOLEAN]
    /\ length \in 0 .. NumPages /\ generation \in Nat
    /\ pos \in [Files -> Threads \cup {None}] /\ gate \in Threads \cup {None}
    /\ map \in [key : Nat, page : Pages, shared : BOOLEAN]
    /\ pte \in Pages \cup {None}
    /\ buffer \in Values /\ torn \subseteq Pages
    /\ version \in Values /\ changes \in 0 .. MaxChanges
    /\ th \in [Threads -> Frame]
    /\ Owners

\* While no write, truncation or writeback is under way, cache and file agree on
\* the length, and a resident page that no store can have changed is what the
\* file has: a page whose load raced with a change of the file is not installed
\* stale, and a flush of pages that were stored to beyond the end does not make the
\* file longer.  The exception is a page that write(2) has copied from a buffer
\* which changed between its two reads.
Coherent ==
    gate = None =>
        /\ length = fileLength
        /\ \A k \in Pages \ torn : data[k] # None /\ ~dirty[k] => data[k] = file[k]

\* The entry of the address has the page of the mapping that is there now, not
\* that of one which was replaced while its page was being loaded.
EntryIsMapped == pte # None => pte = map.page /\ data[pte] # None

\* A page that a shared mapping can store to is marked for writeback, whichever
\* thread loaded it first and for whichever mapping.
SharedIsDirty == pte # None /\ map.shared => dirty[pte]

\* A buffer in mapped memory is written through the descriptor that loads it.
\* Otherwise two writes deadlock: one has the gate and needs the filePosMutex of
\* CacheFile to load its buffer, the other has that one and waits for the gate.
OwnBuffers ==
    \A t \in Threads, f \in Files : <<"writeMapped", f>> \in May[t] => f = CacheFile

\* A fault ends, in a program that keeps to OwnBuffers and whose calls on the file
\* pause: the load waits for the calls on one descriptor, is repeated while the
\* file is being changed, and has the generation of its new attempt.
FaultReturns ==
    OwnBuffers =>
        \A t \in Threads : th[t].pc \in FaultCodes ~> th[t].pc \in {"idle", "buffer"}
=============================================================================
