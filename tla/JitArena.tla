------------------------------ MODULE JitArena ------------------------------
(***************************************************************************)
(* The executable arena of the iOS port (BVNExecMemory.cpp) and the        *)
(* threads that enter it.  The pages must be prepared by StikDebug, which  *)
(* may refuse, answer late or not at all, so every request runs on a       *)
(* worker that its caller abandons after a timeout.                        *)
(*                                                                         *)
(*  - worker "jit" runs one call at a time for the application: the        *)
(*    request made at startup, then the probe before each guest launch;    *)
(*    gJitProbeInFlight keeps a second call out;                           *)
(*  - worker "fex" runs BVNFEXBackendProbe (gProbeMutex admits one at a    *)
(*    time), for a launch or for the button of the settings page.          *)
(*                                                                         *)
(* An address is a mapping and an offset in pages; a mapping stands for    *)
(* the r-x pages and their rw- alias.                                      *)
(***************************************************************************)
EXTENDS RangeAllocator

CONSTANTS Mappings,             \* address ranges the kernel can map
          SegmentPages,         \* plan.segmentBytes, in pages
          SegmentCount,         \* plan.segmentCount
          Lengths,              \* block lengths asked for, in pages
          FexLengths,           \* sizes FEX tries for its code segment, in pages
          None

ASSUME ArenaAssumption ==
    /\ SegmentPages \in 1..MaxSize /\ SegmentCount \in Nat \ {0}
    /\ Lengths \subseteq Nat \ {0} /\ FexLengths \subseteq Nat \ {0}
    /\ None \notin Mappings

Workers == {"jit", "fex"}

VARIABLES
    gPrepared, gProbed, gExecutionConfirmed,
    gSegments,          \* sequence of [map, allocator]
    gArenaMutex,        \* the worker that holds it across a request, or None
    gJitProbeInFlight,
    pc,                 \* where each worker is
    ret,                \* the calls it returns to, innermost first
    mine,               \* the mapping it holds in a local variable
    phase,              \* what the application does
    script,             \* StikDebug's universal script answers
    mapped,             \* pages that are mapped
    live,               \* blocks handed out and not yet given back
    tested,             \* the probe's instructions have been called
    settingsUsed        \* history: the settings page has run its FEX probe

arena == <<gPrepared, gProbed, gExecutionConfirmed, gSegments, gArenaMutex>>
app   == <<gJitProbeInFlight, phase, script, settingsUsed>>
vars  == <<arena, app, pc, ret, mine, mapped, live, tested>>

Init ==
    /\ gPrepared = FALSE /\ gProbed = FALSE /\ gExecutionConfirmed = FALSE
    /\ gSegments = << >> /\ gArenaMutex = None
    /\ gJitProbeInFlight = FALSE
    /\ pc = [w \in Workers |-> "idle"]
    /\ ret = [w \in Workers |-> << >>]
    /\ mine = [w \in Workers |-> None]
    /\ phase = "start" /\ script \in BOOLEAN
    /\ mapped = {} /\ live = {} /\ tested = FALSE /\ settingsUsed = FALSE

-----------------------------------------------------------------------------
\* Control of a worker: Goto a label, Call a function that returns to a label.

Goto(w, label) == pc' = [pc EXCEPT ![w] = label] /\ UNCHANGED ret

Call(w, label, back) ==
    /\ pc' = [pc EXCEPT ![w] = label]
    /\ ret' = [ret EXCEPT ![w] = <<back>> \o @]

\* Back to the caller, at the label for its outcome.
Return(w, outcome) ==
    /\ pc' = [pc EXCEPT ![w] = Head(ret[w])[outcome]]
    /\ ret' = [ret EXCEPT ![w] = Tail(@)]

Finishes == [ok |-> "done", failed |-> "done"]

PagesOf(map) == {map} \X (0..(SegmentPages - 1))

PagesOfBlock(b) == {b.map} \X (b.offset..(b.offset + b.length - 1))

\* Where mmap can put a new segment.
Unused == {map \in Mappings : PagesOf(map) \cap mapped = {}}

Segment(map) == [map |-> map, allocator |-> reset(SegmentPages)]

SegmentOf(map) == {i \in DOMAIN gSegments : gSegments[i].map = map}

-----------------------------------------------------------------------------
\* BVNExecMemPrepareArena.

PrepareCheck(w) ==
    /\ pc[w] = "prepare"
    /\ \/ gPrepared /\ Return(w, "ok")
       \/ ~gPrepared /\ Goto(w, "ask")
    /\ UNCHANGED <<arena, app, mine, mapped, live, tested>>

\* allocatePrepared: fresh pages when the script answers; it may always fail,
\* and a request nobody answers is a worker that takes no step here.
AskFirst(w) ==
    /\ pc[w] = "ask"
    /\ \/ \E map \in Unused :
             /\ script
             /\ mapped' = mapped \cup PagesOf(map)
             /\ mine' = [mine EXCEPT ![w] = map]
             /\ Goto(w, "install")
       \/ Return(w, "failed") /\ UNCHANGED <<mapped, mine>>
    /\ UNCHANGED <<arena, app, live, tested>>

\* gSegments is replaced; the mutex stays with the worker for the other requests.
Install(w) ==
    /\ pc[w] = "install" /\ gArenaMutex = None
    /\ gSegments' = <<Segment(mine[w])>>
    /\ gArenaMutex' = w
    /\ Goto(w, "extend")
    /\ UNCHANGED <<gPrepared, gProbed, gExecutionConfirmed, app, mine, mapped, live, tested>>

\* The remaining segments; the first one that is refused ends the loop.
Extend(w) ==
    /\ pc[w] = "extend"
    /\ \/ /\ Len(gSegments) < SegmentCount /\ script
          /\ \E map \in Unused :
                /\ mapped' = mapped \cup PagesOf(map)
                /\ gSegments' = Append(gSegments, Segment(map))
          /\ UNCHANGED <<gArenaMutex, pc, ret>>
       \/ /\ gArenaMutex' = None
          /\ Goto(w, "prepared")
          /\ UNCHANGED <<gSegments, mapped>>
    /\ UNCHANGED <<gPrepared, gProbed, gExecutionConfirmed, app, mine, live, tested>>

SetPrepared(w) ==
    /\ pc[w] = "prepared"
    /\ gPrepared' = TRUE
    /\ Return(w, "ok")
    /\ UNCHANGED <<gProbed, gExecutionConfirmed, gSegments, gArenaMutex, app, mine, mapped, live, tested>>

-----------------------------------------------------------------------------
\* BVNExecMemProbe(allowExecute = true).

\* Fault: the result of an earlier probe is not used.
FaultProbeEveryTime(w) ==
    /\ pc[w] = "probe"
    /\ \/ gPrepared /\ Goto(w, "front")
       \/ ~gPrepared /\ Call(w, "prepare", [ok |-> "front", failed |-> "refused"])
    /\ UNCHANGED <<arena, app, mine, mapped, live, tested>>

ProbeCheck(w) ==
    /\ pc[w] = "probe"
    /\ \/ gProbed /\ Return(w, IF gExecutionConfirmed THEN "ok" ELSE "failed")
       \/ ~gProbed /\ gPrepared /\ Goto(w, "front")
       \/ ~gProbed /\ ~gPrepared
          /\ Call(w, "prepare", [ok |-> "front", failed |-> "refused"])
    /\ UNCHANGED <<arena, app, mine, mapped, live, tested>>

ProbeRefused(w) ==
    /\ pc[w] = "refused"
    /\ gProbed' = TRUE
    /\ Return(w, "failed")
    /\ UNCHANGED <<gPrepared, gExecutionConfirmed, gSegments, gArenaMutex, app, mine, mapped, live, tested>>

\* Under gArenaMutex: the first segment, if there is one.
ProbeFront(w) ==
    /\ pc[w] = "front" /\ gArenaMutex = None
    /\ \/ /\ gSegments = << >>
          /\ gProbed' = TRUE
          /\ Return(w, "failed") /\ UNCHANGED mine
       \/ /\ gSegments # << >>
          /\ mine' = [mine EXCEPT ![w] = gSegments[1].map]
          /\ Goto(w, "write") /\ UNCHANGED gProbed
    /\ UNCHANGED <<gPrepared, gExecutionConfirmed, gSegments, gArenaMutex, app, mapped, live, tested>>

\* Fault: the probe forgets that it has run.
FaultExecuteUnrecorded(w) ==
    /\ pc[w] = "write"
    /\ tested' = TRUE
    /\ Goto(w, "reset") \/ Goto(w, "discard")
    /\ UNCHANGED <<arena, app, mine, mapped, live>>

\* Three instructions at offset 0 of the segment, written and called.
ProbeExecute(w) ==
    /\ pc[w] = "write"
    /\ gProbed' = TRUE /\ tested' = TRUE
    /\ Goto(w, "reset") \/ Goto(w, "discard")
    /\ UNCHANGED <<gPrepared, gExecutionConfirmed, gSegments, gArenaMutex, app, mine, mapped, live>>

\* Fault: the segments are dropped without unmapping them.
FaultDiscardLeaks(w) ==
    /\ pc[w] = "discard" /\ gArenaMutex = None
    /\ gSegments' = << >>
    /\ Goto(w, "unprepare")
    /\ UNCHANGED <<gPrepared, gProbed, gExecutionConfirmed, gArenaMutex, app, mine, mapped, live, tested>>

\* A wrong value: every mapping is given back.
Discard(w) ==
    /\ pc[w] = "discard" /\ gArenaMutex = None
    /\ mapped' = mapped \ UNION {PagesOf(gSegments[i].map) : i \in DOMAIN gSegments}
    /\ gSegments' = << >>
    /\ Goto(w, "unprepare")
    /\ UNCHANGED <<gPrepared, gProbed, gExecutionConfirmed, gArenaMutex, app, mine, live, tested>>

Unprepare(w) ==
    /\ pc[w] = "unprepare"
    /\ gPrepared' = FALSE
    /\ Return(w, "failed")
    /\ UNCHANGED <<gProbed, gExecutionConfirmed, gSegments, gArenaMutex, app, mine, mapped, live, tested>>

\* The right value: the allocators start over.
ResetAllocators(w) ==
    /\ pc[w] = "reset" /\ gArenaMutex = None
    /\ gSegments' = [i \in DOMAIN gSegments |-> Segment(gSegments[i].map)]
    /\ Goto(w, "confirm")
    /\ UNCHANGED <<gPrepared, gProbed, gExecutionConfirmed, gArenaMutex, app, mine, mapped, live, tested>>

Confirm(w) ==
    /\ pc[w] = "confirm"
    /\ gExecutionConfirmed' = TRUE
    /\ Return(w, "ok")
    /\ UNCHANGED <<gPrepared, gProbed, gSegments, gArenaMutex, app, mine, mapped, live, tested>>

-----------------------------------------------------------------------------
\* Blocks: BVNExecMemAlloc and BVNExecMemReleaseIfOwned.

Room(length) ==
    {i \in DOMAIN gSegments : CanAllocate(gSegments[i].allocator, length, 1)}

\* First fit across the segments.
Alloc(owner, length) ==
    /\ gExecutionConfirmed /\ gArenaMutex = None
    /\ \E i \in Room(length) :
          /\ \A j \in Room(length) : i <= j
          /\ live' = live \cup
               {[map |-> gSegments[i].map, length |-> length, owner |-> owner,
                 offset |-> Placed(gSegments[i].allocator, length, 1)]}
          /\ gSegments' = [gSegments EXCEPT ![i].allocator = allocate(@, length, 1)]
    /\ UNCHANGED <<gPrepared, gProbed, gExecutionConfirmed, gArenaMutex>>

\* A guest thread that translates code (Platform::alloc64kBlock); without room
\* the call panics, which ends the process and the behaviour.
GuestAlloc ==
    /\ phase = "running"
    /\ \E length \in Lengths : Alloc("guest", length)
    /\ UNCHANGED <<app, pc, ret, mine, mapped, tested>>

\* Platform::releaseNativeMemory: a block that is in no segment of the arena
\* is unmapped, a slice of the mapping it was carved from.
GuestRelease(block) ==
    /\ block \in live /\ block.owner = "guest" /\ gArenaMutex = None
    /\ live' = live \ {block}
    /\ \/ /\ gSegments' = [i \in DOMAIN gSegments |->
                IF /\ i \in SegmentOf(block.map)
                   /\ CanRelease(gSegments[i].allocator, block.offset, block.length)
                THEN [gSegments[i] EXCEPT !.allocator = release(@, block.offset, block.length)]
                ELSE gSegments[i]]
          /\ SegmentOf(block.map) # {} /\ UNCHANGED mapped
       \/ /\ SegmentOf(block.map) = {}
          /\ mapped' = mapped \ PagesOfBlock(block)
          /\ UNCHANGED gSegments
    /\ UNCHANGED <<gPrepared, gProbed, gExecutionConfirmed, gArenaMutex, app, pc, ret, mine, tested>>

-----------------------------------------------------------------------------
\* preparePool, from BVNFEXBackendProbe.

PoolPrepare(w) ==
    /\ pc[w] = "pool"
    /\ \/ (\E b \in live : b.owner = "fex") /\ Goto(w, "done")
       \/ (\A b \in live : b.owner # "fex") /\ gPrepared /\ Goto(w, "pooled")
       \/ (\A b \in live : b.owner # "fex") /\ ~gPrepared
          /\ Call(w, "prepare", [ok |-> "pooled", failed |-> "done"])
    /\ UNCHANGED <<arena, app, mine, mapped, live, tested>>

PoolProbe(w) ==
    /\ pc[w] = "pooled"
    /\ \/ gExecutionConfirmed /\ Goto(w, "segment")
       \/ ~gExecutionConfirmed /\ Call(w, "probe", [ok |-> "checked", failed |-> "checked"])
    /\ UNCHANGED <<arena, app, mine, mapped, live, tested>>

\* What the probe returned is ignored; the flag is read again.
PoolChecked(w) ==
    /\ pc[w] = "checked"
    /\ Goto(w, IF gExecutionConfirmed THEN "segment" ELSE "done")
    /\ UNCHANGED <<arena, app, mine, mapped, live, tested>>

\* addCodeSegment: the largest size there is room for.  The segment stays with
\* FEX for the life of the process.
AddCodeSegment(w) ==
    /\ pc[w] = "segment"
    /\ \/ \E length \in FexLengths :
             /\ \A longer \in FexLengths : longer > length => Room(longer) = {}
             /\ Alloc("fex", length)
       \/ /\ \A length \in FexLengths : Room(length) = {}
          /\ gArenaMutex = None /\ UNCHANGED <<arena, live>>
    /\ Goto(w, "done")
    /\ UNCHANGED <<app, mine, mapped, tested>>

-----------------------------------------------------------------------------
\* The application.

\* prepareJitArenaWithTimeout, when the process is debugged at startup.
Startup ==
    /\ phase = "start" /\ ~gJitProbeInFlight
    /\ \/ /\ gJitProbeInFlight' = TRUE
          /\ phase' = "waiting"
          /\ Call("jit", "prepare", Finishes)
       \/ /\ phase' = "idle"
          /\ UNCHANGED <<gJitProbeInFlight, pc, ret>>
    /\ UNCHANGED <<arena, script, settingsUsed, mine, mapped, live, tested>>

\* probeJitWithTimeout: refused while a call is in flight.
Launch ==
    /\ phase = "idle" /\ ~gJitProbeInFlight
    /\ gJitProbeInFlight' = TRUE
    /\ phase' = "waiting"
    /\ Call("jit", "probe", [ok |-> "launched", failed |-> "done"])
    /\ UNCHANGED <<arena, script, settingsUsed, mine, mapped, live, tested>>

\* Six seconds pass: the caller goes on, the worker does not stop.
Timeout ==
    /\ phase \in {"waiting", "translating"}
    /\ phase' = "idle"
    /\ UNCHANGED <<arena, gJitProbeInFlight, script, settingsUsed, pc, ret, mine, mapped, live, tested>>

\* The worker's call is over.  A launch that still waits starts its guest, after
\* the FEX probe if the guest is an x86-64 one.  While worker "fex" is busy that
\* guest is refused if an earlier launch's probe is stuck (gFexProbeInFlight),
\* and waits on gProbeMutex behind one of the settings page.
JitDone ==
    /\ pc["jit"] \in {"done", "launched"}
    /\ gJitProbeInFlight' = FALSE
    /\ mine' = [mine EXCEPT !["jit"] = None]
    /\ LET ready == phase = "waiting" /\ pc["jit"] = "launched"
       IN \/ /\ ready /\ pc["fex"] = "idle"
             /\ phase' = "translating"
             /\ pc' = [pc EXCEPT !["jit"] = "idle", !["fex"] = "pool"]
          \/ /\ phase' \in CASE ready             -> {"running"} \cup
                                   {p \in {"idle", "translating"} : pc["fex"] # "idle" /\
                                         (p = "translating" => settingsUsed)}
                             [] ~ready /\ phase = "waiting" -> {"idle"}
                             [] OTHER             -> {phase}
             /\ pc' = [pc EXCEPT !["jit"] = "idle"]
    /\ UNCHANGED <<arena, script, settingsUsed, ret, mapped, live, tested>>

\* runFEXBackendProbe of the settings page, on a queue of its own, whatever the
\* launch queue does: there is a page once startup is over.  It gets gProbeMutex,
\* as does a launch's probe that has waited behind it.
SettingsProbe ==
    /\ phase # "start" /\ pc["fex"] = "idle"
    /\ settingsUsed' = TRUE
    /\ Goto("fex", "pool")
    /\ UNCHANGED <<arena, gJitProbeInFlight, phase, script, mine, mapped, live, tested>>

FexDone ==
    /\ pc["fex"] = "done"
    /\ mine' = [mine EXCEPT !["fex"] = None]
    /\ phase' \in IF phase # "translating" THEN {phase}
                  ELSE {"idle"} \cup {"running" : b \in {c \in live : c.owner = "fex"}}
                                \cup {p \in {phase} : settingsUsed}
    /\ Goto("fex", "idle")
    /\ UNCHANGED <<arena, gJitProbeInFlight, script, settingsUsed, mapped, live, tested>>

SessionEnds ==
    /\ phase = "running"
    /\ phase' = "idle"
    /\ UNCHANGED <<arena, gJitProbeInFlight, script, settingsUsed, pc, ret, mine, mapped, live, tested>>

\* StikDebug is attached, or its script session ends.
ScriptChanges ==
    /\ script' = ~script
    /\ UNCHANGED <<arena, gJitProbeInFlight, phase, settingsUsed, pc, ret, mine, mapped, live, tested>>

-----------------------------------------------------------------------------
ArenaStep(w) ==
    \/ PrepareCheck(w) \/ AskFirst(w) \/ Install(w) \/ Extend(w) \/ SetPrepared(w)
    \/ ProbeCheck(w) \/ ProbeRefused(w) \/ ProbeFront(w) \/ ProbeExecute(w)
    \/ Discard(w) \/ Unprepare(w) \/ ResetAllocators(w) \/ Confirm(w)
    \/ PoolPrepare(w) \/ PoolProbe(w) \/ PoolChecked(w) \/ AddCodeSegment(w)

Next ==
    \/ \E w \in Workers : ArenaStep(w)
    \/ Startup \/ Launch \/ Timeout \/ JitDone \/ SettingsProbe \/ FexDone
    \/ SessionEnds \/ ScriptChanges
    \/ GuestAlloc \/ \E block \in live : GuestRelease(block)

Spec == Init /\ [][Next]_vars

-----------------------------------------------------------------------------
Maps == [i \in DOMAIN gSegments |-> gSegments[i].map]

TypeOK ==
    /\ {gPrepared, gProbed, gExecutionConfirmed, gJitProbeInFlight, script, tested,
        settingsUsed} \subseteq BOOLEAN
    /\ Len(gSegments) <= SegmentCount
    /\ \A i \in DOMAIN gSegments : gSegments[i].map \in Mappings
    /\ gArenaMutex \in Workers \cup {None}
    /\ phase \in {"start", "waiting", "translating", "idle", "running"}
    /\ mine \in [Workers -> Mappings \cup {None}]
    /\ mapped \subseteq UNION {PagesOf(map) : map \in Mappings}
    /\ \A b \in live : PagesOfBlock(b) \subseteq UNION {PagesOf(map) : map \in Mappings}

\* Every block the arena has handed out is mapped, is still recorded by the
\* allocator of its segment with its own length, and shares no page with
\* another one: code is not overwritten by the next translation, it can be
\* written through its alias, and releasing it does not unmap a slice of the
\* arena.
BlocksAreOwned ==
    ~settingsUsed => \A b \in live :
        /\ PagesOfBlock(b) \subseteq mapped
        /\ \E i \in SegmentOf(b.map) : CanRelease(gSegments[i].allocator, b.offset, b.length)
        /\ \A c \in live \ {b} : PagesOfBlock(b) \cap PagesOfBlock(c) = {}

\* The page the probe is about to write and call holds nobody's code:
\* BVNExecMemProbe uses offset 0 of the first segment without asking its
\* allocator.
ProbeMissesLiveCode ==
    ~settingsUsed => \A w \in Workers : pc[w] = "write" =>
        \A b \in live : <<mine[w], 0>> \notin PagesOfBlock(b)

\* The pages StikDebug prepared are those of the segments and of a request
\* that has been answered and not yet recorded: none is lost by a refusal half
\* way, by a probe that fails, or by a worker that is answered late.
NoPagesLost ==
    ~settingsUsed => mapped = UNION {PagesOf(map) : map \in {gSegments[i].map : i \in DOMAIN gSegments}
                                           \cup {mine[w] : w \in {v \in Workers : pc[v] = "install"}}}

\* Once code may run from it the arena keeps its segments: they are neither
\* replaced nor given back for the life of the process.
ArenaRetained == [][gExecutionConfirmed /\ ~settingsUsed => Maps' = Maps]_vars

\* Execution is confirmed only after instructions written into the arena have
\* been called, and then the probe is recorded as done for every later caller,
\* whichever of two concurrent workers got there first.
ConfirmedByExecution == gExecutionConfirmed => tested /\ gProbed
=============================================================================
