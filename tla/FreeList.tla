------------------------------ MODULE FreeList ------------------------------
(***************************************************************************)
(* One BVNRangeAllocator under every sequence of calls: reset, allocate    *)
(* with any length and alignment, release with any offset and length.      *)
(***************************************************************************)
EXTENDS RangeAllocator

CONSTANTS Capacities,
          Requests, Alignments, \* lengths and alignments asked for
          Done, Refused         \* a call that returns true, or false

ASSUME CallAssumption ==
    /\ Capacities \subseteq 0..MaxSize
    /\ Requests \subseteq Nat /\ Alignments \subseteq Nat

VARIABLES allocator,    \* the allocator object
          answer        \* what the last call returned

freeListVars == <<allocator, answer>>

FreeListInit == \E capacity \in Capacities : allocator = reset(capacity) /\ answer = Done

Reset(capacity) == allocator' = reset(capacity) /\ answer' = Done

Allocate(length, alignment) ==
    \/ /\ CanAllocate(allocator, length, alignment)
       /\ answer' = Placed(allocator, length, alignment)
       /\ allocator' = allocate(allocator, length, alignment)
    \/ /\ ~CanAllocate(allocator, length, alignment)
       /\ answer' = Refused
       /\ UNCHANGED allocator

Release(offset, length) ==
    \/ /\ CanRelease(allocator, offset, length)
       /\ answer' = Done
       /\ allocator' = release(allocator, offset, length)
    \/ /\ ~CanRelease(allocator, offset, length)
       /\ answer' = Refused
       /\ UNCHANGED allocator

FreeListNext ==
    \/ \E capacity \in Capacities : Reset(capacity)
    \/ \E length \in Requests, alignment \in Alignments : Allocate(length, alignment)
    \/ \E offset \in 0..allocator.capacity, length \in Requests : Release(offset, length)

FreeListSpec == FreeListInit /\ [][FreeListNext]_freeListVars

-----------------------------------------------------------------------------
Blocks == {Block(o, allocator.allocations[o]) : o \in DOMAIN allocator.allocations}

\* Every range, free or allocated, is non-empty and inside the segment, and
\* available_ is a number of its bytes.
FreeListTypeOK ==
    /\ allocator.capacity \in Capacities
    /\ allocator.available \in 0..allocator.capacity
    /\ \A r \in Blocks \cup ToSet(allocator.freeRanges) :
          /\ r.offset \in 0..allocator.capacity
          /\ r.length \in 1..allocator.capacity
          /\ AfterLast(r) <= allocator.capacity

\* Every byte of the segment is in exactly one range: what allocate and
\* release split and merge neither loses a byte of the arena nor hands one out
\* twice, and available_ counts the bytes on the free list.
Tiled ==
    LET bytes(r) == r.offset..(AfterLast(r) - 1)
        free     == DOMAIN allocator.freeRanges
    IN /\ \A byte \in 0..(allocator.capacity - 1) :
             Cardinality({i \in free : byte \in bytes(allocator.freeRanges[i])})
             + Cardinality({r \in Blocks : byte \in bytes(r)}) = 1
       /\ allocator.available = Cardinality(UNION {bytes(allocator.freeRanges[i]) : i \in free})

\* contains answers for exactly the subranges of one live allocation: the
\* writable alias of a range that spans two of them, or of freed code, is
\* never given out.
ContainsIsExact ==
    \A offset \in 0..allocator.capacity, length \in Requests :
        contains(allocator, offset, length) <=>
            /\ length # 0
            /\ \E b \in Blocks : b.offset <= offset /\ offset + length <= AfterLast(b)

\* The allocator implements the map of blocks: a request is refused only when
\* no aligned place is free anywhere, so that splitting, merging and the
\* ordering of the free list never cost a request its place.
Promise == INSTANCE BlockMap WITH Lengths <- Requests,
                                  size <- allocator.capacity,
                                  blocks <- allocator.allocations
PlacesEveryRequest == Promise!Spec

=============================================================================
