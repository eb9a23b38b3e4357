--------------------------- MODULE RangeAllocator ---------------------------
(***************************************************************************)
(* BVNRangeAllocator: the first-fit allocator inside one segment of the    *)
(* executable arena, as operators on the value of one allocator object:    *)
(* capacity_, available_, the vector freeRanges_ (ordered by offset) and   *)
(* the map allocations_ (offset -> length).                                *)
(***************************************************************************)
EXTENDS Integers, Sequences, FiniteSets, SequencesExt

CONSTANT MaxSize        \* std::numeric_limits<std::size_t>::max()

ASSUME MaxSizeAssumption == MaxSize \in Nat

Block(offset, length) == [offset |-> offset, length |-> length]

AfterLast(block) == block.offset + block.length

\* A block as a sequence: none when it would be empty.
Piece(offset, length) == IF length = 0 THEN << >> ELSE <<Block(offset, length)>>

reset(capacity) == [capacity    |-> capacity,
                    available   |-> capacity,
                    freeRanges  |-> Piece(0, capacity),
                    allocations |-> << >>]

\* Above MaxSize the code reports failure instead of a value.
alignUp(value, alignment) == value + ((-value) % alignment)

Fits(range, length, alignment) ==
    /\ alignment # 0
    /\ alignUp(range.offset, alignment) <= MaxSize
    /\ alignUp(range.offset, alignment) + length <= AfterLast(range)

Candidates(arena, length, alignment) ==
    {i \in DOMAIN arena.freeRanges : Fits(arena.freeRanges[i], length, alignment)}

CanAllocate(arena, length, alignment) ==
    length # 0 /\ Candidates(arena, length, alignment) # {}

FirstFit(arena, length, alignment) ==
    CHOOSE i \in Candidates(arena, length, alignment) :
        \A j \in Candidates(arena, length, alignment) : i <= j

\* The offset an allocation that succeeds returns.
Placed(arena, length, alignment) ==
    alignUp(arena.freeRanges[FirstFit(arena, length, alignment)].offset, alignment)

\* Fault: the gap below an aligned block is forgotten.
FaultAllocateDropsPrefix(arena, length, alignment) ==
    LET i     == FirstFit(arena, length, alignment)
        range == arena.freeRanges[i]
        at    == Placed(arena, length, alignment)
        rest  == Piece(at + length, AfterLast(range) - (at + length))
    IN [arena EXCEPT
          !.freeRanges  = SubSeq(@, 1, i - 1) \o rest \o SubSeq(@, i + 1, Len(@)),
          !.allocations = [o \in DOMAIN @ \cup {at} |-> IF o = at THEN length ELSE @[o]],
          !.available   = @ - length]

\* The range is replaced by what is left of it before and after the block.
allocate(arena, length, alignment) ==
    LET i     == FirstFit(arena, length, alignment)
        range == arena.freeRanges[i]
        at    == Placed(arena, length, alignment)
        rest  == Piece(range.offset, at - range.offset)
                 \o Piece(at + length, AfterLast(range) - (at + length))
    IN [arena EXCEPT
          !.freeRanges  = SubSeq(@, 1, i - 1) \o rest \o SubSeq(@, i + 1, Len(@)),
          !.allocations = [o \in DOMAIN @ \cup {at} |-> IF o = at THEN length ELSE @[o]],
          !.available   = @ - length]

\* Range i is merged with its successor when the two touch.
Joined(ranges, i) ==
    IF /\ i \in 1..(Len(ranges) - 1)
       /\ AfterLast(ranges[i]) = ranges[i + 1].offset
    THEN ReplaceAt(RemoveAt(ranges, i + 1), i,
                   Block(ranges[i].offset, ranges[i].length + ranges[i + 1].length))
    ELSE ranges

\* Fault: a freed range is merged with its predecessor only.
FaultInsertMergesLeft(ranges, range) ==
    LET position == 1 + Cardinality({i \in DOMAIN ranges : ranges[i].offset < range.offset})
    IN Joined(InsertAt(ranges, position, range), position - 1)

insertFreeRange(ranges, range) ==
    LET position == 1 + Cardinality({i \in DOMAIN ranges : ranges[i].offset < range.offset})
        inserted == InsertAt(ranges, position, range)
        left     == Joined(inserted, position - 1)
    IN Joined(left, position - (Len(inserted) - Len(left)))

CanRelease(arena, offset, length) ==
    offset \in DOMAIN arena.allocations /\ arena.allocations[offset] = length

release(arena, offset, length) ==
    [arena EXCEPT
       !.allocations = [o \in DOMAIN @ \ {offset} |-> @[o]],
       !.available   = @ + length,
       !.freeRanges  = insertFreeRange(@, Block(offset, length))]

\* Only the last allocation that starts at or before the offset is looked at.
contains(arena, offset, length) ==
    LET before == {o \in DOMAIN arena.allocations : o <= offset}
        start  == CHOOSE o \in before : \A p \in before : p <= o
    IN /\ length # 0 /\ before # {}
       /\ length <= arena.allocations[start]
       /\ offset - start <= arena.allocations[start] - length
=============================================================================
