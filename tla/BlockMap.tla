------------------------------ MODULE BlockMap ------------------------------
(***************************************************************************)
(* What the range allocator promises, without a free list: a set of        *)
(* disjoint blocks.  A request is placed at the lowest aligned offset that *)
(* is free, and refused only when there is none; a release must name a     *)
(* block exactly.                                                          *)
(***************************************************************************)
EXTENDS Integers

CONSTANTS Capacities, Lengths, Alignments, Done, Refused

VARIABLES size,         \* bytes managed
          blocks,       \* offset -> length of the blocks handed out
          answer        \* what the last call returned

vars == <<size, blocks, answer>>

Free(byte) == \A o \in DOMAIN blocks : byte \notin o..(o + blocks[o] - 1)

Places(length, alignment) ==
    {o \in 0..(size - length) : /\ length # 0 /\ alignment # 0
                                /\ o % alignment = 0
                                /\ \A byte \in o..(o + length - 1) : Free(byte)}

Init == /\ size \in Capacities
        /\ blocks = << >>
        /\ answer = Done

Reset(capacity) == /\ size' = capacity
                   /\ blocks' = << >>
                   /\ answer' = Done

Allocate(length, alignment) ==
    /\ UNCHANGED size
    /\ \/ /\ Places(length, alignment) = {}
          /\ answer' = Refused /\ UNCHANGED blocks
       \/ \E at \in Places(length, alignment) :
             /\ \A o \in Places(length, alignment) : at <= o
             /\ answer' = at
             /\ blocks' = [o \in DOMAIN blocks \cup {at} |->
                              IF o = at THEN length ELSE blocks[o]]

Release(offset, length) ==
    /\ UNCHANGED size
    /\ \/ /\ offset \in DOMAIN blocks /\ blocks[offset] = length
          /\ blocks' = [o \in DOMAIN blocks \ {offset} |-> blocks[o]]
          /\ answer' = Done
       \/ /\ offset \notin DOMAIN blocks \/ blocks[offset] # length
          /\ answer' = Refused /\ UNCHANGED blocks

Next == \/ \E capacity \in Capacities : Reset(capacity)
        \/ \E length \in Lengths, alignment \in Alignments : Allocate(length, alignment)
        \/ \E offset \in 0..size, length \in Lengths : Release(offset, length)

Spec == Init /\ [][Next]_vars
=============================================================================
