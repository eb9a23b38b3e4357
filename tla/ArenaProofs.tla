----------------------------- MODULE ArenaProofs -----------------------------
(***************************************************************************)
(* Proofs about the executable arena.                                      *)
(*                                                                         *)
(* RangeAllocator: what every operation preserves, for a segment of any    *)
(* size (AllocatorInv): the free list is ordered with a gap between any    *)
(* two ranges, free ranges and blocks partition the bytes, available_      *)
(* counts the free ones.  A list operation is described by the elements of *)
(* its result (splice, insert, join), then by the bytes its ranges hold.   *)
(*                                                                         *)
(* FreeList: the ranges tile the segment, contains is exact, and the       *)
(* allocator implements BlockMap.                                          *)
(*                                                                         *)
(* JitArena, for any number of mappings, segments and pages.  The          *)
(* invariant has four parts.  CtlInv: the call stacks of the workers.      *)
(* AppInv: which worker may be where; without the settings page the second *)
(* one enters the arena after execution has been confirmed, and from then  *)
(* on the first one changes it no more.  SegInv: every segment's allocator *)
(* satisfies AllocatorInv.  PlaceInv: segments are distinct mappings, the  *)
(* mapped pages are theirs, and every block is recorded by the segment of  *)
(* its mapping.                                                            *)
(***************************************************************************)
EXTENDS FreeList, JitArena, FiniteSetTheorems, WellFoundedInduction, TLAPS

\* A non-empty set of naturals has a least element.
LEMMA LeastElement ==
    ASSUME NEW S \in SUBSET Nat, S # {}
    PROVE  \E m \in S : \A k \in S : m <= k
<1> DEFINE R == OpToRel(<, Nat)
<1>1. IsWellFoundedOn(R, Nat)
    BY NatLessThanWellFounded
<1>2. \A x, y \in Nat : y < x => <<y, x>> \in R
    BY DEF OpToRel
<1> HIDE DEF R
<1>3. PICK m \in S : \A k \in S : ~(<<k, m>> \in R)
    BY <1>1, WFMin
<1>4. ASSUME NEW k \in S PROVE m <= k
  <2>1. k \in Nat /\ m \in Nat
      OBVIOUS
  <2>2. ~(k < m)
      BY <2>1, <1>2, <1>3, Zenon
  <2> QED BY <2>1, <2>2
<1> QED BY <1>4

\* A set of indices that is closed downwards is an interval.
LEMMA InitialSegment ==
    ASSUME NEW n \in Nat, NEW S \in SUBSET (1..n),
           \A i, j \in 1..n : j \in S /\ i <= j => i \in S
    PROVE  Cardinality(S) \in 0..n /\ S = 1..Cardinality(S)
<1> DEFINE T == (1..(n + 1)) \ S
<1>1. T \in SUBSET Nat /\ n + 1 \in T
    OBVIOUS
<1>2. PICK m \in T : \A k \in T : m <= k
    BY <1>1, LeastElement
<1>3. m \in 1..(n + 1) /\ m \notin S
    OBVIOUS
<1>5. ASSUME NEW i \in 1..n PROVE i \in S <=> i <= m - 1
  <2>1. CASE i < m
      BY <2>1, <1>2, <1>3
  <2>2. CASE ~(i < m)
    <3>1. m \in 1..n
        BY <2>2, <1>3
    <3> QED BY <3>1, <2>2, <1>3
  <2> QED BY <2>1, <2>2, <1>3
<1>6. S = 1..(m - 1)
  <2>1. ASSUME NEW i \in S PROVE i \in 1..(m - 1)
      BY <1>3, <1>5
  <2>2. ASSUME NEW i \in 1..(m - 1) PROVE i \in S
      BY <1>3, <1>5
  <2> QED BY <2>1, <2>2
<1>4. Cardinality(1..(m - 1)) = m - 1
    BY <1>3, FS_Interval
<1> QED BY <1>3, <1>4, <1>6

\* A multiple of an alignment is its remainder class 0.
LEMMA Multiple ==
    ASSUME NEW q \in Int, NEW a \in Nat \ {0}
    PROVE  (a * q) % a = 0
OBVIOUS

\* alignUp rounds up to the next multiple.
LEMMA AlignUp ==
    ASSUME NEW v \in Nat, NEW a \in Nat \ {0}
    PROVE  /\ alignUp(v, a) \in Nat /\ v <= alignUp(v, a)
           /\ alignUp(v, a) % a = 0
           /\ \A o \in Nat : v <= o /\ o % a = 0 => alignUp(v, a) <= o
<1> DEFINE m == (-v) % a
           q == (-v) \div a
<1>1. m \in 0..(a - 1) /\ q \in Int
    OBVIOUS
<1>2. -v = a * q + m
    OBVIOUS
<1>3. alignUp(v, a) = v + m
    BY DEF alignUp
<1>4. v + m = a * (-q)
    BY <1>1, <1>2
<1>5. (a * (-q)) % a = 0
  <2>1. -q \in Int
      BY <1>1
  <2> QED BY <2>1, Multiple
<1>6. ASSUME NEW o \in Nat, v <= o, o % a = 0, o < v + m PROVE FALSE
  <2> DEFINE p == o \div a
  <2>1. p \in Int /\ o = a * p
      BY <1>6
  <2>2. a * p < a * (-q)
      BY <2>1, <1>4, <1>6
  <2> HIDE DEF p, q, m
  <2>3. a * p <= a * (-q) - a
      BY <2>1, <2>2, <1>1
  <2>4. o <= v + m - a
      BY <2>1, <2>3, <1>1, <1>4
  <2> QED BY <2>4, <1>1, <1>6
<1> HIDE DEF m, q
<1> QED BY <1>1, <1>3, <1>4, <1>5, <1>6

-----------------------------------------------------------------------------
Ranges == [offset : Nat, length : Nat]

Ordered(F) == \A i, j \in 1..Len(F) : i < j => AfterLast(F[i]) < F[j].offset

Splice(F, lo, hi, mid) == SubSeq(F, 1, lo - 1) \o mid \o SubSeq(F, hi + 1, Len(F))

\* The elements of a concatenation.
LEMMA ConcatElements ==
    ASSUME NEW R, NEW S \in Seq(R), NEW T \in Seq(R)
    PROVE  /\ S \o T \in Seq(R) /\ Len(S \o T) = Len(S) + Len(T)
           /\ \A k \in 1..Len(S) : (S \o T)[k] = S[k]
           /\ \A k \in (Len(S) + 1)..(Len(S) + Len(T)) : (S \o T)[k] = T[k - Len(S)]
OBVIOUS

\* Length and elements of a sequence in which the elements lo..hi were replaced
\* by mid, as allocate does with the range it takes.
LEMMA SpliceElements ==
    ASSUME NEW R, NEW F \in Seq(R), NEW mid \in Seq(R),
           NEW lo \in 1..(Len(F) + 1), NEW hi \in (lo - 1)..Len(F)
    PROVE  LET G == Splice(F, lo, hi, mid)
           IN /\ G \in Seq(R)
              /\ Len(G) = lo - 1 + Len(mid) + Len(F) - hi
              /\ \A k \in 1..(lo - 1) : G[k] = F[k]
              /\ \A k \in lo..(lo - 1 + Len(mid)) : G[k] = mid[k - lo + 1]
              /\ \A k \in (lo + Len(mid))..Len(G) : G[k] = F[k - lo + 1 - Len(mid) + hi]
<1> DEFINE A == SubSeq(F, 1, lo - 1)
           B == SubSeq(F, hi + 1, Len(F))
           C == A \o mid
           G == C \o B
<1>0. Len(F) \in Nat /\ Len(mid) \in Nat
    OBVIOUS
<1>1. A \in Seq(R) /\ Len(A) = lo - 1 /\ \A k \in 1..(lo - 1) : A[k] = F[k]
    OBVIOUS
<1>2. B \in Seq(R) /\ Len(B) = Len(F) - hi /\ \A k \in 1..(Len(F) - hi) : B[k] = F[k + hi]
    OBVIOUS
<1>3. Splice(F, lo, hi, mid) = G
    BY DEF Splice
<1> HIDE DEF A, B
<1>4. /\ C \in Seq(R) /\ Len(C) = lo - 1 + Len(mid)
      /\ \A k \in 1..(lo - 1) : C[k] = F[k]
      /\ \A k \in lo..(lo - 1 + Len(mid)) : C[k] = mid[k - lo + 1]
  <2>1. A \in Seq(R)
      BY <1>1
  <2>2. /\ C \in Seq(R) /\ Len(C) = Len(A) + Len(mid)
        /\ \A k \in 1..Len(A) : C[k] = A[k]
        /\ \A k \in (Len(A) + 1)..(Len(A) + Len(mid)) : C[k] = mid[k - Len(A)]
      BY <2>1, ConcatElements, Zenon
  <2> HIDE DEF C
  <2>3. \A k \in lo..(lo - 1 + Len(mid)) : C[k] = mid[k - lo + 1]
    <3> TAKE k \in lo..(lo - 1 + Len(mid))
    <3>1. k - Len(A) = k - lo + 1 /\ k \in (Len(A) + 1)..(Len(A) + Len(mid))
        BY <1>0, <1>1
    <3> QED BY <2>2, <3>1
  <2> QED BY <1>0, <1>1, <2>2, <2>3
<1> HIDE DEF C
<1>5. /\ G \in Seq(R) /\ Len(G) = Len(C) + Len(B)
      /\ \A k \in 1..Len(C) : G[k] = C[k]
      /\ \A k \in (Len(C) + 1)..(Len(C) + Len(B)) : G[k] = B[k - Len(C)]
  <2>1. B \in Seq(R) /\ C \in Seq(R)
      BY <1>2, <1>4
  <2> QED BY <2>1, ConcatElements, Zenon
<1> HIDE DEF G
<1>6. Len(G) = lo - 1 + Len(mid) + Len(F) - hi
    BY <1>0, <1>2, <1>4, <1>5
<1>7. \A k \in 1..(lo - 1) : G[k] = F[k]
    BY <1>0, <1>4, <1>5
<1>8. \A k \in lo..(lo - 1 + Len(mid)) : G[k] = mid[k - lo + 1]
    BY <1>0, <1>4, <1>5
<1>9. ASSUME NEW k \in (lo + Len(mid))..Len(G)
      PROVE  G[k] = F[k - lo + 1 - Len(mid) + hi]
  <2>1. k - Len(C) \in 1..(Len(F) - hi) /\ k - Len(C) + hi = k - lo + 1 - Len(mid) + hi
      BY <1>0, <1>4, <1>6
  <2>2. G[k] = B[k - Len(C)]
      BY <1>0, <1>2, <1>4, <1>5
  <2> QED BY <1>2, <2>1, <2>2
<1> QED BY <1>3, <1>5, <1>6, <1>7, <1>8, <1>9

\* A splice that fits between its neighbours keeps the order.
LEMMA SpliceOrdered ==
    ASSUME NEW F \in Seq(Ranges), NEW mid \in Seq(Ranges), Ordered(F), Ordered(mid),
           NEW lo \in 1..(Len(F) + 1), NEW hi \in (lo - 1)..Len(F),
           \A i \in 1..(lo - 1), j \in 1..Len(mid) : AfterLast(F[i]) < mid[j].offset,
           \A i \in 1..Len(mid), j \in (hi + 1)..Len(F) : AfterLast(mid[i]) < F[j].offset
    PROVE  Ordered(Splice(F, lo, hi, mid))
<1> DEFINE G == Splice(F, lo, hi, mid)
<1>1. /\ Len(G) = lo - 1 + Len(mid) + Len(F) - hi
      /\ \A k \in 1..(lo - 1) : G[k] = F[k]
      /\ \A k \in lo..(lo - 1 + Len(mid)) : G[k] = mid[k - lo + 1]
      /\ \A k \in (lo + Len(mid))..Len(G) : G[k] = F[k - lo + 1 - Len(mid) + hi]
    BY SpliceElements
<1> HIDE DEF G
<1> SUFFICES ASSUME NEW i \in 1..Len(G), NEW j \in 1..Len(G), i < j
             PROVE  AfterLast(G[i]) < G[j].offset
    BY DEF Ordered, G
<1>0. Len(F) \in Nat /\ Len(mid) \in Nat /\ Len(G) \in Nat
    BY <1>1
<1>2. CASE j <= lo - 1
  <2>1. G[i] = F[i] /\ G[j] = F[j] /\ i \in 1..Len(F) /\ j \in 1..Len(F)
      BY <1>0, <1>1, <1>2
  <2> QED BY <2>1 DEF Ordered
<1>3. CASE i <= lo - 1 /\ lo <= j /\ j <= lo - 1 + Len(mid)
  <2>1. G[i] = F[i] /\ G[j] = mid[j - lo + 1] /\ j - lo + 1 \in 1..Len(mid)
      BY <1>0, <1>1, <1>3
  <2>2. i \in 1..(lo - 1)
      BY <1>3
  <2> QED BY <2>1, <2>2
<1>4. CASE i <= lo - 1 /\ lo + Len(mid) <= j
  <2> DEFINE k == j - lo + 1 - Len(mid) + hi
  <2>1. G[i] = F[i] /\ G[j] = F[k] /\ k \in 1..Len(F) /\ i < k /\ i \in 1..Len(F)
      BY <1>0, <1>1, <1>4
  <2> HIDE DEF k
  <2> QED BY <2>1 DEF Ordered
<1>5. CASE lo <= i /\ j <= lo - 1 + Len(mid)
  <2>1. /\ G[i] = mid[i - lo + 1] /\ i - lo + 1 \in 1..Len(mid)
        /\ G[j] = mid[j - lo + 1] /\ j - lo + 1 \in 1..Len(mid)
        /\ i - lo + 1 < j - lo + 1
      BY <1>0, <1>1, <1>5
  <2> QED BY <2>1 DEF Ordered
<1>6. CASE lo <= i /\ i <= lo - 1 + Len(mid) /\ lo + Len(mid) <= j
  <2> DEFINE k == j - lo + 1 - Len(mid) + hi
  <2>1. /\ G[i] = mid[i - lo + 1] /\ i - lo + 1 \in 1..Len(mid)
        /\ G[j] = F[k] /\ k \in (hi + 1)..Len(F)
      BY <1>0, <1>1, <1>6
  <2> HIDE DEF k
  <2> QED BY <2>1
<1>7. CASE lo + Len(mid) <= i
  <2> DEFINE h == i - lo + 1 - Len(mid) + hi
             k == j - lo + 1 - Len(mid) + hi
  <2>1. G[i] = F[h] /\ G[j] = F[k] /\ h \in 1..Len(F) /\ k \in 1..Len(F) /\ h < k
      BY <1>0, <1>1, <1>7
  <2> HIDE DEF h, k
  <2> QED BY <2>1 DEF Ordered
<1> QED BY <1>0, <1>2, <1>3, <1>4, <1>5, <1>6, <1>7

\* What is in a spliced sequence.
LEMMA SpliceSet ==
    ASSUME NEW F \in Seq(Ranges), NEW mid \in Seq(Ranges),
           NEW lo \in 1..(Len(F) + 1), NEW hi \in (lo - 1)..Len(F)
    PROVE  ToSet(Splice(F, lo, hi, mid)) =
             {F[i] : i \in (1..Len(F)) \ (lo..hi)} \cup {mid[i] : i \in 1..Len(mid)}
<1> DEFINE G == Splice(F, lo, hi, mid)
<1>8. G \in Seq(Ranges)
    BY SpliceElements
<1>1. /\ Len(G) = lo - 1 + Len(mid) + Len(F) - hi
      /\ \A k \in 1..(lo - 1) : G[k] = F[k]
      /\ \A k \in lo..(lo - 1 + Len(mid)) : G[k] = mid[k - lo + 1]
      /\ \A k \in (lo + Len(mid))..Len(G) : G[k] = F[k - lo + 1 - Len(mid) + hi]
    BY SpliceElements
<1>7. DOMAIN G = 1..Len(G)
    BY <1>8
<1>0. ToSet(G) = {G[i] : i \in 1..Len(G)}
    BY <1>7 DEF ToSet
<1> HIDE DEF G
<1>2. Len(F) \in Nat /\ Len(mid) \in Nat /\ Len(G) \in Nat
    BY <1>8
<1>3. ASSUME NEW k \in 1..Len(G)
      PROVE  \/ \E i \in (1..Len(F)) \ (lo..hi) : G[k] = F[i]
             \/ \E i \in 1..Len(mid) : G[k] = mid[i]
  <2>1. CASE k <= lo - 1
    <3>1. k \in (1..Len(F)) \ (lo..hi) /\ G[k] = F[k]
        BY <1>1, <1>2, <2>1
    <3> QED BY <3>1
  <2>2. CASE lo <= k /\ k <= lo - 1 + Len(mid)
    <3>1. k - lo + 1 \in 1..Len(mid) /\ G[k] = mid[k - lo + 1]
        BY <1>1, <1>2, <2>2
    <3> QED BY <3>1
  <2>3. CASE lo + Len(mid) <= k
    <3> DEFINE i == k - lo + 1 - Len(mid) + hi
    <3>1. i \in 1..Len(F) /\ ~(i <= hi)
        BY <1>1, <1>2, <2>3
    <3>2. k \in (lo + Len(mid))..Len(G)
        BY <1>2, <2>3
    <3>3. G[k] = F[i]
        BY <1>1, <3>2
    <3> QED BY <3>1, <3>3
  <2> QED BY <1>2, <2>1, <2>2, <2>3
<1>4. ASSUME NEW i \in (1..Len(F)) \ (lo..hi) PROVE \E k \in 1..Len(G) : G[k] = F[i]
  <2>1. CASE i <= lo - 1
    <3>1. i \in 1..Len(G) /\ G[i] = F[i]
        BY <1>1, <1>2, <2>1
    <3> QED BY <3>1
  <2>2. CASE hi < i
    <3> DEFINE k == i + lo - 1 + Len(mid) - hi
    <3>1. k \in (lo + Len(mid))..Len(G) /\ k - lo + 1 - Len(mid) + hi = i
        BY <1>1, <1>2, <2>2
    <3>2. G[k] = F[i] /\ k \in 1..Len(G)
        BY <1>1, <1>2, <3>1
    <3> QED BY <3>2
  <2> QED BY <1>2, <2>1, <2>2
<1>5. ASSUME NEW i \in 1..Len(mid) PROVE \E k \in 1..Len(G) : G[k] = mid[i]
  <2> DEFINE k == i + lo - 1
  <2>1. k \in lo..(lo - 1 + Len(mid)) /\ k - lo + 1 = i /\ k \in 1..Len(G)
      BY <1>1, <1>2
  <2>2. G[k] = mid[i]
      BY <1>1, <2>1
  <2> QED BY <2>1, <2>2
<1>6. {G[i] : i \in 1..Len(G)} =
        {F[i] : i \in (1..Len(F)) \ (lo..hi)} \cup {mid[i] : i \in 1..Len(mid)}
  <2> DEFINE old == {F[i] : i \in (1..Len(F)) \ (lo..hi)}
             new == {mid[i] : i \in 1..Len(mid)}
  <2>1. ASSUME NEW k \in 1..Len(G) PROVE G[k] \in old \cup new
      BY <1>3
  <2>2. ASSUME NEW i \in (1..Len(F)) \ (lo..hi) PROVE F[i] \in {G[k] : k \in 1..Len(G)}
      BY <1>4
  <2>3. ASSUME NEW i \in 1..Len(mid) PROVE mid[i] \in {G[k] : k \in 1..Len(G)}
      BY <1>5
  <2>4. old \subseteq {G[k] : k \in 1..Len(G)}
      BY <2>2
  <2>5. new \subseteq {G[k] : k \in 1..Len(G)}
      BY <2>3
  <2>6. {G[k] : k \in 1..Len(G)} \subseteq old \cup new
      BY <2>1
  <2> QED BY <2>4, <2>5, <2>6
<1> QED BY <1>0, <1>6 DEF G

-----------------------------------------------------------------------------
In(byte, r) == r.offset <= byte /\ byte < AfterLast(r)

\* A byte is on the free list.
InSome(byte, F) == \E k \in 1..Len(F) : In(byte, F[k])

Positive(F) == \A k \in 1..Len(F) : F[k].length > 0

\* The order of a list in the middle of an insertion: neighbours may touch.
Weak(F) == \A i, j \in 1..Len(F) : i < j => AfterLast(F[i]) <= F[j].offset

Gap(F, k) == k \in 1..(Len(F) - 1) => AfterLast(F[k]) < F[k + 1].offset

\* A range has natural bounds.
LEMMA RangeTypes ==
    ASSUME NEW r \in Ranges
    PROVE  /\ r.offset \in Nat /\ r.length \in Nat /\ AfterLast(r) \in Nat
           /\ AfterLast(r) = r.offset + r.length
BY DEF Ranges, AfterLast

\* The range that two touching ones are merged into.
LEMMA Merged ==
    ASSUME NEW r \in Ranges, NEW s \in Ranges, AfterLast(r) = s.offset, r.length > 0
    PROVE  LET m == Block(r.offset, r.length + s.length)
           IN m \in Ranges /\ m.offset = r.offset /\ AfterLast(m) = AfterLast(s) /\ m.length > 0
<1>1. \A x, y, z \in Nat : x > 0 => (y + x) + z = y + (x + z) /\ x + z \in Nat /\ x + z > 0
    OBVIOUS
<1>2. /\ r.offset \in Nat /\ r.length \in Nat /\ s.length \in Nat
      /\ r.offset + r.length = s.offset
    BY RangeTypes
<1> DEFINE m == Block(r.offset, r.length + s.length)
<1>3. r.length + s.length \in Nat /\ r.length + s.length > 0
    BY <1>1, <1>2, Zenon
<1>4. m \in Ranges /\ m.offset = r.offset /\ m.length = r.length + s.length
    BY <1>2, <1>3 DEF Block, Ranges
<1>5. AfterLast(m) = (r.offset + r.length) + s.length
  <2>1. (r.offset + r.length) + s.length = r.offset + (r.length + s.length)
      BY <1>1, <1>2, Zenon
  <2>2. AfterLast(m) = m.offset + m.length
      BY DEF AfterLast
  <2> HIDE DEF m
  <2> QED BY <1>4, <2>1, <2>2, Zenon
<1>6. AfterLast(s) = s.offset + s.length
    BY DEF AfterLast
<1> HIDE DEF m
<1>7. m \in Ranges /\ m.offset = r.offset /\ AfterLast(m) = AfterLast(s) /\ m.length > 0
    BY <1>2, <1>3, <1>4, <1>5, <1>6, Zenon
<1> QED BY <1>7 DEF m

\* The bytes of a range that covers two adjacent ones.
LEMMA Adjacent ==
    ASSUME NEW r \in Ranges, NEW s \in Ranges, NEW m \in Ranges, NEW byte \in Nat,
           AfterLast(r) = s.offset, m.offset = r.offset, AfterLast(m) = AfterLast(s)
    PROVE  In(byte, m) <=> In(byte, r) \/ In(byte, s)
<1>1. /\ r.offset \in Nat /\ r.length \in Nat /\ s.offset \in Nat /\ s.length \in Nat
      /\ AfterLast(r) = r.offset + r.length /\ AfterLast(s) = s.offset + s.length
    BY RangeTypes
<1>2. r.offset <= s.offset /\ s.offset <= AfterLast(s) /\ AfterLast(s) \in Nat
  <2>1. \A x, y \in Nat : x <= x + y /\ x + y \in Nat
      OBVIOUS
  <2>2. r.offset <= AfterLast(r) /\ s.offset <= AfterLast(s) /\ AfterLast(s) \in Nat
      BY <1>1, <2>1, Zenon
  <2> QED BY <2>2, Zenon
<1>3. \A a, b, c \in Nat : a <= b /\ b <= c =>
        (a <= byte /\ byte < c <=> (a <= byte /\ byte < b) \/ (b <= byte /\ byte < c))
    OBVIOUS
<1>4. r.offset <= byte /\ byte < AfterLast(s) <=>
        \/ r.offset <= byte /\ byte < s.offset
        \/ s.offset <= byte /\ byte < AfterLast(s)
    BY <1>1, <1>2, <1>3, Zenon
<1> QED BY <1>4, Zenon DEF In

\* A list in which each range ends before the next one starts is ordered.
LEMMA GapsMakeOrder ==
    ASSUME NEW F \in Seq(Ranges), Positive(F), Weak(F),
           \A k \in 1..(Len(F) - 1) : Gap(F, k)
    PROVE  Ordered(F)
<1> SUFFICES ASSUME NEW i \in 1..Len(F), NEW j \in 1..Len(F), i < j
             PROVE  AfterLast(F[i]) < F[j].offset
    BY DEF Ordered
<1>1. Len(F) \in Nat /\ F[i] \in Ranges /\ F[j] \in Ranges
    OBVIOUS
<1>2. i + 1 \in 1..Len(F) /\ F[i + 1] \in Ranges /\ AfterLast(F[i]) < F[i + 1].offset
    BY <1>1 DEF Gap
<1>3. CASE j = i + 1
    BY <1>2, <1>3
<1>4. CASE i + 1 < j
  <2>1. AfterLast(F[i + 1]) <= F[j].offset /\ F[i + 1].length > 0
      BY <1>1, <1>2, <1>4 DEF Weak, Positive
  <2>2. /\ F[i + 1].offset \in Nat /\ F[i + 1].length \in Nat /\ F[j].offset \in Nat
        /\ AfterLast(F[i]) \in Nat
        /\ AfterLast(F[i + 1]) = F[i + 1].offset + F[i + 1].length
      BY <1>1, <1>2, RangeTypes
  <2> QED BY <1>2, <2>1, <2>2
<1> QED BY <1>1, <1>3, <1>4

\* Two ranges that touch become one.
LEMMA JoinedElements ==
    ASSUME NEW I \in Seq(Ranges), NEW i \in 1..(Len(I) - 1),
           AfterLast(I[i]) = I[i + 1].offset
    PROVE  LET J == Joined(I, i)
               m == Block(I[i].offset, I[i].length + I[i + 1].length)
           IN /\ J \in Seq(Ranges) /\ Len(J) = Len(I) - 1 /\ m \in Ranges
              /\ J[i] = m
              /\ \A k \in 1..(i - 1) : J[k] = I[k]
              /\ \A k \in (i + 1)..(Len(I) - 1) : J[k] = I[k + 1]
<1> DEFINE J == Joined(I, i)
           m == Block(I[i].offset, I[i].length + I[i + 1].length)
           A == SubSeq(I, 1, (i + 1) - 1)
           B == SubSeq(I, (i + 1) + 1, Len(I))
           S == A \o B
<1>0. Len(I) \in Nat
    OBVIOUS
<1>1. I[i] \in Ranges /\ I[i + 1] \in Ranges
    BY <1>0
<1>2. m \in Ranges
  <2>1. /\ I[i].offset \in Nat /\ I[i].length \in Nat /\ I[i + 1].length \in Nat
      BY <1>1, RangeTypes
  <2>2. I[i].length + I[i + 1].length \in Nat
      BY <2>1
  <2> QED BY <2>1, <2>2 DEF Block, Ranges
<1>3. A \in Seq(Ranges) /\ Len(A) = i /\ \A k \in 1..i : A[k] = I[k]
    BY <1>0
<1>4. /\ B \in Seq(Ranges) /\ Len(B) = Len(I) - i - 1
      /\ \A k \in 1..(Len(I) - i - 1) : B[k] = I[k + i + 1]
    BY <1>0
<1>5. J = [S EXCEPT ![i] = m]
    BY DEF Joined, ReplaceAt, RemoveAt
<1> HIDE DEF A, B, J, m
<1>9. /\ S \in Seq(Ranges) /\ Len(S) = Len(A) + Len(B)
      /\ \A k \in 1..Len(A) : S[k] = A[k]
      /\ \A k \in (Len(A) + 1)..(Len(A) + Len(B)) : S[k] = B[k - Len(A)]
  <2>1. A \in Seq(Ranges) /\ B \in Seq(Ranges)
      BY <1>3, <1>4
  <2> QED BY <2>1, ConcatElements, Zenon
<1> HIDE DEF S
<1>10. Len(S) = Len(I) - 1 /\ \A k \in 1..i : S[k] = I[k]
    BY <1>0, <1>3, <1>4, <1>9
<1>11. ASSUME NEW k \in (i + 1)..(Len(I) - 1) PROVE S[k] = I[k + 1]
  <2>1. k - Len(A) \in 1..(Len(I) - i - 1) /\ (k - Len(A)) + i + 1 = k + 1
      BY <1>0, <1>3
  <2>2. S[k] = B[k - Len(A)]
      BY <1>0, <1>3, <1>4, <1>9
  <2> QED BY <1>4, <2>1, <2>2
<1>6. J \in Seq(Ranges) /\ Len(J) = Len(S) /\ J[i] = m /\ \A k \in 1..Len(S) : k # i => J[k] = S[k]
    BY <1>0, <1>2, <1>5, <1>9, <1>10
<1>7. \A k \in 1..(i - 1) : J[k] = I[k]
    BY <1>0, <1>6, <1>10
<1>8. \A k \in (i + 1)..(Len(I) - 1) : J[k] = I[k + 1]
    BY <1>0, <1>6, <1>10, <1>11
<1> QED BY <1>0, <1>2, <1>6, <1>7, <1>8, <1>10 DEF J, m

\* One merge of insertFreeRange: at most one gap is left to look at, and the
\* bytes on the list are the same.
LEMMA JoinedKeeps ==
    ASSUME NEW I \in Seq(Ranges), Positive(I), Weak(I), NEW i \in Nat,
           \A k \in 1..(Len(I) - 1) : k \notin {i, i + 1} => Gap(I, k)
    PROVE  LET J == Joined(I, i)
               q == i + 1 - (Len(I) - Len(J))
           IN /\ J \in Seq(Ranges) /\ Positive(J) /\ Weak(J) /\ q \in Nat
              /\ \A k \in 1..(Len(J) - 1) : k # q => Gap(J, k)
              /\ Gap(I, i + 1) => \A k \in 1..(Len(J) - 1) : Gap(J, k)
              /\ \A byte \in Nat : InSome(byte, J) <=> InSome(byte, I)
<1> DEFINE J == Joined(I, i)
           q == i + 1 - (Len(I) - Len(J))
<1>0. Len(I) \in Nat
    OBVIOUS
<1>1. CASE ~(i \in 1..(Len(I) - 1) /\ AfterLast(I[i]) = I[i + 1].offset)
  <2>1. J = I /\ q = i + 1
      BY <1>0, <1>1 DEF Joined
  <2>2. Gap(I, i)
    <3> SUFFICES ASSUME i \in 1..(Len(I) - 1) PROVE AfterLast(I[i]) < I[i + 1].offset
        BY DEF Gap
    <3>1. /\ i \in 1..Len(I) /\ i + 1 \in 1..Len(I) /\ i < i + 1
          /\ I[i] \in Ranges /\ I[i + 1] \in Ranges
        BY <1>0
    <3>2. AfterLast(I[i]) <= I[i + 1].offset /\ AfterLast(I[i]) # I[i + 1].offset
        BY <1>1, <3>1 DEF Weak
    <3>3. AfterLast(I[i]) \in Nat /\ I[i + 1].offset \in Nat
        BY <3>1, RangeTypes
    <3> QED BY <3>2, <3>3
  <2>3. \A k \in 1..(Len(I) - 1) : k # i + 1 => Gap(I, k)
      BY <2>2
  <2> HIDE DEF J
  <2> QED BY <2>1, <2>3 DEF J
<1>2. CASE i \in 1..(Len(I) - 1) /\ AfterLast(I[i]) = I[i + 1].offset
  <2> DEFINE m == Block(I[i].offset, I[i].length + I[i + 1].length)
  <2>1. /\ J \in Seq(Ranges) /\ Len(J) = Len(I) - 1 /\ m \in Ranges
        /\ J[i] = m
        /\ \A k \in 1..(i - 1) : J[k] = I[k]
        /\ \A k \in (i + 1)..(Len(I) - 1) : J[k] = I[k + 1]
      BY <1>2, JoinedElements
  <2>2. I[i] \in Ranges /\ I[i + 1] \in Ranges /\ i \in 1..Len(I) /\ i + 1 \in 1..Len(I)
      BY <1>0, <1>2
  <2>3. I[i].length > 0 /\ I[i + 1].length > 0
      BY <2>2 DEF Positive
  <2>4. m.offset = I[i].offset /\ AfterLast(m) = AfterLast(I[i + 1]) /\ m.length > 0
      BY <1>2, <2>2, <2>3, Merged
  <2>5. q = i
      BY <1>0, <2>1
  <2> HIDE DEF J, m, q
  <2>6. Positive(J)
    <3> SUFFICES ASSUME NEW k \in 1..Len(J) PROVE J[k].length > 0
        BY DEF Positive
    <3>1. CASE k < i
        BY <1>0, <2>1, <2>2, <3>1 DEF Positive
    <3>2. CASE k = i
        BY <2>1, <2>4, <3>2
    <3>3. CASE k > i
      <4>1. J[k] = I[k + 1] /\ k + 1 \in 1..Len(I)
          BY <1>0, <2>1, <2>2, <3>3
      <4> QED BY <4>1 DEF Positive
    <3> QED BY <1>0, <2>1, <3>1, <3>2, <3>3
  \* where an element of J comes from
  <2>7. ASSUME NEW k \in 1..Len(J)
        PROVE  \E a, b \in 1..Len(I) :
                  /\ J[k].offset = I[a].offset /\ AfterLast(J[k]) = AfterLast(I[b])
                  /\ a = (IF k <= i THEN k ELSE k + 1) /\ b = (IF k < i THEN k ELSE k + 1)
    <3>1. CASE k < i
      <4>1. k \in 1..Len(I) /\ J[k] = I[k]
          BY <1>0, <2>1, <2>2, <3>1
      <4>2. k = (IF k <= i THEN k ELSE k + 1) /\ k = (IF k < i THEN k ELSE k + 1)
          BY <2>2, <3>1
      <4> QED BY <4>1, <4>2, Zenon
    <3>2. CASE k = i
        BY <2>1, <2>2, <2>4, <3>2
    <3>3. CASE k > i
      <4>1. k + 1 \in 1..Len(I) /\ J[k] = I[k + 1]
          BY <1>0, <2>1, <2>2, <3>3
      <4>2. k + 1 = (IF k <= i THEN k ELSE k + 1) /\ k + 1 = (IF k < i THEN k ELSE k + 1)
          BY <2>2, <3>3
      <4> QED BY <4>1, <4>2, Zenon
    <3> QED BY <2>2, <3>1, <3>2, <3>3
  <2>8. Weak(J)
    <3> SUFFICES ASSUME NEW k \in 1..Len(J), NEW l \in 1..Len(J), k < l
                 PROVE  AfterLast(J[k]) <= J[l].offset
        BY DEF Weak
    <3>1. PICK b \in 1..Len(I) :
            AfterLast(J[k]) = AfterLast(I[b]) /\ b = (IF k < i THEN k ELSE k + 1)
        BY <2>7
    <3>2. PICK a \in 1..Len(I) : J[l].offset = I[a].offset /\ a = (IF l <= i THEN l ELSE l + 1)
        BY <2>7
    <3>3. b < a
        BY <2>2, <3>1, <3>2
    <3> QED BY <3>1, <3>2, <3>3 DEF Weak
  <2>9. ASSUME NEW k \in 1..(Len(J) - 1), k # q \/ Gap(I, i + 1)
        PROVE  Gap(J, k)
    <3>0. k \in 1..Len(J) /\ k + 1 \in 1..Len(J) /\ Len(J) \in Nat
        BY <1>0, <2>1
    <3>1. PICK b \in 1..Len(I) :
            AfterLast(J[k]) = AfterLast(I[b]) /\ b = (IF k < i THEN k ELSE k + 1)
        BY <2>7, <3>0
    <3>2. PICK a \in 1..Len(I) :
            J[k + 1].offset = I[a].offset /\ a = (IF k + 1 <= i THEN k + 1 ELSE (k + 1) + 1)
        BY <2>7, <3>0
    <3>3. a = b + 1 /\ b \in 1..(Len(I) - 1)
        BY <1>0, <2>2, <3>1, <3>2
    <3>4. b # i /\ (b = i + 1 => k = q)
        BY <2>2, <2>5, <3>1
    <3>5. Gap(I, b)
        BY <2>9, <3>3, <3>4
    <3> QED BY <3>1, <3>2, <3>3, <3>5 DEF Gap
  <2>10. ASSUME NEW byte \in Nat PROVE InSome(byte, J) <=> InSome(byte, I)
    <3>1. In(byte, m) <=> In(byte, I[i]) \/ In(byte, I[i + 1])
        BY <1>2, <2>1, <2>2, <2>4, Adjacent
    <3>2. ASSUME NEW k \in 1..Len(J), In(byte, J[k]) PROVE InSome(byte, I)
      <4>1. CASE k < i
        <5>1. k \in 1..Len(I) /\ J[k] = I[k]
            BY <1>0, <2>1, <2>2, <4>1
        <5> QED BY <3>2, <5>1 DEF InSome
      <4>2. CASE k = i
          BY <2>1, <2>2, <3>1, <3>2, <4>2 DEF InSome
      <4>3. CASE k > i
        <5>1. k + 1 \in 1..Len(I) /\ J[k] = I[k + 1]
            BY <1>0, <2>1, <2>2, <4>3
        <5> QED BY <3>2, <5>1 DEF InSome
      <4> QED BY <2>2, <4>1, <4>2, <4>3
    <3>3. ASSUME NEW k \in 1..Len(I), In(byte, I[k]) PROVE InSome(byte, J)
      <4>1. CASE k < i
        <5>1. k \in 1..Len(J) /\ J[k] = I[k]
            BY <1>0, <2>1, <2>2, <4>1
        <5> QED BY <3>3, <5>1 DEF InSome
      <4>2. CASE k = i \/ k = i + 1
        <5>1. i \in 1..Len(J) /\ J[i] = m
            BY <1>0, <2>1, <2>2
        <5> QED BY <3>1, <3>3, <4>2, <5>1 DEF InSome
      <4>3. CASE k > i + 1
        <5>1. k - 1 \in 1..Len(J) /\ k - 1 \in (i + 1)..(Len(I) - 1) /\ (k - 1) + 1 = k
            BY <1>0, <2>1, <2>2, <4>3
        <5>2. J[k - 1] = I[k]
            BY <2>1, <5>1
        <5> QED BY <3>3, <5>1, <5>2 DEF InSome
      <4> QED BY <2>2, <4>1, <4>2, <4>3
    <3> QED BY <3>2, <3>3 DEF InSome
  <2> QED BY <1>2, <2>1, <2>5, <2>6, <2>8, <2>9, <2>10 DEF J, q
<1> QED BY <1>1, <1>2

-----------------------------------------------------------------------------
\* Length and elements after vector::insert.
LEMMA InsertElements ==
    ASSUME NEW F \in Seq(Ranges), NEW r \in Ranges, NEW p \in 1..(Len(F) + 1)
    PROVE  LET I == InsertAt(F, p, r)
           IN /\ I \in Seq(Ranges) /\ Len(I) = Len(F) + 1
              /\ I[p] = r
              /\ \A k \in 1..(p - 1) : I[k] = F[k]
              /\ \A k \in (p + 1)..(Len(F) + 1) : I[k] = F[k - 1]
<1> DEFINE A == SubSeq(F, 1, p - 1)
           B == SubSeq(F, p, Len(F))
           one == <<r>>
           C == A \o one
           I == C \o B
<1>0. Len(F) \in Nat /\ one \in Seq(Ranges) /\ Len(one) = 1 /\ one[1] = r
    OBVIOUS
<1>1. A \in Seq(Ranges) /\ Len(A) = p - 1 /\ \A k \in 1..(p - 1) : A[k] = F[k]
    BY <1>0
<1>2. /\ B \in Seq(Ranges) /\ Len(B) = Len(F) - p + 1
      /\ \A k \in 1..(Len(F) - p + 1) : B[k] = F[k + p - 1]
    BY <1>0
<1>3. InsertAt(F, p, r) = I
    BY DEF InsertAt
<1> HIDE DEF A, B, one
<1>4. /\ C \in Seq(Ranges) /\ Len(C) = Len(A) + Len(one)
      /\ \A k \in 1..Len(A) : C[k] = A[k]
      /\ \A k \in (Len(A) + 1)..(Len(A) + Len(one)) : C[k] = one[k - Len(A)]
  <2>1. A \in Seq(Ranges) /\ one \in Seq(Ranges)
      BY <1>0, <1>1
  <2> QED BY <2>1, ConcatElements, Zenon
<1> HIDE DEF C
<1>5. /\ I \in Seq(Ranges) /\ Len(I) = Len(C) + Len(B)
      /\ \A k \in 1..Len(C) : I[k] = C[k]
      /\ \A k \in (Len(C) + 1)..(Len(C) + Len(B)) : I[k] = B[k - Len(C)]
  <2>1. C \in Seq(Ranges) /\ B \in Seq(Ranges)
      BY <1>2, <1>4
  <2> QED BY <2>1, ConcatElements, Zenon
<1> HIDE DEF I
<1>6. Len(C) = p /\ Len(I) = Len(F) + 1
    BY <1>0, <1>1, <1>2, <1>4, <1>5
<1>7. \A k \in 1..(p - 1) : I[k] = F[k]
    BY <1>0, <1>1, <1>4, <1>5, <1>6
<1>8. I[p] = r
  <2>1. p \in (Len(A) + 1)..(Len(A) + Len(one)) /\ p - Len(A) = 1 /\ p \in 1..Len(C)
      BY <1>0, <1>1, <1>6
  <2> QED BY <1>0, <1>4, <1>5, <2>1
<1>9. ASSUME NEW k \in (p + 1)..(Len(F) + 1) PROVE I[k] = F[k - 1]
  <2>1. k - Len(C) \in 1..(Len(F) - p + 1) /\ (k - Len(C)) + p - 1 = k - 1
      BY <1>0, <1>6
  <2>2. I[k] = B[k - Len(C)]
      BY <1>0, <1>2, <1>5, <1>6
  <2> QED BY <1>2, <2>1, <2>2
<1> QED BY <1>3, <1>5, <1>6, <1>7, <1>8, <1>9

\* insertFreeRange: the range given back is put in its place and merged with
\* both neighbours, so that the list stays ordered with gaps between its ranges.
LEMMA Inserted ==
    ASSUME NEW F \in Seq(Ranges), Positive(F), Ordered(F),
           NEW r \in Ranges, r.length > 0,
           \A byte \in Nat : In(byte, r) => ~InSome(byte, F)
    PROVE  LET G == insertFreeRange(F, r)
           IN /\ G \in Seq(Ranges) /\ Positive(G) /\ Ordered(G)
              /\ \A byte \in Nat : InSome(byte, G) <=> InSome(byte, F) \/ In(byte, r)
<1> DEFINE S == {i \in DOMAIN F : F[i].offset < r.offset}
           c == Cardinality(S)
           p == 1 + c
           I == InsertAt(F, p, r)
<1>0. /\ Len(F) \in Nat /\ DOMAIN F = 1..Len(F)
      /\ \A k \in 1..Len(F) : /\ F[k] \in Ranges /\ F[k].offset \in Nat /\ F[k].length \in Nat
                              /\ AfterLast(F[k]) = F[k].offset + F[k].length /\ F[k].length > 0
                              /\ AfterLast(F[k]) \in Nat
      /\ r.offset \in Nat /\ r.length \in Nat /\ AfterLast(r) = r.offset + r.length
    BY RangeTypes DEF Positive
<1>1. ASSUME NEW k \in 1..Len(F)
      PROVE  AfterLast(F[k]) <= r.offset \/ AfterLast(r) <= F[k].offset
  <2> DEFINE byte == IF F[k].offset < r.offset THEN r.offset ELSE F[k].offset
  <2> SUFFICES ASSUME r.offset < AfterLast(F[k]), F[k].offset < AfterLast(r)
               PROVE  FALSE
      BY <1>0
  <2>0. /\ F[k].offset \in Nat /\ F[k].length \in Nat /\ F[k].length > 0
        /\ AfterLast(F[k]) = F[k].offset + F[k].length
      BY <1>0 DEF Positive
  <2>1. byte \in Nat /\ In(byte, r) /\ In(byte, F[k])
    <3>1. CASE F[k].offset < r.offset
        BY <1>0, <2>0, <3>1 DEF In
    <3>2. CASE ~(F[k].offset < r.offset)
        BY <1>0, <2>0, <3>2 DEF In
    <3> QED BY <3>1, <3>2
  <2> QED BY <2>1 DEF InSome
<1>2. S = 1..c /\ c \in 0..Len(F)
  <2>1. S \in SUBSET (1..Len(F))
      BY <1>0
  <2>2. ASSUME NEW i \in 1..Len(F), NEW j \in 1..Len(F), j \in S, i <= j PROVE i \in S
    <3>1. CASE i = j
        BY <2>2, <3>1
    <3>2. CASE i < j
      <4>1. AfterLast(F[i]) < F[j].offset
          BY <3>2 DEF Ordered
      <4>2. F[i].offset \in Nat /\ AfterLast(F[i]) = F[i].offset + F[i].length /\ F[i].length \in Nat
          BY <1>0
      <4>3. F[j].offset \in Nat /\ F[j].offset < r.offset /\ r.offset \in Nat
          BY <1>0, <2>2
      <4>4. F[i].offset < r.offset
          BY <4>1, <4>2, <4>3
      <4> QED BY <1>0, <4>4
    <3> QED BY <2>2, <3>1, <3>2
  <2> HIDE DEF S
  <2> QED BY <1>0, <2>1, <2>2, InitialSegment
<1>3. ASSUME NEW k \in 1..Len(F)
      PROVE  /\ k <= c => AfterLast(F[k]) <= r.offset
             /\ k > c => AfterLast(r) <= F[k].offset
  <2>1. k <= c <=> F[k].offset < r.offset
      BY <1>0, <1>2
  <2>2. /\ F[k].offset \in Nat /\ F[k].length \in Nat /\ F[k].length > 0
        /\ AfterLast(F[k]) = F[k].offset + F[k].length
        /\ r.offset \in Nat /\ r.length \in Nat /\ AfterLast(r) = r.offset + r.length
      BY <1>0
  <2>3. AfterLast(F[k]) <= r.offset \/ AfterLast(r) <= F[k].offset
      BY <1>1
  <2>4. F[k].offset < r.offset => AfterLast(F[k]) <= r.offset
      BY <2>2, <2>3
  <2>5. ~(F[k].offset < r.offset) => AfterLast(r) <= F[k].offset
      BY <2>2, <2>3
  <2>6. k > c => ~(k <= c)
      BY <1>2
  <2> QED BY <2>1, <2>4, <2>5, <2>6
<1> HIDE DEF S, c
<1>4. /\ I \in Seq(Ranges) /\ Len(I) = Len(F) + 1
      /\ I[c + 1] = r
      /\ \A k \in 1..c : I[k] = F[k]
      /\ \A k \in (c + 2)..(Len(F) + 1) : I[k] = F[k - 1]
  <2>1. p \in 1..(Len(F) + 1) /\ p - 1 = c /\ p + 1 = c + 2 /\ p = c + 1
      BY <1>0, <1>2
  <2>2. /\ I \in Seq(Ranges) /\ Len(I) = Len(F) + 1
        /\ I[p] = r
        /\ \A k \in 1..(p - 1) : I[k] = F[k]
        /\ \A k \in (p + 1)..(Len(F) + 1) : I[k] = F[k - 1]
    <3> HIDE DEF p
    <3> QED BY <2>1, InsertElements
  <2> HIDE DEF I, p
  <2> QED BY <2>1, <2>2
<1> HIDE DEF I
<1>5. ASSUME NEW k \in 1..Len(I)
      PROVE  \/ k <= c /\ k \in 1..Len(F) /\ I[k] = F[k]
             \/ k = c + 1 /\ I[k] = r
             \/ k > c + 1 /\ k - 1 \in 1..Len(F) /\ I[k] = F[k - 1]
    BY <1>0, <1>2, <1>4
<1>6. Positive(I)
    BY <1>0, <1>5 DEF Positive
<1>7. Weak(I)
  <2> SUFFICES ASSUME NEW i \in 1..Len(I), NEW j \in 1..Len(I), i < j
               PROVE  AfterLast(I[i]) <= I[j].offset
      BY DEF Weak
  <2>1. CASE j <= c
    <3>1. i \in 1..Len(F) /\ j \in 1..Len(F) /\ I[i] = F[i] /\ I[j] = F[j]
        BY <1>2, <1>5, <2>1
    <3>2. AfterLast(F[i]) < F[j].offset
        BY <3>1 DEF Ordered
    <3>3. AfterLast(F[i]) \in Nat /\ F[j].offset \in Nat
        BY <1>0, <3>1
    <3> QED BY <3>1, <3>2, <3>3
  <2>2. CASE j = c + 1
    <3>1. i \in 1..Len(F) /\ i <= c /\ I[i] = F[i] /\ I[j] = r
        BY <1>2, <1>5, <2>2
    <3> QED BY <1>3, <3>1
  <2>3. CASE i = c + 1
    <3>1. j - 1 \in 1..Len(F) /\ j - 1 > c /\ I[i] = r /\ I[j] = F[j - 1]
        BY <1>2, <1>5, <2>3
    <3> QED BY <1>3, <3>1
  <2>4. CASE i <= c /\ j > c + 1
    <3>1. i \in 1..Len(F) /\ j - 1 \in 1..Len(F) /\ i < j - 1 /\ I[i] = F[i] /\ I[j] = F[j - 1]
      <4>1. i \in 1..Len(F) /\ I[i] = F[i]
          BY <1>2, <1>5, <2>4
      <4>2. j - 1 \in 1..Len(F) /\ I[j] = F[j - 1]
          BY <1>2, <1>5, <2>4
      <4> QED BY <1>2, <2>4, <4>1, <4>2
    <3>2. AfterLast(F[i]) < F[j - 1].offset
        BY <3>1 DEF Ordered
    <3>3. AfterLast(F[i]) \in Nat /\ F[j - 1].offset \in Nat
        BY <1>0, <3>1
    <3> QED BY <3>1, <3>2, <3>3
  <2>5. CASE i > c + 1
    <3>1. /\ i - 1 \in 1..Len(F) /\ j - 1 \in 1..Len(F) /\ i - 1 < j - 1
          /\ I[i] = F[i - 1] /\ I[j] = F[j - 1]
        BY <1>2, <1>5, <2>5
    <3>2. AfterLast(F[i - 1]) < F[j - 1].offset
        BY <3>1 DEF Ordered
    <3>3. AfterLast(F[i - 1]) \in Nat /\ F[j - 1].offset \in Nat
        BY <1>0, <3>1
    <3> QED BY <3>1, <3>2, <3>3
  <2> QED BY <1>2, <2>1, <2>2, <2>3, <2>4, <2>5
<1>8. ASSUME NEW k \in 1..(Len(I) - 1), k \notin {c, c + 1} PROVE Gap(I, k)
  <2>0. k \in 1..Len(I) /\ k + 1 \in 1..Len(I)
      BY <1>0, <1>4
  <2>1. CASE k < c
    <3>1. k \in 1..Len(F) /\ k + 1 \in 1..Len(F) /\ I[k] = F[k] /\ I[k + 1] = F[k + 1] /\ k < k + 1
        BY <1>2, <1>5, <2>0, <2>1
    <3>2. AfterLast(F[k]) < F[k + 1].offset
        BY <3>1 DEF Ordered
    <3> QED BY <3>1, <3>2 DEF Gap
  <2>2. CASE k > c + 1
    <3>1. /\ k - 1 \in 1..Len(F) /\ k \in 1..Len(F) /\ k - 1 < k
          /\ I[k] = F[k - 1] /\ I[k + 1] = F[k]
      <4>1. k + 1 > c + 1 /\ (k + 1) - 1 = k
          BY <1>2, <2>2
      <4> QED BY <1>2, <1>5, <2>0, <2>2, <4>1
    <3>2. AfterLast(F[k - 1]) < F[k].offset
        BY <3>1 DEF Ordered
    <3> QED BY <3>1, <3>2 DEF Gap
  <2> QED BY <1>2, <1>8, <2>1, <2>2
<1>9. ASSUME NEW byte \in Nat PROVE InSome(byte, I) <=> InSome(byte, F) \/ In(byte, r)
  <2>1. ASSUME NEW k \in 1..Len(I), In(byte, I[k]) PROVE InSome(byte, F) \/ In(byte, r)
      BY <1>5, <2>1 DEF InSome
  <2>2. ASSUME NEW k \in 1..Len(F), In(byte, F[k]) PROVE InSome(byte, I)
    <3>1. CASE k <= c
      <4>1. k \in 1..Len(I) /\ I[k] = F[k]
          BY <1>0, <1>2, <1>4, <3>1
      <4> QED BY <2>2, <4>1 DEF InSome
    <3>2. CASE k > c
      <4>1. k + 1 \in 1..Len(I) /\ k + 1 \in (c + 2)..(Len(F) + 1) /\ (k + 1) - 1 = k
          BY <1>0, <1>2, <1>4, <3>2
      <4>2. I[k + 1] = F[k]
          BY <1>4, <4>1
      <4> QED BY <2>2, <4>1, <4>2 DEF InSome
    <3> QED BY <1>2, <3>1, <3>2
  <2>3. In(byte, r) => InSome(byte, I)
    <3>1. c + 1 \in 1..Len(I)
        BY <1>0, <1>2, <1>4
    <3> QED BY <1>4, <3>1 DEF InSome
  <2> QED BY <2>1, <2>2, <2>3 DEF InSome
<1> DEFINE L == Joined(I, p - 1)
           q == p - (Len(I) - Len(L))
           G == Joined(L, q)
<1>10. insertFreeRange(F, r) = G
    BY DEF insertFreeRange, I, c, S
<1>11. /\ L \in Seq(Ranges) /\ Positive(L) /\ Weak(L) /\ q \in Nat
       /\ \A k \in 1..(Len(L) - 1) : k # q => Gap(L, k)
       /\ \A byte \in Nat : InSome(byte, L) <=> InSome(byte, I)
  <2>1. c \in Nat /\ p - 1 = c /\ p = c + 1
      BY <1>2
  <2> DEFINE M == Joined(I, c)
             s == c + 1 - (Len(I) - Len(M))
  <2>2. L = M /\ q = s
      BY <2>1
  <2>3. /\ M \in Seq(Ranges) /\ Positive(M) /\ Weak(M) /\ s \in Nat
        /\ \A k \in 1..(Len(M) - 1) : k # s => Gap(M, k)
        /\ \A byte \in Nat : InSome(byte, M) <=> InSome(byte, I)
      BY <1>4, <1>6, <1>7, <1>8, <2>1, JoinedKeeps
  <2> HIDE DEF L, q, M, s
  <2> QED BY <2>2, <2>3
<1> HIDE DEF L, q
<1>14. Gap(L, q + 1)
  <2>1. q + 1 # q
      BY <1>11
  <2> QED BY <1>11, <2>1 DEF Gap
<1>15. /\ G \in Seq(Ranges) /\ Positive(G) /\ Weak(G)
       /\ \A k \in 1..(Len(G) - 1) : Gap(G, k)
       /\ \A byte \in Nat : InSome(byte, G) <=> InSome(byte, L)
    BY <1>11, <1>14, JoinedKeeps
<1> HIDE DEF G
<1>16. Ordered(G)
    BY <1>15, GapsMakeOrder
<1> QED BY <1>9, <1>10, <1>11, <1>15, <1>16

-----------------------------------------------------------------------------
\* The bytes of a spliced list.
LEMMA SpliceBytes ==
    ASSUME NEW F \in Seq(Ranges), NEW mid \in Seq(Ranges),
           NEW lo \in 1..(Len(F) + 1), NEW hi \in (lo - 1)..Len(F), NEW byte \in Nat
    PROVE  InSome(byte, Splice(F, lo, hi, mid)) <=>
              \/ \E k \in (1..Len(F)) \ (lo..hi) : In(byte, F[k])
              \/ InSome(byte, mid)
<1> DEFINE G == Splice(F, lo, hi, mid)
<1>1. G \in Seq(Ranges)
    BY SpliceElements
<1>2. ToSet(G) = {F[i] : i \in (1..Len(F)) \ (lo..hi)} \cup {mid[i] : i \in 1..Len(mid)}
    BY SpliceSet
<1> HIDE DEF G
<1>3. DOMAIN G = 1..Len(G)
    BY <1>1
<1>4. ToSet(G) = {G[k] : k \in 1..Len(G)}
    BY <1>3 DEF ToSet
<1>5. InSome(byte, G) <=> \E x \in ToSet(G) : In(byte, x)
    BY <1>4 DEF InSome
<1>6. (\E x \in ToSet(G) : In(byte, x)) <=>
        \/ \E k \in (1..Len(F)) \ (lo..hi) : In(byte, F[k])
        \/ InSome(byte, mid)
    BY <1>2 DEF InSome
<1> QED BY <1>5, <1>6 DEF G

\* Sequences with the same length and elements are equal.
LEMMA SequencesEqual ==
    ASSUME NEW R, NEW S \in Seq(R), NEW T \in Seq(R), Len(S) = Len(T),
           \A k \in 1..Len(S) : S[k] = T[k]
    PROVE  S = T
OBVIOUS

\* The four shapes of what is left around an allocated block.
LEMMA SmallConcats ==
    ASSUME NEW R, NEW x \in R, NEW y \in R
    PROVE  /\ << >> \o <<y>> = <<y>>
           /\ <<x>> \o << >> = <<x>>
           /\ <<x>> \o <<y>> = <<x, y>>
<1> DEFINE e == << >>
           a == <<x>>
           b == <<y>>
           c == <<x, y>>
<1>1. /\ e \in Seq(R) /\ Len(e) = 0
      /\ a \in Seq(R) /\ Len(a) = 1 /\ a[1] = x
      /\ b \in Seq(R) /\ Len(b) = 1 /\ b[1] = y
      /\ c \in Seq(R) /\ Len(c) = 2 /\ c[1] = x /\ c[2] = y
    OBVIOUS
<1> HIDE DEF e, a, b, c
<1>0. e \in Seq(R) /\ a \in Seq(R) /\ b \in Seq(R)
    BY <1>1
<1>2. e \o b = b
  <2> DEFINE s == e \o b
  <2>1. /\ s \in Seq(R) /\ Len(s) = Len(e) + Len(b)
        /\ \A k \in 1..Len(e) : s[k] = e[k]
        /\ \A k \in (Len(e) + 1)..(Len(e) + Len(b)) : s[k] = b[k - Len(e)]
      BY <1>0, ConcatElements, Zenon
  <2> HIDE DEF s
  <2>2. Len(s) = Len(b)
      BY <1>1, <2>1
  <2>3. \A k \in 1..Len(s) : s[k] = b[k]
      BY <1>1, <2>1
  <2>4. s = b
      BY <1>1, <2>1, <2>2, <2>3, SequencesEqual, Zenon
  <2> QED BY <2>4 DEF s
<1>3. a \o e = a
  <2> DEFINE s == a \o e
  <2>1. /\ s \in Seq(R) /\ Len(s) = Len(a) + Len(e)
        /\ \A k \in 1..Len(a) : s[k] = a[k]
        /\ \A k \in (Len(a) + 1)..(Len(a) + Len(e)) : s[k] = e[k - Len(a)]
      BY <1>0, ConcatElements, Zenon
  <2> HIDE DEF s
  <2>2. Len(s) = Len(a)
      BY <1>1, <2>1
  <2>3. \A k \in 1..Len(s) : s[k] = a[k]
      BY <1>1, <2>1
  <2>4. s = a
      BY <1>1, <2>1, <2>2, <2>3, SequencesEqual, Zenon
  <2> QED BY <2>4 DEF s
<1>4. a \o b = c
  <2> DEFINE s == a \o b
  <2>1. /\ s \in Seq(R) /\ Len(s) = Len(a) + Len(b)
        /\ \A k \in 1..Len(a) : s[k] = a[k]
        /\ \A k \in (Len(a) + 1)..(Len(a) + Len(b)) : s[k] = b[k - Len(a)]
      BY <1>0, ConcatElements, Zenon
  <2> HIDE DEF s
  <2>2. Len(s) = Len(c)
      BY <1>1, <2>1
  <2>3. \A k \in 1..Len(s) : s[k] = c[k]
      BY <1>1, <2>1
  <2>4. s = c
      BY <1>1, <2>1, <2>2, <2>3, SequencesEqual, Zenon
  <2> QED BY <2>4 DEF s
<1> QED BY <1>2, <1>3, <1>4 DEF e, a, b, c

\* A splice of non-empty ranges leaves no empty one.
LEMMA SplicePositive ==
    ASSUME NEW F \in Seq(Ranges), NEW mid \in Seq(Ranges), Positive(F), Positive(mid),
           NEW lo \in 1..(Len(F) + 1), NEW hi \in (lo - 1)..Len(F)
    PROVE  Positive(Splice(F, lo, hi, mid))
<1> DEFINE G == Splice(F, lo, hi, mid)
<1>1. ToSet(G) = {F[k] : k \in (1..Len(F)) \ (lo..hi)} \cup {mid[k] : k \in 1..Len(mid)}
    BY SpliceSet
<1>2. G \in Seq(Ranges)
    BY SpliceElements
<1> HIDE DEF G
<1>3. DOMAIN G = 1..Len(G)
    BY <1>2
<1>4. ASSUME NEW k \in 1..Len(G) PROVE G[k].length > 0
  <2>1. G[k] \in ToSet(G)
      BY <1>3 DEF ToSet
  <2> QED BY <1>1, <2>1 DEF Positive
<1> QED BY <1>4 DEF Positive, G

\* What allocate leaves of the range it takes a block from.
LEMMA RestOfRange ==
    ASSUME NEW r \in Ranges, NEW at \in Nat, NEW length \in Nat,
           r.offset <= at, length > 0, at + length <= AfterLast(r)
    PROVE  LET rest == Piece(r.offset, at - r.offset)
                       \o Piece(at + length, AfterLast(r) - (at + length))
           IN /\ rest \in Seq(Ranges) /\ Positive(rest) /\ Ordered(rest)
              /\ \A k \in 1..Len(rest) :
                    rest[k].offset >= r.offset /\ AfterLast(rest[k]) <= AfterLast(r)
              /\ \A byte \in Nat : InSome(byte, rest) <=>
                    In(byte, r) /\ ~(at <= byte /\ byte < at + length)
<1> DEFINE before == Block(r.offset, at - r.offset)
           after  == Block(at + length, AfterLast(r) - (at + length))
<1>1. /\ r.offset \in Nat /\ r.length \in Nat /\ AfterLast(r) \in Nat
      /\ AfterLast(r) = r.offset + r.length
    BY RangeTypes
<1>2. /\ before \in Ranges /\ before.offset = r.offset /\ before.length = at - r.offset
      /\ AfterLast(before) = at
    BY <1>1 DEF Ranges, Block, AfterLast
<1>3. /\ after \in Ranges /\ after.offset = at + length
      /\ after.length = AfterLast(r) - (at + length) /\ AfterLast(after) = AfterLast(r)
    BY <1>1 DEF Ranges, Block, AfterLast
<1>4. /\ Piece(r.offset, at - r.offset) = IF at = r.offset THEN << >> ELSE <<before>>
      /\ Piece(at + length, AfterLast(r) - (at + length)) =
            IF at + length = AfterLast(r) THEN << >> ELSE <<after>>
    BY <1>1 DEF Piece
<1> DEFINE rest == Piece(r.offset, at - r.offset)
                   \o Piece(at + length, AfterLast(r) - (at + length))
           Good(s) == /\ s \in Seq(Ranges) /\ Positive(s) /\ Ordered(s)
                      /\ \A k \in 1..Len(s) :
                            s[k].offset >= r.offset /\ AfterLast(s[k]) <= AfterLast(r)
                      /\ \A byte \in Nat : InSome(byte, s) <=>
                            In(byte, r) /\ ~(at <= byte /\ byte < at + length)
<1> HIDE DEF before, after
<1>5. CASE at = r.offset /\ at + length = AfterLast(r)
  <2> DEFINE s == << >>
  <2>1. rest = s
      BY <1>4, <1>5
  <2>2. s \in Seq(Ranges) /\ Len(s) = 0
      OBVIOUS
  <2> HIDE DEF s
  <2>3. Good(s)
      BY <1>1, <1>5, <2>2 DEF Positive, Ordered, InSome, In
  <2> QED BY <2>1, <2>3
<1>6. CASE at = r.offset /\ at + length # AfterLast(r)
  <2> DEFINE s == <<after>>
  <2>1. rest = s
    <3>1. rest = << >> \o <<after>>
        BY <1>4, <1>6
    <3> QED BY <1>2, <1>3, <3>1, SmallConcats
  <2>2. s \in Seq(Ranges) /\ Len(s) = 1 /\ s[1] = after
      BY <1>3
  <2> HIDE DEF s
  <2>3. Good(s)
    <3>0. after.length > 0 /\ 1..Len(s) = {1}
        BY <1>1, <1>3, <1>6, <2>2
    <3>1. Positive(s) /\ Ordered(s)
        BY <2>2, <3>0 DEF Positive, Ordered
    <3>2. ASSUME NEW k \in 1..Len(s)
          PROVE  s[k].offset >= r.offset /\ AfterLast(s[k]) <= AfterLast(r)
        BY <1>1, <1>3, <1>6, <2>2
    <3>3. ASSUME NEW byte \in Nat
          PROVE  InSome(byte, s) <=> In(byte, r) /\ ~(at <= byte /\ byte < at + length)
      <4>1. InSome(byte, s) <=> In(byte, after)
          BY <2>2 DEF InSome
      <4> QED BY <1>1, <1>3, <1>6, <4>1 DEF In
    <3> QED BY <2>2, <3>1, <3>2, <3>3
  <2> QED BY <2>1, <2>3
<1>7. CASE at # r.offset /\ at + length = AfterLast(r)
  <2> DEFINE s == <<before>>
  <2>1. rest = s
    <3>1. rest = <<before>> \o << >>
        BY <1>4, <1>7
    <3> QED BY <1>2, <1>3, <3>1, SmallConcats
  <2>2. s \in Seq(Ranges) /\ Len(s) = 1 /\ s[1] = before
      BY <1>2
  <2> HIDE DEF s
  <2>3. Good(s)
    <3>0. before.length > 0 /\ 1..Len(s) = {1}
        BY <1>1, <1>2, <1>7, <2>2
    <3>1. Positive(s) /\ Ordered(s)
        BY <2>2, <3>0 DEF Positive, Ordered
    <3>2. ASSUME NEW k \in 1..Len(s)
          PROVE  s[k].offset >= r.offset /\ AfterLast(s[k]) <= AfterLast(r)
        BY <1>1, <1>2, <1>7, <2>2
    <3>3. ASSUME NEW byte \in Nat
          PROVE  InSome(byte, s) <=> In(byte, r) /\ ~(at <= byte /\ byte < at + length)
      <4>1. InSome(byte, s) <=> In(byte, before)
          BY <2>2 DEF InSome
      <4> QED BY <1>1, <1>2, <1>7, <4>1 DEF In
    <3> QED BY <2>2, <3>1, <3>2, <3>3
  <2> QED BY <2>1, <2>3
<1>8. CASE at # r.offset /\ at + length # AfterLast(r)
  <2> DEFINE s == <<before, after>>
  <2>1. rest = s
    <3>1. rest = <<before>> \o <<after>>
        BY <1>4, <1>8
    <3> QED BY <1>2, <1>3, <3>1, SmallConcats
  <2>2. s \in Seq(Ranges) /\ Len(s) = 2 /\ s[1] = before /\ s[2] = after
      BY <1>2, <1>3
  <2> HIDE DEF s
  <2>0. before.length > 0 /\ after.length > 0 /\ AfterLast(before) < after.offset
      BY <1>1, <1>2, <1>3, <1>8
  <2>3. Positive(s) /\ Ordered(s)
    <3>1. 1..Len(s) = {1, 2}
        BY <2>2
    <3>2. Positive(s)
        BY <2>0, <2>2, <3>1 DEF Positive
    <3>3. \A i, j \in {1, 2} : i < j => i = 1 /\ j = 2
        OBVIOUS
    <3>4. Ordered(s)
        BY <2>0, <2>2, <3>1, <3>3 DEF Ordered
    <3> QED BY <3>2, <3>4
  <2>4. ASSUME NEW k \in 1..Len(s)
        PROVE  s[k].offset >= r.offset /\ AfterLast(s[k]) <= AfterLast(r)
      BY <1>1, <1>2, <1>3, <1>8, <2>2
  <2>5. ASSUME NEW byte \in Nat
        PROVE  InSome(byte, s) <=> In(byte, r) /\ ~(at <= byte /\ byte < at + length)
    <3>1. InSome(byte, s) <=> In(byte, before) \/ In(byte, after)
        BY <2>2 DEF InSome
    <3> QED BY <1>1, <1>2, <1>3, <1>8, <3>1 DEF In
  <2> QED BY <2>1, <2>2, <2>3, <2>4, <2>5
<1> QED BY <1>5, <1>6, <1>7, <1>8

\* The free list after a block has been taken from one of its ranges.
LEMMA TakenFrom ==
    ASSUME NEW F \in Seq(Ranges), Positive(F), Ordered(F), NEW i \in 1..Len(F),
           NEW at \in Nat, NEW length \in Nat,
           F[i].offset <= at, length > 0, at + length <= AfterLast(F[i])
    PROVE  LET rest == Piece(F[i].offset, at - F[i].offset)
                       \o Piece(at + length, AfterLast(F[i]) - (at + length))
               G == SubSeq(F, 1, i - 1) \o rest \o SubSeq(F, i + 1, Len(F))
           IN /\ G \in Seq(Ranges) /\ Positive(G) /\ Ordered(G)
              /\ \A byte \in Nat : InSome(byte, G) <=>
                    InSome(byte, F) /\ ~(at <= byte /\ byte < at + length)
<1> DEFINE r == F[i]
           rest == Piece(r.offset, at - r.offset)
                   \o Piece(at + length, AfterLast(r) - (at + length))
           G == Splice(F, i, i, rest)
<1>1. /\ Len(F) \in Nat /\ i \in 1..(Len(F) + 1) /\ i \in (i - 1)..Len(F) /\ r \in Ranges
    OBVIOUS
<1>2. /\ rest \in Seq(Ranges) /\ Positive(rest) /\ Ordered(rest)
      /\ \A k \in 1..Len(rest) :
            rest[k].offset >= r.offset /\ AfterLast(rest[k]) <= AfterLast(r)
      /\ \A byte \in Nat : InSome(byte, rest) <=>
            In(byte, r) /\ ~(at <= byte /\ byte < at + length)
  <2> HIDE DEF r
  <2> QED BY <1>1, RestOfRange DEF r
<1>3. SubSeq(F, 1, i - 1) \o rest \o SubSeq(F, i + 1, Len(F)) = G
    BY DEF Splice
<1> HIDE DEF rest
<1>4. /\ \A k \in 1..Len(F) : /\ F[k].offset \in Nat /\ F[k].length \in Nat
                              /\ AfterLast(F[k]) = F[k].offset + F[k].length
                              /\ AfterLast(F[k]) \in Nat
      /\ \A k \in 1..Len(rest) : /\ rest[k].offset \in Nat /\ rest[k].length \in Nat
                                 /\ AfterLast(rest[k]) \in Nat
  <2>1. \A k \in 1..Len(F) : F[k] \in Ranges
      OBVIOUS
  <2>2. \A k \in 1..Len(rest) : rest[k] \in Ranges
      BY <1>2
  <2> QED BY <2>1, <2>2, RangeTypes, Zenon
<1>5. \A a \in 1..(i - 1), b \in 1..Len(rest) : AfterLast(F[a]) < rest[b].offset
  <2> TAKE a \in 1..(i - 1), b \in 1..Len(rest)
  <2>1. a \in 1..Len(F) /\ a < i
      BY <1>1
  <2>2. AfterLast(F[a]) < F[i].offset
      BY <2>1 DEF Ordered
  <2>3. AfterLast(F[a]) \in Nat /\ F[i].offset \in Nat /\ rest[b].offset \in Nat
      BY <1>4, <2>1
  <2> QED BY <1>2, <2>2, <2>3
<1>6. \A a \in 1..Len(rest), b \in (i + 1)..Len(F) : AfterLast(rest[a]) < F[b].offset
  <2> TAKE a \in 1..Len(rest), b \in (i + 1)..Len(F)
  <2>1. b \in 1..Len(F) /\ i < b
      BY <1>1
  <2>2. AfterLast(F[i]) < F[b].offset
      BY <2>1 DEF Ordered
  <2>3. AfterLast(F[i]) \in Nat /\ F[b].offset \in Nat /\ AfterLast(rest[a]) \in Nat
      BY <1>4, <2>1
  <2> QED BY <1>2, <2>2, <2>3
<1>7. Ordered(G) /\ G \in Seq(Ranges)
    BY <1>1, <1>2, <1>5, <1>6, SpliceOrdered, SpliceElements
<1>8. Positive(G)
    BY <1>1, <1>2, SplicePositive
<1>9. ASSUME NEW byte \in Nat
      PROVE  InSome(byte, G) <=> InSome(byte, F) /\ ~(at <= byte /\ byte < at + length)
  <2>1. InSome(byte, G) <=>
           \/ \E k \in (1..Len(F)) \ (i..i) : In(byte, F[k])
           \/ InSome(byte, rest)
      BY <1>1, <1>2, SpliceBytes
  <2>2. InSome(byte, rest) <=> In(byte, F[i]) /\ ~(at <= byte /\ byte < at + length)
      BY <1>2
  <2> HIDE DEF G
  <2>3. ASSUME NEW k \in (1..Len(F)) \ (i..i), In(byte, F[k])
        PROVE  ~(at <= byte /\ byte < at + length)
    <3>1. CASE k < i
      <4>1. AfterLast(F[k]) < F[i].offset /\ AfterLast(F[k]) \in Nat /\ F[i].offset \in Nat
          BY <1>4, <3>1 DEF Ordered
      <4> QED BY <2>3, <4>1 DEF In
    <3>2. CASE k > i
      <4>1. /\ AfterLast(F[i]) < F[k].offset /\ AfterLast(F[i]) \in Nat /\ F[k].offset \in Nat
          BY <1>4, <3>2 DEF Ordered
      <4> QED BY <2>3, <4>1 DEF In
    <3> QED BY <1>1, <3>1, <3>2
  <2>4. InSome(byte, F) <=> \/ \E k \in (1..Len(F)) \ (i..i) : In(byte, F[k])
                            \/ In(byte, F[i])
    <3>1. \A k \in 1..Len(F) : k = i \/ k \in (1..Len(F)) \ (i..i)
        BY <1>1
    <3> QED BY <3>1 DEF InSome
  <2> QED BY <2>1, <2>2, <2>3, <2>4
<1> QED BY <1>3, <1>7, <1>8, <1>9 DEF rest

-----------------------------------------------------------------------------
\* A byte belongs to an allocated block.
Used(byte, A) == \E o \in DOMAIN A : o <= byte /\ byte < o + A[o]

FreeBytes(a) == {byte \in 0..(a.capacity - 1) : InSome(byte, a.freeRanges)}

AllocatorTypes(a) ==
    /\ a \in [capacity : Nat, available : Int, freeRanges : Seq(Ranges),
              allocations : {a.allocations}]
    /\ DOMAIN a.allocations \subseteq Nat
    /\ \A o \in DOMAIN a.allocations : a.allocations[o] \in Nat \ {0}

BlocksApart(A) == \A o, p \in DOMAIN A : o < p => o + A[o] <= p

Partition(a) == \A byte \in Nat :
    /\ byte < a.capacity <=> InSome(byte, a.freeRanges) \/ Used(byte, a.allocations)
    /\ ~(InSome(byte, a.freeRanges) /\ Used(byte, a.allocations))

\* The inductive invariant of an allocator object.
AllocatorInv(a) ==
    /\ AllocatorTypes(a)
    /\ Positive(a.freeRanges) /\ Ordered(a.freeRanges)
    /\ BlocksApart(a.allocations)
    /\ Partition(a)
    /\ a.available = Cardinality(FreeBytes(a))

\* The free bytes of a segment can be counted.
LEMMA FreeBytesFinite ==
    ASSUME NEW a, a.capacity \in Nat
    PROVE  IsFiniteSet(FreeBytes(a)) /\ FreeBytes(a) \subseteq 0..(a.capacity - 1)
           /\ Cardinality(FreeBytes(a)) \in 0..a.capacity
<1> DEFINE c == a.capacity
           all == 0..(c - 1)
<1>1. c \in Nat
    OBVIOUS
<1>2. IsFiniteSet(all) /\ Cardinality(all) = a.capacity
  <2> HIDE DEF c
  <2>1. IsFiniteSet(all) /\ Cardinality(all) = c
      BY <1>1, FS_Interval
  <2> QED BY <2>1 DEF c
<1>3. FreeBytes(a) \in SUBSET all
    BY DEF FreeBytes
<1> HIDE DEF all
<1>4. IsFiniteSet(FreeBytes(a)) /\ Cardinality(FreeBytes(a)) <= Cardinality(all)
    BY <1>2, <1>3, FS_Subset
<1>5. Cardinality(FreeBytes(a)) \in Nat
    BY <1>4, FS_CardinalityType
<1> QED BY <1>2, <1>3, <1>4, <1>5 DEF all

\* A record with three of its fields replaced.
LEMMA RecordUpdate ==
    ASSUME NEW a, AllocatorTypes(a), NEW G, NEW B, NEW n
    PROVE  LET b == [a EXCEPT !.freeRanges = G, !.allocations = B, !.available = n]
           IN /\ b.capacity = a.capacity /\ b.available = n
              /\ b.freeRanges = G /\ b.allocations = B
              /\ b \in [capacity : {a.capacity}, available : {n},
                        freeRanges : {G}, allocations : {B}]
<1> DEFINE b == [a EXCEPT !.freeRanges = G, !.allocations = B, !.available = n]
<1>1. a \in [capacity : Nat, available : Int, freeRanges : Seq(Ranges),
             allocations : {a.allocations}]
    BY DEF AllocatorTypes
<1>2. b.capacity = a.capacity /\ b.available = n /\ b.freeRanges = G /\ b.allocations = B
    BY <1>1
<1>3. b \in [capacity : {a.capacity}, available : {n}, freeRanges : {G}, allocations : {B}]
    BY <1>1
<1> HIDE DEF b
<1> QED BY <1>2, <1>3 DEF b

\* A fresh segment is one free range.
LEMMA ResetInv ==
    ASSUME NEW capacity \in Nat
    PROVE  AllocatorInv(reset(capacity))
<1> DEFINE a == reset(capacity)
           F == Piece(0, capacity)
           A == << >>
<1>1. DOMAIN A = {}
    OBVIOUS
<1>2. a.capacity = capacity /\ a.available = capacity /\ a.freeRanges = F /\ a.allocations = A
    BY DEF reset
<1>3. /\ F \in Seq(Ranges) /\ Positive(F) /\ Ordered(F)
      /\ \A byte \in Nat : InSome(byte, F) <=> byte < capacity
  <2>1. CASE capacity = 0
    <3> DEFINE s == << >>
    <3>1. F = s /\ s \in Seq(Ranges) /\ Len(s) = 0
        BY <2>1 DEF Piece
    <3> HIDE DEF s, F
    <3> QED BY <2>1, <3>1 DEF Positive, Ordered, InSome
  <2>2. CASE capacity # 0
    <3> DEFINE r == Block(0, capacity)
               s == <<r>>
    <3>1. r \in Ranges /\ r.offset = 0 /\ r.length = capacity /\ AfterLast(r) = capacity
        BY DEF Block, Ranges, AfterLast
    <3>2. F = s
        BY <2>2 DEF Piece
    <3> HIDE DEF r
    <3>3. s \in Seq(Ranges) /\ Len(s) = 1 /\ s[1] = r
        BY <3>1
    <3> HIDE DEF s, F
    <3> QED BY <2>2, <3>1, <3>2, <3>3 DEF Positive, Ordered, InSome, In
  <2> QED BY <2>1, <2>2
<1> HIDE DEF F, A
<1>4. a \in [capacity : Nat, available : Int, freeRanges : Seq(Ranges), allocations : {A}]
    BY <1>3 DEF reset, F, A
<1> HIDE DEF a
<1>5. AllocatorTypes(a)
    BY <1>1, <1>2, <1>4 DEF AllocatorTypes
<1>6. Partition(a) /\ BlocksApart(A)
    BY <1>1, <1>2, <1>3 DEF Partition, Used, BlocksApart
<1>7. FreeBytes(a) = 0..(capacity - 1)
    BY <1>2, <1>3 DEF FreeBytes
<1>8. Cardinality(0..(capacity - 1)) = capacity
    BY FS_Interval
<1> QED BY <1>2, <1>3, <1>5, <1>6, <1>7, <1>8 DEF AllocatorInv, a

\* FirstFit is the first range with room.
LEMMA FirstFitIsFirst ==
    ASSUME NEW a, a.freeRanges \in Seq(Ranges), NEW length, NEW alignment,
           Candidates(a, length, alignment) # {}
    PROVE  LET i == FirstFit(a, length, alignment)
           IN /\ i \in 1..Len(a.freeRanges)
              /\ Fits(a.freeRanges[i], length, alignment)
              /\ \A j \in 1..Len(a.freeRanges) :
                    Fits(a.freeRanges[j], length, alignment) => i <= j
<1> DEFINE C == Candidates(a, length, alignment)
<1>1. DOMAIN a.freeRanges = 1..Len(a.freeRanges) /\ Len(a.freeRanges) \in Nat
    OBVIOUS
<1>2. C = {i \in 1..Len(a.freeRanges) : Fits(a.freeRanges[i], length, alignment)}
    BY <1>1 DEF Candidates
<1>3. C \in SUBSET Nat /\ C # {}
    BY <1>1, <1>2
<1> HIDE DEF C
<1>4. \E m \in C : \A k \in C : m <= k
    BY <1>3, LeastElement
<1>5. FirstFit(a, length, alignment) = CHOOSE i \in C : \A j \in C : i <= j
    BY DEF FirstFit, C
<1> DEFINE i == FirstFit(a, length, alignment)
<1>6. i \in C /\ \A j \in C : i <= j
    BY <1>4, <1>5
<1> HIDE DEF i
<1> QED BY <1>2, <1>6 DEF i

\* Where an allocation is placed: aligned, in a free range.
LEMMA PlacedInside ==
    ASSUME NEW a, AllocatorInv(a), NEW length \in Nat, NEW alignment \in Nat,
           CanAllocate(a, length, alignment)
    PROVE  LET i  == FirstFit(a, length, alignment)
               at == Placed(a, length, alignment)
           IN /\ i \in 1..Len(a.freeRanges)
              /\ alignment # 0 /\ length > 0
              /\ at \in Nat /\ at % alignment = 0
              /\ a.freeRanges[i].offset <= at
              /\ at + length <= AfterLast(a.freeRanges[i])
              /\ \A byte \in Nat : at <= byte /\ byte < at + length => InSome(byte, a.freeRanges)
              /\ at \notin DOMAIN a.allocations
<1> DEFINE F == a.freeRanges
           i == FirstFit(a, length, alignment)
           at == Placed(a, length, alignment)
<1>1. F \in Seq(Ranges) /\ length > 0 /\ Candidates(a, length, alignment) # {}
    BY DEF AllocatorInv, AllocatorTypes, CanAllocate
<1>2. i \in 1..Len(F) /\ Fits(F[i], length, alignment)
    BY <1>1, FirstFitIsFirst
<1>3. F[i] \in Ranges /\ F[i].offset \in Nat /\ AfterLast(F[i]) \in Nat
    BY <1>1, <1>2, RangeTypes
<1>4. alignment # 0 /\ at = alignUp(F[i].offset, alignment) /\ at + length <= AfterLast(F[i])
    BY <1>2 DEF Fits, Placed
<1>5. at \in Nat /\ F[i].offset <= at /\ at % alignment = 0
    BY <1>3, <1>4, AlignUp
<1> HIDE DEF at, i
<1>6. ASSUME NEW byte \in Nat, at <= byte, byte < at + length PROVE InSome(byte, F)
  <2>1. In(byte, F[i])
      BY <1>3, <1>4, <1>5, <1>6 DEF In
  <2> QED BY <1>2, <2>1 DEF InSome
<1>7. at \notin DOMAIN a.allocations
  <2> SUFFICES ASSUME at \in DOMAIN a.allocations PROVE FALSE
      OBVIOUS
  <2>1. a.allocations[at] \in Nat \ {0}
      BY DEF AllocatorInv, AllocatorTypes
  <2>2. Used(at, a.allocations)
      BY <1>5, <2>1 DEF Used
  <2>3. InSome(at, F)
      BY <1>1, <1>5, <1>6
  <2> QED BY <1>5, <2>2, <2>3 DEF AllocatorInv, Partition
<1> QED BY <1>1, <1>2, <1>4, <1>5, <1>6, <1>7 DEF at, i

\* allocate keeps the invariant, whichever range it splits and however.
LEMMA AllocateInv ==
    ASSUME NEW a, AllocatorInv(a), NEW length \in Nat, NEW alignment \in Nat,
           CanAllocate(a, length, alignment)
    PROVE  LET b  == allocate(a, length, alignment)
               at == Placed(a, length, alignment)
           IN /\ AllocatorInv(b)
              /\ b.capacity = a.capacity
              /\ b.allocations = [o \in DOMAIN a.allocations \cup {at} |->
                                     IF o = at THEN length ELSE a.allocations[o]]
<1> DEFINE F == a.freeRanges
           A == a.allocations
           i == FirstFit(a, length, alignment)
           at == Placed(a, length, alignment)
           rest == Piece(F[i].offset, at - F[i].offset)
                   \o Piece(at + length, AfterLast(F[i]) - (at + length))
           G == SubSeq(F, 1, i - 1) \o rest \o SubSeq(F, i + 1, Len(F))
           B == [o \in DOMAIN A \cup {at} |-> IF o = at THEN length ELSE A[o]]
           b == allocate(a, length, alignment)
<1>1. /\ F \in Seq(Ranges) /\ a.capacity \in Nat /\ a.available \in Int
      /\ Positive(F) /\ Ordered(F) /\ BlocksApart(A) /\ Partition(a)
      /\ DOMAIN A \subseteq Nat /\ \A o \in DOMAIN A : A[o] \in Nat \ {0}
      /\ a.available = Cardinality(FreeBytes(a))
    BY DEF AllocatorInv, AllocatorTypes
<1>2. /\ i \in 1..Len(F) /\ length > 0 /\ at \in Nat
      /\ F[i].offset <= at /\ at + length <= AfterLast(F[i])
      /\ \A byte \in Nat : at <= byte /\ byte < at + length => InSome(byte, F)
      /\ at \notin DOMAIN A
    BY PlacedInside
<1>3. /\ b.capacity = a.capacity /\ b.available = a.available - length
      /\ b.freeRanges = G /\ b.allocations = B
      /\ b \in [capacity : {a.capacity}, available : {a.available - length},
                freeRanges : {G}, allocations : {B}]
  <2> DEFINE n == a.available - length
  <2>1. b = [a EXCEPT !.freeRanges = G, !.allocations = B, !.available = n]
      BY DEF allocate
  <2>2. AllocatorTypes(a)
      BY DEF AllocatorInv
  <2> HIDE DEF G, B, n, b
  <2>3. /\ b.capacity = a.capacity /\ b.available = n /\ b.freeRanges = G /\ b.allocations = B
        /\ b \in [capacity : {a.capacity}, available : {n}, freeRanges : {G}, allocations : {B}]
      BY <2>1, <2>2, RecordUpdate
  <2> QED BY <2>3 DEF n
<1> HIDE DEF i, at
<1>4. /\ G \in Seq(Ranges) /\ Positive(G) /\ Ordered(G)
      /\ \A byte \in Nat : InSome(byte, G) <=>
            InSome(byte, F) /\ ~(at <= byte /\ byte < at + length)
    BY <1>1, <1>2, TakenFrom
<1> HIDE DEF F, A, G, b
<1>5. DOMAIN B = DOMAIN A \cup {at} /\ B[at] = length /\ \A o \in DOMAIN A : B[o] = A[o]
    BY <1>2
<1> HIDE DEF B
<1>6. AllocatorTypes(b)
  <2>1. b \in [capacity : Nat, available : Int, freeRanges : Seq(Ranges), allocations : {B}]
      BY <1>1, <1>3, <1>4
  <2>2. DOMAIN B \subseteq Nat /\ \A o \in DOMAIN B : B[o] \in Nat \ {0}
      BY <1>1, <1>2, <1>5
  <2> QED BY <1>3, <2>1, <2>2 DEF AllocatorTypes
<1>7. ASSUME NEW byte \in Nat
      PROVE  Used(byte, B) <=> Used(byte, A) \/ (at <= byte /\ byte < at + length)
    BY <1>5 DEF Used
<1>8. Partition(b)
  <2> SUFFICES ASSUME NEW byte \in Nat
               PROVE  /\ byte < b.capacity <=> InSome(byte, G) \/ Used(byte, B)
                      /\ ~(InSome(byte, G) /\ Used(byte, B))
      BY <1>3 DEF Partition
  <2>1. /\ byte < a.capacity <=> InSome(byte, F) \/ Used(byte, A)
        /\ ~(InSome(byte, F) /\ Used(byte, A))
      BY <1>1 DEF Partition, F, A
  <2> QED BY <1>2, <1>3, <1>4, <1>7, <2>1
<1>9. BlocksApart(B)
  <2> SUFFICES ASSUME NEW o \in DOMAIN B, NEW p \in DOMAIN B, o < p
               PROVE  o + B[o] <= p
      BY DEF BlocksApart
  <2>1. CASE o \in DOMAIN A /\ p \in DOMAIN A
      BY <1>1, <1>5, <2>1 DEF BlocksApart
  <2>2. CASE o = at /\ p \in DOMAIN A
    <3>1. p \in Nat /\ A[p] \in Nat \ {0}
        BY <1>1, <2>2
    <3>2. Used(p, A)
        BY <2>2, <3>1 DEF Used
    <3>3. ~InSome(p, F)
        BY <1>1, <3>1, <3>2 DEF Partition, F, A
    <3>4. ~(p < at + length)
        BY <1>2, <2>2, <3>1, <3>3
    <3> QED BY <1>2, <1>5, <2>2, <3>1, <3>4
  <2>3. CASE o \in DOMAIN A /\ p = at
    <3>1. o \in Nat /\ A[o] \in Nat \ {0}
        BY <1>1, <2>3
    <3>2. InSome(at, F)
        BY <1>2
    <3>3. ~Used(at, A)
        BY <1>1, <1>2, <3>2 DEF Partition, F, A
    <3>4. ~(at < o + A[o])
        BY <1>2, <2>3, <3>1, <3>3 DEF Used
    <3> QED BY <1>2, <1>5, <2>3, <3>1, <3>4
  <2> QED BY <1>2, <1>5, <2>1, <2>2, <2>3
<1>10. b.available = Cardinality(FreeBytes(b))
  <2> DEFINE S == FreeBytes(a)
             T == at..(at + length - 1)
  <2>1. IsFiniteSet(S)
      BY <1>1, FreeBytesFinite
  <2>2. S \cap T = T
    <3> SUFFICES ASSUME NEW byte \in T PROVE byte \in S
        OBVIOUS
    <3>1. byte \in Nat /\ InSome(byte, F)
        BY <1>2
    <3>2. byte < a.capacity
        BY <1>1, <3>1 DEF Partition, F
    <3> QED BY <1>1, <3>1, <3>2 DEF FreeBytes, F
  <2>3. FreeBytes(b) = S \ T
      BY <1>1, <1>2, <1>3, <1>4 DEF FreeBytes, F
  <2>4. Cardinality(T) = length
      BY <1>2, FS_Interval
  <2>5. Cardinality(S \ T) = Cardinality(S) - Cardinality(S \cap T)
      BY <2>1, FS_Difference
  <2> QED BY <1>1, <1>3, <2>2, <2>3, <2>4, <2>5
<1>11. AllocatorInv(b)
    BY <1>3, <1>4, <1>6, <1>8, <1>9, <1>10 DEF AllocatorInv
<1> QED BY <1>3, <1>11 DEF b, B, A, at

\* release keeps the invariant, whichever neighbours it merges with.
LEMMA ReleaseInv ==
    ASSUME NEW a, AllocatorInv(a), NEW offset \in Nat, NEW length \in Nat,
           CanRelease(a, offset, length)
    PROVE  LET b == release(a, offset, length)
           IN /\ AllocatorInv(b)
              /\ b.capacity = a.capacity
              /\ b.allocations = [o \in DOMAIN a.allocations \ {offset} |-> a.allocations[o]]
<1> DEFINE F == a.freeRanges
           A == a.allocations
           r == Block(offset, length)
           G == insertFreeRange(F, r)
           B == [o \in DOMAIN A \ {offset} |-> A[o]]
           b == release(a, offset, length)
<1>1. /\ F \in Seq(Ranges) /\ a.capacity \in Nat /\ a.available \in Int
      /\ Positive(F) /\ Ordered(F) /\ BlocksApart(A) /\ Partition(a)
      /\ DOMAIN A \subseteq Nat /\ \A o \in DOMAIN A : A[o] \in Nat \ {0}
      /\ a.available = Cardinality(FreeBytes(a))
    BY DEF AllocatorInv, AllocatorTypes
<1>2. offset \in DOMAIN A /\ A[offset] = length /\ offset \in Nat /\ length \in Nat /\ length > 0
    BY <1>1 DEF CanRelease
<1>3. /\ b.capacity = a.capacity /\ b.available = a.available + length
      /\ b.freeRanges = G /\ b.allocations = B
      /\ b \in [capacity : {a.capacity}, available : {a.available + length},
                freeRanges : {G}, allocations : {B}]
  <2> DEFINE n == a.available + length
  <2>1. b = [a EXCEPT !.allocations = B, !.available = n, !.freeRanges = G]
      BY DEF release
  <2>2. AllocatorTypes(a)
      BY DEF AllocatorInv
  <2> HIDE DEF G, B, n, b
  <2>3. [a EXCEPT !.allocations = B, !.available = n, !.freeRanges = G]
          = [a EXCEPT !.freeRanges = G, !.allocations = B, !.available = n]
      BY <2>2 DEF AllocatorTypes
  <2>4. /\ b.capacity = a.capacity /\ b.available = n /\ b.freeRanges = G /\ b.allocations = B
        /\ b \in [capacity : {a.capacity}, available : {n}, freeRanges : {G}, allocations : {B}]
      BY <2>1, <2>2, <2>3, RecordUpdate
  <2> QED BY <2>4 DEF n
<1>4. r \in Ranges /\ r.length > 0 /\ r.offset = offset /\ AfterLast(r) = offset + length
    BY <1>2 DEF Block, Ranges, AfterLast
<1> HIDE DEF r
<1>5. \A byte \in Nat : In(byte, r) <=> offset <= byte /\ byte < offset + length
    BY <1>4 DEF In
<1>6. \A byte \in Nat : In(byte, r) => Used(byte, A) /\ ~InSome(byte, F)
    BY <1>1, <1>2, <1>5 DEF Used, Partition
<1>7. /\ G \in Seq(Ranges) /\ Positive(G) /\ Ordered(G)
      /\ \A byte \in Nat : InSome(byte, G) <=> InSome(byte, F) \/ In(byte, r)
    BY <1>1, <1>4, <1>6, Inserted
<1> HIDE DEF F, A, G, b
<1>8. DOMAIN B = DOMAIN A \ {offset} /\ \A o \in DOMAIN B : B[o] = A[o]
    OBVIOUS
<1> HIDE DEF B
<1>9. AllocatorTypes(b)
  <2>1. b \in [capacity : Nat, available : Int, freeRanges : Seq(Ranges), allocations : {B}]
      BY <1>1, <1>2, <1>3, <1>7
  <2>2. DOMAIN B \subseteq Nat /\ \A o \in DOMAIN B : B[o] \in Nat \ {0}
      BY <1>1, <1>8
  <2> QED BY <1>3, <2>1, <2>2 DEF AllocatorTypes
<1>10. ASSUME NEW byte \in Nat PROVE Used(byte, B) <=> Used(byte, A) /\ ~In(byte, r)
  <2>1. ASSUME NEW o \in DOMAIN B, o <= byte, byte < o + B[o] PROVE Used(byte, A) /\ ~In(byte, r)
    <3>1. o \in DOMAIN A /\ o # offset /\ B[o] = A[o] /\ o \in Nat /\ A[o] \in Nat
        BY <1>1, <1>8
    <3>2. o < offset => o + A[o] <= offset
        BY <1>1, <1>2, <3>1 DEF BlocksApart
    <3>3. offset < o => offset + length <= o
        BY <1>1, <1>2, <3>1 DEF BlocksApart
    <3> QED BY <1>2, <1>5, <2>1, <3>1, <3>2, <3>3 DEF Used
  <2>2. ASSUME Used(byte, A), ~In(byte, r) PROVE Used(byte, B)
    <3>1. PICK o \in DOMAIN A : o <= byte /\ byte < o + A[o]
        BY <2>2 DEF Used
    <3>2. o # offset
        BY <1>2, <1>5, <2>2, <3>1
    <3> QED BY <1>8, <3>1, <3>2 DEF Used
  <2> QED BY <2>1, <2>2 DEF Used
<1>11. Partition(b)
  <2> SUFFICES ASSUME NEW byte \in Nat
               PROVE  /\ byte < b.capacity <=> InSome(byte, G) \/ Used(byte, B)
                      /\ ~(InSome(byte, G) /\ Used(byte, B))
      BY <1>3 DEF Partition
  <2>1. /\ byte < a.capacity <=> InSome(byte, F) \/ Used(byte, A)
        /\ ~(InSome(byte, F) /\ Used(byte, A))
      BY <1>1 DEF Partition, F, A
  <2> QED BY <1>3, <1>6, <1>7, <1>10, <2>1
<1>12. BlocksApart(B)
    BY <1>1, <1>8 DEF BlocksApart
<1>13. b.available = Cardinality(FreeBytes(b))
  <2> DEFINE S == FreeBytes(a)
             T == offset..(offset + length - 1)
  <2>1. IsFiniteSet(S) /\ IsFiniteSet(T) /\ Cardinality(T) = length
    <3>1. offset \in Int /\ offset + length - 1 \in Int /\ offset <= offset + length - 1
        BY <1>2
    <3>2. IsFiniteSet(T) /\ Cardinality(T) = length
        BY <1>2, <3>1, FS_Interval
    <3> QED BY <1>1, <3>2, FreeBytesFinite
  <2>2. S \cap T = {}
    <3> SUFFICES ASSUME NEW byte \in S, byte \in T PROVE FALSE
        OBVIOUS
    <3>1. byte \in Nat /\ In(byte, r) /\ InSome(byte, F)
        BY <1>1, <1>2, <1>5 DEF FreeBytes, F
    <3> QED BY <1>6, <3>1
  <2>3. FreeBytes(b) = S \cup T
    <3>1. ASSUME NEW byte \in T PROVE byte \in 0..(a.capacity - 1) /\ In(byte, r)
      <4>1. byte \in Nat /\ In(byte, r)
          BY <1>2, <1>5
      <4>2. byte < a.capacity
          BY <1>1, <1>6, <4>1 DEF Partition, A
      <4> QED BY <1>1, <4>1, <4>2
    <3>2. ASSUME NEW byte \in 0..(a.capacity - 1) PROVE byte \in T <=> In(byte, r)
        BY <1>1, <1>2, <1>5
    <3>3. FreeBytes(b) = {byte \in 0..(a.capacity - 1) : InSome(byte, F) \/ In(byte, r)}
        BY <1>1, <1>3, <1>7 DEF FreeBytes
    <3>4. S = {byte \in 0..(a.capacity - 1) : InSome(byte, F)}
        BY DEF FreeBytes, F
    <3> HIDE DEF S, T
    <3> QED BY <3>1, <3>2, <3>3, <3>4
  <2>4. Cardinality(S \cup T) = Cardinality(S) + Cardinality(T) - Cardinality(S \cap T)
      BY <2>1, FS_Union
  <2>5. Cardinality({}) = 0
      BY FS_EmptySet
  <2> HIDE DEF S, T
  <2>6. Cardinality(S) = a.available
      BY <1>1 DEF S
  <2>8. Cardinality(S \cap T) = 0
      BY <2>2, <2>5, Zenon
  <2>9. Cardinality(S \cup T) = a.available + length - 0
      BY <2>1, <2>4, <2>6, <2>8, Zenon
  <2>7. Cardinality(S \cup T) = a.available + length
      BY <1>1, <1>2, <2>9
  <2> QED BY <1>3, <2>3, <2>7
<1>14. AllocatorInv(b)
    BY <1>3, <1>7, <1>9, <1>11, <1>12, <1>13 DEF AllocatorInv
<1> QED BY <1>3, <1>14 DEF b, B, A

----------------------------------------------------------------------------
(* FreeList: one allocator object under every sequence of calls.           *)

FreeListInv == AllocatorInv(allocator) /\ allocator.capacity \in Capacities

\* Every step of the object keeps it.
LEMMA Inductive ==
    ASSUME FreeListInv, [FreeListNext]_freeListVars
    PROVE  FreeListInv'
<1> USE CallAssumption, MaxSizeAssumption
<1>1. ASSUME NEW capacity \in Capacities, Reset(capacity) PROVE FreeListInv'
  <2>1. capacity \in Nat
      OBVIOUS
  <2>2. AllocatorInv(reset(capacity))
      BY <2>1, ResetInv
  <2>3. allocator' = reset(capacity) /\ reset(capacity).capacity = capacity
      BY <1>1 DEF Reset, reset
  <2> QED BY <2>2, <2>3 DEF FreeListInv
<1>2. ASSUME NEW length \in Requests, NEW alignment \in Alignments, Allocate(length, alignment)
      PROVE  FreeListInv'
  <2>1. CASE UNCHANGED allocator
      BY <2>1 DEF FreeListInv
  <2>2. CASE CanAllocate(allocator, length, alignment) /\ allocator' = allocate(allocator, length, alignment)
    <3>1. length \in Nat /\ alignment \in Nat /\ AllocatorInv(allocator)
        BY DEF FreeListInv
    <3>2. /\ AllocatorInv(allocate(allocator, length, alignment))
          /\ allocate(allocator, length, alignment).capacity = allocator.capacity
        BY <2>2, <3>1, AllocateInv
    <3> QED BY <2>2, <3>2 DEF FreeListInv
  <2> QED BY <1>2, <2>1, <2>2 DEF Allocate
<1>3. ASSUME NEW offset \in 0..allocator.capacity, NEW length \in Requests, Release(offset, length) PROVE FreeListInv'
  <2>1. CASE UNCHANGED allocator
      BY <2>1 DEF FreeListInv
  <2>2. CASE CanRelease(allocator, offset, length) /\ allocator' = release(allocator, offset, length)
    <3>1. offset \in Nat /\ length \in Nat /\ AllocatorInv(allocator)
        BY DEF FreeListInv
    <3>2. /\ AllocatorInv(release(allocator, offset, length))
          /\ release(allocator, offset, length).capacity = allocator.capacity
        BY <2>2, <3>1, ReleaseInv
    <3> QED BY <2>2, <3>2 DEF FreeListInv
  <2> QED BY <1>3, <2>1, <2>2 DEF Release
<1>4. CASE UNCHANGED freeListVars
    BY <1>4 DEF FreeListInv, freeListVars
<1> QED BY <1>1, <1>2, <1>3, <1>4 DEF FreeListNext

\* It holds after construction.
LEMMA Initial ==
    ASSUME FreeListInit
    PROVE  FreeListInv
<1>1. PICK capacity \in Capacities : allocator = reset(capacity)
    BY DEF FreeListInit
<1>2. capacity \in Nat /\ reset(capacity).capacity = capacity
    BY CallAssumption, MaxSizeAssumption DEF reset
<1>3. AllocatorInv(reset(capacity))
    BY <1>2, ResetInv
<1> QED BY <1>1, <1>2, <1>3 DEF FreeListInv

\* The inductive invariant holds throughout.
LEMMA Invariant == FreeListSpec => []FreeListInv
<1>1. FreeListInit => FreeListInv
    BY Initial
<1>2. FreeListInv /\ [FreeListNext]_freeListVars => FreeListInv'
    BY Inductive
<1> QED BY <1>1, <1>2, PTL DEF FreeListSpec

\* The parts of the invariant, for one reading of the object.
LEMMA InvTypes ==
    ASSUME FreeListInv
    PROVE  /\ allocator.freeRanges \in Seq(Ranges) /\ allocator.capacity \in Nat
           /\ allocator.capacity <= MaxSize
           /\ Len(allocator.freeRanges) \in Nat
           /\ DOMAIN allocator.freeRanges = 1..Len(allocator.freeRanges)
           /\ Positive(allocator.freeRanges) /\ Ordered(allocator.freeRanges)
           /\ BlocksApart(allocator.allocations) /\ Partition(allocator)
           /\ DOMAIN allocator.allocations \subseteq Nat
           /\ \A o \in DOMAIN allocator.allocations : allocator.allocations[o] \in Nat \ {0}
           /\ allocator.available = Cardinality(FreeBytes(allocator))
<1>1. AllocatorTypes(allocator)
    BY DEF FreeListInv, AllocatorInv
<1>2. allocator.freeRanges \in Seq(Ranges) /\ allocator.capacity \in Nat
    BY <1>1 DEF AllocatorTypes
<1>3. Len(allocator.freeRanges) \in Nat /\ DOMAIN allocator.freeRanges = 1..Len(allocator.freeRanges)
    BY <1>2
<1>4. allocator.capacity <= MaxSize
  <2>1. allocator.capacity \in 0..MaxSize
      BY CallAssumption, Zenon DEF FreeListInv
  <2> QED BY <2>1, MaxSizeAssumption
<1> QED BY <1>1, <1>2, <1>3, <1>4 DEF FreeListInv, AllocatorInv, AllocatorTypes

\* It implies the type invariant.
LEMMA InvType == FreeListInv => FreeListTypeOK
<1> SUFFICES ASSUME FreeListInv PROVE FreeListTypeOK
    OBVIOUS
<1> DEFINE F == allocator.freeRanges
           A == allocator.allocations
           c == allocator.capacity
<1>1. /\ F \in Seq(Ranges) /\ c \in Nat /\ DOMAIN F = 1..Len(F) /\ Len(F) \in Nat
      /\ Positive(F) /\ Partition(allocator) /\ DOMAIN A \subseteq Nat
      /\ \A o \in DOMAIN A : A[o] \in Nat \ {0}
    BY InvTypes
<1>2. allocator.available \in 0..c
    BY <1>1, FreeBytesFinite, InvTypes
<1>3. ASSUME NEW r \in Ranges, r.length > 0,
             \A byte \in Nat : In(byte, r) => byte < c
      PROVE  r.offset \in 0..c /\ r.length \in 1..c /\ AfterLast(r) <= c
  <2>1. r.offset \in Nat /\ r.length \in Nat /\ AfterLast(r) = r.offset + r.length
      BY RangeTypes
  <2>2. AfterLast(r) - 1 \in Nat /\ In(AfterLast(r) - 1, r)
      BY <1>3, <2>1 DEF In
  <2> QED BY <1>1, <1>3, <2>1, <2>2
<1>4. ASSUME NEW r \in ToSet(F)
      PROVE  r.offset \in 0..c /\ r.length \in 1..c /\ AfterLast(r) <= c
  <2>1. PICK k \in 1..Len(F) : r = F[k]
      BY <1>1 DEF ToSet
  <2>2. r \in Ranges /\ r.length > 0
      BY <1>1, <2>1 DEF Positive
  <2>3. \A byte \in Nat : In(byte, r) => byte < c
      BY <1>1, <2>1 DEF Partition, InSome
  <2> QED BY <1>3, <2>2, <2>3
<1>5. ASSUME NEW r \in Blocks
      PROVE  r.offset \in 0..c /\ r.length \in 1..c /\ AfterLast(r) <= c
  <2>1. PICK o \in DOMAIN A : r = Block(o, A[o])
      BY DEF Blocks
  <2>2. o \in Nat /\ A[o] \in Nat \ {0}
      BY <1>1
  <2>3. r \in Ranges /\ r.length > 0 /\ r.offset = o /\ AfterLast(r) = o + A[o]
      BY <2>1, <2>2 DEF Block, Ranges, AfterLast
  <2>4. \A byte \in Nat : In(byte, r) => byte < c
      BY <1>1, <2>3 DEF Partition, Used, In
  <2> QED BY <1>3, <2>3, <2>4
<1>6. allocator.capacity \in Capacities
    BY DEF FreeListInv
<1> QED BY <1>2, <1>4, <1>5, <1>6 DEF FreeListTypeOK

\* It implies that the look-up of the writable alias is exact: blocks do not
\* overlap, so the last one that starts at or before an offset is the only one
\* that can hold it.
LEMMA InvContains == FreeListInv => ContainsIsExact
<1> SUFFICES ASSUME FreeListInv, NEW offset \in 0..allocator.capacity, NEW length \in Requests
             PROVE  contains(allocator, offset, length) <=>
                      /\ length # 0
                      /\ \E b \in Blocks : b.offset <= offset /\ offset + length <= AfterLast(b)
    BY DEF ContainsIsExact
<1> DEFINE A == allocator.allocations
           before == {o \in DOMAIN A : o <= offset}
           start == CHOOSE o \in before : \A p \in before : p <= o
<1>1. /\ DOMAIN A \subseteq Nat /\ BlocksApart(A)
      /\ \A o \in DOMAIN A : A[o] \in Nat \ {0}
      /\ offset \in Nat /\ length \in Nat
    BY InvTypes, CallAssumption
<1>2. (\E b \in Blocks : b.offset <= offset /\ offset + length <= AfterLast(b))
        <=> \E o \in before : offset + length <= o + A[o]
  <2>1. ASSUME NEW b \in Blocks, b.offset <= offset, offset + length <= AfterLast(b)
        PROVE  \E o \in before : offset + length <= o + A[o]
    <3>1. PICK o \in DOMAIN A : b = Block(o, A[o])
        BY DEF Blocks
    <3>2. b.offset = o /\ AfterLast(b) = o + A[o]
        BY <3>1 DEF Block, AfterLast
    <3> QED BY <2>1, <3>2
  <2>2. ASSUME NEW o \in before, offset + length <= o + A[o]
        PROVE  \E b \in Blocks : b.offset <= offset /\ offset + length <= AfterLast(b)
    <3>1. Block(o, A[o]) \in Blocks
        BY DEF Blocks
    <3>2. Block(o, A[o]).offset = o /\ AfterLast(Block(o, A[o])) = o + A[o]
        BY DEF Block, AfterLast
    <3> QED BY <2>2, <3>1, <3>2
  <2> QED BY <2>1, <2>2
<1>3. contains(allocator, offset, length) <=>
        /\ length # 0 /\ before # {}
        /\ length <= A[start] /\ offset - start <= A[start] - length
    BY DEF contains
<1>4. before # {} => start \in before /\ \A p \in before : p <= start
  <2> SUFFICES ASSUME before # {} PROVE \E o \in before : \A p \in before : p <= o
      OBVIOUS
  <2> DEFINE S == {offset - o : o \in before}
  <2>1. S \in SUBSET Nat /\ S # {}
      BY <1>1
  <2>2. PICK m \in S : \A k \in S : m <= k
    <3> HIDE DEF S
    <3> QED BY <2>1, LeastElement
  <2>3. PICK o \in before : m = offset - o
      OBVIOUS
  <2>4. \A p \in before : offset - o <= offset - p
      BY <2>2, <2>3
  <2> QED BY <1>1, <2>4
<1> HIDE DEF start
<1>5. ASSUME before # {}
      PROVE  (\E o \in before : offset + length <= o + A[o]) /\ length # 0 <=>
               length # 0 /\ length <= A[start] /\ offset - start <= A[start] - length
  <2>1. /\ start \in before /\ start \in Nat /\ A[start] \in Nat \ {0} /\ start <= offset
        /\ start \in DOMAIN A
      BY <1>1, <1>4, <1>5
  <2>2. ASSUME NEW o \in before, offset + length <= o + A[o], length # 0 PROVE o = start
    <3>1. o \in Nat /\ A[o] \in Nat \ {0} /\ o <= start /\ o \in DOMAIN A
        BY <1>1, <1>4, <1>5
    <3>2. o < start => o + A[o] <= start
        BY <1>1, <2>1, <3>1 DEF BlocksApart
    <3> QED BY <1>1, <2>1, <2>2, <3>1, <3>2
  <2>3. (length <= A[start] /\ offset - start <= A[start] - length)
           <=> offset + length <= start + A[start]
      BY <1>1, <2>1
  <2> QED BY <2>1, <2>2, <2>3
<1> QED BY <1>2, <1>3, <1>5

-----------------------------------------------------------------------------
\* It implies that free ranges and blocks tile the segment.
LEMMA InvTiled == FreeListInv => Tiled
<1> SUFFICES ASSUME FreeListInv PROVE Tiled
    OBVIOUS
<1> DEFINE F == allocator.freeRanges
           A == allocator.allocations
           c == allocator.capacity
           Bytes(r) == r.offset..(AfterLast(r) - 1)
           free(byte) == {i \in DOMAIN F : byte \in Bytes(F[i])}
           used(byte) == {r \in Blocks : byte \in Bytes(r)}
<1>1. /\ F \in Seq(Ranges) /\ c \in Nat /\ DOMAIN F = 1..Len(F) /\ Len(F) \in Nat
      /\ Ordered(F) /\ Partition(allocator) /\ BlocksApart(A) /\ DOMAIN A \subseteq Nat
      /\ \A o \in DOMAIN A : A[o] \in Nat \ {0}
      /\ allocator.available = Cardinality(FreeBytes(allocator))
    BY InvTypes
<1>2. ASSUME NEW r \in Ranges, NEW byte \in Int PROVE byte \in Bytes(r) <=> In(byte, r)
  <2>1. r.offset \in Nat /\ AfterLast(r) \in Nat
      BY RangeTypes
  <2> QED BY <2>1 DEF In
<1>3. \A i \in DOMAIN F : F[i] \in Ranges
    BY <1>1
<1>4. ASSUME NEW r \in Blocks
      PROVE  \E o \in DOMAIN A : r = Block(o, A[o]) /\ r \in Ranges
                                 /\ \A byte \in Nat : In(byte, r) <=> o <= byte /\ byte < o + A[o]
  <2>1. PICK o \in DOMAIN A : r = Block(o, A[o])
      BY DEF Blocks
  <2>2. o \in Nat /\ A[o] \in Nat
      BY <1>1
  <2>3. r \in Ranges /\ r.offset = o /\ AfterLast(r) = o + A[o]
      BY <2>1, <2>2 DEF Block, Ranges, AfterLast
  <2> QED BY <2>1, <2>3 DEF In
<1>5. ASSUME NEW byte \in 0..(c - 1)
      PROVE  Cardinality(free(byte)) + Cardinality(used(byte)) = 1
  <2>0. byte \in Nat /\ byte < c /\ byte \in Int
      BY <1>1
  <2>1. free(byte) = {i \in 1..Len(F) : In(byte, F[i])}
      BY <1>1, <1>2, <1>3, <2>0
  <2>2. used(byte) = {r \in Blocks : In(byte, r)}
      BY <1>2, <1>4, <2>0
  <2>3. /\ InSome(byte, F) \/ Used(byte, A)
        /\ ~(InSome(byte, F) /\ Used(byte, A))
      BY <1>1, <2>0 DEF Partition
  <2>4. Used(byte, A) <=> used(byte) # {}
    <3>1. ASSUME NEW o \in DOMAIN A, o <= byte, byte < o + A[o] PROVE used(byte) # {}
      <4> DEFINE r == Block(o, A[o])
      <4>1. r \in Blocks
          BY DEF Blocks
      <4>2. r.offset = o /\ AfterLast(r) = o + A[o]
          BY DEF Block, AfterLast
      <4>3. In(byte, r)
          BY <3>1, <4>2 DEF In
      <4> QED BY <2>2, <4>1, <4>3
    <3>2. ASSUME NEW r \in used(byte) PROVE Used(byte, A)
        BY <1>4, <2>0, <2>2 DEF Used
    <3> QED BY <3>1, <3>2 DEF Used
  <2>5. InSome(byte, F) <=> free(byte) # {}
      BY <2>1 DEF InSome
  <2>6. ASSUME NEW i \in free(byte), NEW j \in free(byte) PROVE i = j
    <3>1. /\ i \in 1..Len(F) /\ j \in 1..Len(F) /\ In(byte, F[i]) /\ In(byte, F[j])
          /\ F[i] \in Ranges /\ F[j] \in Ranges
        BY <1>1, <2>1
    <3>2. /\ F[i].offset \in Nat /\ F[j].offset \in Nat
          /\ AfterLast(F[i]) \in Nat /\ AfterLast(F[j]) \in Nat
        BY <3>1, RangeTypes
    <3>3. ~(i < j)
        BY <1>1, <2>0, <3>1, <3>2 DEF Ordered, In
    <3>4. ~(j < i)
        BY <1>1, <2>0, <3>1, <3>2 DEF Ordered, In
    <3> QED BY <3>1, <3>3, <3>4
  <2>7. ASSUME NEW r \in used(byte), NEW s \in used(byte) PROVE r = s
    <3>1. PICK o \in DOMAIN A : r = Block(o, A[o]) /\ o <= byte /\ byte < o + A[o]
        BY <1>4, <2>0, <2>2
    <3>2. PICK p \in DOMAIN A : s = Block(p, A[p]) /\ p <= byte /\ byte < p + A[p]
        BY <1>4, <2>0, <2>2
    <3>3. o \in Nat /\ p \in Nat /\ A[o] \in Nat /\ A[p] \in Nat
        BY <1>1
    <3>4. ~(o < p) /\ ~(p < o)
        BY <1>1, <2>0, <3>1, <3>2, <3>3 DEF BlocksApart
    <3>5. o = p
        BY <3>3, <3>4
    <3> QED BY <3>1, <3>2, <3>5
  <2> HIDE DEF free, used
  <2>8. CASE InSome(byte, F)
    <3>1. used(byte) = {}
        BY <2>3, <2>4, <2>8
    <3>2. PICK i : i \in free(byte)
        BY <2>5, <2>8
    <3>3. free(byte) = {i}
        BY <2>6, <3>2
    <3>4. Cardinality({i}) = 1 /\ Cardinality({}) = 0
        BY FS_Singleton, FS_EmptySet
    <3> QED BY <3>1, <3>3, <3>4
  <2>9. CASE Used(byte, A)
    <3>1. free(byte) = {}
        BY <2>3, <2>5, <2>9
    <3>2. PICK r : r \in used(byte)
        BY <2>4, <2>9
    <3>3. used(byte) = {r}
        BY <2>7, <3>2
    <3>4. Cardinality({r}) = 1 /\ Cardinality({}) = 0
        BY FS_Singleton, FS_EmptySet
    <3> QED BY <3>1, <3>3, <3>4
  <2> QED BY <2>3, <2>8, <2>9
<1>6. FreeBytes(allocator) = UNION {Bytes(F[i]) : i \in DOMAIN F}
  <2>1. ASSUME NEW byte \in FreeBytes(allocator) PROVE \E i \in DOMAIN F : byte \in Bytes(F[i])
    <3>1. byte \in Int /\ InSome(byte, F)
        BY <1>1 DEF FreeBytes
    <3> QED BY <1>1, <1>2, <1>3, <3>1 DEF InSome
  <2>2. ASSUME NEW i \in DOMAIN F, NEW byte \in Bytes(F[i]) PROVE byte \in FreeBytes(allocator)
    <3>1. F[i].offset \in Nat /\ AfterLast(F[i]) \in Nat /\ F[i] \in Ranges
        BY <1>3, RangeTypes
    <3>2. byte \in Nat /\ In(byte, F[i])
        BY <2>2, <3>1 DEF In
    <3>3. InSome(byte, F)
        BY <1>1, <3>2 DEF InSome
    <3>4. byte < c
        BY <1>1, <3>2, <3>3 DEF Partition
    <3> QED BY <1>1, <3>2, <3>3, <3>4 DEF FreeBytes
  <2> HIDE DEF Bytes
  <2> QED BY <2>1, <2>2
<1>7. allocator.available = Cardinality(UNION {Bytes(F[i]) : i \in DOMAIN F})
    BY <1>1, <1>6
<1> QED BY <1>5, <1>7 DEF Tiled

\* Where a block could be: BlockMap's places are the places the free list has.
LEMMA FreePlace ==
    ASSUME FreeListInv, NEW length \in Nat, NEW alignment \in Nat, NEW o \in Nat,
           length # 0, alignment # 0, o % alignment = 0, o + length <= allocator.capacity,
           \A byte \in Nat : o <= byte /\ byte < o + length => ~Used(byte, allocator.allocations)
    PROVE  /\ CanAllocate(allocator, length, alignment)
           /\ Placed(allocator, length, alignment) <= o
<1> DEFINE F == allocator.freeRanges
           A == allocator.allocations
<1>1. /\ F \in Seq(Ranges) /\ Ordered(F) /\ Partition(allocator) /\ DOMAIN F = 1..Len(F)
      /\ allocator.capacity \in Nat /\ allocator.capacity <= MaxSize /\ MaxSize \in Nat /\ Len(F) \in Nat
    BY InvTypes, MaxSizeAssumption
<1>2. \A byte \in Nat : o <= byte /\ byte < o + length => InSome(byte, F)
    BY <1>1 DEF Partition
<1>3. PICK j \in 1..Len(F) : In(o, F[j])
    BY <1>2 DEF InSome
<1>4. F[j] \in Ranges /\ F[j].offset \in Nat /\ AfterLast(F[j]) \in Nat
    BY <1>1, RangeTypes
<1>5. o + length <= AfterLast(F[j])
  <2> SUFFICES ASSUME AfterLast(F[j]) < o + length PROVE FALSE
      BY <1>4
  <2>1. InSome(AfterLast(F[j]), F)
      BY <1>2, <1>3, <1>4 DEF In
  <2>2. PICK m \in 1..Len(F) : In(AfterLast(F[j]), F[m])
      BY <2>1 DEF InSome
  <2>3. F[m].offset \in Nat /\ AfterLast(F[m]) \in Nat
      BY <1>1, RangeTypes
  <2>4. ~(j < m)
      BY <1>1, <1>4, <2>2, <2>3 DEF Ordered, In
  <2>5. ~(m < j)
    <3> SUFFICES ASSUME m < j PROVE FALSE
        OBVIOUS
    <3>1. AfterLast(F[m]) < F[j].offset
        BY <1>1 DEF Ordered
    <3> QED BY <1>3, <1>4, <2>2, <2>3, <3>1 DEF In
  <2>6. m = j
      BY <2>4, <2>5
  <2> QED BY <1>4, <2>2, <2>6 DEF In
<1> DEFINE at == alignUp(F[j].offset, alignment)
<1>6. at \in Nat /\ at <= o
    BY <1>3, <1>4, AlignUp DEF In
<1>7. Fits(F[j], length, alignment)
  <2>1. at <= MaxSize /\ at + length <= AfterLast(F[j])
      BY <1>1, <1>4, <1>5, <1>6
  <2> QED BY <2>1 DEF Fits
<1>8. CanAllocate(allocator, length, alignment)
    BY <1>1, <1>7 DEF CanAllocate, Candidates
<1> DEFINE i == FirstFit(allocator, length, alignment)
<1>9. i \in 1..Len(F) /\ Fits(F[i], length, alignment) /\ i <= j
    BY <1>1, <1>7, <1>8, FirstFitIsFirst DEF CanAllocate
<1>10. Placed(allocator, length, alignment) = alignUp(F[i].offset, alignment)
    BY DEF Placed
<1> HIDE DEF i
<1>11. CASE i = j
    BY <1>6, <1>8, <1>10, <1>11
<1>12. CASE i < j
  <2>1. F[i].offset \in Nat /\ AfterLast(F[i]) \in Nat
      BY <1>1, <1>9, RangeTypes
  <2>2. alignUp(F[i].offset, alignment) + length <= AfterLast(F[i])
      BY <1>9 DEF Fits
  <2>3. alignUp(F[i].offset, alignment) \in Nat
      BY <2>1, AlignUp
  <2>4. AfterLast(F[i]) < F[j].offset
      BY <1>1, <1>9, <1>12 DEF Ordered
  <2>5. alignUp(F[i].offset, alignment) <= o
      BY <1>3, <1>4, <2>1, <2>2, <2>3, <2>4 DEF In
  <2> QED BY <1>8, <1>10, <2>5
<1> QED BY <1>8, <1>9, <1>11, <1>12

-----------------------------------------------------------------------------
\* The places of the block map are the places FreePlace speaks of.
LEMMA PlaceIsFree ==
    ASSUME FreeListInv, NEW length \in Nat, NEW alignment \in Nat, NEW o
    PROVE  o \in Promise!Places(length, alignment) <=>
             /\ o \in Nat /\ length # 0 /\ alignment # 0 /\ o % alignment = 0
             /\ o + length <= allocator.capacity
             /\ \A byte \in Nat : o <= byte /\ byte < o + length => ~Used(byte, allocator.allocations)
<1> DEFINE A == allocator.allocations
           c == allocator.capacity
<1>1. c \in Nat /\ DOMAIN A \subseteq Nat /\ \A p \in DOMAIN A : A[p] \in Nat
    BY InvTypes
<1>2. \A byte \in Nat : Promise!Free(byte) <=> ~Used(byte, A)
    BY <1>1 DEF Promise!Free, Used
<1>3. o \in 0..(c - length) <=> o \in Nat /\ o + length <= c
    BY <1>1
<1>4. ASSUME o \in Nat
      PROVE  (\A byte \in o..(o + length - 1) : Promise!Free(byte)) <=>
             (\A byte \in Nat : o <= byte /\ byte < o + length => ~Used(byte, A))
  <2>1. \A byte : byte \in o..(o + length - 1) <=> byte \in Nat /\ o <= byte /\ byte < o + length
      BY <1>4
  <2> QED BY <1>2, <2>1
<1>5. o \in Promise!Places(length, alignment) <=>
        /\ o \in 0..(c - length)
        /\ length # 0 /\ alignment # 0 /\ o % alignment = 0
        /\ \A byte \in o..(o + length - 1) : Promise!Free(byte)
    BY DEF Promise!Places
<1> QED BY <1>3, <1>4, <1>5

\* An allocation that succeeds is at the lowest place there is.
LEMMA PlacedIsLowest ==
    ASSUME FreeListInv, NEW length \in Nat, NEW alignment \in Nat,
           CanAllocate(allocator, length, alignment)
    PROVE  /\ Placed(allocator, length, alignment) \in Promise!Places(length, alignment)
           /\ \A o \in Promise!Places(length, alignment) : Placed(allocator, length, alignment) <= o
<1> DEFINE at == Placed(allocator, length, alignment)
           i == FirstFit(allocator, length, alignment)
           F == allocator.freeRanges
<1>1. AllocatorInv(allocator) /\ Partition(allocator) /\ allocator.capacity \in Nat
    BY InvTypes DEF FreeListInv
<1>2. /\ alignment # 0 /\ length > 0 /\ at \in Nat /\ at % alignment = 0
      /\ \A byte \in Nat : at <= byte /\ byte < at + length => InSome(byte, F)
    BY <1>1, PlacedInside
<1> HIDE DEF at
<1>3. at + length <= allocator.capacity
  <2>1. at + length - 1 \in Nat /\ InSome(at + length - 1, F)
      BY <1>2
  <2>2. at + length - 1 < allocator.capacity
      BY <1>1, <2>1 DEF Partition
  <2> QED BY <1>1, <1>2, <2>2
<1>4. \A byte \in Nat : at <= byte /\ byte < at + length => ~Used(byte, allocator.allocations)
    BY <1>1, <1>2 DEF Partition
<1>5. at \in Promise!Places(length, alignment)
    BY <1>2, <1>3, <1>4, PlaceIsFree
<1>6. ASSUME NEW o \in Promise!Places(length, alignment) PROVE at <= o
  <2>1. /\ o \in Nat /\ length # 0 /\ alignment # 0 /\ o % alignment = 0
        /\ o + length <= allocator.capacity
        /\ \A byte \in Nat : o <= byte /\ byte < o + length => ~Used(byte, allocator.allocations)
      BY PlaceIsFree
  <2> QED BY <2>1, FreePlace DEF at
<1> QED BY <1>5, <1>6 DEF at

\* A request is refused only when the block map has no place for it.
LEMMA RefusedHasNoPlace ==
    ASSUME FreeListInv, NEW length \in Nat, NEW alignment \in Nat,
           ~CanAllocate(allocator, length, alignment)
    PROVE  Promise!Places(length, alignment) = {}
<1> SUFFICES ASSUME NEW o \in Promise!Places(length, alignment) PROVE FALSE
    OBVIOUS
<1>1. /\ o \in Nat /\ length # 0 /\ alignment # 0 /\ o % alignment = 0
      /\ o + length <= allocator.capacity
      /\ \A byte \in Nat : o <= byte /\ byte < o + length => ~Used(byte, allocator.allocations)
    BY PlaceIsFree
<1> QED BY <1>1, FreePlace

\* Every call of the allocator is a call of the block map.
LEMMA StepRefines ==
    ASSUME FreeListInv, [FreeListNext]_freeListVars
    PROVE  [Promise!Next]_(Promise!vars)
<1> USE CallAssumption, MaxSizeAssumption
<1>0. AllocatorInv(allocator)
    BY DEF FreeListInv
<1>1. ASSUME NEW capacity \in Capacities, Reset(capacity) PROVE Promise!Next
  <2>1. allocator'.capacity = capacity /\ allocator'.allocations = << >> /\ answer' = Done
      BY <1>1 DEF Reset, reset
  <2>2. Promise!Reset(capacity)
      BY <2>1 DEF Promise!Reset
  <2> QED BY <2>2 DEF Promise!Next
<1>2. ASSUME NEW length \in Requests, NEW alignment \in Alignments, Allocate(length, alignment)
      PROVE  Promise!Next
  <2>1. length \in Nat /\ alignment \in Nat
      OBVIOUS
  <2> DEFINE at == Placed(allocator, length, alignment)
  <2>2. CASE CanAllocate(allocator, length, alignment)
    <3>1. answer' = at /\ allocator' = allocate(allocator, length, alignment)
        BY <1>2, <2>2 DEF Allocate
    <3>2. /\ allocate(allocator, length, alignment).capacity = allocator.capacity
          /\ allocate(allocator, length, alignment).allocations
               = [o \in DOMAIN allocator.allocations \cup {at} |->
                     IF o = at THEN length ELSE allocator.allocations[o]]
        BY <1>0, <2>1, <2>2, AllocateInv
    <3>3. /\ at \in Promise!Places(length, alignment)
          /\ \A o \in Promise!Places(length, alignment) : at <= o
        BY <2>1, <2>2, PlacedIsLowest
    <3> HIDE DEF at
    <3>4. Promise!Allocate(length, alignment)
        BY <3>1, <3>2, <3>3 DEF Promise!Allocate
    <3> QED BY <3>4 DEF Promise!Next
  <2>3. CASE ~CanAllocate(allocator, length, alignment)
    <3>1. answer' = Refused /\ UNCHANGED allocator
        BY <1>2, <2>3 DEF Allocate
    <3>2. Promise!Places(length, alignment) = {}
        BY <2>1, <2>3, RefusedHasNoPlace
    <3>3. Promise!Allocate(length, alignment)
        BY <3>1, <3>2 DEF Promise!Allocate
    <3> QED BY <3>3 DEF Promise!Next
  <2> QED BY <2>2, <2>3
<1>3. ASSUME NEW offset \in 0..allocator.capacity, NEW length \in Requests, Release(offset, length)
      PROVE  Promise!Next
  <2>1. offset \in Nat /\ length \in Nat
      OBVIOUS
  <2>2. CASE CanRelease(allocator, offset, length)
    <3>1. answer' = Done /\ allocator' = release(allocator, offset, length)
        BY <1>3, <2>2 DEF Release
    <3>2. /\ release(allocator, offset, length).capacity = allocator.capacity
          /\ release(allocator, offset, length).allocations
               = [o \in DOMAIN allocator.allocations \ {offset} |-> allocator.allocations[o]]
        BY <1>0, <2>1, <2>2, ReleaseInv
    <3>3. Promise!Release(offset, length)
        BY <2>2, <3>1, <3>2 DEF Promise!Release, CanRelease
    <3> QED BY <3>3 DEF Promise!Next
  <2>3. CASE ~CanRelease(allocator, offset, length)
    <3>1. answer' = Refused /\ UNCHANGED allocator
        BY <1>3, <2>3 DEF Release
    <3>2. Promise!Release(offset, length)
        BY <2>3, <3>1 DEF Promise!Release, CanRelease
    <3> QED BY <3>2 DEF Promise!Next
  <2> QED BY <2>2, <2>3
<1>4. CASE UNCHANGED freeListVars
    BY <1>4 DEF freeListVars, Promise!vars
<1> QED BY <1>1, <1>2, <1>3, <1>4 DEF FreeListNext

\* For every capacity and every sequence of reset, allocate and release: all
\* ranges, free or allocated, are non-empty and inside the segment, and
\* available_ is a number of its bytes.
THEOREM RangesAreTyped == FreeListSpec => []FreeListTypeOK
<1> QED BY Invariant, InvType, PTL

\* For every sequence of calls each byte of the segment is in exactly one free
\* range or block, and available_ is the number of free bytes: splitting in
\* allocate and merging in insertFreeRange lose nothing and duplicate nothing.
THEOREM BytesAreTiled == FreeListSpec => []Tiled
<1> QED BY Invariant, InvTiled, PTL

\* For every sequence of calls contains accepts exactly the subranges of one
\* live block, although it looks at one entry of the map only.
THEOREM AliasIsExact == FreeListSpec => []ContainsIsExact
<1> QED BY Invariant, InvContains, PTL

\* The allocator with its first-fit search over an ordered, merging free list
\* implements the block map: every request gets the lowest aligned free place,
\* and is refused only when there is none.
THEOREM ImplementsBlockMap == FreeListSpec => PlacesEveryRequest
<1>1. FreeListInit => Promise!Init
    BY DEF FreeListInit, Promise!Init, reset
<1>2. FreeListInv /\ [FreeListNext]_freeListVars => [Promise!Next]_(Promise!vars)
    BY StepRefines
<1> QED BY <1>1, <1>2, Invariant, PTL DEF FreeListSpec, PlacesEveryRequest, Promise!Spec

----------------------------------------------------------------------------
(* JitArena: the segments, and the workers that enter them.                *)

\* Where BVNExecMemPrepareArena and BVNExecMemProbe return to, per caller.
ToProbe  == [ok |-> "front", failed |-> "refused"]
ToPool   == [ok |-> "pooled", failed |-> "done"]
ToLaunch == [ok |-> "launched", failed |-> "done"]
ToCheck  == [ok |-> "checked", failed |-> "checked"]

\* The points of the two functions, of FEX's code pool, and the others.
Prep    == {"prepare", "ask", "install", "extend", "prepared"}
After   == {"reset", "confirm", "discard", "unprepare"}
Probing == {"probe", "refused", "front", "write"} \cup After
Pool    == {"pool", "pooled", "checked", "segment"}
Labels  == Prep \cup Probing \cup Pool \cup {"idle", "done", "launched"}

\* The calls a worker can be in: its own entry points, and the probe's call of
\* BVNExecMemPrepareArena.
Outer(w) == IF w = "jit" THEN <<ToLaunch>> ELSE <<ToCheck>>
Nested(w) == IF w = "jit" THEN <<ToProbe, ToLaunch>> ELSE <<ToProbe, ToCheck>>
Direct(w) == IF w = "jit" THEN <<Finishes>> ELSE <<ToPool>>
Stacks(w) == {<< >>, Outer(w), Nested(w), Direct(w)}

\* A worker inside a function has the stack of a call that leads there.
CtlInv ==
    /\ pc \in [Workers -> Labels]
    /\ ret \in [Workers -> UNION {Stacks(w) : w \in Workers}]
    /\ \A w \in Workers :
          /\ pc[w] \in Prep => ret[w] = Nested(w) \/ ret[w] = Direct(w)
          /\ pc[w] \in Probing => ret[w] = Outer(w)
          /\ pc[w] \notin Prep \cup Probing => ret[w] = << >>
    /\ pc["jit"] \notin Pool /\ pc["fex"] # "launched"

\* What a return finds on each of the possible stacks.
LEMMA StackFacts ==
    ASSUME NEW w \in Workers
    PROVE  /\ Head(Nested(w)) = ToProbe /\ Tail(Nested(w)) = Outer(w)
           /\ Head(Direct(w)) = (IF w = "jit" THEN Finishes ELSE ToPool)
           /\ Tail(Direct(w)) = << >>
           /\ Head(Outer(w)) = (IF w = "jit" THEN ToLaunch ELSE ToCheck)
           /\ Tail(Outer(w)) = << >>
<1>1. ASSUME NEW f, NEW g
      PROVE  /\ Head(<<f, g>>) = f /\ Tail(<<f, g>>) = <<g>>
             /\ Head(<<f>>) = f /\ Tail(<<f>>) = << >>
    OBVIOUS
<1> QED BY <1>1 DEF Nested, Direct, Outer

\* What a call makes of each of the possible stacks.
LEMMA PushFacts ==
    ASSUME NEW w \in Workers
    PROVE  /\ <<ToProbe>> \o Outer(w) = Nested(w)
           /\ <<IF w = "jit" THEN Finishes ELSE ToPool>> \o << >> = Direct(w)
           /\ <<IF w = "jit" THEN ToLaunch ELSE ToCheck>> \o << >> = Outer(w)
<1>1. ASSUME NEW f, NEW g PROVE <<f>> \o <<g>> = <<f, g>> /\ <<f>> \o << >> = <<f>>
  <2>1. f \in {f, g} /\ g \in {f, g}
      OBVIOUS
  <2> QED BY <2>1, SmallConcats
<1> QED BY <1>1, Zenon DEF Nested, Direct, Outer

\* Where each of the callers continues.
LEMMA LabelFacts ==
    /\ ToProbe["ok"] = "front" /\ ToProbe["failed"] = "refused"
    /\ ToPool["ok"] = "pooled" /\ ToPool["failed"] = "done"
    /\ ToLaunch["ok"] = "launched" /\ ToLaunch["failed"] = "done"
    /\ ToCheck["ok"] = "checked" /\ ToCheck["failed"] = "checked"
    /\ Finishes["ok"] = "done" /\ Finishes["failed"] = "done"
BY DEF ToProbe, ToPool, ToLaunch, ToCheck, Finishes

\* What a step of worker w does to the control state.
Moves(w, label) ==
    /\ CtlInv' /\ pc'[w] = label
    /\ \A v \in Workers \ {w} : pc'[v] = pc[v]

\* A step inside one function keeps the control invariant.
LEMMA Goes ==
    ASSUME CtlInv, NEW w \in Workers, NEW label \in Labels, Goto(w, label),
           pc[w] \in Prep <=> label \in Prep, pc[w] \in Probing <=> label \in Probing,
           w = "jit" => label \notin Pool, w = "fex" => label # "launched"
    PROVE  Moves(w, label)
<1>1. /\ pc' = [pc EXCEPT ![w] = label] /\ ret' = ret
    BY DEF Goto
<1>2. pc'[w] = label /\ \A v \in Workers \ {w} : pc'[v] = pc[v]
    BY <1>1 DEF CtlInv
<1>3. pc' \in [Workers -> Labels] /\ ret' \in [Workers -> UNION {Stacks(v) : v \in Workers}]
    BY <1>1 DEF CtlInv
<1>4. ASSUME NEW v \in Workers
      PROVE  /\ pc'[v] \in Prep => ret'[v] = Nested(v) \/ ret'[v] = Direct(v)
             /\ pc'[v] \in Probing => ret'[v] = Outer(v)
             /\ pc'[v] \notin Prep \cup Probing => ret'[v] = << >>
    BY <1>1, <1>2 DEF CtlInv
<1>5. pc'["jit"] \notin Pool /\ pc'["fex"] # "launched"
    BY <1>2 DEF CtlInv, Workers
<1> QED BY <1>2, <1>3, <1>4, <1>5 DEF Moves, CtlInv

\* BVNExecMemPrepareArena returns to the probe or to the entry point.
LEMMA ReturnsFromPrep ==
    ASSUME CtlInv, NEW w \in Workers, pc[w] \in Prep, NEW outcome \in {"ok", "failed"},
           Return(w, outcome)
    PROVE  \/ Moves(w, IF outcome = "ok" THEN "front" ELSE "refused")
           \/ Moves(w, IF outcome = "ok" /\ w = "fex" THEN "pooled" ELSE "done")
<1>1. /\ pc' = [pc EXCEPT ![w] = Head(ret[w])[outcome]]
      /\ ret' = [ret EXCEPT ![w] = Tail(@)]
    BY DEF Return
<1>2. ret[w] = Nested(w) \/ ret[w] = Direct(w)
    BY DEF CtlInv
<1>3. CASE ret[w] = Nested(w)
  <2> DEFINE label == IF outcome = "ok" THEN "front" ELSE "refused"
  <2>1. Head(ret[w])[outcome] = label /\ Tail(ret[w]) = Outer(w)
      BY <1>3, StackFacts, LabelFacts
  <2>2. pc' = [pc EXCEPT ![w] = label] /\ ret' = [ret EXCEPT ![w] = Outer(w)]
      BY <1>1, <2>1
  <2>3. label \in Probing /\ label \in Labels /\ label \notin Prep /\ label \notin Pool
        /\ label # "launched"
      BY DEF Probing, Labels, Prep, Pool
  <2> HIDE DEF label
  <2>4. Outer(w) \in UNION {Stacks(v) : v \in Workers}
      BY DEF Stacks
  <2> QED BY <2>2, <2>3, <2>4 DEF Moves, CtlInv, Workers, label
<1>4. CASE ret[w] = Direct(w)
  <2> DEFINE label == IF outcome = "ok" /\ w = "fex" THEN "pooled" ELSE "done"
  <2>1. Head(ret[w])[outcome] = label /\ Tail(ret[w]) = << >>
      BY <1>4, StackFacts, LabelFacts DEF Workers
  <2>2. pc' = [pc EXCEPT ![w] = label] /\ ret' = [ret EXCEPT ![w] = << >>]
      BY <1>1, <2>1
  <2>3. label \notin Probing /\ label \in Labels /\ label \notin Prep
        /\ label # "launched" /\ (w = "jit" => label \notin Pool)
      BY DEF Probing, Labels, Prep, Pool, After
  <2> HIDE DEF label
  <2>4. << >> \in UNION {Stacks(v) : v \in Workers}
      BY DEF Stacks
  <2> QED BY <2>2, <2>3, <2>4 DEF Moves, CtlInv, Workers, label
<1> QED BY <1>2, <1>3, <1>4

\* BVNExecMemProbe returns to the launch gate or to FEX's pool.
LEMMA ReturnsFromProbe ==
    ASSUME CtlInv, NEW w \in Workers, pc[w] \in Probing, NEW outcome \in {"ok", "failed"},
           Return(w, outcome)
    PROVE  Moves(w, IF w = "fex" THEN "checked"
                    ELSE IF outcome = "ok" THEN "launched" ELSE "done")
<1> DEFINE label == IF w = "fex" THEN "checked"
                    ELSE IF outcome = "ok" THEN "launched" ELSE "done"
<1>1. /\ pc' = [pc EXCEPT ![w] = Head(ret[w])[outcome]]
      /\ ret' = [ret EXCEPT ![w] = Tail(@)]
    BY DEF Return
<1>2. ret[w] = Outer(w)
    BY DEF CtlInv
<1>3. Head(ret[w])[outcome] = label /\ Tail(ret[w]) = << >>
    BY <1>2, StackFacts, LabelFacts DEF Workers
<1>4. pc' = [pc EXCEPT ![w] = label] /\ ret' = [ret EXCEPT ![w] = << >>]
    BY <1>1, <1>3
<1>5. label \notin Probing /\ label \in Labels /\ label \notin Prep
      /\ (w = "jit" => label \notin Pool) /\ (w = "fex" => label # "launched")
    BY DEF Probing, Labels, Prep, Pool, After
<1> HIDE DEF label
<1>6. << >> \in UNION {Stacks(v) : v \in Workers}
    BY DEF Stacks
<1> QED BY <1>4, <1>5, <1>6 DEF Moves, CtlInv, Workers, label

-----------------------------------------------------------------------------
\* The three calls: the probe's, and the workers' entry points.
LEMMA Calls ==
    ASSUME CtlInv, NEW w \in Workers, NEW label, NEW back, Call(w, label, back),
           \/ /\ pc[w] \in Probing /\ label = "prepare" /\ back = ToProbe
           \/ /\ pc[w] \notin Prep \cup Probing /\ label = "prepare"
              /\ back = IF w = "jit" THEN Finishes ELSE ToPool
           \/ /\ pc[w] \notin Prep \cup Probing /\ label = "probe"
              /\ back = IF w = "jit" THEN ToLaunch ELSE ToCheck
    PROVE  Moves(w, label)
<1>1. pc' = [pc EXCEPT ![w] = label] /\ ret' = [ret EXCEPT ![w] = <<back>> \o ret[w]]
    BY DEF Call
<1>2. PICK stack : /\ <<back>> \o ret[w] = stack
                   /\ stack \in {Nested(w), Direct(w), Outer(w)}
                   /\ label = "prepare" => stack = Nested(w) \/ stack = Direct(w)
                   /\ label = "probe" => stack = Outer(w)
  <2>1. CASE pc[w] \in Probing /\ label = "prepare" /\ back = ToProbe
    <3>1. ret[w] = Outer(w)
        BY <2>1 DEF CtlInv
    <3> QED BY <2>1, <3>1, PushFacts
  <2>2. CASE /\ pc[w] \notin Prep \cup Probing /\ label = "prepare"
             /\ back = IF w = "jit" THEN Finishes ELSE ToPool
    <3>1. ret[w] = << >>
        BY <2>2 DEF CtlInv
    <3>2. <<back>> \o << >> = Direct(w)
        BY <2>2, PushFacts, Zenon
    <3> QED BY <2>2, <3>1, <3>2
  <2>3. CASE /\ pc[w] \notin Prep \cup Probing /\ label = "probe"
             /\ back = IF w = "jit" THEN ToLaunch ELSE ToCheck
    <3>1. ret[w] = << >>
        BY <2>3 DEF CtlInv
    <3>2. <<back>> \o << >> = Outer(w)
        BY <2>3, PushFacts, Zenon
    <3> QED BY <2>3, <3>1, <3>2
  <2> QED BY <2>1, <2>2, <2>3
<1>3. stack \in UNION {Stacks(v) : v \in Workers}
    BY <1>2 DEF Stacks
<1>4. pc' = [pc EXCEPT ![w] = label] /\ ret' = [ret EXCEPT ![w] = stack]
    BY <1>1, <1>2, Zenon
<1>5. /\ label \in Labels /\ label \notin Pool /\ label # "launched"
      /\ (label \in Prep <=> label = "prepare") /\ (label \in Probing <=> label = "probe")
      /\ label = "prepare" \/ label = "probe"
    BY DEF Labels, Prep, Probing, After, Pool
<1>6. pc'[w] = label /\ \A v \in Workers \ {w} : pc'[v] = pc[v]
    BY <1>4 DEF CtlInv
<1>7. pc' \in [Workers -> Labels] /\ ret' \in [Workers -> UNION {Stacks(v) : v \in Workers}]
    BY <1>3, <1>4, <1>5 DEF CtlInv
<1>8. ASSUME NEW v \in Workers
      PROVE  /\ pc'[v] \in Prep => ret'[v] = Nested(v) \/ ret'[v] = Direct(v)
             /\ pc'[v] \in Probing => ret'[v] = Outer(v)
             /\ pc'[v] \notin Prep \cup Probing => ret'[v] = << >>
  <2>1. CASE v = w
    <3>1. ret'[w] = stack /\ pc'[w] = label
        BY <1>4 DEF CtlInv
    <3>2. \/ label = "prepare" /\ label \in Prep /\ label \notin Probing
          \/ label = "probe" /\ label \in Probing /\ label \notin Prep
        BY <1>5
    <3> QED BY <1>2, <2>1, <3>1, <3>2
  <2>2. CASE v # w
      BY <1>4, <1>6, <2>2 DEF CtlInv
  <2> QED BY <2>1, <2>2
<1>9. pc'["jit"] \notin Pool /\ pc'["fex"] # "launched"
    BY <1>5, <1>6 DEF CtlInv, Workers
<1> QED BY <1>6, <1>7, <1>8, <1>9 DEF Moves, CtlInv

-----------------------------------------------------------------------------
\* Execution is confirmed, or about to be, only after the probe's call.
Tested == gExecutionConfirmed \/ (\E w \in Workers : pc[w] \in After) => tested /\ gProbed

\* Blocks are handed out only after that.
LiveConfirmed == live # {} => gExecutionConfirmed

\* The launch is allowed only after that.
Launched == pc["jit"] = "launched" => gExecutionConfirmed

\* No worker runs before the application has started one.
Started == phase = "start" => pc["jit"] = "idle" /\ pc["fex"] = "idle" /\ ~gExecutionConfirmed

\* The flag of the running probe covers the whole of it.
InFlight == ~gJitProbeInFlight => pc["jit"] = "idle"

\* As long as the settings page is not used the second worker enters the arena
\* after execution has been confirmed, and the first one no longer changes it
\* then.
Quiet ==
    ~settingsUsed =>
        /\ pc["fex"] # "idle" =>
              gExecutionConfirmed /\ pc["fex"] \in {"pool", "pooled", "segment", "done"}
        /\ gExecutionConfirmed =>
              gPrepared /\ pc["jit"] \in {"idle", "probe", "done", "launched"}
        /\ pc["jit"] \in {"front", "write"} \cup After => gPrepared
        /\ \/ pc["jit"] \in {"ask", "install", "unprepare"}
           \/ ~gPrepared /\ pc["jit"] \notin {"extend", "prepared"}
           => gSegments = << >>

\* A worker that is about to install a mapping has one.
MineInv ==
    /\ mine = [w \in Workers |-> mine[w]]
    /\ \A w \in Workers : pc[w] = "install" => mine[w] \in Mappings

AppInv == Tested /\ LiveConfirmed /\ Launched /\ Started /\ InFlight /\ Quiet /\ MineInv

\* No worker comes to that point or leaves it.
Keeps == \A w \in Workers : /\ pc'[w] = "install" <=> pc[w] = "install"
                            /\ pc[w] = "install" => mine'[w] = mine[w]

USE DEF Workers

\* The control invariants through BVNExecMemPrepareArena.
LEMMA StepOfPrepare ==
    ASSUME CtlInv, AppInv, NEW w \in Workers,
           \/ PrepareCheck(w) \/ AskFirst(w) \/ Install(w) \/ Extend(w) \/ SetPrepared(w)
    PROVE  CtlInv' /\ AppInv' /\ (AskFirst(w) \/ Install(w) \/ Keeps)
<1> USE DEF arena, app
<1>1. CASE PrepareCheck(w)
  <2>1. CASE gPrepared /\ Return(w, "ok")
    <3>1. pc[w] \in Prep
        BY <1>1 DEF PrepareCheck, Prep
    <3>2. Moves(w, "front") \/ Moves(w, IF w = "fex" THEN "pooled" ELSE "done")
        BY <2>1, <3>1, ReturnsFromPrep
    <3> QED BY <1>1, <2>1, <3>2 DEF PrepareCheck, Moves, AppInv, Tested, LiveConfirmed, Launched,
               Started, InFlight, Quiet, MineInv, Keeps, After
  <2>2. CASE ~gPrepared /\ Goto(w, "ask")
    <3>1. Moves(w, "ask")
        BY <1>1, <2>2, Goes DEF PrepareCheck, Prep, Probing, After, Pool, Labels
    <3> QED BY <1>1, <2>2, <3>1 DEF PrepareCheck, Moves, AppInv, Tested, LiveConfirmed, Launched,
               Started, InFlight, Quiet, MineInv, Keeps, After
  <2> QED BY <1>1, <2>1, <2>2 DEF PrepareCheck
<1>2. CASE AskFirst(w)
  <2>1. CASE Goto(w, "install") /\ \E map \in Unused : mine' = [mine EXCEPT ![w] = map]
    <3>1. Moves(w, "install")
        BY <1>2, <2>1, Goes DEF AskFirst, Prep, Probing, After, Pool, Labels
    <3>2. MineInv'
      <4>1. PICK map \in Mappings : mine' = [mine EXCEPT ![w] = map]
          BY <2>1 DEF Unused
      <4> QED BY <3>1, <4>1 DEF Moves, AppInv, MineInv
    <3> QED BY <1>2, <3>1, <3>2 DEF AskFirst, Moves, AppInv, Tested, LiveConfirmed, Launched,
               Started, InFlight, Quiet, MineInv, Keeps, After
  <2>2. CASE Return(w, "failed") /\ UNCHANGED mine
    <3>1. pc[w] \in Prep
        BY <1>2 DEF AskFirst, Prep
    <3>2. Moves(w, "refused") \/ Moves(w, "done")
        BY <2>2, <3>1, ReturnsFromPrep
    <3> QED BY <1>2, <2>2, <3>2 DEF AskFirst, Moves, AppInv, Tested, LiveConfirmed, Launched,
               Started, InFlight, Quiet, MineInv, Keeps, After
  <2> QED BY <1>2, <2>1, <2>2 DEF AskFirst
<1>3. CASE Install(w)
  <2>1. Moves(w, "extend")
      BY <1>3, Goes DEF Install, Prep, Probing, After, Pool, Labels
  <2> QED BY <1>3, <2>1 DEF Install, Moves, AppInv, Tested, LiveConfirmed, Launched,
             Started, InFlight, Quiet, MineInv, Keeps, After
<1>4. CASE Extend(w)
  <2>1. CASE UNCHANGED <<pc, ret>>
      BY <1>4, <2>1 DEF Extend, CtlInv, AppInv, Tested, LiveConfirmed, Launched,
             Started, InFlight, Quiet, MineInv, Keeps, After
  <2>2. CASE Goto(w, "prepared")
    <3>1. Moves(w, "prepared")
        BY <1>4, <2>2, Goes DEF Extend, Prep, Probing, After, Pool, Labels
    <3> QED BY <1>4, <3>1 DEF Extend, Moves, AppInv, Tested, LiveConfirmed, Launched,
               Started, InFlight, Quiet, MineInv, Keeps, After
  <2> QED BY <1>4, <2>1, <2>2 DEF Extend
<1>5. CASE SetPrepared(w)
  <2>1. pc[w] \in Prep
      BY <1>5 DEF SetPrepared, Prep
  <2>2. Moves(w, "front") \/ Moves(w, IF w = "fex" THEN "pooled" ELSE "done")
      BY <1>5, <2>1, ReturnsFromPrep DEF SetPrepared
  <2> QED BY <1>5, <2>2 DEF SetPrepared, Moves, AppInv, Tested, LiveConfirmed, Launched,
             Started, InFlight, Quiet, MineInv, Keeps, After
<1> QED BY <1>1, <1>2, <1>3, <1>4, <1>5

-----------------------------------------------------------------------------
\* The control invariants through BVNExecMemProbe.
LEMMA StepOfProbe ==
    ASSUME CtlInv, AppInv, NEW w \in Workers,
           \/ ProbeCheck(w) \/ ProbeRefused(w) \/ ProbeFront(w) \/ ProbeExecute(w)
           \/ Discard(w) \/ Unprepare(w) \/ ResetAllocators(w) \/ Confirm(w)
    PROVE  CtlInv' /\ AppInv' /\ Keeps
<1> USE DEF arena, app
<1>1. CASE ProbeCheck(w)
  <2>0. pc[w] = "probe" /\ pc[w] \in Probing
      BY <1>1 DEF ProbeCheck, Probing
  <2>1. CASE gProbed /\ Return(w, IF gExecutionConfirmed THEN "ok" ELSE "failed")
    <3>1. Moves(w, IF w = "fex" THEN "checked"
                   ELSE IF gExecutionConfirmed THEN "launched" ELSE "done")
      <4>1. CASE gExecutionConfirmed
        <5>1. Return(w, "ok")
            BY <2>1, <4>1
        <5> QED BY <2>0, <4>1, <5>1, ReturnsFromProbe
      <4>2. CASE ~gExecutionConfirmed
        <5>1. Return(w, "failed")
            BY <2>1, <4>2
        <5> QED BY <2>0, <4>2, <5>1, ReturnsFromProbe
      <4> QED BY <4>1, <4>2
    <3> QED BY <1>1, <2>1, <3>1 DEF ProbeCheck, Moves, AppInv, Tested, LiveConfirmed, Launched,
               Started, InFlight, Quiet, MineInv, Keeps, After
  <2>2. CASE ~gProbed /\ gPrepared /\ Goto(w, "front")
    <3>1. Moves(w, "front")
        BY <2>0, <2>2, Goes DEF Prep, Probing, After, Pool, Labels
    <3> QED BY <1>1, <2>2, <3>1 DEF ProbeCheck, Moves, AppInv, Tested, LiveConfirmed, Launched,
               Started, InFlight, Quiet, MineInv, Keeps, After
  <2>3. CASE ~gProbed /\ ~gPrepared /\ Call(w, "prepare", [ok |-> "front", failed |-> "refused"])
    <3>1. Moves(w, "prepare")
        BY <2>0, <2>3, Calls DEF ToProbe
    <3> QED BY <1>1, <2>3, <3>1 DEF ProbeCheck, Moves, AppInv, Tested, LiveConfirmed, Launched,
               Started, InFlight, Quiet, MineInv, Keeps, After
  <2> QED BY <1>1, <2>1, <2>2, <2>3 DEF ProbeCheck
<1>2. CASE ProbeRefused(w)
  <2>1. Moves(w, IF w = "fex" THEN "checked" ELSE "done")
      BY <1>2, ReturnsFromProbe DEF ProbeRefused, Probing
  <2> QED BY <1>2, <2>1 DEF ProbeRefused, Moves, AppInv, Tested, LiveConfirmed, Launched,
             Started, InFlight, Quiet, MineInv, Keeps, After
<1>3. CASE ProbeFront(w)
  <2>1. CASE Return(w, "failed") /\ gProbed' = TRUE
    <3>1. Moves(w, IF w = "fex" THEN "checked" ELSE "done")
        BY <1>3, <2>1, ReturnsFromProbe DEF ProbeFront, Probing
    <3> QED BY <1>3, <2>1, <3>1 DEF ProbeFront, Moves, AppInv, Tested, LiveConfirmed, Launched,
               Started, InFlight, Quiet, MineInv, Keeps, After
  <2>2. CASE Goto(w, "write") /\ UNCHANGED gProbed
    <3>1. Moves(w, "write")
        BY <1>3, <2>2, Goes DEF ProbeFront, Prep, Probing, After, Pool, Labels
    <3> QED BY <1>3, <2>2, <3>1 DEF ProbeFront, Moves, AppInv, Tested, LiveConfirmed, Launched,
               Started, InFlight, Quiet, MineInv, Keeps, After
  <2> QED BY <1>3, <2>1, <2>2 DEF ProbeFront
<1>4. CASE ProbeExecute(w)
  <2>1. Moves(w, "reset") \/ Moves(w, "discard")
      BY <1>4, Goes DEF ProbeExecute, Prep, Probing, After, Pool, Labels
  <2> QED BY <1>4, <2>1 DEF ProbeExecute, Moves, AppInv, Tested, LiveConfirmed, Launched,
             Started, InFlight, Quiet, MineInv, Keeps, After
<1>5. CASE Discard(w)
  <2>1. Moves(w, "unprepare")
      BY <1>5, Goes DEF Discard, Prep, Probing, After, Pool, Labels
  <2> QED BY <1>5, <2>1 DEF Discard, Moves, AppInv, Tested, LiveConfirmed, Launched,
             Started, InFlight, Quiet, MineInv, Keeps, After
<1>6. CASE Unprepare(w)
  <2>1. Moves(w, IF w = "fex" THEN "checked" ELSE "done")
      BY <1>6, ReturnsFromProbe DEF Unprepare, Probing, After
  <2> QED BY <1>6, <2>1 DEF Unprepare, Moves, AppInv, Tested, LiveConfirmed, Launched,
             Started, InFlight, Quiet, MineInv, Keeps, After
<1>7. CASE ResetAllocators(w)
  <2>1. Moves(w, "confirm")
      BY <1>7, Goes DEF ResetAllocators, Prep, Probing, After, Pool, Labels
  <2> QED BY <1>7, <2>1 DEF ResetAllocators, Moves, AppInv, Tested, LiveConfirmed, Launched,
             Started, InFlight, Quiet, MineInv, Keeps, After
<1>8. CASE Confirm(w)
  <2>1. Moves(w, IF w = "fex" THEN "checked" ELSE "launched")
      BY <1>8, ReturnsFromProbe DEF Confirm, Probing, After
  <2> QED BY <1>8, <2>1 DEF Confirm, Moves, AppInv, Tested, LiveConfirmed, Launched,
             Started, InFlight, Quiet, MineInv, Keeps, After
<1> QED BY <1>1, <1>2, <1>3, <1>4, <1>5, <1>6, <1>7, <1>8

\* The control invariants through FEX's code pool.
LEMMA StepOfPool ==
    ASSUME CtlInv, AppInv, NEW w \in Workers,
           PoolPrepare(w) \/ PoolProbe(w) \/ PoolChecked(w) \/ AddCodeSegment(w)
    PROVE  CtlInv' /\ AppInv' /\ Keeps
<1> USE DEF arena, app
<1>0. w = "fex" /\ pc[w] \in Pool /\ pc[w] \notin Prep \cup Probing
  <2>1. pc[w] \in Pool
      BY DEF PoolPrepare, PoolProbe, PoolChecked, AddCodeSegment, Pool
  <2>2. \A x \in Pool : x \notin Prep \cup Probing
      BY DEF Pool, Prep, Probing, After
  <2> QED BY <2>1, <2>2 DEF CtlInv
<1>1. CASE PoolPrepare(w)
  <2>1. Moves(w, "done") \/ (gPrepared /\ Moves(w, "pooled")) \/ (~gPrepared /\ Moves(w, "prepare"))
    <3>1. ASSUME NEW label \in {"done", "pooled"}, Goto(w, label) PROVE Moves(w, label)
        BY <1>0, <3>1, Goes DEF Prep, Probing, After, Pool, Labels
    <3>2. ASSUME Call(w, "prepare", [ok |-> "pooled", failed |-> "done"]) PROVE Moves(w, "prepare")
        BY <1>0, <3>2, Calls DEF ToPool
    <3> QED BY <1>1, <3>1, <3>2 DEF PoolPrepare
  <2> QED BY <1>0, <1>1, <2>1 DEF PoolPrepare, Moves, AppInv, Tested, LiveConfirmed, Launched,
             Started, InFlight, Quiet, MineInv, Keeps, After
<1>2. CASE PoolProbe(w)
  <2>1. \/ gExecutionConfirmed /\ Moves(w, "segment")
        \/ ~gExecutionConfirmed /\ Moves(w, "probe")
    <3>1. Goto(w, "segment") => Moves(w, "segment")
        BY <1>0, Goes DEF Prep, Probing, After, Pool, Labels
    <3>2. ASSUME Call(w, "probe", [ok |-> "checked", failed |-> "checked"]) PROVE Moves(w, "probe")
        BY <1>0, <3>2, Calls DEF ToCheck
    <3> QED BY <1>2, <3>1, <3>2 DEF PoolProbe
  <2> QED BY <1>0, <1>2, <2>1 DEF PoolProbe, Moves, AppInv, Tested, LiveConfirmed, Launched,
             Started, InFlight, Quiet, MineInv, Keeps, After
<1>3. CASE PoolChecked(w)
  <2>1. Moves(w, "segment") \/ Moves(w, "done")
    <3>1. ASSUME NEW label \in {"segment", "done"}, Goto(w, label) PROVE Moves(w, label)
        BY <1>0, <3>1, Goes DEF Prep, Probing, After, Pool, Labels
    <3> QED BY <1>3, <3>1 DEF PoolChecked
  <2> QED BY <1>0, <1>3, <2>1 DEF PoolChecked, Moves, AppInv, Tested, LiveConfirmed, Launched,
             Started, InFlight, Quiet, MineInv, Keeps, After
<1>4. CASE AddCodeSegment(w)
  <2>1. Moves(w, "done")
      BY <1>0, <1>4, Goes DEF AddCodeSegment, Prep, Probing, After, Pool, Labels
  <2>2. /\ gPrepared' = gPrepared /\ gProbed' = gProbed /\ gExecutionConfirmed' = gExecutionConfirmed
        /\ live' # {} => live # {} \/ gExecutionConfirmed
      BY <1>4 DEF AddCodeSegment, Alloc
  <2> QED BY <1>0, <1>4, <2>1, <2>2 DEF AddCodeSegment, Moves, AppInv, Tested, LiveConfirmed, Launched,
             Started, InFlight, Quiet, MineInv, Keeps, After
<1> QED BY <1>1, <1>2, <1>3, <1>4

\* The control invariants through the application and the guest.
LEMMA StepOfApp ==
    ASSUME CtlInv, AppInv,
           \/ Startup \/ Launch \/ Timeout \/ JitDone \/ SettingsProbe \/ FexDone
           \/ SessionEnds \/ ScriptChanges
           \/ GuestAlloc \/ \E block \in live : GuestRelease(block)
    PROVE  CtlInv' /\ AppInv' /\ Keeps
<1> USE DEF arena, app
<1>1. CASE Startup
  <2>1. CASE gJitProbeInFlight' = TRUE /\ phase' = "waiting" /\ Call("jit", "prepare", Finishes)
    <3>1. pc["jit"] = "idle" /\ pc["jit"] \notin Prep \cup Probing
        BY <1>1 DEF Startup, AppInv, InFlight, Prep, Probing, After
    <3>2. Moves("jit", "prepare")
        BY <2>1, <3>1, Calls
    <3> QED BY <1>1, <2>1, <3>2 DEF Startup, Moves, AppInv, Tested, LiveConfirmed, Launched,
               Started, InFlight, Quiet, MineInv, Keeps, After
  <2>2. CASE phase' = "idle" /\ UNCHANGED <<gJitProbeInFlight, pc, ret>>
      BY <1>1, <2>2 DEF Startup, CtlInv, AppInv, Tested, LiveConfirmed, Launched,
             Started, InFlight, Quiet, MineInv, Keeps, After
  <2> QED BY <1>1, <2>1, <2>2 DEF Startup
<1>2. CASE Launch
  <2>1. pc["jit"] = "idle" /\ pc["jit"] \notin Prep \cup Probing
      BY <1>2 DEF Launch, AppInv, InFlight, Prep, Probing, After
  <2>2. Moves("jit", "probe")
      BY <1>2, <2>1, Calls DEF Launch, ToLaunch
  <2> QED BY <1>2, <2>1, <2>2 DEF Launch, Moves, AppInv, Tested, LiveConfirmed, Launched,
             Started, InFlight, Quiet, MineInv, Keeps, After
<1>3. CASE Timeout \/ SessionEnds \/ ScriptChanges
    BY <1>3 DEF Timeout, SessionEnds, ScriptChanges, CtlInv, AppInv, Tested, LiveConfirmed,
                Launched, Started, InFlight, Quiet, MineInv, Keeps, After
<1>4. CASE JitDone
  <2>1. /\ pc["jit"] \in {"done", "launched"} /\ ret' = ret
        /\ \/ /\ pc["jit"] = "launched" /\ pc["fex"] = "idle"
              /\ pc' = [pc EXCEPT !["jit"] = "idle", !["fex"] = "pool"]
           \/ pc' = [pc EXCEPT !["jit"] = "idle"]
      BY <1>4 DEF JitDone
  <2>2. phase' # "start"
    <3>1. phase # "start"
        BY <2>1 DEF AppInv, Started
    <3> QED BY <1>4, <3>1 DEF JitDone
  <2>3. pc'["jit"] = "idle" /\ (pc'["fex"] = pc["fex"] \/
                                (pc'["fex"] = "pool" /\ pc["fex"] = "idle" /\ pc["jit"] = "launched"))
      BY <2>1 DEF CtlInv
  <2>4. CtlInv'
    <3>1. pc' \in [Workers -> Labels] /\ ret' \in [Workers -> UNION {Stacks(v) : v \in Workers}]
        BY <2>1 DEF CtlInv, Labels, Pool
    <3>2. ret'["jit"] = << >>
        BY <2>1 DEF CtlInv, Prep, Probing, After
    <3>3. pc'["fex"] = pc["fex"] \/ ret'["fex"] = << >>
        BY <2>1, <2>3 DEF CtlInv, Prep, Probing, After
    <3> QED BY <2>1, <2>3, <3>1, <3>2, <3>3 DEF CtlInv, Prep, Probing, After, Pool
  <2> QED BY <1>4, <2>1, <2>2, <2>3, <2>4 DEF JitDone, AppInv, Tested, LiveConfirmed, Launched,
             Started, InFlight, Quiet, MineInv, Keeps, After
<1>5. CASE SettingsProbe
  <2>1. Moves("fex", "pool")
      BY <1>5, Goes DEF SettingsProbe, Prep, Probing, After, Pool, Labels
  <2> QED BY <1>5, <2>1 DEF SettingsProbe, Moves, AppInv, Tested, LiveConfirmed, Launched,
             Started, InFlight, Quiet, MineInv, Keeps, After
<1>6. CASE FexDone
  <2>1. Moves("fex", "idle")
      BY <1>6, Goes DEF FexDone, Prep, Probing, After, Pool, Labels
  <2>2. phase' # "start"
      BY <1>6 DEF FexDone, AppInv, Started
  <2> QED BY <1>6, <2>1, <2>2 DEF FexDone, Moves, AppInv, Tested, LiveConfirmed, Launched,
             Started, InFlight, Quiet, MineInv, Keeps, After
<1>7. CASE GuestAlloc
    BY <1>7 DEF GuestAlloc, Alloc, CtlInv, AppInv, Tested, LiveConfirmed, Launched,
                Started, InFlight, Quiet, MineInv, Keeps, After
<1>8. CASE \E block \in live : GuestRelease(block)
    BY <1>8 DEF GuestRelease, CtlInv, AppInv, Tested, LiveConfirmed, Launched,
                Started, InFlight, Quiet, MineInv, Keeps, After
<1> QED BY <1>1, <1>2, <1>3, <1>4, <1>5, <1>6, <1>7, <1>8

\* They are kept by every step.
LEMMA ControlInductive ==
    ASSUME CtlInv /\ AppInv, [Next]_vars
    PROVE  (CtlInv /\ AppInv)'
<1>1. ASSUME NEW w \in Workers, ArenaStep(w) PROVE CtlInv' /\ AppInv'
    BY <1>1, StepOfPrepare, StepOfProbe, StepOfPool DEF ArenaStep
<1>2. CASE UNCHANGED vars
    BY <1>2 DEF vars, arena, app, CtlInv, AppInv, Tested, LiveConfirmed, Launched,
                Started, InFlight, Quiet, MineInv, Keeps, After
<1> QED BY <1>1, <1>2, StepOfApp DEF Next

\* They hold at the start.
LEMMA ControlInitial ==
    ASSUME Init
    PROVE  CtlInv /\ AppInv
<1>1. CtlInv
  <2>1. << >> \in UNION {Stacks(v) : v \in Workers}
      BY DEF Stacks
  <2> QED BY <2>1 DEF Init, CtlInv, Labels, Prep, Probing, After, Pool
<1> QED BY <1>1 DEF Init, AppInv, Tested, LiveConfirmed, Launched, Started, InFlight, Quiet, MineInv, Keeps, After

\* Whatever the two workers do and whatever the debugger's script answers,
\* execution is confirmed only after the probe's instructions have been called,
\* and then the probe is recorded as done.
THEOREM ConfirmedAfterExecution == Spec => []ConfirmedByExecution
<1>1. Init => CtlInv /\ AppInv
    BY ControlInitial
<1>2. (CtlInv /\ AppInv) /\ [Next]_vars => (CtlInv /\ AppInv)'
    BY ControlInductive
<1>3. CtlInv /\ AppInv => ConfirmedByExecution
    BY DEF AppInv, Tested, ConfirmedByExecution
<1> QED BY <1>1, <1>2, <1>3, PTL DEF Spec

\* For every number of mappings, segments and pages: without the settings page
\* no block has been handed out when the probe overwrites the first page, although
\* BVNExecMemProbe does not ask the allocator.
THEOREM ProbeIsAlone == Spec => []ProbeMissesLiveCode
<1>1. Init => CtlInv /\ AppInv
    BY ControlInitial
<1>2. (CtlInv /\ AppInv) /\ [Next]_vars => (CtlInv /\ AppInv)'
    BY ControlInductive
<1>3. CtlInv /\ AppInv => ProbeMissesLiveCode
    BY DEF AppInv, Quiet, LiveConfirmed, ProbeMissesLiveCode
<1> QED BY <1>1, <1>2, <1>3, PTL DEF Spec

-----------------------------------------------------------------------------
\* The types of the parts of a segment.
Allocations == UNION {[D -> Nat \ {0}] : D \in SUBSET Nat}

Allocators == [capacity : {SegmentPages}, available : Int,
               freeRanges : Seq(Ranges), allocations : Allocations]

SegmentSet == [map : Mappings, allocator : Allocators]

\* The invariant gives the fields of an allocator their types.
LEMMA AllocatorTyped ==
    ASSUME NEW a, AllocatorInv(a), a.capacity = SegmentPages, a.allocations \in Allocations
    PROVE  a \in Allocators
<1>1. a \in [capacity : Nat, available : Int, freeRanges : Seq(Ranges),
             allocations : {a.allocations}]
    BY DEF AllocatorInv, AllocatorTypes
<1> QED BY <1>1 DEF Allocators

\* A new segment is one free range.
LEMMA FreshSegment ==
    ASSUME NEW map \in Mappings
    PROVE  /\ Segment(map) \in SegmentSet /\ Segment(map).map = map
           /\ AllocatorInv(Segment(map).allocator)
<1>1. SegmentPages \in Nat
    BY ArenaAssumption, MaxSizeAssumption
<1>2. AllocatorInv(reset(SegmentPages))
    BY <1>1, ResetInv
<1>3. reset(SegmentPages).capacity = SegmentPages /\ reset(SegmentPages).allocations = << >>
    BY DEF reset
<1>4. << >> \in Allocations
  <2>1. << >> \in [{} -> Nat \ {0}]
      OBVIOUS
  <2> QED BY <2>1 DEF Allocations
<1>5. reset(SegmentPages) \in Allocators
  <2>1. reset(SegmentPages).allocations \in Allocations
      BY <1>3, <1>4
  <2> QED BY <1>2, <1>3, <2>1, AllocatorTyped
<1>6. Segment(map) = [map |-> map, allocator |-> reset(SegmentPages)]
    BY DEF Segment
<1> QED BY <1>2, <1>5, <1>6 DEF SegmentSet

\* What allocate does to the recorded blocks of a segment.
LEMMA Allocated ==
    ASSUME NEW a \in Allocators, AllocatorInv(a), NEW length \in Nat, CanAllocate(a, length, 1)
    PROVE  /\ allocate(a, length, 1) \in Allocators /\ AllocatorInv(allocate(a, length, 1))
           /\ Placed(a, length, 1) \in Nat /\ Placed(a, length, 1) \notin DOMAIN a.allocations
           /\ length # 0
           /\ DOMAIN allocate(a, length, 1).allocations
                = DOMAIN a.allocations \cup {Placed(a, length, 1)}
           /\ allocate(a, length, 1).allocations[Placed(a, length, 1)] = length
           /\ \A o \in DOMAIN a.allocations :
                 allocate(a, length, 1).allocations[o] = a.allocations[o]
<1> DEFINE b == allocate(a, length, 1)
           at == Placed(a, length, 1)
           A == a.allocations
<1>1. /\ AllocatorInv(b) /\ b.capacity = a.capacity
      /\ b.allocations = [o \in DOMAIN A \cup {at} |-> IF o = at THEN length ELSE A[o]]
    BY AllocateInv
<1>2. at \in Nat /\ at \notin DOMAIN A /\ length > 0
    BY PlacedInside
<1> HIDE DEF b, at
<1>3. DOMAIN A \subseteq Nat /\ \A o \in DOMAIN A : A[o] \in Nat \ {0}
    BY DEF AllocatorInv, AllocatorTypes
<1>4. b.allocations \in Allocations
  <2>1. DOMAIN A \cup {at} \in SUBSET Nat
      BY <1>2, <1>3
  <2>2. b.allocations \in [DOMAIN A \cup {at} -> Nat \ {0}]
      BY <1>1, <1>2, <1>3
  <2> QED BY <2>1, <2>2 DEF Allocations
<1>5. a.capacity = SegmentPages
    BY DEF Allocators
<1>6. b \in Allocators
    BY <1>1, <1>4, <1>5, AllocatorTyped
<1>7. /\ DOMAIN b.allocations = DOMAIN A \cup {at} /\ b.allocations[at] = length
      /\ \A o \in DOMAIN A : b.allocations[o] = A[o]
    BY <1>1, <1>2
<1> QED BY <1>1, <1>2, <1>6, <1>7 DEF b, at

\* What release does to the recorded blocks of a segment.
LEMMA Released ==
    ASSUME NEW a \in Allocators, AllocatorInv(a), NEW offset \in Nat, NEW length \in Nat,
           CanRelease(a, offset, length)
    PROVE  /\ release(a, offset, length) \in Allocators
           /\ AllocatorInv(release(a, offset, length))
           /\ DOMAIN release(a, offset, length).allocations = DOMAIN a.allocations \ {offset}
           /\ \A o \in DOMAIN a.allocations \ {offset} :
                 release(a, offset, length).allocations[o] = a.allocations[o]
<1> DEFINE b == release(a, offset, length)
           A == a.allocations
<1>1. /\ AllocatorInv(b) /\ b.capacity = a.capacity
      /\ b.allocations = [o \in DOMAIN A \ {offset} |-> A[o]]
    BY ReleaseInv
<1> HIDE DEF b
<1>2. DOMAIN A \subseteq Nat /\ \A o \in DOMAIN A : A[o] \in Nat \ {0}
    BY DEF AllocatorInv, AllocatorTypes
<1>3. b.allocations \in Allocations
  <2>1. DOMAIN A \ {offset} \in SUBSET Nat
      BY <1>2
  <2>2. b.allocations \in [DOMAIN A \ {offset} -> Nat \ {0}]
      BY <1>1, <1>2
  <2> QED BY <2>1, <2>2 DEF Allocations
<1>4. a.capacity = SegmentPages
    BY DEF Allocators
<1>5. b \in Allocators
    BY <1>1, <1>3, <1>4, AllocatorTyped
<1>6. /\ DOMAIN b.allocations = DOMAIN A \ {offset}
      /\ \A o \in DOMAIN A \ {offset} : b.allocations[o] = A[o]
    BY <1>1
<1> QED BY <1>1, <1>5, <1>6 DEF b

\* A recorded block is inside the segment.
LEMMA InsideSegment ==
    ASSUME NEW a \in Allocators, AllocatorInv(a), NEW o \in DOMAIN a.allocations
    PROVE  o \in Nat /\ a.allocations[o] \in Nat \ {0} /\ o + a.allocations[o] <= SegmentPages
<1>1. /\ o \in Nat /\ a.allocations[o] \in Nat \ {0} /\ Partition(a) /\ a.capacity = SegmentPages
    BY DEF AllocatorInv, AllocatorTypes, Allocators
<1>2. SegmentPages \in Nat
    BY ArenaAssumption, MaxSizeAssumption
<1> DEFINE last == o + a.allocations[o] - 1
<1>3. last \in Nat /\ o <= last /\ last < o + a.allocations[o]
    BY <1>1
<1>4. Used(last, a.allocations)
    BY <1>3 DEF Used
<1> HIDE DEF last
<1>5. last < a.capacity
    BY <1>1, <1>3, <1>4 DEF Partition
<1> QED BY <1>1, <1>2, <1>5 DEF last

-----------------------------------------------------------------------------
\* Every segment has a sound allocator.
SegInv ==
    /\ gSegments \in Seq(SegmentSet)
    /\ \A i \in 1..Len(gSegments) : AllocatorInv(gSegments[i].allocator)
    /\ \A b \in live : b.offset \in Nat /\ b.length \in Nat

\* What an allocation of length pages at offset at of segment i does.
Allocates(i, at, owner, length) ==
    LET old == gSegments[i].allocator.allocations
        new == gSegments'[i].allocator.allocations
    IN /\ gSegments' \in Seq(SegmentSet) /\ Len(gSegments') = Len(gSegments)
       /\ \A j \in 1..Len(gSegments) : gSegments'[j].map = gSegments[j].map
       /\ \A j \in 1..Len(gSegments) : j # i => gSegments'[j] = gSegments[j]
       /\ AllocatorInv(gSegments'[i].allocator)
       /\ at \notin DOMAIN old /\ DOMAIN new = DOMAIN old \cup {at}
       /\ new[at] = length /\ \A o \in DOMAIN old : new[o] = old[o]
       /\ live' = live \cup {[map |-> gSegments[i].map, length |-> length,
                              owner |-> owner, offset |-> at]}

\* BVNExecMemAlloc places the block in one segment and leaves the others alone.
LEMMA AllocEffect ==
    ASSUME SegInv, NEW owner, NEW length \in Nat, Alloc(owner, length)
    PROVE  \E i \in 1..Len(gSegments), at \in Nat : Allocates(i, at, owner, length)
<1>1. /\ gSegments \in Seq(SegmentSet) /\ DOMAIN gSegments = 1..Len(gSegments)
      /\ Len(gSegments) \in Nat
    BY DEF SegInv
<1>2. PICK i \in Room(length) :
        /\ live' = live \cup
               {[map |-> gSegments[i].map, length |-> length, owner |-> owner,
                 offset |-> Placed(gSegments[i].allocator, length, 1)]}
        /\ gSegments' = [gSegments EXCEPT ![i].allocator = allocate(@, length, 1)]
    BY DEF Alloc
<1> DEFINE a == gSegments[i].allocator
           b == allocate(a, length, 1)
           at == Placed(a, length, 1)
<1>3. i \in 1..Len(gSegments) /\ CanAllocate(a, length, 1)
    BY <1>1, <1>2 DEF Room
<1>4. gSegments[i] \in SegmentSet /\ a \in Allocators /\ AllocatorInv(a)
  <2>1. gSegments[i] \in SegmentSet
      BY <1>1, <1>3
  <2>2. a \in Allocators
      BY <2>1 DEF SegmentSet
  <2>3. AllocatorInv(a)
      BY <1>3 DEF SegInv
  <2> QED BY <2>1, <2>2, <2>3
<1>5. /\ b \in Allocators /\ AllocatorInv(b) /\ at \in Nat /\ at \notin DOMAIN a.allocations
      /\ length # 0 /\ DOMAIN b.allocations = DOMAIN a.allocations \cup {at}
      /\ b.allocations[at] = length
      /\ \A o \in DOMAIN a.allocations : b.allocations[o] = a.allocations[o]
    BY <1>3, <1>4, Allocated
<1>6. gSegments' = [gSegments EXCEPT ![i] = [gSegments[i] EXCEPT !.allocator = b]]
    BY <1>2
<1> HIDE DEF b, at
<1> DEFINE new == [gSegments[i] EXCEPT !.allocator = b]
<1>7. new \in SegmentSet /\ new.map = gSegments[i].map /\ new.allocator = b
    BY <1>4, <1>5 DEF SegmentSet
<1> HIDE DEF new
<1>8. /\ gSegments' \in Seq(SegmentSet) /\ Len(gSegments') = Len(gSegments)
      /\ gSegments'[i] = new
      /\ \A j \in 1..Len(gSegments) : j # i => gSegments'[j] = gSegments[j]
    BY <1>1, <1>3, <1>6, <1>7 DEF new
<1>9. \A j \in 1..Len(gSegments) : gSegments'[j].map = gSegments[j].map
    BY <1>7, <1>8
<1>10. live' = live \cup {[map |-> gSegments[i].map, length |-> length,
                           owner |-> owner, offset |-> at]}
    BY <1>2 DEF at
<1>11. Allocates(i, at, owner, length)
    BY <1>5, <1>7, <1>8, <1>9, <1>10 DEF Allocates
<1> QED BY <1>3, <1>5, <1>11

-----------------------------------------------------------------------------
\* Segment i has recorded block b.
Holds(i, b) ==
    gSegments[i].map = b.map /\ CanRelease(gSegments[i].allocator, b.offset, b.length)

\* What the arena does with a block given back: every segment keeps its
\* mapping; one that has recorded the block forgets it, the others stay.
LEMMA ReleaseEffect ==
    ASSUME SegInv, NEW block \in live, GuestRelease(block)
    PROVE  /\ Len(gSegments') = Len(gSegments)
           /\ gSegments' \in Seq(SegmentSet)
           /\ \A j \in 1..Len(gSegments) : gSegments'[j].map = gSegments[j].map
           /\ \A j \in 1..Len(gSegments) : AllocatorInv(gSegments'[j].allocator)
           /\ \A j \in 1..Len(gSegments) :
                 \/ gSegments'[j] = gSegments[j]
                 \/ /\ Holds(j, block)
                    /\ DOMAIN gSegments'[j].allocator.allocations
                         = DOMAIN gSegments[j].allocator.allocations \ {block.offset}
                    /\ \A o \in DOMAIN gSegments[j].allocator.allocations \ {block.offset} :
                          gSegments'[j].allocator.allocations[o]
                            = gSegments[j].allocator.allocations[o]
<1>1. /\ gSegments \in Seq(SegmentSet) /\ DOMAIN gSegments = 1..Len(gSegments)
      /\ Len(gSegments) \in Nat /\ block.offset \in Nat /\ block.length \in Nat
      /\ \A j \in 1..Len(gSegments) : gSegments[j] \in SegmentSet
    BY DEF SegInv
<1>2. CASE UNCHANGED gSegments
    BY <1>1, <1>2 DEF SegInv
<1> DEFINE new(j) == [gSegments[j] EXCEPT !.allocator = release(@, block.offset, block.length)]
           next(j) == IF Holds(j, block) THEN new(j) ELSE gSegments[j]
<1>3. CASE gSegments' = [j \in DOMAIN gSegments |->
                IF /\ j \in SegmentOf(block.map)
                   /\ CanRelease(gSegments[j].allocator, block.offset, block.length)
                THEN [gSegments[j] EXCEPT !.allocator = release(@, block.offset, block.length)]
                ELSE gSegments[j]]
  <2>1. gSegments' = [j \in 1..Len(gSegments) |-> next(j)]
      BY <1>1, <1>3 DEF SegmentOf, Holds
  <2>2. ASSUME NEW j \in 1..Len(gSegments)
        PROVE  /\ next(j) \in SegmentSet /\ next(j).map = gSegments[j].map
               /\ AllocatorInv(next(j).allocator)
               /\ \/ next(j) = gSegments[j]
                  \/ /\ Holds(j, block)
                     /\ DOMAIN next(j).allocator.allocations
                          = DOMAIN gSegments[j].allocator.allocations \ {block.offset}
                     /\ \A o \in DOMAIN gSegments[j].allocator.allocations \ {block.offset} :
                           next(j).allocator.allocations[o]
                             = gSegments[j].allocator.allocations[o]
    <3>1. gSegments[j] \in SegmentSet /\ AllocatorInv(gSegments[j].allocator)
        BY <1>1 DEF SegInv
    <3>2. CASE ~Holds(j, block)
        BY <3>1, <3>2
    <3>3. CASE Holds(j, block)
      <4> DEFINE a == gSegments[j].allocator
                 b == release(a, block.offset, block.length)
      <4>1. a \in Allocators
          BY <3>1 DEF SegmentSet
      <4>2. /\ b \in Allocators /\ AllocatorInv(b)
            /\ DOMAIN b.allocations = DOMAIN a.allocations \ {block.offset}
            /\ \A o \in DOMAIN a.allocations \ {block.offset} :
                  b.allocations[o] = a.allocations[o]
          BY <1>1, <3>1, <3>3, <4>1, Released DEF Holds
      <4>3. next(j) = [gSegments[j] EXCEPT !.allocator = b]
          BY <3>3
      <4> HIDE DEF b
      <4>4. next(j) \in SegmentSet /\ next(j).map = gSegments[j].map /\ next(j).allocator = b
          BY <3>1, <4>2, <4>3 DEF SegmentSet
      <4> HIDE DEF next
      <4> QED BY <3>3, <4>2, <4>4
    <3> QED BY <3>2, <3>3
  <2> HIDE DEF next
  <2>3. gSegments' \in Seq(SegmentSet) /\ Len(gSegments') = Len(gSegments)
      BY <1>1, <2>1, <2>2
  <2>4. \A j \in 1..Len(gSegments) : gSegments'[j] = next(j)
      BY <2>1
  <2> QED BY <2>2, <2>3, <2>4
<1> QED BY <1>2, <1>3 DEF GuestRelease

\* After the probe the allocators start over in the same mappings.
LEMMA ResetEffect ==
    ASSUME SegInv, NEW w \in Workers, ResetAllocators(w)
    PROVE  /\ Len(gSegments') = Len(gSegments)
           /\ gSegments' \in Seq(SegmentSet)
           /\ \A j \in 1..Len(gSegments) : gSegments'[j].map = gSegments[j].map
           /\ \A j \in 1..Len(gSegments) : AllocatorInv(gSegments'[j].allocator)
<1>1. /\ gSegments \in Seq(SegmentSet) /\ DOMAIN gSegments = 1..Len(gSegments)
      /\ Len(gSegments) \in Nat
      /\ \A j \in 1..Len(gSegments) : gSegments[j] \in SegmentSet
    BY DEF SegInv
<1> DEFINE next(j) == Segment(gSegments[j].map)
<1>2. gSegments' = [j \in 1..Len(gSegments) |-> next(j)]
    BY <1>1 DEF ResetAllocators
<1>3. ASSUME NEW j \in 1..Len(gSegments)
      PROVE  /\ next(j) \in SegmentSet /\ next(j).map = gSegments[j].map
             /\ AllocatorInv(next(j).allocator)
  <2>1. gSegments[j].map \in Mappings
      BY <1>1 DEF SegmentSet
  <2> QED BY <2>1, FreshSegment
<1> HIDE DEF next
<1>4. gSegments' \in Seq(SegmentSet) /\ Len(gSegments') = Len(gSegments)
    BY <1>1, <1>2, <1>3
<1>5. \A j \in 1..Len(gSegments) : gSegments'[j] = next(j)
    BY <1>2
<1> QED BY <1>3, <1>4, <1>5

\* Another segment.
LEMMA ExtendEffect ==
    ASSUME SegInv, NEW map \in Mappings, gSegments' = Append(gSegments, Segment(map))
    PROVE  /\ gSegments' \in Seq(SegmentSet)
           /\ Len(gSegments') = Len(gSegments) + 1
           /\ \A j \in 1..Len(gSegments) : gSegments'[j] = gSegments[j]
           /\ gSegments'[Len(gSegments) + 1].map = map
           /\ \A j \in 1..Len(gSegments') : AllocatorInv(gSegments'[j].allocator)
<1> DEFINE s == Segment(map)
           n == Len(gSegments)
<1>1. s \in SegmentSet /\ s.map = map /\ AllocatorInv(s.allocator)
    BY FreshSegment
<1>2. gSegments' = Append(gSegments, s)
    OBVIOUS
<1> HIDE DEF s
<1>3. /\ gSegments' \in Seq(SegmentSet) /\ Len(gSegments') = n + 1 /\ n \in Nat
      /\ \A j \in 1..n : gSegments'[j] = gSegments[j]
      /\ gSegments'[n + 1] = s
    BY <1>1, <1>2 DEF SegInv
<1> HIDE DEF n
<1>4. \A j \in 1..(n + 1) : j \in 1..n \/ j = n + 1
    BY <1>3
<1>5. \A j \in 1..n : AllocatorInv(gSegments[j].allocator)
    BY DEF SegInv, n
<1> QED BY <1>1, <1>3, <1>4, <1>5 DEF n

\* The first segment.
LEMMA InstallEffect ==
    ASSUME NEW map \in Mappings, gSegments' = <<Segment(map)>>
    PROVE  /\ gSegments' \in Seq(SegmentSet) /\ Len(gSegments') = 1
           /\ gSegments'[1].map = map /\ AllocatorInv(gSegments'[1].allocator)
<1> DEFINE s == Segment(map)
<1>1. s \in SegmentSet /\ s.map = map /\ AllocatorInv(s.allocator)
    BY FreshSegment
<1>2. gSegments' = <<s>>
    OBVIOUS
<1> HIDE DEF s
<1> QED BY <1>1, <1>2

-----------------------------------------------------------------------------
\* An allocation keeps the segments well formed.
LEMMA AllocKeeps ==
    ASSUME SegInv, NEW owner, NEW length \in Nat, Alloc(owner, length)
    PROVE  SegInv'
<1>0. PICK i \in 1..Len(gSegments), at \in Nat : Allocates(i, at, owner, length)
    BY AllocEffect
<1>1. /\ Len(gSegments') = Len(gSegments) /\ gSegments' \in Seq(SegmentSet)
      /\ \A j \in 1..Len(gSegments) : j # i => gSegments'[j] = gSegments[j]
      /\ AllocatorInv(gSegments'[i].allocator)
      /\ live' = live \cup {[map |-> gSegments[i].map, length |-> length,
                             owner |-> owner, offset |-> at]}
    BY <1>0 DEF Allocates
<1>2. \A b \in live' : b.offset \in Nat /\ b.length \in Nat
    BY <1>1 DEF SegInv
<1> QED BY <1>1, <1>2 DEF SegInv

\* The segments stay well formed.
LEMMA SegmentsInductive ==
    ASSUME AppInv, SegInv, [Next]_vars
    PROVE  SegInv'
<1> USE DEF arena, app
<1>0. ASSUME UNCHANGED <<gSegments, live>> PROVE SegInv'
    BY <1>0 DEF SegInv
<1>1. ASSUME NEW w \in Workers, ArenaStep(w) PROVE SegInv'
  <2>1. CASE PrepareCheck(w) \/ AskFirst(w) \/ SetPrepared(w) \/ ProbeCheck(w)
             \/ ProbeRefused(w) \/ ProbeFront(w) \/ ProbeExecute(w) \/ Unprepare(w)
             \/ Confirm(w) \/ PoolPrepare(w) \/ PoolProbe(w) \/ PoolChecked(w)
      BY <1>0, <2>1 DEF PrepareCheck, AskFirst, SetPrepared, ProbeCheck, ProbeRefused, ProbeFront,
         ProbeExecute, Unprepare, Confirm, PoolPrepare, PoolProbe, PoolChecked
  <2>2. CASE Install(w)
    <3>1. mine[w] \in Mappings /\ gSegments' = <<Segment(mine[w])>> /\ live' = live
        BY <2>2 DEF Install, AppInv, MineInv
    <3>2. /\ gSegments' \in Seq(SegmentSet) /\ Len(gSegments') = 1
          /\ AllocatorInv(gSegments'[1].allocator)
        BY <3>1, InstallEffect
    <3>3. \A i \in 1..Len(gSegments') : i = 1
        BY <3>2
    <3> QED BY <3>1, <3>2, <3>3 DEF SegInv
  <2>3. CASE Extend(w)
    <3>1. CASE gSegments' = gSegments
        BY <1>0, <2>3, <3>1 DEF Extend
    <3>2. ASSUME NEW map \in Mappings, gSegments' = Append(gSegments, Segment(map)) PROVE SegInv'
      <4>1. live' = live
          BY <2>3 DEF Extend
      <4> QED BY <3>2, <4>1, ExtendEffect DEF SegInv
    <3> QED BY <2>3, <3>1, <3>2 DEF Extend, Unused
  <2>4. CASE Discard(w)
    <3> DEFINE e == << >>
    <3>1. gSegments' = e /\ live' = live
        BY <2>4 DEF Discard
    <3>2. e \in Seq(SegmentSet) /\ Len(e) = 0
        OBVIOUS
    <3> HIDE DEF e
    <3> QED BY <3>1, <3>2 DEF SegInv
  <2>5. CASE ResetAllocators(w)
    <3>1. live' = live
        BY <2>5 DEF ResetAllocators
    <3> QED BY <2>5, <3>1, ResetEffect DEF SegInv
  <2>6. CASE AddCodeSegment(w)
    <3>1. CASE UNCHANGED <<arena, live>>
        BY <1>0, <3>1
    <3>2. ASSUME NEW length \in FexLengths, Alloc("fex", length) PROVE SegInv'
      <4>1. length \in Nat
          BY ArenaAssumption
      <4> QED BY <3>2, <4>1, AllocKeeps
    <3> QED BY <2>6, <3>1, <3>2 DEF AddCodeSegment
  <2> QED BY <1>1, <2>1, <2>2, <2>3, <2>4, <2>5, <2>6 DEF ArenaStep
<1>2. CASE Startup \/ Launch \/ Timeout \/ JitDone \/ SettingsProbe \/ FexDone
           \/ SessionEnds \/ ScriptChanges
    BY <1>0, <1>2 DEF Startup, Launch, Timeout, JitDone, SettingsProbe, FexDone,
       SessionEnds, ScriptChanges
<1>3. CASE GuestAlloc
  <2>1. PICK length \in Lengths : Alloc("guest", length)
      BY <1>3 DEF GuestAlloc
  <2>2. length \in Nat
      BY ArenaAssumption
  <2> QED BY <2>1, <2>2, AllocKeeps
<1>4. ASSUME NEW block \in live, GuestRelease(block) PROVE SegInv'
  <2>1. live' \subseteq live
      BY <1>4 DEF GuestRelease
  <2> QED BY <1>4, <2>1, ReleaseEffect DEF SegInv
<1>5. CASE UNCHANGED vars
    BY <1>0, <1>5 DEF vars
<1> QED BY <1>1, <1>2, <1>3, <1>4, <1>5 DEF Next

-----------------------------------------------------------------------------
\* The mappings in use, those about to be recorded, and the pages of both.
SegMaps == {gSegments[i].map : i \in DOMAIN gSegments}

Installs == {mine[w] : w \in {v \in Workers : pc[v] = "install"}}

AllPages == UNION {PagesOf(map) : map \in SegMaps \cup Installs}

\* While the settings page is not used: the segments are different mappings,
\* the mapped pages are theirs, every block is recorded by the segment of its
\* mapping, and no two blocks start at one place.
PlaceInv ==
    ~settingsUsed =>
        /\ \A i, j \in 1..Len(gSegments) : gSegments[i].map = gSegments[j].map => i = j
        /\ mapped = AllPages
        /\ \A b \in live : \E i \in 1..Len(gSegments) : Holds(i, b)
        /\ \A b, c \in live : b.map = c.map /\ b.offset = c.offset => b = c

\* The worker that changes the segments is the first one, and no block exists.
LEMMA QuietWorker ==
    ASSUME CtlInv, AppInv, ~settingsUsed, NEW w \in Workers,
           pc[w] \in {"ask", "install", "extend", "discard", "reset"}
    PROVE  w = "jit" /\ live = {} /\ pc["fex"] # "install" /\ ~gExecutionConfirmed
<1>1. w = "jit"
    BY DEF AppInv, Quiet
<1>2. ~gExecutionConfirmed
    BY <1>1 DEF AppInv, Quiet
<1>3. live = {}
    BY <1>2 DEF AppInv, LiveConfirmed
<1>4. pc["fex"] = "idle"
    BY <1>2 DEF AppInv, Quiet
<1> QED BY <1>1, <1>2, <1>3, <1>4

\* The mapping that is asked for and not yet recorded.
LEMMA InstallsOf ==
    /\ Keeps => Installs' = Installs
    /\ pc["fex"] # "install" =>
          Installs = IF pc["jit"] = "install" THEN {mine["jit"]} ELSE {}
<1>1. ASSUME Keeps PROVE Installs' = Installs
    BY <1>1 DEF Keeps, Installs
<1>2. ASSUME pc["fex"] # "install"
      PROVE  Installs = IF pc["jit"] = "install" THEN {mine["jit"]} ELSE {}
    BY <1>2 DEF Installs
<1> QED BY <1>1, <1>2

\* Segments that keep their mappings, one by one, keep them as a whole.
LEMMA SameMaps ==
    ASSUME SegInv, gSegments' \in Seq(SegmentSet), Len(gSegments') = Len(gSegments),
           \A j \in 1..Len(gSegments) : gSegments'[j].map = gSegments[j].map
    PROVE  SegMaps' = SegMaps /\ Maps' = Maps
<1>1. DOMAIN gSegments = 1..Len(gSegments) /\ DOMAIN gSegments' = 1..Len(gSegments)
    BY DEF SegInv
<1> QED BY <1>1 DEF SegMaps, Maps

\* A step that leaves segments, blocks and pages alone keeps the placement.
LEMMA Unmoved ==
    ASSUME PlaceInv, Keeps, UNCHANGED <<gSegments, live, mapped>>, settingsUsed => settingsUsed'
    PROVE  PlaceInv'
<1>1. Installs' = Installs
    BY InstallsOf
<1>2. AllPages' = AllPages
    BY <1>1 DEF AllPages, SegMaps, PagesOf
<1> QED BY <1>2 DEF PlaceInv, Holds

\* StikDebug's answer adds the pages of the mapping to be recorded.
LEMMA PlaceAsked ==
    ASSUME CtlInv, AppInv, SegInv, PlaceInv, NEW w \in Workers, AskFirst(w)
    PROVE  PlaceInv'
<1> SUFFICES ASSUME ~settingsUsed PROVE PlaceInv'
    BY DEF AskFirst, app, PlaceInv
<1>1. /\ w = "jit" /\ live = {} /\ pc["fex"] # "install" /\ pc["jit"] = "ask"
      /\ gSegments' = gSegments /\ live' = live
    BY QuietWorker DEF AskFirst, arena
<1>2. Installs = {} /\ SegMaps' = SegMaps
    BY <1>1, InstallsOf DEF SegMaps
<1>3. mapped' = AllPages'
  <2>1. ASSUME NEW map \in Unused, mapped' = mapped \cup PagesOf(map),
               mine' = [mine EXCEPT ![w] = map], Goto(w, "install")
        PROVE  mapped' = AllPages'
    <3>1. pc' = [pc EXCEPT !["jit"] = "install"] /\ mine' = [mine EXCEPT !["jit"] = map]
        BY <1>1, <2>1 DEF Goto
    <3>2. Installs' = {map}
        BY <1>1, <3>1 DEF Installs, CtlInv, AppInv, MineInv
    <3>3. mapped = UNION {PagesOf(m) : m \in SegMaps}
        BY <1>2 DEF PlaceInv, AllPages
    <3>4. AllPages' = UNION {PagesOf(m) : m \in SegMaps \cup {map}}
        BY <1>2, <3>2 DEF AllPages, PagesOf
    <3>5. AllPages' = (UNION {PagesOf(m) : m \in SegMaps}) \cup PagesOf(map)
        BY <3>4
    <3> QED BY <2>1, <3>3, <3>5
  <2>2. ASSUME Return(w, "failed"), UNCHANGED <<mapped, mine>>
        PROVE  mapped' = AllPages'
    <3>1. Moves(w, "refused") \/ Moves(w, "done")
        BY <1>1, <2>2, ReturnsFromPrep DEF Prep
    <3>2. Keeps
        BY <1>1, <2>2, <3>1 DEF Moves, Keeps
    <3>3. Installs' = Installs
        BY <3>2, InstallsOf
    <3>4. AllPages' = AllPages
        BY <1>2, <3>3 DEF AllPages, PagesOf
    <3> QED BY <2>2, <3>4 DEF PlaceInv
  <2> QED BY <2>1, <2>2 DEF AskFirst
<1> QED BY <1>1, <1>3 DEF PlaceInv

\* Recording the first segment.
LEMMA PlaceInstalled ==
    ASSUME CtlInv, AppInv, SegInv, PlaceInv, NEW w \in Workers, Install(w)
    PROVE  PlaceInv'
<1> SUFFICES ASSUME ~settingsUsed PROVE PlaceInv'
    BY DEF Install, app, PlaceInv
<1>1. /\ w = "jit" /\ live = {} /\ pc["fex"] # "install" /\ pc["jit"] = "install"
      /\ live' = live /\ mapped' = mapped /\ mine' = mine
      /\ gSegments' = <<Segment(mine["jit"])>> /\ pc' = [pc EXCEPT !["jit"] = "extend"]
    BY QuietWorker DEF Install, Goto
<1> DEFINE map == mine["jit"]
<1>2. gSegments = << >> /\ map \in Mappings
    BY <1>1 DEF AppInv, Quiet, MineInv
<1>3. Installs = {map} /\ SegMaps = {}
    BY <1>1, <1>2, InstallsOf DEF SegMaps
<1>4. Installs' = {}
    BY <1>1 DEF Installs, CtlInv
<1>5. gSegments' \in Seq(SegmentSet) /\ Len(gSegments') = 1 /\ gSegments'[1].map = map
    BY <1>1, <1>2, InstallEffect
<1>6. SegMaps' = {map}
  <2>1. DOMAIN gSegments' = {1}
      BY <1>5
  <2> QED BY <1>5, <2>1 DEF SegMaps
<1>7. AllPages' = AllPages
    BY <1>3, <1>4, <1>6 DEF AllPages, PagesOf
<1>8. mapped' = AllPages'
    BY <1>1, <1>7 DEF PlaceInv
<1>9. \A i, j \in 1..Len(gSegments') : i = j
    BY <1>5
<1> QED BY <1>1, <1>8, <1>9 DEF PlaceInv

\* Asking for another segment, and being refused it.
LEMMA PlaceExtended ==
    ASSUME CtlInv, AppInv, SegInv, PlaceInv, NEW w \in Workers, Extend(w), Keeps
    PROVE  PlaceInv'
<1> SUFFICES ASSUME ~settingsUsed PROVE PlaceInv'
    BY DEF Extend, app, PlaceInv
<1>1. live = {} /\ live' = live
    BY QuietWorker DEF Extend
<1>2. Installs' = Installs
    BY InstallsOf
<1>3. CASE gSegments' = gSegments /\ mapped' = mapped
  <2>1. settingsUsed' = settingsUsed
      BY DEF Extend, app
  <2> QED BY <1>1, <1>3, <2>1, Unmoved
<1>4. ASSUME NEW map \in Unused, mapped' = mapped \cup PagesOf(map),
             gSegments' = Append(gSegments, Segment(map))
      PROVE  PlaceInv'
  <2> DEFINE n == Len(gSegments)
  <2>1. map \in Mappings /\ PagesOf(map) \cap mapped = {}
      BY DEF Unused
  <2>2. /\ gSegments' \in Seq(SegmentSet) /\ Len(gSegments') = n + 1
        /\ \A j \in 1..n : gSegments'[j] = gSegments[j]
        /\ gSegments'[n + 1].map = map
      BY <1>4, <2>1, ExtendEffect
  <2>3. n \in Nat /\ DOMAIN gSegments = 1..n /\ DOMAIN gSegments' = 1..(n + 1)
      BY <2>2 DEF SegInv
  <2> HIDE DEF n
  <2>4. \A j \in 1..(n + 1) : j \in 1..n \/ j = n + 1
      BY <2>3
  <2>5. SegMaps' = SegMaps \cup {map}
    <3>1. SegMaps' = {gSegments'[i].map : i \in 1..(n + 1)} /\ SegMaps = {gSegments[i].map : i \in 1..n}
        BY <2>3 DEF SegMaps
    <3>2. n + 1 \in 1..(n + 1) /\ \A j \in 1..n : j \in 1..(n + 1)
        BY <2>3
    <3> QED BY <2>2, <2>4, <3>1, <3>2
  <2>6. mapped' = AllPages'
    <3>1. AllPages' = UNION {PagesOf(m) : m \in (SegMaps \cup {map}) \cup Installs}
        BY <1>2, <2>5 DEF AllPages, PagesOf
    <3>2. AllPages' = AllPages \cup PagesOf(map)
        BY <3>1 DEF AllPages
    <3> QED BY <1>4, <3>2 DEF PlaceInv
  <2>7. ASSUME NEW j \in 1..n PROVE gSegments[j].map # map
    <3>1. gSegments[j].map \in SegMaps
        BY <2>3 DEF SegMaps
    <3>2. PagesOf(gSegments[j].map) \subseteq mapped
        BY <3>1 DEF PlaceInv, AllPages
    <3>3. <<map, 0>> \in PagesOf(map)
        BY ArenaAssumption DEF PagesOf
    <3> QED BY <2>1, <3>2, <3>3
  <2>8. ASSUME NEW i \in 1..(n + 1), NEW j \in 1..(n + 1), gSegments'[i].map = gSegments'[j].map
        PROVE  i = j
    <3>1. CASE i \in 1..n /\ j \in 1..n
        BY <2>2, <2>8, <3>1 DEF PlaceInv, n
    <3>2. CASE i \in 1..n /\ j = n + 1
        BY <2>2, <2>7, <2>8, <3>2
    <3>3. CASE i = n + 1 /\ j \in 1..n
        BY <2>2, <2>7, <2>8, <3>3
    <3> QED BY <2>4, <3>1, <3>2, <3>3
  <2> QED BY <1>1, <2>2, <2>6, <2>8 DEF PlaceInv
<1> QED BY <1>3, <1>4 DEF Extend

\* A failed probe gives all segments back.
LEMMA PlaceDiscarded ==
    ASSUME CtlInv, AppInv, SegInv, PlaceInv, NEW w \in Workers, Discard(w), Keeps
    PROVE  PlaceInv'
<1> SUFFICES ASSUME ~settingsUsed PROVE PlaceInv'
    BY DEF Discard, app, PlaceInv
<1>1. /\ w = "jit" /\ live = {} /\ pc["fex"] # "install" /\ pc["jit"] = "discard"
      /\ live' = live /\ gSegments' = << >>
      /\ mapped' = mapped \ UNION {PagesOf(gSegments[i].map) : i \in DOMAIN gSegments}
    BY QuietWorker DEF Discard
<1>2. Installs = {} /\ Installs' = {}
    BY <1>1, InstallsOf
<1>3. mapped = UNION {PagesOf(gSegments[i].map) : i \in DOMAIN gSegments}
    BY <1>2 DEF PlaceInv, AllPages, SegMaps
<1>4. mapped' = {}
    BY <1>1, <1>3
<1> DEFINE e == << >>
<1>5. Len(e) = 0 /\ DOMAIN e = {} /\ gSegments' = e
    BY <1>1
<1> HIDE DEF e
<1>6. SegMaps' = {}
    BY <1>5 DEF SegMaps
<1>7. AllPages' = {}
    BY <1>2, <1>6 DEF AllPages
<1> QED BY <1>1, <1>4, <1>5, <1>7 DEF PlaceInv

\* After the probe the allocators start over: there is no block to forget.
LEMMA PlaceReset ==
    ASSUME CtlInv, AppInv, SegInv, PlaceInv, NEW w \in Workers, ResetAllocators(w), Keeps
    PROVE  PlaceInv'
<1> SUFFICES ASSUME ~settingsUsed PROVE PlaceInv'
    BY DEF ResetAllocators, app, PlaceInv
<1>1. live = {} /\ live' = live /\ mapped' = mapped
    BY QuietWorker DEF ResetAllocators
<1>2. /\ Len(gSegments') = Len(gSegments) /\ gSegments' \in Seq(SegmentSet)
      /\ \A j \in 1..Len(gSegments) : gSegments'[j].map = gSegments[j].map
    BY ResetEffect
<1>3. SegMaps' = SegMaps /\ Installs' = Installs
    BY <1>2, SameMaps, InstallsOf
<1>4. AllPages' = AllPages
    BY <1>3 DEF AllPages, PagesOf
<1> QED BY <1>1, <1>2, <1>4 DEF PlaceInv

-----------------------------------------------------------------------------
\* An allocation.
LEMMA PlaceAllocated ==
    ASSUME SegInv, PlaceInv, NEW owner, NEW length \in Nat, Alloc(owner, length), Keeps,
           UNCHANGED <<mapped, settingsUsed>>
    PROVE  PlaceInv' /\ Maps' = Maps
<1>0. PICK i \in 1..Len(gSegments), at \in Nat : Allocates(i, at, owner, length)
    BY AllocEffect
<1>1. /\ Len(gSegments') = Len(gSegments) /\ gSegments' \in Seq(SegmentSet)
      /\ \A j \in 1..Len(gSegments) : gSegments'[j].map = gSegments[j].map
      /\ \A j \in 1..Len(gSegments) : j # i => gSegments'[j] = gSegments[j]
      /\ at \notin DOMAIN gSegments[i].allocator.allocations
      /\ DOMAIN gSegments'[i].allocator.allocations
           = DOMAIN gSegments[i].allocator.allocations \cup {at}
      /\ gSegments'[i].allocator.allocations[at] = length
      /\ \A o \in DOMAIN gSegments[i].allocator.allocations :
            gSegments'[i].allocator.allocations[o] = gSegments[i].allocator.allocations[o]
      /\ live' = live \cup {[map |-> gSegments[i].map, length |-> length,
                             owner |-> owner, offset |-> at]}
    BY <1>0 DEF Allocates
<1>2. SegMaps' = SegMaps /\ Maps' = Maps /\ Installs' = Installs
    BY <1>1, SameMaps, InstallsOf
<1> SUFFICES ASSUME ~settingsUsed PROVE PlaceInv'
    BY <1>2 DEF PlaceInv
<1>3. mapped' = AllPages'
  <2>1. AllPages' = AllPages
      BY <1>2 DEF AllPages, PagesOf
  <2> QED BY <2>1 DEF PlaceInv
<1>4. PICK new : /\ new.map = gSegments[i].map /\ new.length = length /\ new.offset = at
                 /\ live' = live \cup {new}
    BY <1>1
<1>5. live' = live \cup {new}
    BY <1>4
<1>6. ASSUME NEW b \in live PROVE \E j \in 1..Len(gSegments') : Holds(j, b)'
  <2>1. PICK j \in 1..Len(gSegments) : Holds(j, b)
      BY DEF PlaceInv
  <2>2. Holds(j, b)'
    <3>1. CASE j # i
      <4>1. gSegments'[j] = gSegments[j]
          BY <1>1, <3>1
      <4> QED BY <2>1, <4>1 DEF Holds, CanRelease
    <3>2. CASE j = i
        BY <1>1, <2>1, <3>2 DEF Holds, CanRelease
    <3> QED BY <3>1, <3>2
  <2> QED BY <1>1, <2>2
<1>7. \E j \in 1..Len(gSegments') : Holds(j, new)'
  <2>1. Holds(i, new)'
      BY <1>1, <1>4 DEF Holds, CanRelease
  <2> QED BY <1>1, <2>1
<1>8. ASSUME NEW b \in live, b.map = new.map PROVE b.offset # new.offset
  <2>1. PICK j \in 1..Len(gSegments) : Holds(j, b)
      BY DEF PlaceInv
  <2>2. j = i
      BY <1>4, <1>8, <2>1 DEF PlaceInv, Holds
  <2> QED BY <1>1, <1>4, <2>1, <2>2 DEF Holds, CanRelease
<1>9. \A b, c \in live' : b.map = c.map /\ b.offset = c.offset => b = c
    BY <1>5, <1>8 DEF PlaceInv
<1>10. \A b \in live' : \E j \in 1..Len(gSegments') : Holds(j, b)'
    BY <1>5, <1>6, <1>7
<1>11. \A k, j \in 1..Len(gSegments') : gSegments'[k].map = gSegments'[j].map => k = j
    BY <1>1 DEF PlaceInv
<1> QED BY <1>3, <1>9, <1>10, <1>11 DEF PlaceInv

\* A block given back.
LEMMA PlaceReleased ==
    ASSUME SegInv, PlaceInv, NEW block \in live, GuestRelease(block), Keeps
    PROVE  PlaceInv' /\ Maps' = Maps
<1>1. /\ Len(gSegments') = Len(gSegments) /\ gSegments' \in Seq(SegmentSet)
      /\ \A j \in 1..Len(gSegments) : gSegments'[j].map = gSegments[j].map
      /\ \A j \in 1..Len(gSegments) :
            \/ gSegments'[j] = gSegments[j]
            \/ /\ Holds(j, block)
               /\ DOMAIN gSegments'[j].allocator.allocations
                    = DOMAIN gSegments[j].allocator.allocations \ {block.offset}
               /\ \A o \in DOMAIN gSegments[j].allocator.allocations \ {block.offset} :
                     gSegments'[j].allocator.allocations[o]
                       = gSegments[j].allocator.allocations[o]
    BY ReleaseEffect
<1>2. SegMaps' = SegMaps /\ Maps' = Maps /\ Installs' = Installs
    BY <1>1, SameMaps, InstallsOf
<1>3. live' = live \ {block} /\ settingsUsed' = settingsUsed
    BY DEF GuestRelease, app
<1> SUFFICES ASSUME ~settingsUsed PROVE PlaceInv'
    BY <1>2, <1>3 DEF PlaceInv
<1>4. mapped' = AllPages'
  <2>1. AllPages' = AllPages
      BY <1>2 DEF AllPages, PagesOf
  <2>2. SegmentOf(block.map) # {}
    <3>1. PICK j \in 1..Len(gSegments) : Holds(j, block)
        BY DEF PlaceInv
    <3>2. j \in DOMAIN gSegments
        BY DEF SegInv
    <3> QED BY <3>1, <3>2 DEF SegmentOf, Holds
  <2>3. mapped' = mapped
      BY <2>2 DEF GuestRelease
  <2> QED BY <2>1, <2>3 DEF PlaceInv
<1>5. ASSUME NEW b \in live' PROVE \E j \in 1..Len(gSegments') : Holds(j, b)'
  <2>1. b \in live /\ b # block
      BY <1>3
  <2>2. PICK j \in 1..Len(gSegments) : Holds(j, b)
      BY <2>1 DEF PlaceInv
  <2>3. Holds(j, b)'
    <3>1. CASE gSegments'[j] = gSegments[j]
        BY <2>2, <3>1 DEF Holds, CanRelease
    <3>2. CASE /\ Holds(j, block)
               /\ DOMAIN gSegments'[j].allocator.allocations
                    = DOMAIN gSegments[j].allocator.allocations \ {block.offset}
               /\ \A o \in DOMAIN gSegments[j].allocator.allocations \ {block.offset} :
                     gSegments'[j].allocator.allocations[o]
                       = gSegments[j].allocator.allocations[o]
      <4>1. b.map = block.map
          BY <2>2, <3>2 DEF Holds
      <4>2. b.offset # block.offset
          BY <2>1, <4>1 DEF PlaceInv
      <4> QED BY <1>1, <2>2, <3>2, <4>2 DEF Holds, CanRelease
    <3> QED BY <1>1, <3>1, <3>2
  <2> QED BY <1>1, <2>3
<1>6. \A b, c \in live' : b.map = c.map /\ b.offset = c.offset => b = c
    BY <1>3 DEF PlaceInv
<1>7. \A k, j \in 1..Len(gSegments') : gSegments'[k].map = gSegments'[j].map => k = j
    BY <1>1 DEF PlaceInv
<1> QED BY <1>4, <1>5, <1>6, <1>7 DEF PlaceInv

\* The inductive invariant.
IInv == CtlInv /\ AppInv /\ SegInv /\ PlaceInv

\* Every step keeps the placement, and moves no segment once execution has
\* been confirmed.
LEMMA PlaceStep ==
    ASSUME IInv, [Next]_vars
    PROVE  PlaceInv' /\ (gExecutionConfirmed /\ ~settingsUsed => Maps' = Maps)
<1> USE DEF arena, app
<1> DEFINE Still == gExecutionConfirmed /\ ~settingsUsed => Maps' = Maps
<1>0. CtlInv /\ AppInv /\ SegInv /\ PlaceInv
    BY DEF IInv
<1>a. ASSUME Keeps, UNCHANGED <<gSegments, live, mapped>>, settingsUsed => settingsUsed'
      PROVE  PlaceInv' /\ Still
    BY <1>0, <1>a, Unmoved DEF Maps
<1>1. ASSUME NEW w \in Workers, ArenaStep(w) PROVE PlaceInv' /\ Still
  <2>1. CASE PrepareCheck(w) \/ SetPrepared(w)
    <3>1. Keeps
        BY <1>0, <2>1, StepOfPrepare DEF PrepareCheck, SetPrepared, AskFirst, Install
    <3> QED BY <1>a, <2>1, <3>1 DEF PrepareCheck, SetPrepared
  <2>2. CASE ProbeCheck(w) \/ ProbeRefused(w) \/ ProbeFront(w) \/ ProbeExecute(w)
             \/ Unprepare(w) \/ Confirm(w)
    <3>1. Keeps
        BY <1>0, <2>2, StepOfProbe
    <3> QED BY <1>a, <2>2, <3>1 DEF ProbeCheck, ProbeRefused, ProbeFront, ProbeExecute,
               Unprepare, Confirm
  <2>3. CASE PoolPrepare(w) \/ PoolProbe(w) \/ PoolChecked(w)
    <3>1. Keeps
        BY <1>0, <2>3, StepOfPool
    <3> QED BY <1>a, <2>3, <3>1 DEF PoolPrepare, PoolProbe, PoolChecked
  <2>4. CASE AskFirst(w)
    <3>1. gSegments' = gSegments
        BY <2>4 DEF AskFirst
    <3> QED BY <1>0, <2>4, <3>1, PlaceAsked DEF Maps
  <2>5. CASE Install(w)
    <3>1. Still
        BY <1>0, <2>5, QuietWorker DEF Install
    <3> QED BY <1>0, <2>5, <3>1, PlaceInstalled
  <2>6. CASE Extend(w)
    <3>1. Still
        BY <1>0, <2>6, QuietWorker DEF Extend
    <3>2. Keeps
        BY <1>0, <2>6, StepOfPrepare DEF Extend, AskFirst, Install
    <3> QED BY <1>0, <2>6, <3>1, <3>2, PlaceExtended
  <2>7. CASE Discard(w)
    <3>1. Still
        BY <1>0, <2>7, QuietWorker DEF Discard
    <3> QED BY <1>0, <2>7, <3>1, StepOfProbe, PlaceDiscarded
  <2>8. CASE ResetAllocators(w)
    <3>1. Still
        BY <1>0, <2>8, QuietWorker DEF ResetAllocators
    <3> QED BY <1>0, <2>8, <3>1, StepOfProbe, PlaceReset
  <2>9. CASE AddCodeSegment(w)
    <3>1. Keeps
        BY <1>0, <2>9, StepOfPool
    <3>2. UNCHANGED <<mapped, settingsUsed>>
        BY <2>9 DEF AddCodeSegment
    <3>3. CASE UNCHANGED <<arena, live>>
        BY <1>a, <3>1, <3>2, <3>3
    <3>4. ASSUME NEW length \in FexLengths, Alloc("fex", length) PROVE PlaceInv' /\ Still
      <4>1. length \in Nat
          BY ArenaAssumption
      <4> QED BY <1>0, <3>1, <3>2, <3>4, <4>1, PlaceAllocated
    <3> QED BY <2>9, <3>3, <3>4 DEF AddCodeSegment
  <2> QED BY <1>1, <2>1, <2>2, <2>3, <2>4, <2>5, <2>6, <2>7, <2>8, <2>9 DEF ArenaStep
<1>2. CASE Startup \/ Launch \/ Timeout \/ JitDone \/ SettingsProbe \/ FexDone
           \/ SessionEnds \/ ScriptChanges
  <2>1. Keeps
      BY <1>0, <1>2, StepOfApp
  <2> QED BY <1>a, <1>2, <2>1 DEF Startup, Launch, Timeout, JitDone, SettingsProbe, FexDone,
             SessionEnds, ScriptChanges
<1>3. CASE GuestAlloc
  <2>1. Keeps
      BY <1>0, <1>3, StepOfApp
  <2>2. PICK length \in Lengths : Alloc("guest", length)
      BY <1>3 DEF GuestAlloc
  <2>3. length \in Nat /\ UNCHANGED <<mapped, settingsUsed>>
      BY <1>3, ArenaAssumption DEF GuestAlloc
  <2> QED BY <1>0, <2>1, <2>2, <2>3, PlaceAllocated
<1>4. ASSUME NEW block \in live, GuestRelease(block) PROVE PlaceInv' /\ Still
  <2>1. Keeps
      BY <1>0, <1>4, StepOfApp
  <2> QED BY <1>0, <1>4, <2>1, PlaceReleased
<1>5. CASE UNCHANGED vars
  <2>1. Keeps
      BY <1>5 DEF vars, Keeps
  <2> QED BY <1>a, <1>5, <2>1 DEF vars
<1> QED BY <1>1, <1>2, <1>3, <1>4, <1>5 DEF Next

\* The invariant holds at the start.
LEMMA ArenaInitial == Init => IInv
<1> SUFFICES ASSUME Init PROVE IInv
    OBVIOUS
<1>1. CtlInv /\ AppInv
    BY ControlInitial
<1> DEFINE e == << >>
<1>2. gSegments = e /\ live = {} /\ mapped = {} /\ ~settingsUsed
    BY DEF Init
<1>3. e \in Seq(SegmentSet) /\ Len(e) = 0 /\ DOMAIN e = {}
    OBVIOUS
<1> HIDE DEF e
<1>4. SegInv
    BY <1>2, <1>3 DEF SegInv
<1>5. AllPages = {}
    BY <1>2, <1>3 DEF AllPages, SegMaps, Installs, Init
<1>6. PlaceInv
    BY <1>2, <1>3, <1>5 DEF PlaceInv
<1> QED BY <1>1, <1>4, <1>6 DEF IInv

\* It is kept by every step.
LEMMA ArenaInductive == IInv /\ [Next]_vars => IInv'
<1> SUFFICES ASSUME IInv, [Next]_vars PROVE IInv'
    OBVIOUS
<1>1. (CtlInv /\ AppInv)'
    BY ControlInductive DEF IInv
<1>2. SegInv'
    BY SegmentsInductive DEF IInv
<1> QED BY <1>1, <1>2, PlaceStep DEF IInv

\* It holds throughout.
LEMMA ArenaInvariant == Spec => []IInv
<1> QED BY ArenaInitial, ArenaInductive, PTL DEF Spec

\* For every number of mappings, segments and pages: the pages StikDebug prepared
\* are those of the segments and of an answered request not yet recorded.
THEOREM PagesAreKept == Spec => []NoPagesLost
<1>1. IInv => NoPagesLost
    BY DEF IInv, PlaceInv, NoPagesLost, AllPages, SegMaps, Installs
<1> QED BY <1>1, ArenaInvariant, PTL

\* It implies that live blocks are mapped, recorded and disjoint: the places
\* two blocks of one mapping are recorded at belong to one allocator.
LEMMA InvBlocks == IInv => BlocksAreOwned
<1> SUFFICES ASSUME IInv, ~settingsUsed, NEW b \in live
             PROVE  /\ PagesOfBlock(b) \subseteq mapped
                    /\ \E i \in SegmentOf(b.map) :
                          CanRelease(gSegments[i].allocator, b.offset, b.length)
                    /\ \A c \in live \ {b} : PagesOfBlock(b) \cap PagesOfBlock(c) = {}
    BY DEF BlocksAreOwned
<1>0. SegInv /\ PlaceInv /\ DOMAIN gSegments = 1..Len(gSegments)
    BY DEF IInv, SegInv
<1>1. ASSUME NEW c \in live
      PROVE  \E i \in 1..Len(gSegments) :
                /\ Holds(i, c) /\ c.offset \in Nat /\ c.length \in Nat \ {0}
                /\ c.offset + c.length <= SegmentPages
  <2>1. PICK i \in 1..Len(gSegments) : Holds(i, c)
      BY <1>0 DEF PlaceInv
  <2> DEFINE a == gSegments[i].allocator
  <2>2. gSegments[i] \in SegmentSet /\ AllocatorInv(a)
      BY <1>0 DEF SegInv
  <2>3. a \in Allocators
      BY <2>2 DEF SegmentSet
  <2>4. c.offset \in DOMAIN a.allocations /\ a.allocations[c.offset] = c.length
      BY <2>1 DEF Holds, CanRelease
  <2>5. c.offset \in Nat /\ c.length \in Nat \ {0} /\ c.offset + c.length <= SegmentPages
      BY <2>2, <2>3, <2>4, InsideSegment
  <2> QED BY <2>1, <2>5
<1>2. PICK i \in 1..Len(gSegments) :
        /\ Holds(i, b) /\ b.offset \in Nat /\ b.length \in Nat \ {0}
        /\ b.offset + b.length <= SegmentPages
    BY <1>1
<1>3. PagesOfBlock(b) \subseteq mapped
  <2>1. b.map \in SegMaps
      BY <1>0, <1>2 DEF SegMaps, Holds
  <2>2. PagesOf(b.map) \subseteq mapped
      BY <1>0, <2>1 DEF PlaceInv, AllPages
  <2>3. SegmentPages \in Nat
      BY ArenaAssumption, MaxSizeAssumption
  <2>4. b.offset..(b.offset + b.length - 1) \subseteq 0..(SegmentPages - 1)
      BY <1>2, <2>3
  <2>5. PagesOfBlock(b) \subseteq PagesOf(b.map)
      BY <2>4 DEF PagesOfBlock, PagesOf
  <2> QED BY <2>2, <2>5
<1>4. \E k \in SegmentOf(b.map) : CanRelease(gSegments[k].allocator, b.offset, b.length)
    BY <1>0, <1>2 DEF SegmentOf, Holds
<1>5. ASSUME NEW c \in live \ {b} PROVE PagesOfBlock(b) \cap PagesOfBlock(c) = {}
  <2>1. CASE b.map # c.map
      BY <2>1 DEF PagesOfBlock
  <2>2. CASE b.map = c.map
    <3>1. PICK j \in 1..Len(gSegments) :
            Holds(j, c) /\ c.offset \in Nat /\ c.length \in Nat \ {0}
        BY <1>1
    <3>2. j = i
        BY <1>0, <1>2, <2>2, <3>1 DEF PlaceInv, Holds
    <3>3. BlocksApart(gSegments[i].allocator.allocations)
        BY <1>0 DEF SegInv, AllocatorInv
    <3>4. b.offset # c.offset
        BY <1>0, <2>2 DEF PlaceInv
    <3>5. /\ b.offset < c.offset => b.offset + b.length <= c.offset
          /\ c.offset < b.offset => c.offset + c.length <= b.offset
        BY <1>2, <3>1, <3>2, <3>3 DEF BlocksApart, Holds, CanRelease
    <3>6. ASSUME NEW o \in Nat, NEW n \in Nat \ {0}, NEW q \in Nat, NEW m \in Nat \ {0},
                 o # q, o < q => o + n <= q, q < o => q + m <= o
          PROVE  (o..(o + n - 1)) \cap (q..(q + m - 1)) = {}
        BY <3>6
    <3>7. ASSUME NEW p, p \in PagesOfBlock(b), p \in PagesOfBlock(c) PROVE FALSE
      <4>1. /\ p[2] \in b.offset..(b.offset + b.length - 1)
            /\ p[2] \in c.offset..(c.offset + c.length - 1)
          BY <3>7 DEF PagesOfBlock
      <4>2. (b.offset..(b.offset + b.length - 1)) \cap (c.offset..(c.offset + c.length - 1)) = {}
          BY <1>2, <3>1, <3>4, <3>5, <3>6
      <4> QED BY <4>1, <4>2, Zenon
    <3> QED BY <3>7, Zenon
  <2> QED BY <2>1, <2>2
<1> QED BY <1>3, <1>4, <1>5

\* For every number of mappings, segments and pages and every length: a block the
\* arena handed out stays mapped, recorded and its owner's own.
THEOREM BlocksStayOwned == Spec => []BlocksAreOwned
<1> QED BY InvBlocks, ArenaInvariant, PTL

\* For every number of mappings, segments and pages: no step replaces or gives
\* back a segment after execution has been confirmed.
THEOREM SegmentsStay == Spec => ArenaRetained
<1>1. IInv /\ [Next]_vars => [gExecutionConfirmed /\ ~settingsUsed => Maps' = Maps]_vars
    BY PlaceStep
<1> QED BY <1>1, ArenaInvariant, PTL DEF Spec, ArenaRetained

-----------------------------------------------------------------------------
\* The pages the arena can have.
AnyPage == UNION {PagesOf(map) : map \in Mappings}

\* A block inside a segment consists of pages of the arena.
LEMMA BlockPages ==
    ASSUME NEW b, b.map \in Mappings, b.offset \in Nat, b.length \in Nat,
           b.offset + b.length <= SegmentPages
    PROVE  PagesOfBlock(b) \subseteq AnyPage
<1>1. SegmentPages \in Nat
    BY ArenaAssumption, MaxSizeAssumption
<1>2. b.offset..(b.offset + b.length - 1) \subseteq 0..(SegmentPages - 1)
    BY <1>1
<1>3. PagesOfBlock(b) \subseteq PagesOf(b.map)
    BY <1>2 DEF PagesOfBlock, PagesOf
<1> QED BY <1>3 DEF AnyPage

\* Every segment lies in one of the mappings.
LEMMA SegmentMaps ==
    ASSUME NEW s \in Seq(SegmentSet)
    PROVE  \A i \in DOMAIN s : s[i].map \in Mappings
<1> SUFFICES ASSUME NEW i \in DOMAIN s PROVE s[i].map \in Mappings
    OBVIOUS
<1>1. s[i] \in SegmentSet
    OBVIOUS
<1> QED BY <1>1 DEF SegmentSet

\* An allocation stays inside the arena.
LEMMA TypesAllocated ==
    ASSUME SegInv, TypeOK, NEW owner, NEW length \in Nat, Alloc(owner, length)
    PROVE  /\ Len(gSegments') <= SegmentCount
           /\ \A i \in DOMAIN gSegments' : gSegments'[i].map \in Mappings
           /\ \A b \in live' : PagesOfBlock(b) \subseteq AnyPage
<1>0. PICK i \in 1..Len(gSegments), at \in Nat : Allocates(i, at, owner, length)
    BY AllocEffect
<1>1. /\ Len(gSegments') = Len(gSegments) /\ gSegments' \in Seq(SegmentSet)
      /\ AllocatorInv(gSegments'[i].allocator)
      /\ at \in DOMAIN gSegments'[i].allocator.allocations
      /\ gSegments'[i].allocator.allocations[at] = length
    BY <1>0 DEF Allocates
<1>2. PICK new : /\ new.map = gSegments[i].map /\ new.length = length /\ new.offset = at
                 /\ live' = live \cup {new}
    BY <1>0 DEF Allocates
<1>3. \A j \in DOMAIN gSegments' : gSegments'[j].map \in Mappings
    BY <1>1, SegmentMaps
<1>4. gSegments'[i] \in SegmentSet /\ gSegments[i] \in SegmentSet
    BY <1>1 DEF SegInv
<1>5. gSegments'[i].allocator \in Allocators /\ gSegments[i].map \in Mappings
    BY <1>4 DEF SegmentSet
<1>6. at + length <= SegmentPages
    BY <1>1, <1>5, InsideSegment
<1>7. PagesOfBlock(new) \subseteq AnyPage
    BY <1>2, <1>5, <1>6, BlockPages
<1> QED BY <1>1, <1>2, <1>3, <1>7 DEF TypeOK, AnyPage

\* The three parts of the type invariant.
Flags == {gPrepared, gProbed, gExecutionConfirmed, gJitProbeInFlight, script, tested, settingsUsed}

SegTypes ==
    /\ Len(gSegments) <= SegmentCount
    /\ \A i \in DOMAIN gSegments : gSegments[i].map \in Mappings
    /\ \A b \in live : PagesOfBlock(b) \subseteq AnyPage

WorkerTypes ==
    /\ gArenaMutex \in Workers \cup {None}
    /\ phase \in {"start", "waiting", "translating", "idle", "running"}
    /\ mine \in [Workers -> Mappings \cup {None}]
    /\ mapped \subseteq AnyPage

\* The type invariant in three parts.
LEMMA TypeParts == TypeOK <=> Flags \subseteq BOOLEAN /\ SegTypes /\ WorkerTypes
BY DEF TypeOK, Flags, SegTypes, WorkerTypes, AnyPage

\* The flags stay flags.
LEMMA FlagStep ==
    ASSUME Flags \subseteq BOOLEAN, [Next]_vars
    PROVE  Flags' \subseteq BOOLEAN
<1> USE DEF arena, app
<1>1. ASSUME NEW w \in Workers, ArenaStep(w) PROVE Flags' \subseteq BOOLEAN
  <2>1. CASE PrepareCheck(w) \/ AskFirst(w) \/ Install(w) \/ Extend(w) \/ SetPrepared(w)
      BY <2>1 DEF Flags, PrepareCheck, AskFirst, Install, Extend, SetPrepared
  <2>2. CASE ProbeCheck(w) \/ ProbeRefused(w) \/ ProbeFront(w) \/ ProbeExecute(w)
      BY <2>2 DEF Flags, ProbeCheck, ProbeRefused, ProbeFront, ProbeExecute
  <2>3. CASE Discard(w) \/ Unprepare(w) \/ ResetAllocators(w) \/ Confirm(w)
      BY <2>3 DEF Flags, Discard, Unprepare, ResetAllocators, Confirm
  <2>4. CASE PoolPrepare(w) \/ PoolProbe(w) \/ PoolChecked(w) \/ AddCodeSegment(w)
      BY <2>4 DEF Flags, PoolPrepare, PoolProbe, PoolChecked, AddCodeSegment, Alloc
  <2> QED BY <1>1, <2>1, <2>2, <2>3, <2>4 DEF ArenaStep
<1>2. CASE Startup \/ Launch \/ Timeout \/ JitDone \/ SettingsProbe \/ FexDone
           \/ SessionEnds
    BY <1>2 DEF Flags, Startup, Launch, Timeout, JitDone, SettingsProbe, FexDone, SessionEnds
<1>3. CASE ScriptChanges
    BY <1>3 DEF Flags, ScriptChanges
<1>4. CASE GuestAlloc \/ \E block \in live : GuestRelease(block)
    BY <1>4 DEF Flags, GuestAlloc, Alloc, GuestRelease
<1>5. CASE UNCHANGED vars
    BY <1>5 DEF Flags, vars
<1> QED BY <1>1, <1>2, <1>3, <1>4, <1>5 DEF Next

\* Segments and blocks stay inside the arena.
LEMMA SegTypeStep ==
    ASSUME IInv, TypeOK, [Next]_vars
    PROVE  SegTypes'
<1> USE DEF arena, app
<1>0. SegInv /\ AppInv /\ SegTypes
    BY TypeParts DEF IInv
<1>a. ASSUME UNCHANGED <<gSegments, live>> PROVE SegTypes'
    BY <1>0, <1>a DEF SegTypes, AnyPage, PagesOf, PagesOfBlock
<1>1. ASSUME NEW w \in Workers, ArenaStep(w) PROVE SegTypes'
  <2>1. CASE PrepareCheck(w) \/ AskFirst(w) \/ SetPrepared(w) \/ ProbeCheck(w)
             \/ ProbeRefused(w) \/ ProbeFront(w) \/ ProbeExecute(w) \/ Unprepare(w)
             \/ Confirm(w) \/ PoolPrepare(w) \/ PoolProbe(w) \/ PoolChecked(w)
      BY <1>a, <2>1 DEF PrepareCheck, AskFirst, SetPrepared, ProbeCheck, ProbeRefused, ProbeFront,
         ProbeExecute, Unprepare, Confirm, PoolPrepare, PoolProbe, PoolChecked
  <2>2. CASE Install(w)
    <3>1. mine[w] \in Mappings /\ gSegments' = <<Segment(mine[w])>> /\ live' = live
        BY <1>0, <2>2 DEF Install, AppInv, MineInv
    <3>2. gSegments' \in Seq(SegmentSet) /\ Len(gSegments') = 1
        BY <3>1, InstallEffect
    <3>3. \A i \in DOMAIN gSegments' : gSegments'[i].map \in Mappings
        BY <3>2, SegmentMaps
    <3> QED BY <1>0, <3>1, <3>2, <3>3, ArenaAssumption DEF SegTypes, AnyPage, PagesOf, PagesOfBlock
  <2>3. CASE Extend(w)
    <3>1. CASE gSegments' = gSegments
        BY <1>a, <2>3, <3>1 DEF Extend
    <3>2. ASSUME NEW map \in Mappings, gSegments' = Append(gSegments, Segment(map)),
                 Len(gSegments) < SegmentCount
          PROVE SegTypes'
      <4>1. gSegments' \in Seq(SegmentSet) /\ Len(gSegments') = Len(gSegments) + 1
          BY <1>0, <3>2, ExtendEffect
      <4>2. \A i \in DOMAIN gSegments' : gSegments'[i].map \in Mappings
          BY <4>1, SegmentMaps
      <4>3. Len(gSegments') <= SegmentCount
          BY <1>0, <3>2, <4>1, ArenaAssumption DEF SegInv
      <4>4. live' = live
          BY <2>3 DEF Extend
      <4> QED BY <1>0, <4>2, <4>3, <4>4 DEF SegTypes, AnyPage, PagesOf, PagesOfBlock
    <3> QED BY <2>3, <3>1, <3>2 DEF Extend, Unused
  <2>4. CASE Discard(w)
    <3> DEFINE e == << >>
    <3>1. gSegments' = e /\ live' = live
        BY <2>4 DEF Discard
    <3>2. DOMAIN e = {} /\ Len(e) = 0
        OBVIOUS
    <3> HIDE DEF e
    <3> QED BY <1>0, <3>1, <3>2, ArenaAssumption DEF SegTypes, AnyPage, PagesOf, PagesOfBlock
  <2>5. CASE ResetAllocators(w)
    <3>1. live' = live
        BY <2>5 DEF ResetAllocators
    <3>2. Len(gSegments') = Len(gSegments) /\ gSegments' \in Seq(SegmentSet)
        BY <1>0, <2>5, ResetEffect
    <3>3. \A i \in DOMAIN gSegments' : gSegments'[i].map \in Mappings
        BY <3>2, SegmentMaps
    <3> QED BY <1>0, <3>1, <3>2, <3>3 DEF SegTypes, AnyPage, PagesOf, PagesOfBlock
  <2>6. CASE AddCodeSegment(w)
    <3>1. CASE UNCHANGED <<arena, live>>
        BY <1>a, <3>1
    <3>2. ASSUME NEW length \in FexLengths, Alloc("fex", length) PROVE SegTypes'
      <4>1. length \in Nat
          BY ArenaAssumption
      <4> QED BY <1>0, <3>2, <4>1, TypesAllocated DEF SegTypes, AnyPage, PagesOf, PagesOfBlock
    <3> QED BY <2>6, <3>1, <3>2 DEF AddCodeSegment
  <2> QED BY <1>1, <2>1, <2>2, <2>3, <2>4, <2>5, <2>6 DEF ArenaStep
<1>2. CASE Startup \/ Launch \/ Timeout \/ JitDone \/ SettingsProbe \/ FexDone
           \/ SessionEnds \/ ScriptChanges
    BY <1>a, <1>2 DEF Startup, Launch, Timeout, JitDone, SettingsProbe, FexDone,
       SessionEnds, ScriptChanges
<1>3. CASE GuestAlloc
  <2>1. PICK length \in Lengths : Alloc("guest", length)
      BY <1>3 DEF GuestAlloc
  <2>2. length \in Nat
      BY ArenaAssumption
  <2> QED BY <1>0, <2>1, <2>2, TypesAllocated DEF SegTypes, AnyPage, PagesOf, PagesOfBlock
<1>4. ASSUME NEW block \in live, GuestRelease(block) PROVE SegTypes'
  <2>1. live' \subseteq live
      BY <1>4 DEF GuestRelease
  <2>2. Len(gSegments') = Len(gSegments) /\ gSegments' \in Seq(SegmentSet)
      BY <1>0, <1>4, ReleaseEffect
  <2>3. \A i \in DOMAIN gSegments' : gSegments'[i].map \in Mappings
      BY <2>2, SegmentMaps
  <2> QED BY <1>0, <2>1, <2>2, <2>3 DEF SegTypes, AnyPage, PagesOf, PagesOfBlock
<1>5. CASE UNCHANGED vars
    BY <1>a, <1>5 DEF vars
<1> QED BY <1>1, <1>2, <1>3, <1>4, <1>5 DEF Next

\* The lock, the phase, the mappings asked for and the mapped pages.
LEMMA WorkerTypeStep ==
    ASSUME SegInv, WorkerTypes, [Next]_vars
    PROVE  WorkerTypes'
<1> USE DEF arena, app
<1>0. AnyPage' = AnyPage
    BY DEF AnyPage, PagesOf
<1>1. ASSUME NEW w \in Workers, ArenaStep(w) PROVE WorkerTypes'
  <2>1. CASE PrepareCheck(w) \/ Install(w) \/ SetPrepared(w) \/ ProbeCheck(w)
             \/ ProbeRefused(w) \/ ProbeExecute(w) \/ Unprepare(w) \/ ResetAllocators(w)
             \/ Confirm(w) \/ PoolPrepare(w) \/ PoolProbe(w) \/ PoolChecked(w)
             \/ AddCodeSegment(w)
      BY <1>0, <2>1 DEF WorkerTypes, PrepareCheck, Install, SetPrepared, ProbeCheck, ProbeRefused,
         ProbeExecute, Unprepare, ResetAllocators, Confirm, PoolPrepare, PoolProbe, PoolChecked,
         AddCodeSegment, Alloc
  <2>2. CASE AskFirst(w)
    <3>1. ASSUME NEW map \in Mappings, mapped' = mapped \cup PagesOf(map),
                 mine' = [mine EXCEPT ![w] = map]
          PROVE  WorkerTypes'
      <4>1. PagesOf(map) \subseteq AnyPage
          BY DEF AnyPage
      <4> QED BY <1>0, <2>2, <3>1, <4>1 DEF WorkerTypes, AskFirst
    <3>2. CASE UNCHANGED <<mapped, mine>>
        BY <1>0, <2>2, <3>2 DEF WorkerTypes, AskFirst
    <3> QED BY <2>2, <3>1, <3>2 DEF AskFirst, Unused
  <2>3. CASE Extend(w)
    <3>1. mapped' \subseteq AnyPage
      <4>1. \A map \in Mappings : PagesOf(map) \subseteq AnyPage
          BY DEF AnyPage
      <4> QED BY <2>3, <4>1 DEF WorkerTypes, Extend, Unused
    <3> QED BY <1>0, <2>3, <3>1 DEF WorkerTypes, Extend
  <2>4. CASE ProbeFront(w)
    <3>1. gSegments # << >> => gSegments[1].map \in Mappings
      <4> SUFFICES ASSUME gSegments # << >> PROVE gSegments[1].map \in Mappings
          OBVIOUS
      <4>1. gSegments[1] \in SegmentSet
          BY DEF SegInv
      <4> QED BY <4>1 DEF SegmentSet
    <3> QED BY <1>0, <2>4, <3>1 DEF WorkerTypes, ProbeFront
  <2>5. CASE Discard(w)
      BY <1>0, <2>5 DEF WorkerTypes, Discard
  <2> QED BY <1>1, <2>1, <2>2, <2>3, <2>4, <2>5 DEF ArenaStep
<1>2. CASE Startup \/ Launch \/ Timeout \/ SettingsProbe \/ SessionEnds \/ ScriptChanges
    BY <1>0, <1>2 DEF WorkerTypes, Startup, Launch, Timeout, SettingsProbe,
       SessionEnds, ScriptChanges
<1>3. CASE JitDone
    BY <1>0, <1>3 DEF WorkerTypes, JitDone
<1>4. CASE FexDone
    BY <1>0, <1>4 DEF WorkerTypes, FexDone
<1>5. CASE GuestAlloc \/ \E block \in live : GuestRelease(block)
    BY <1>0, <1>5 DEF WorkerTypes, GuestAlloc, Alloc, GuestRelease
<1>6. CASE UNCHANGED vars
    BY <1>0, <1>6 DEF WorkerTypes, vars
<1> QED BY <1>1, <1>2, <1>3, <1>4, <1>5, <1>6 DEF Next

\* The type invariant: all blocks and mapped pages are pages of the arena, and it
\* never has more segments than the code allows, settings page or not.
THEOREM TypeCorrect == Spec => []TypeOK
<1>1. Init => TypeOK
  <2> SUFFICES ASSUME Init PROVE TypeOK
      OBVIOUS
  <2> DEFINE e == << >>
  <2>1. gSegments = e /\ DOMAIN e = {} /\ Len(e) = 0
      BY DEF Init
  <2> HIDE DEF e
  <2>2. SegTypes
      BY <2>1, ArenaAssumption DEF SegTypes, Init
  <2>3. Flags \subseteq BOOLEAN /\ WorkerTypes
      BY DEF Flags, WorkerTypes, Init
  <2> QED BY <2>2, <2>3, TypeParts
<1>2. TypeOK /\ IInv /\ [Next]_vars => TypeOK'
  <2> SUFFICES ASSUME TypeOK, IInv, [Next]_vars PROVE TypeOK'
      OBVIOUS
  <2>1. Flags \subseteq BOOLEAN /\ WorkerTypes /\ SegInv
      BY TypeParts DEF IInv
  <2>2. Flags' \subseteq BOOLEAN /\ SegTypes' /\ WorkerTypes'
      BY <2>1, FlagStep, SegTypeStep, WorkerTypeStep
  <2> QED BY <2>2 DEF TypeOK, Flags, SegTypes, WorkerTypes, AnyPage
<1> QED BY <1>1, <1>2, ArenaInvariant, PTL DEF Spec
=============================================================================
