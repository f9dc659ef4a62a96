------------------------------ MODULE HeapProofs ------------------------------
(***************************************************************************)
(* Proofs, for every size of the heap, of the header and of the requests,  *)
(* of the properties of Heap.                                              *)
(***************************************************************************)
EXTENDS Heap, TLAPS

Headers == [size : 1..HEAP_SIZE, free : BOOLEAN, next : 0..(HEAP_SIZE - 1) \cup {NULL}]

\* l is a list that tiles the heap.
List(l) ==
    /\ DOMAIN l \in SUBSET (0..(HEAP_SIZE - 1))
    /\ l \in [DOMAIN l -> Headers]
    /\ 0 \in DOMAIN l
    /\ Tiled(l)

\* The free neighbours of l are among the pairs whose first or second block is
\* in the given sets.
FreePairs(l, first, second) ==
    \A b \in DOMAIN l : l[b].free /\ l[b].next # NULL /\ l[l[b].next].free
                           => b \in first \/ l[b].next \in second

\* m has the blocks in use of l.
SameInUse(l, m) ==
    \A a : /\ a \in DOMAIN m /\ ~m[a].free <=> a \in DOMAIN l /\ ~l[a].free
           /\ a \in DOMAIN m /\ ~m[a].free => m[a].size = l[a].size

IInv == TypeOK /\ HeapTiled /\ Coalesced /\ LiveBlocks
-----------------------------------------------------------------------------
\* mm_init makes a list of one free block.
LEMMA InitList == List(mm_init) /\ FreePairs(mm_init, {}, {})
BY HeapAssumption DEF List, FreePairs, mm_init, Header, Headers, Tiled, End

\* Two blocks of a list have different successors.
LEMMA NextInjective ==
    ASSUME NEW l, List(l), NEW b \in DOMAIN l, NEW c \in DOMAIN l,
           l[b].next = l[c].next, l[b].next # NULL
    PROVE  b = c
<1>1. /\ b \in Int /\ c \in Int /\ l[b].size \in Nat \ {0} /\ l[c].size \in Nat \ {0}
      /\ HEADER \in Nat
    BY HeapAssumption DEF List, Headers
<1>2. b + HEADER + l[b].size = c + HEADER + l[c].size
    BY DEF List, Tiled, End
<1>3. /\ b < c => b + HEADER + l[b].size <= c
      /\ c < b => c + HEADER + l[c].size <= b
    BY DEF List, Tiled, End
<1> QED BY <1>1, <1>2, <1>3

\* Splitting a block, or taking it whole, keeps the tiling.
LEMMA TakeList ==
    ASSUME NEW l, List(l), FreePairs(l, {}, {}), NEW size \in Sizes,
           NEW a \in DOMAIN l, Fits(l, a, size)
    PROVE  /\ List(Take(l, a, size)) /\ FreePairs(Take(l, a, size), {}, {})
           /\ a \in DOMAIN Take(l, a, size)
           /\ ~Take(l, a, size)[a].free
           /\ Take(l, a, size)[a].size >= size
           /\ Take(l, a, size)[a].size <= size + HEADER
           /\ \A b : b # a => (/\ b \in DOMAIN Take(l, a, size)
                               /\ ~Take(l, a, size)[b].free
                               <=> b \in DOMAIN l /\ ~l[b].free)
           /\ \A b \in DOMAIN l : b # a => Take(l, a, size)[b] = l[b]
<1> DEFINE m == Take(l, a, size)
           new == a + HEADER + size
<1>1. /\ size \in Nat \ {0} /\ HEADER \in Nat \ {0} /\ HEAP_SIZE \in Nat
      /\ NULL \notin Int
    BY HeapAssumption
<1>2. /\ DOMAIN l \in SUBSET (0..(HEAP_SIZE - 1)) /\ \A b \in DOMAIN l : l[b] \in Headers
      /\ 0 \in DOMAIN l
    BY DEF List
<1>3. /\ a \in Nat /\ l[a].size \in Nat /\ l[a].free /\ l[a].size >= size
      /\ l[a].next \in 0..(HEAP_SIZE - 1) \cup {NULL}
    BY <1>2 DEF Fits, Headers
<1>4. \A b \in DOMAIN l :
        /\ l[b].next = NULL => b + HEADER + l[b].size = HEAP_SIZE
        /\ l[b].next # NULL => l[b].next \in DOMAIN l /\ b + HEADER + l[b].size = l[b].next
        /\ \A c \in DOMAIN l : b < c => b + HEADER + l[b].size <= c
    BY DEF List, Tiled, End
<1>5. CASE l[a].size >= size + HEADER + 1
    <2>1. /\ DOMAIN m = DOMAIN l \cup {new}
          /\ \A b \in DOMAIN m : m[b] = IF b = a THEN Header(size, FALSE, new)
                ELSE IF b = new
                THEN Header(l[a].size - size - HEADER, TRUE, l[a].next)
                ELSE l[b]
        BY Zenon, <1>5 DEF Take
    <2>2. new \in 0..(HEAP_SIZE - 1) /\ new # a /\ new > a
        BY <1>1, <1>2, <1>3, <1>4, <1>5
    <2>3. \A c \in DOMAIN l : a < c => new < c
        BY <1>1, <1>2, <1>3, <1>4, <1>5
    <2>4. new \notin DOMAIN l
        BY <2>2, <2>3
    <2>5. /\ m[a] = Header(size, FALSE, new)
          /\ m[new] = Header(l[a].size - size - HEADER, TRUE, l[a].next)
          /\ \A b \in DOMAIN l : b # a => m[b] = l[b]
        BY Zenon, <2>1, <2>2, <2>4
    <2>6. /\ m[a].size = size /\ m[a].free = FALSE /\ m[a].next = new
          /\ m[new].size = l[a].size - size - HEADER /\ m[new].free = TRUE
          /\ m[new].next = l[a].next
        BY <2>5 DEF Header
    <2>7. m[a] \in Headers /\ m[new] \in Headers
        <3>1. size \in 1..HEAP_SIZE /\ l[a].size - size - HEADER \in 1..HEAP_SIZE
            BY <1>1, <1>2, <1>3, <1>5 DEF Headers
        <3> QED BY <1>3, <2>2, <2>5, <3>1 DEF Header, Headers
    <2>8. m \in [DOMAIN m -> Headers]
        <3>1. m = [b \in DOMAIN m |-> m[b]]
            BY Zenon, <1>5 DEF Take
        <3>2. \A b \in DOMAIN m : m[b] \in Headers
            BY Zenon, <1>2, <2>1, <2>5, <2>7
        <3> HIDE DEF m
        <3> QED BY <3>1, <3>2
    <2> HIDE DEF m, new
    <2>9. Tiled(m)
        <3> SUFFICES ASSUME NEW b \in DOMAIN m
                     PROVE  /\ m[b].next = NULL => b + HEADER + m[b].size = HEAP_SIZE
                            /\ m[b].next # NULL => /\ m[b].next \in DOMAIN m
                                                   /\ b + HEADER + m[b].size = m[b].next
                            /\ \A c \in DOMAIN m : b < c => b + HEADER + m[b].size <= c
            BY DEF Tiled, End
        <3>1. CASE b = a
            <4>1. b + HEADER + m[b].size = new /\ m[b].next = new /\ new # NULL
                BY <1>1, <2>2, <2>6, <3>1 DEF new
            <4>2. \A c \in DOMAIN m : b < c => new <= c
                BY <1>2, <2>1, <2>2, <2>3, <3>1
            <4> QED BY <2>1, <4>1, <4>2
        <3>2. CASE b = new
            <4>1. b + HEADER + m[b].size = a + HEADER + l[a].size
                BY <1>1, <1>3, <2>6, <3>2 DEF new
            <4>2. \A c \in DOMAIN l : b < c => a < c
                BY <1>2, <1>3, <2>2, <3>2
            <4> QED BY <1>4, <2>1, <2>2, <2>6, <3>2, <4>1, <4>2
        <3>3. CASE b \in DOMAIN l /\ b # a
            <4>1. m[b] = l[b]
                BY <2>5, <3>3
            <4>2. b < new => b + HEADER + l[b].size <= new
                <5>1. b < new => b < a
                    BY <1>2, <1>3, <2>2, <2>3, <3>3
                <5>2. b < a => b + HEADER + l[b].size <= a
                    BY <1>4, <3>3
                <5> QED BY <1>1, <1>2, <1>3, <2>2, <3>3, <5>1, <5>2 DEF Headers
            <4> QED BY <1>4, <2>1, <3>3, <4>1, <4>2
        <3> QED BY <2>1, <3>1, <3>2, <3>3
    <2>10. FreePairs(m, {}, {})
        <3> SUFFICES ASSUME NEW b \in DOMAIN m, m[b].free, m[b].next # NULL,
                            m[m[b].next].free
                     PROVE  FALSE
            BY DEF FreePairs
        <3>1. b # a
            BY <2>6
        <3>2. CASE b = new
            <4>1. l[a].next \in DOMAIN l /\ l[a].next # a
                BY <1>1, <1>3, <1>4, <2>6, <3>2
            <4>2. ~l[l[a].next].free
                BY <1>3, <2>6, <3>2 DEF FreePairs
            <4> QED BY Zenon, <2>5, <2>6, <3>2, <4>1, <4>2
        <3>3. CASE b \in DOMAIN l /\ b # new
            <4>1. m[b] = l[b] /\ l[b].next \in DOMAIN l
                BY <1>4, <2>5, <3>1, <3>3
            <4>2. l[b].next # a
                BY <2>6, <4>1
            <4> QED BY <2>5, <3>3, <4>1, <4>2 DEF FreePairs
        <3> QED BY <2>1, <3>2, <3>3
    <2>11. List(m)
        BY <1>2, <2>1, <2>2, <2>8, <2>9 DEF List
    <2>12. \A b : b # a => (b \in DOMAIN m /\ ~m[b].free <=> b \in DOMAIN l /\ ~l[b].free)
        BY Zenon, <2>1, <2>4, <2>5, <2>6
    <2>13. m[a].size >= size /\ m[a].size <= size + HEADER
        BY <1>1, <2>6
    <2> QED BY Zenon, <2>1, <2>5, <2>6, <2>10, <2>11, <2>12, <2>13 DEF m
<1>6. CASE ~(l[a].size >= size + HEADER + 1)
    <2>1. m = [l EXCEPT ![a].free = FALSE]
        BY <1>6 DEF Take
    <2>2. /\ DOMAIN m = DOMAIN l
          /\ \A b \in DOMAIN l : b # a => m[b] = l[b]
          /\ m[a].free = FALSE /\ m[a].size = l[a].size /\ m[a].next = l[a].next
          /\ m \in [DOMAIN m -> Headers]
        BY ZenonT(60), <2>1, <1>2 DEF List, Headers
    <2> HIDE DEF m
    <2>3. \A b \in DOMAIN l : m[b].size = l[b].size /\ m[b].next = l[b].next
        BY <2>2
    <2>4. Tiled(m)
        BY <1>4, <2>2, <2>3 DEF Tiled, End
    <2>5. FreePairs(m, {}, {})
        BY <1>4, <2>2, <2>3 DEF FreePairs
    <2>6. m[a].size >= size /\ m[a].size <= size + HEADER
        BY <1>1, <1>3, <1>6, <2>2
    <2> QED BY <1>2, <2>2, <2>4, <2>5, <2>6 DEF m, List
<1> QED BY <1>5, <1>6

\* A block that swallows its free successor leaves a tiling.
LEMMA MergeList ==
    ASSUME NEW l, List(l), NEW a \in DOMAIN l, l[a].next # NULL,
           l[a].free, l[l[a].next].free
    PROVE  /\ List(Merge(l, a)) /\ SameInUse(l, Merge(l, a))
           /\ DOMAIN Merge(l, a) = DOMAIN l \ {l[a].next}
           /\ a \in DOMAIN Merge(l, a)
           /\ Merge(l, a)[a].free /\ Merge(l, a)[a].next = l[l[a].next].next
           /\ \A b \in DOMAIN l \ {a, l[a].next} : Merge(l, a)[b] = l[b]
           /\ \A b \in DOMAIN l \ {a} : l[b].next # l[a].next
           /\ l[l[a].next].next # l[a].next
           /\ l[l[a].next].next # a
<1> DEFINE n == l[a].next
           m == Merge(l, a)
<1>1. /\ HEADER \in Nat \ {0} /\ HEAP_SIZE \in Nat /\ NULL \notin Int
    BY HeapAssumption
<1>2. /\ DOMAIN l \in SUBSET (0..(HEAP_SIZE - 1)) /\ \A b \in DOMAIN l : l[b] \in Headers
      /\ 0 \in DOMAIN l
      /\ \A b \in DOMAIN l : b \in Nat /\ l[b].size \in Nat \ {0}
    BY <1>1 DEF List, Headers
<1>3. \A b \in DOMAIN l :
        /\ l[b].next = NULL => b + HEADER + l[b].size = HEAP_SIZE
        /\ l[b].next # NULL => l[b].next \in DOMAIN l /\ b + HEADER + l[b].size = l[b].next
        /\ \A c \in DOMAIN l : b < c => b + HEADER + l[b].size <= c
    BY DEF List, Tiled, End
<1>4. n \in DOMAIN l /\ n = a + HEADER + l[a].size /\ n > a
    BY <1>1, <1>2, <1>3
<1>5. /\ DOMAIN m = DOMAIN l \ {n}
      /\ m[a] = Header(l[a].size + HEADER + l[n].size, l[a].free, l[n].next)
      /\ \A b \in DOMAIN l \ {a, n} : m[b] = l[b]
      /\ m = [b \in DOMAIN m |-> m[b]]
    <2>1. DOMAIN m = DOMAIN l \ {n} /\ a # n
        BY <1>2, <1>4 DEF Merge
    <2>2. m[a] = Header(l[a].size + HEADER + l[n].size, l[a].free, l[n].next)
        BY Zenon, <2>1 DEF Merge
    <2>3. \A b \in DOMAIN l \ {a, n} : m[b] = l[b]
        BY Zenon, <2>1 DEF Merge
    <2>4. m = [b \in DOMAIN m |-> m[b]]
        BY Zenon DEF Merge
    <2> QED BY <2>1, <2>2, <2>3, <2>4
<1>6. a \in DOMAIN l /\ a # n /\ l[a].free /\ l[n].free /\ n # NULL
    BY <1>1, <1>2, <1>4
<1>7. \A b \in DOMAIN l \ {a} : l[b].next # n
    BY <1>6, NextInjective
<1> HIDE DEF n, m
<1>8. /\ m[a].size = l[a].size + HEADER + l[n].size
      /\ m[a].free = l[a].free /\ m[a].next = l[n].next
    BY <1>5 DEF Header
<1>9. n + HEADER + l[n].size = a + HEADER + m[a].size
    BY <1>1, <1>2, <1>4, <1>8
<1>10. n + HEADER + l[n].size <= HEAP_SIZE
    BY <1>1, <1>2, <1>3, <1>4
<1>11. m[a] \in Headers
    <2>1. l[a].size + HEADER + l[n].size \in 1..HEAP_SIZE
        BY <1>1, <1>2, <1>4, <1>9, <1>10, <1>8
    <2> QED BY <1>2, <1>4, <1>5, <2>1 DEF Header, Headers
<1>12. m \in [DOMAIN m -> Headers]
    <2>1. \A b \in DOMAIN m : m[b] \in Headers
        BY Zenon, <1>2, <1>5, <1>11
    <2> QED BY <1>5, <2>1
<1>13. Tiled(m)
    <2> SUFFICES ASSUME NEW b \in DOMAIN m
                 PROVE  /\ m[b].next = NULL => b + HEADER + m[b].size = HEAP_SIZE
                        /\ m[b].next # NULL => /\ m[b].next \in DOMAIN m
                                               /\ b + HEADER + m[b].size = m[b].next
                        /\ \A c \in DOMAIN m : b < c => b + HEADER + m[b].size <= c
        BY DEF Tiled, End
    <2>1. CASE b = a
        <3>1. \A c \in DOMAIN m : a < c => n < c
            <4> SUFFICES ASSUME NEW c \in DOMAIN m, a < c PROVE n < c
                OBVIOUS
            <4>1. c \in DOMAIN l /\ c # n
                BY <1>5
            <4>2. n <= c
                BY <1>3, <1>4, <4>1
            <4> QED BY <1>2, <1>4, <4>1, <4>2
        <3>2. \A c \in DOMAIN m : a < c => n + HEADER + l[n].size <= c
            BY <1>3, <1>4, <1>5, <3>1
        <3>3. l[n].next # n
            BY <1>1, <1>2, <1>3, <1>4
        <3> QED BY ZenonT(60), <1>3, <1>4, <1>5, <1>8, <1>9, <2>1, <3>2, <3>3
    <2>2. CASE b # a
        BY <1>3, <1>5, <1>7, <2>2
    <2> QED BY <2>1, <2>2
<1>14. l[n].next # n /\ l[n].next # a
    BY <1>1, <1>2, <1>3, <1>4
<1>15. 0 \in DOMAIN m
    BY <1>2, <1>4, <1>5
<1>16. List(m)
    BY <1>2, <1>5, <1>12, <1>13, <1>15 DEF List
<1>17. SameInUse(l, m)
    BY Zenon, <1>5, <1>6, <1>8 DEF SameInUse
<1> QED BY Zenon, <1>5, <1>6, <1>7, <1>8, <1>14, <1>16, <1>17 DEF n, m

\* kfree's marking and two merges leave a list without free neighbours, in
\* which only the freed block is no longer in use.
LEMMA ReleaseList ==
    ASSUME NEW l, List(l), FreePairs(l, {}, {}), NEW a \in DOMAIN l, ~l[a].free
    PROVE  /\ List(Release(l, a)) /\ FreePairs(Release(l, a), {}, {})
           /\ SameInUse([l EXCEPT ![a].free = TRUE], Release(l, a))
<1> DEFINE l1 == [l EXCEPT ![a].free = TRUE]
           l2 == MergeNext(l1, a)
           l3 == MergePrevious(l2, a)
<1>1. /\ DOMAIN l \in SUBSET (0..(HEAP_SIZE - 1)) /\ \A b \in DOMAIN l : l[b] \in Headers
      /\ l \in [DOMAIN l -> Headers] /\ 0 \in DOMAIN l /\ Tiled(l)
    BY DEF List
<1>2. /\ DOMAIN l1 = DOMAIN l /\ \A b \in DOMAIN l : b # a => l1[b] = l[b]
      /\ l1[a].free = TRUE /\ l1[a].size = l[a].size /\ l1[a].next = l[a].next
      /\ l1 \in [DOMAIN l1 -> Headers]
    BY ZenonT(60), <1>1 DEF Headers
<1> HIDE DEF l1
<1>3. \A b \in DOMAIN l : l1[b].size = l[b].size /\ l1[b].next = l[b].next
    BY <1>2
<1>4. List(l1)
    BY <1>1, <1>2, <1>3 DEF List, Tiled, End
<1>5. FreePairs(l1, {a}, {a})
    BY <1>1, <1>2, <1>3 DEF FreePairs, Tiled
<1>6. /\ List(l2) /\ SameInUse(l1, l2) /\ FreePairs(l2, {}, {a})
      /\ a \in DOMAIN l2 /\ l2[a].free
    <2>1. CASE l1[a].next # NULL /\ l1[l1[a].next].free
        <3> DEFINE n == l1[a].next
        <3>1. l2 = Merge(l1, a)
            BY <2>1 DEF MergeNext
        <3>2. n \in DOMAIN l1 /\ (l1[n].next # NULL => l1[n].next \in DOMAIN l1)
            BY <1>2, <1>4, <2>1 DEF List, Tiled
        <3>3. /\ List(l2) /\ SameInUse(l1, l2) /\ DOMAIN l2 = DOMAIN l1 \ {n}
              /\ a \in DOMAIN l2 /\ l2[a].free /\ l2[a].next = l1[n].next
              /\ \A b \in DOMAIN l1 \ {a, n} : l2[b] = l1[b]
              /\ \A b \in DOMAIN l1 \ {a} : l1[b].next # n
              /\ l1[n].next # n /\ l1[n].next # a
            <4>1. a \in DOMAIN l1 /\ l1[a].free
                BY <1>2
            <4> QED BY <1>4, <2>1, <3>1, <4>1, MergeList
        <3> HIDE DEF l2, n
        <3>4. FreePairs(l2, {}, {a})
            <4> SUFFICES ASSUME NEW b \in DOMAIN l2, l2[b].free, l2[b].next # NULL,
                                l2[l2[b].next].free, l2[b].next # a
                         PROVE  FALSE
                BY DEF FreePairs
            <4>1. CASE b = a
                <5>1. n # a
                    BY <3>3
                <5>2. l1[n].next \in DOMAIN l1 \ {a, n} /\ l1[l1[n].next].free
                    BY <3>2, <3>3, <4>1
                <5>3. l1[n].free
                    BY <2>1 DEF n
                <5> QED BY <1>5, <3>2, <5>1, <5>2, <5>3, <3>3, <4>1 DEF FreePairs
            <4>2. CASE b # a
                <5>1. l2[b] = l1[b] /\ b \in DOMAIN l1
                    BY <3>3, <4>2
                <5>2. l1[b].next \in DOMAIN l1
                    BY <1>4, <5>1 DEF List, Tiled
                <5>3. l1[b].next \in DOMAIN l1 \ {a, n}
                    BY <3>3, <4>2, <5>1, <5>2
                <5> QED BY <1>5, <3>3, <4>2, <5>1, <5>3 DEF FreePairs
            <4> QED BY <4>1, <4>2
        <3> QED BY <3>3, <3>4
    <2>2. CASE ~(l1[a].next # NULL /\ l1[l1[a].next].free)
        <3>1. l2 = l1
            BY <2>2 DEF MergeNext
        <3> QED BY <1>2, <1>4, <1>5, <2>2, <3>1 DEF FreePairs, SameInUse
    <2> QED BY <2>1, <2>2
<1> HIDE DEF l2
<1>7. /\ List(l3) /\ SameInUse(l2, l3) /\ FreePairs(l3, {}, {})
    <2>1. CASE \E b \in DOMAIN l2 : l2[b].next = a /\ l2[b].free
        <3> DEFINE p == CHOOSE b \in DOMAIN l2 : l2[b].next = a
        <3>1. p \in DOMAIN l2 /\ l2[p].next = a
            BY <2>1
        <3>2. a # NULL
            BY HeapAssumption, <1>1
        <3>3. l2[p].free
            BY <1>6, <2>1, <3>1, <3>2, NextInjective
        <3>4. l3 = Merge(l2, p)
            BY <2>1 DEF MergePrevious
        <3> HIDE DEF l3, p
        <3>5. /\ List(l3) /\ SameInUse(l2, l3) /\ DOMAIN l3 = DOMAIN l2 \ {a}
              /\ p \in DOMAIN l3 /\ l3[p].free /\ l3[p].next = l2[a].next
              /\ \A b \in DOMAIN l2 \ {p, a} : l3[b] = l2[b]
              /\ \A b \in DOMAIN l2 \ {p} : l2[b].next # a
              /\ l2[a].next # a /\ l2[a].next # p
            BY <1>6, <3>1, <3>2, <3>3, <3>4, MergeList
        <3>6. FreePairs(l3, {}, {})
            <4> SUFFICES ASSUME NEW b \in DOMAIN l3, l3[b].free, l3[b].next # NULL,
                                l3[l3[b].next].free
                         PROVE  FALSE
                BY DEF FreePairs
            <4>1. CASE b = p
                <5>1. l2[a].next \in DOMAIN l2
                    BY <1>6, <3>5, <4>1 DEF List, Tiled
                <5> QED BY <1>6, <3>5, <4>1, <5>1 DEF FreePairs
            <4>2. CASE b # p
                <5>1. l3[b] = l2[b] /\ b \in DOMAIN l2
                    BY <3>5, <4>2
                <5>2. l2[b].next \in DOMAIN l2 /\ l2[b].next # a
                    BY <1>6, <3>5, <4>2, <5>1 DEF List, Tiled
                <5>3. l2[l2[b].next].free
                    BY <3>3, <3>5, <5>1, <5>2
                <5> QED BY <1>6, <5>1, <5>2, <5>3 DEF FreePairs
            <4> QED BY <4>1, <4>2
        <3> QED BY <3>5, <3>6
    <2>2. CASE ~\E b \in DOMAIN l2 : l2[b].next = a /\ l2[b].free
        <3>1. l3 = l2
            BY <2>2 DEF MergePrevious
        <3> QED BY <1>6, <2>2, <3>1 DEF FreePairs, SameInUse
    <2> QED BY <2>1, <2>2
<1>8. SameInUse(l1, l3)
    BY <1>6, <1>7 DEF SameInUse
<1> QED BY <1>7, <1>8 DEF Release, l1, l2
-----------------------------------------------------------------------------
\* What the invariant says of the list, once kmalloc has set it up.
LEMMA ListOfInv ==
    ASSUME IInv
    PROVE  /\ first_block # NULL => List(block) /\ FreePairs(block, {}, {})
           /\ first_block = NULL => DOMAIN block = {} /\ DOMAIN live = {}
<1>1. first_block # NULL => first_block = 0
    BY DEF IInv, TypeOK
<1>2. first_block # NULL => List(block)
    BY <1>1 DEF IInv, TypeOK, HeapTiled, List, Headers
<1>3. FreePairs(block, {}, {})
    BY DEF IInv, Coalesced, FreePairs
<1>4. first_block = NULL => DOMAIN block = {} /\ DOMAIN live = {}
    BY DEF IInv, HeapTiled, LiveBlocks
<1> QED BY <1>2, <1>3, <1>4

\* A list without free neighbours and agreeing pointers make the invariant.
LEMMA InvOfList ==
    ASSUME List(block'), FreePairs(block', {}, {}), first_block' = 0, LiveBlocks',
           DOMAIN live' \in SUBSET (0..(HEAP_SIZE - 1)), live' \in [DOMAIN live' -> Sizes],
           panicked' \in BOOLEAN
    PROVE  IInv'
<1>1. NULL # 0
    BY HeapAssumption
<1>2. TypeOK'
    BY DEF List, TypeOK, Headers
<1>3. HeapTiled'
    BY <1>1 DEF List, HeapTiled
<1>4. Coalesced'
    BY DEF FreePairs, Coalesced
<1> QED BY <1>2, <1>3, <1>4 DEF IInv

\* Every step of the allocator keeps the invariant.
LEMMA NextInv == IInv /\ [Next]_vars => IInv'
<1> SUFFICES ASSUME IInv, [Next]_vars PROVE IInv'
    OBVIOUS
<1>1. CASE UNCHANGED vars
    BY <1>1 DEF vars, IInv, TypeOK, HeapTiled, Tiled, End, Coalesced, LiveBlocks
<1>2. ASSUME NEW size \in Sizes, kmalloc(size)
      PROVE  IInv'
    <2> DEFINE l == IF first_block = NULL THEN mm_init ELSE block
    <2>1. List(l) /\ FreePairs(l, {}, {})
        BY InitList, ListOfInv
    <2>2. \A a : a \in DOMAIN l /\ ~l[a].free <=> a \in DOMAIN block /\ ~block[a].free
        BY ListOfInv DEF mm_init, Header
    <2>3. \A a : a \in DOMAIN l /\ ~l[a].free => l[a] = block[a]
        BY <2>2 DEF mm_init, Header
    <2>4. /\ \A p \in DOMAIN live : p \in Int /\ live[p] \in Sizes
          /\ live \in [DOMAIN live -> Sizes] /\ panicked \in BOOLEAN
          /\ DOMAIN live \in SUBSET (0..(HEAP_SIZE - 1))
        BY DEF IInv, TypeOK
    <2>5. /\ first_block' = 0
          /\ \/ \E a \in DOMAIN l :
                  /\ FirstFit(l, a, size)
                  /\ block' = Take(l, a, size)
                  /\ live' = [p \in DOMAIN live \cup {a + HEADER} |->
                                IF p = a + HEADER THEN size ELSE live[p]]
                  /\ UNCHANGED panicked
             \/ /\ block' = l
                /\ panicked' = TRUE
                /\ UNCHANGED live
        BY <1>2 DEF kmalloc
    <2> HIDE DEF l
    <2>6. \A p \in DOMAIN live : /\ p - HEADER \in DOMAIN l /\ ~l[p - HEADER].free
                                 /\ live[p] <= l[p - HEADER].size
                                 /\ l[p - HEADER].size <= live[p] + HEADER
        BY <2>2, <2>3 DEF IInv, LiveBlocks
    <2>7. \A a \in DOMAIN l : ~l[a].free => a + HEADER \in DOMAIN live
        BY <2>2 DEF IInv, LiveBlocks
    <2>8. CASE block' = l /\ panicked' = TRUE /\ UNCHANGED live
        <3>1. LiveBlocks'
            BY <2>6, <2>7, <2>8 DEF LiveBlocks
        <3> QED BY <2>1, <2>4, <2>5, <2>8, <3>1, InvOfList
    <2>9. ASSUME NEW a \in DOMAIN l, FirstFit(l, a, size), block' = Take(l, a, size),
                 live' = [p \in DOMAIN live \cup {a + HEADER} |->
                            IF p = a + HEADER THEN size ELSE live[p]],
                 UNCHANGED panicked
          PROVE  IInv'
        <3>1. /\ List(block') /\ FreePairs(block', {}, {})
              /\ a \in DOMAIN block' /\ ~block'[a].free
              /\ block'[a].size >= size /\ block'[a].size <= size + HEADER
              /\ \A b : b # a => (b \in DOMAIN block' /\ ~block'[b].free
                                    <=> b \in DOMAIN l /\ ~l[b].free)
              /\ \A b \in DOMAIN l : b # a => block'[b] = l[b]
            BY <2>1, <2>9, TakeList DEF FirstFit
        <3>2. a \in Int /\ HEADER \in Int /\ l[a].free
            BY <2>1, <2>9, HeapAssumption DEF List, FirstFit, Fits
        <3>3. /\ DOMAIN live' = DOMAIN live \cup {a + HEADER}
              /\ live'[a + HEADER] = size
              /\ \A p \in DOMAIN live : p # a + HEADER => live'[p] = live[p]
            BY <2>9
        <3>4. LiveBlocks'
            <4>1. ASSUME NEW p \in DOMAIN live'
                  PROVE  /\ p - HEADER \in DOMAIN block'
                         /\ ~block'[p - HEADER].free
                         /\ live'[p] <= block'[p - HEADER].size
                         /\ block'[p - HEADER].size <= live'[p] + HEADER
                <5>1. CASE p = a + HEADER
                    <6>1. p - HEADER = a
                        BY <3>2, <5>1
                    <6>2. /\ size \in Int /\ block'[a].size \in Int
                        BY <3>1, HeapAssumption DEF List, Headers
                    <6> QED BY <3>1, <3>3, <5>1, <6>1, <6>2
                <5>2. CASE p # a + HEADER
                    <6>1. p \in DOMAIN live /\ live'[p] = live[p]
                        BY <3>3, <5>2
                    <6>2. p - HEADER # a
                        BY <2>4, <3>2, <5>2, <6>1
                    <6> QED BY <2>6, <3>1, <6>1, <6>2
                <5> QED BY <5>1, <5>2
            <4>2. ASSUME NEW b \in DOMAIN block', ~block'[b].free
                  PROVE  b + HEADER \in DOMAIN live'
                BY <2>7, <3>1, <3>3, <4>2
            <4> QED BY <4>1, <4>2 DEF LiveBlocks
        <3>5. live' \in [DOMAIN live' -> Sizes]
            BY <2>4, <2>9
        <3>6. a + HEADER \in 0..(HEAP_SIZE - 1)
            <4>1. a + HEADER + block'[a].size <= HEAP_SIZE /\ block'[a].size \in Nat \ {0}
                  /\ a \in Nat
                <5>1. /\ block'[a].next = NULL => a + HEADER + block'[a].size = HEAP_SIZE
                      /\ block'[a].next # NULL => /\ block'[a].next \in DOMAIN block'
                                                  /\ a + HEADER + block'[a].size = block'[a].next
                    BY <3>1 DEF List, Tiled, End
                <5>2. /\ DOMAIN block' \in SUBSET (0..(HEAP_SIZE - 1))
                      /\ block'[a].size \in Nat \ {0} /\ a \in Nat
                    BY <3>1, HeapAssumption DEF List, Headers
                <5> QED BY <3>1, <5>1, <5>2, HeapAssumption
            <4> QED BY <4>1, HeapAssumption
        <3> QED BY <2>4, <2>5, <2>9, <3>1, <3>3, <3>4, <3>5, <3>6, InvOfList
    <2> QED BY Zenon, <2>5, <2>8, <2>9
<1>3. ASSUME NEW ptr \in DOMAIN live, kfree(ptr)
      PROVE  IInv'
    <2> DEFINE a == ptr - HEADER
               l1 == [block EXCEPT ![a].free = TRUE]
    <2>1. first_block # NULL /\ List(block) /\ FreePairs(block, {}, {})
        BY ListOfInv
    <2>2. a \in DOMAIN block /\ ~block[a].free
        BY DEF IInv, LiveBlocks
    <2>3. block' = Release(block, a) /\ live' = [p \in DOMAIN live \ {ptr} |-> live[p]]
        BY <1>3 DEF kfree
    <2>4. \A b \in DOMAIN block : /\ b # a => l1[b] = block[b]
                                  /\ b = a => l1[b].free
        BY <2>1, <2>2 DEF List, Headers
    <2>5. DOMAIN l1 = DOMAIN block
        OBVIOUS
    <2>6. /\ List(block') /\ FreePairs(block', {}, {}) /\ SameInUse(l1, block')
        BY <2>1, <2>2, <2>3, ReleaseList
    <2>7. /\ \A p \in DOMAIN live : p \in Int
          /\ live \in [DOMAIN live -> Sizes] /\ panicked \in BOOLEAN
          /\ DOMAIN live \in SUBSET (0..(HEAP_SIZE - 1)) /\ first_block \in {0, NULL}
          /\ DOMAIN block \in SUBSET (0..(HEAP_SIZE - 1)) /\ HEADER \in Int
        BY HeapAssumption DEF IInv, TypeOK
    <2> HIDE DEF l1
    <2>8. \A b : b \in DOMAIN block' /\ ~block'[b].free
                   <=> b \in DOMAIN block /\ ~block[b].free /\ b # a
        BY <2>4, <2>5, <2>6 DEF SameInUse
    <2>9. \A b \in DOMAIN block' : ~block'[b].free => block'[b].size = block[b].size
        BY <2>4, <2>5, <2>6, <2>8 DEF SameInUse
    <2>10. LiveBlocks'
        <3>1. ASSUME NEW p \in DOMAIN live'
              PROVE  /\ p - HEADER \in DOMAIN block'
                     /\ ~block'[p - HEADER].free
                     /\ live'[p] <= block'[p - HEADER].size
                     /\ block'[p - HEADER].size <= live'[p] + HEADER
            <4>1. p \in DOMAIN live /\ live'[p] = live[p] /\ p # ptr
                BY <2>3
            <4>2. p - HEADER # a
                BY <2>7, <4>1
            <4>3. /\ p - HEADER \in DOMAIN block /\ ~block[p - HEADER].free
                  /\ live[p] <= block[p - HEADER].size
                  /\ block[p - HEADER].size <= live[p] + HEADER
                BY <4>1 DEF IInv, LiveBlocks
            <4>4. p - HEADER \in DOMAIN block' /\ ~block'[p - HEADER].free
                BY <2>8, <4>2, <4>3
            <4> HIDE DEF a
            <4> QED BY <2>9, <4>1, <4>3, <4>4
        <3>2. ASSUME NEW b \in DOMAIN block', ~block'[b].free
              PROVE  b + HEADER \in DOMAIN live'
            <4>1. b \in DOMAIN block /\ ~block[b].free /\ b # a
                BY <2>8, <3>2
            <4>2. b + HEADER \in DOMAIN live
                BY <4>1 DEF IInv, LiveBlocks
            <4>3. b + HEADER # ptr
                BY <2>7, <4>1
            <4> QED BY <2>3, <4>2, <4>3
        <3> QED BY <3>1, <3>2 DEF LiveBlocks
    <2>11. first_block' = 0 /\ panicked' = panicked
        BY <1>3, <2>1, <2>7 DEF kfree
    <2> QED BY <2>3, <2>6, <2>7, <2>10, <2>11, InvOfList
<1>4. CASE halted
    BY <1>1, <1>4 DEF halted
<1> QED BY <1>1, <1>2, <1>3, <1>4 DEF Next

\* The invariant holds in every state of the heap.
THEOREM Invariant == Spec => []IInv
<1>1. Init => IInv
    BY Zenon, HeapAssumption DEF Init, IInv, TypeOK, HeapTiled, Tiled, Coalesced, LiveBlocks
<1> QED BY <1>1, NextInv, PTL DEF Spec

\* kmalloc's split and kfree's merges always leave a tiling of the heap.
THEOREM HeapStaysTiled == Spec => []HeapTiled
<1>1. IInv => HeapTiled
    BY DEF IInv
<1> QED BY <1>1, Invariant, PTL

\* kfree leaves no two free blocks next to each other.
THEOREM HeapStaysCoalesced == Spec => []Coalesced
<1>1. IInv => Coalesced
    BY DEF IInv
<1> QED BY <1>1, Invariant, PTL

\* The blocks in use are those the callers hold, each large enough.
THEOREM BlocksMatchCallers == Spec => []LiveBlocks
<1>1. IInv => LiveBlocks
    BY DEF IInv
<1> QED BY <1>1, Invariant, PTL

\* What kmalloc hands out overlaps nothing else.
THEOREM AllocationsDisjoint == Spec => []NoOverlap
<1>1. IInv => NoOverlap
    <2> SUFFICES ASSUME IInv PROVE NoOverlap
        OBVIOUS
    <2>1. /\ HEADER \in Nat /\ HEAP_SIZE \in Nat
          /\ \A p \in DOMAIN live : p \in Int /\ live[p] \in Nat
          /\ \A a \in DOMAIN block : a \in Nat /\ block[a].size \in Nat
                                     /\ a < HEAP_SIZE
        BY HeapAssumption DEF IInv, TypeOK
    <2>2. \A p \in DOMAIN live :
             p - HEADER \in DOMAIN block /\ live[p] <= block[p - HEADER].size
        BY DEF IInv, LiveBlocks
    <2>3. \A a, b \in DOMAIN block : a < b => a + HEADER + block[a].size <= b
        BY DEF IInv, HeapTiled, Tiled, End
    <2>4. \A a \in DOMAIN block : a + HEADER + block[a].size <= HEAP_SIZE
        <3> SUFFICES ASSUME NEW a \in DOMAIN block
                     PROVE  a + HEADER + block[a].size <= HEAP_SIZE
            OBVIOUS
        <3>1. \/ a + HEADER + block[a].size = HEAP_SIZE
              \/ \E n \in DOMAIN block : a + HEADER + block[a].size = n
            BY DEF IInv, HeapTiled, Tiled, End
        <3> QED BY <2>1, <3>1
    <2>5. ASSUME NEW p \in DOMAIN live, NEW q \in DOMAIN live, p < q
          PROVE  p + live[p] <= q
        <3>1. p - HEADER < q - HEADER
            BY <2>1, <2>5
        <3>2. p - HEADER + HEADER + block[p - HEADER].size <= q - HEADER
            BY <2>2, <2>3, <3>1
        <3> QED BY <2>1, <2>2, <3>2
    <2>6. ASSUME NEW p \in DOMAIN live, NEW a \in DOMAIN block
          PROVE  a + HEADER <= p \/ p + live[p] <= a
        <3>1. p - HEADER < a => p - HEADER + HEADER + block[p - HEADER].size <= a
            BY <2>2, <2>3
        <3>2. p - HEADER \in Int /\ block[p - HEADER].size \in Nat
            BY <2>1, <2>2
        <3> QED BY <2>1, <2>2, <3>1, <3>2
    <2>7. ASSUME NEW p \in DOMAIN live
          PROVE  p + live[p] <= HEAP_SIZE
        <3>1. p - HEADER + HEADER + block[p - HEADER].size <= HEAP_SIZE
            BY <2>2, <2>4
        <3> QED BY <2>1, <2>2, <3>1
    <2> QED BY <2>5, <2>6, <2>7 DEF NoOverlap
<1> QED BY <1>1, Invariant, PTL

\* A heap from which everything was freed is the one mm_init made.
THEOREM HeapRestored == Spec => []FreeRestores
<1>1. IInv => FreeRestores
    <2> SUFFICES ASSUME IInv, first_block # NULL, DOMAIN live = {}
                 PROVE  block = mm_init
        BY DEF FreeRestores
    <2>1. List(block) /\ FreePairs(block, {}, {})
        BY ListOfInv
    <2>2. \A a \in DOMAIN block : block[a].free
        BY DEF IInv, LiveBlocks
    <2>3. 0 \in DOMAIN block /\ block[0].free
        BY <2>1, <2>2 DEF List
    <2>4. block[0].next = NULL
        BY <2>1, <2>2, <2>3 DEF List, Tiled, FreePairs
    <2>5. /\ block[0].size = HEAP_SIZE - HEADER
          /\ \A b \in DOMAIN block : 0 < b => HEAP_SIZE <= b
        <3>1. /\ 0 + HEADER + block[0].size = HEAP_SIZE
              /\ \A b \in DOMAIN block : 0 < b => 0 + HEADER + block[0].size <= b
            BY <2>1, <2>3, <2>4 DEF List, Tiled, End
        <3>2. block[0].size \in Int /\ HEADER \in Int /\ HEAP_SIZE \in Int
            BY <2>1, <2>3, HeapAssumption DEF List, Headers
        <3> QED BY <3>1, <3>2
    <2>6. DOMAIN block = {0}
        BY <2>1, <2>3, <2>5, HeapAssumption DEF List
    <2>7. block[0] = Header(HEAP_SIZE - HEADER, TRUE, NULL)
        BY <2>1, <2>3, <2>4, <2>5 DEF List, Headers, Header
    <2>8. block = [b \in DOMAIN block |-> block[b]]
        BY <2>1 DEF List
    <2> QED BY Zenon, <2>6, <2>7, <2>8 DEF mm_init
<1> QED BY <1>1, Invariant, PTL
=============================================================================
