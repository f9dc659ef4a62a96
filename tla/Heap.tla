-------------------------------- MODULE Heap --------------------------------
(***************************************************************************)
(* The kernel heap of src/kernel/mm.c: a first-fit allocator over one      *)
(* array, its list of block headers kept inside the array itself.          *)
(*                                                                         *)
(* block maps the address of every header on the list to that header.      *)
(* kmalloc and kfree walk the list from first_block; the list runs in      *)
(* address order (HeapTiled), so the first block of a walk with some       *)
(* property is the one with the lowest address.  kmalloc and kfree are     *)
(* called by the main task only and are single steps.                      *)
(***************************************************************************)
EXTENDS Integers

CONSTANTS
    HEAP_SIZE,   \* bytes in heap[]
    HEADER,      \* sizeof(struct block)
    Sizes,       \* the sizes callers ask for
    NULL

ASSUME HeapAssumption ==
    /\ HEADER \in Nat \ {0}
    /\ HEAP_SIZE \in Nat
    /\ HEAP_SIZE > HEADER
    /\ Sizes \subseteq Nat \ {0}
    /\ NULL \notin Int

VARIABLES
    first_block,   \* NULL until the first kmalloc, then heap
    block,         \* the headers on the list, by address
    live,          \* history: the pointers handed out, with the size asked for
    panicked       \* panic("out of memory") was reached

vars == <<first_block, block, live, panicked>>

Header(s, f, n) == [size |-> s, free |-> f, next |-> n]

\* What mm_init stores.
mm_init == [a \in {0} |-> Header(HEAP_SIZE - HEADER, TRUE, NULL)]

\* Where the memory of block a of list l ends.
End(l, a) == a + HEADER + l[a].size

Fits(l, a, size) == l[a].free /\ l[a].size >= size

FirstFit(l, a, size) ==
    /\ a \in DOMAIN l
    /\ Fits(l, a, size)
    /\ \A b \in DOMAIN l : Fits(l, b, size) => a <= b

\* Mutant: the new header is put into the caller's memory.
Take_header_short(l, a, size) ==
    LET new == a + 1 + size
    IN  IF l[a].size >= size + HEADER + 1
        THEN [b \in DOMAIN l \cup {new} |->
                IF b = a THEN Header(size, FALSE, new)
                ELSE IF b = new
                THEN Header(l[a].size - size - HEADER, TRUE, l[a].next)
                ELSE l[b]]
        ELSE [l EXCEPT ![a].free = FALSE]

\* kmalloc takes block a, and splits it when what is left holds a header and a
\* byte.
Take(l, a, size) ==
    LET new == a + HEADER + size
    IN  IF l[a].size >= size + HEADER + 1
        THEN [b \in DOMAIN l \cup {new} |->
                IF b = a THEN Header(size, FALSE, new)
                ELSE IF b = new
                THEN Header(l[a].size - size - HEADER, TRUE, l[a].next)
                ELSE l[b]]
        ELSE [l EXCEPT ![a].free = FALSE]

\* size = 0 returns NULL and changes nothing.
kmalloc(size) ==
    /\ ~panicked
    /\ first_block' = 0
    /\ LET l == IF first_block = NULL THEN mm_init ELSE block
       IN  \/ \E a \in DOMAIN l :
                /\ FirstFit(l, a, size)
                /\ block' = Take(l, a, size)
                /\ live' = [p \in DOMAIN live \cup {a + HEADER} |->
                              IF p = a + HEADER THEN size ELSE live[p]]
                /\ UNCHANGED panicked
           \/ /\ \A a \in DOMAIN l : ~Fits(l, a, size)
              /\ block' = l
              /\ panicked' = TRUE
              /\ UNCHANGED live

\* Mutant: the header of the swallowed block is lost.
Merge_without_header(l, a) ==
    LET n == l[a].next
    IN  [b \in DOMAIN l \ {n} |->
           IF b = a THEN Header(l[a].size + l[n].size, l[a].free, l[n].next)
           ELSE l[b]]

\* Block a swallows the block after it.
Merge(l, a) ==
    LET n == l[a].next
    IN  [b \in DOMAIN l \ {n} |->
           IF b = a THEN Header(l[a].size + HEADER + l[n].size, l[a].free, l[n].next)
           ELSE l[b]]

\* The block of a freed pointer is marked free, then merged with the block
\* after it and with the block before it if they are free.
MergeNext(l, a) ==
    IF l[a].next # NULL /\ l[l[a].next].free THEN Merge(l, a) ELSE l

\* Mutant: the block before is not looked for.
MergePrevious_none(l, a) == l

MergePrevious(l, a) ==
    IF \E b \in DOMAIN l : l[b].next = a /\ l[b].free
    THEN Merge(l, CHOOSE b \in DOMAIN l : l[b].next = a)
    ELSE l

Release(l, a) == MergePrevious(MergeNext([l EXCEPT ![a].free = TRUE], a), a)

\* A caller frees a pointer it got from kmalloc; NULL changes nothing.
kfree(ptr) ==
    /\ ~panicked
    /\ block' = Release(block, ptr - HEADER)
    /\ live' = [p \in DOMAIN live \ {ptr} |-> live[p]]
    /\ UNCHANGED <<first_block, panicked>>

\* panic() never returns.
halted == panicked /\ UNCHANGED vars

\* Before mm_init block is the empty list.
Init ==
    /\ first_block = NULL
    /\ block = [a \in {} |-> Header(0, FALSE, NULL)]
    /\ live = [p \in {} |-> 0]
    /\ panicked = FALSE

Next ==
    \/ \E size \in Sizes : kmalloc(size)
    \/ \E ptr \in DOMAIN live : kfree(ptr)
    \/ halted

Spec == Init /\ [][Next]_vars
-----------------------------------------------------------------------------
(* Properties.                                                             *)

\* Every variable of the allocator keeps its type.
TypeOK ==
    /\ first_block \in {0, NULL}
    /\ DOMAIN block \in SUBSET (0..(HEAP_SIZE - 1))
    /\ block \in [DOMAIN block -> [size : 1..HEAP_SIZE, free : BOOLEAN,
                                   next : 0..(HEAP_SIZE - 1) \cup {NULL}]]
    /\ DOMAIN live \in SUBSET (0..(HEAP_SIZE - 1))
    /\ live \in [DOMAIN live -> Sizes]
    /\ panicked \in BOOLEAN

Tiled(l) ==
    \A a \in DOMAIN l :
        /\ l[a].next = NULL => End(l, a) = HEAP_SIZE
        /\ l[a].next # NULL => l[a].next \in DOMAIN l /\ End(l, a) = l[a].next
        /\ \A b \in DOMAIN l : a < b => End(l, a) <= b

\* Splitting and merging keep the list a tiling of the heap: every block ends
\* where the next one starts, the last one ends with the heap, nothing lies
\* between, and the list starts at first_block.
HeapTiled ==
    /\ first_block = NULL <=> DOMAIN block = {}
    /\ first_block # NULL => first_block \in DOMAIN block
    /\ Tiled(block)

\* kfree leaves no two free neighbours, so free memory is as little
\* fragmented as the blocks in use allow.
Coalesced ==
    \A a \in DOMAIN block : block[a].free /\ block[a].next # NULL
                               => ~block[block[a].next].free

\* The blocks in use are exactly the pointers handed out and not yet freed, and
\* each has the memory its caller asked for and less than a header and a byte
\* more.
LiveBlocks ==
    /\ \A p \in DOMAIN live :
          /\ p - HEADER \in DOMAIN block
          /\ ~block[p - HEADER].free
          /\ live[p] <= block[p - HEADER].size
          /\ block[p - HEADER].size <= live[p] + HEADER
    /\ \A a \in DOMAIN block : ~block[a].free => a + HEADER \in DOMAIN live

\* No caller's memory overlaps another caller's or a header of the list, so
\* writing it corrupts neither.
NoOverlap ==
    /\ \A p, q \in DOMAIN live : p < q => p + live[p] <= q
    /\ \A p \in DOMAIN live, a \in DOMAIN block :
          a + HEADER <= p \/ p + live[p] <= a
    /\ \A p \in DOMAIN live : p + live[p] <= HEAP_SIZE

\* Once everything is freed, in whatever order, the heap is one block again.
FreeRestores ==
    first_block # NULL /\ DOMAIN live = {} => block = mm_init
=============================================================================
