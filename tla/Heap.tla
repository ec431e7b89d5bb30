-------------------------------- MODULE Heap --------------------------------
(***************************************************************************)
(* The kernel heap, src/28_posix/heap.c.  The pool is a row of blocks,     *)
(* each a header and its data; there is no list: the next block is found   *)
(* by adding the size, and a sentinel ends the row.  blocks maps the       *)
(* address of a header (an offset in the pool) to what the header says.    *)
(***************************************************************************)
EXTENDS Integers, FiniteSets

CONSTANTS
    PoolBytes,  \* num_pages * PMM_PAGE_SIZE (64 pages in kernel.c)
    Sizes       \* the sizes that callers ask for

HdrSize == 8
MinSplit == 16
Sentinel == PoolBytes - HdrSize    \* its address

ASSUME PoolAssumption ==
    PoolBytes \in Nat /\ PoolBytes % 4 = 0 /\ PoolBytes > 2 * HdrSize
ASSUME HeapSizesAssumption == Sizes \subseteq Nat \ {0}

VARIABLE blocks

Starts == DOMAIN blocks
EndOf(a) == a + HdrSize + blocks[a].size   \* where the next header is

\* heap_init: one free block.
HeapInit == blocks = [a \in {0} |-> [size |-> PoolBytes - 2 * HdrSize, used |-> FALSE]]

\* (size + 3) & ~3
AlignedDown(n) == 4 * (n \div 4)   \* mutant: size & ~3
Aligned(n) == 4 * ((n + 3) \div 4)

Fits(a, n) == ~blocks[a].used /\ blocks[a].size >= n
SplitsTight(a, n) == blocks[a].size >= n + HdrSize   \* mutant: no MIN_SPLIT
Splits(a, n) == blocks[a].size >= n + HdrSize + MinSplit

\* The block a is used for n bytes; what is left becomes a free block.
Split(a, n) ==
    LET rest == a + HdrSize + n
    IN [b \in Starts \cup {rest} |->
          CASE b = a -> [size |-> n, used |-> TRUE]
            [] b = rest -> [size |-> blocks[a].size - n - HdrSize, used |-> FALSE]
            [] OTHER -> blocks[b]]

\* kmalloc: the first block that fits.  If there is none it returns NULL,
\* which is no action.
Kmalloc(size) ==
    LET n == Aligned(size)
    IN \E a \in Starts :
        /\ Fits(a, n)
        /\ \A b \in Starts : Fits(b, n) => a <= b
        /\ blocks' = IF Splits(a, n) THEN Split(a, n)
                     ELSE [blocks EXCEPT ![a].used = TRUE]

\* The free blocks that follow block a without a gap, up to the first used
\* one or the sentinel: what the loop of kfree merges.
Follows(a, b) == /\ a < b /\ ~blocks[b].used
                 /\ \A c \in Starts : a < c /\ c < b => ~blocks[c].used
Merged(a) ==
    LET gone == {b \in Starts : Follows(a, b)}
        stop == IF gone = {} THEN EndOf(a)
                ELSE CHOOSE e \in {EndOf(b) : b \in gone} :
                        \A b \in gone : EndOf(b) <= e
    IN [b \in Starts \ gone |->
          IF b = a THEN [size |-> stop - a - HdrSize, used |-> FALSE]
          ELSE blocks[b]]

\* kfree, with a pointer that kmalloc returned and that is in use.
Kfree(a) == blocks[a].used /\ blocks' = Merged(a)

HeapNext == \/ \E size \in Sizes : Kmalloc(size)
        \/ \E a \in Starts : Kfree(a)

HeapSpec == HeapInit /\ [][HeapNext]_blocks

-----------------------------------------------------------------------------
\* Walking from the start of the pool by sizes meets every header and ends
\* at the sentinel: each block ends where another begins, no header lies in
\* the data of another block, and no byte is lost.
Tiled ==
    /\ 0 \in Starts
    /\ blocks \in [Starts -> [size : Nat \ {0}, used : BOOLEAN]]
    /\ \A a \in Starts :
        /\ a \in 0 .. Sentinel - 1 /\ a % 4 = 0
        /\ EndOf(a) \in Starts \cup {Sentinel}
        /\ \A b \in Starts : a < b => EndOf(a) <= b

\* What callers hold never overlaps: see Allocator.
Area(a) == <<a + HdrSize, blocks[a].size>>
Areas == INSTANCE Allocator WITH
    First <- HdrSize, Last <- Sentinel,
    areas <- {Area(a) : a \in {b \in Starts : blocks[b].used}}
IsAllocator == Areas!Spec
=============================================================================
