--------------------------- MODULE SegregatedHeap ---------------------------
(***************************************************************************)
(* The heap simulated by main.c.  Free memory is an array of lists, one    *)
(* for each size of block, sorted by size; allocated memory is one list.   *)
(* Each command of the input is one step: the program has one thread.      *)
(*                                                                         *)
(* The input is that of a client: INIT_HEAP comes first, and no command    *)
(* but INIT_HEAP follows DESTROY_HEAP.                                     *)
(***************************************************************************)
EXTENDS Integers, FiniteSets, SequencesExt

CONSTANTS StartAddress, NumberOfLists, MaximumSize,  \* parameters of INIT_HEAP; the
                          \* fourth, tip_reconstituire, is stored and never read
          FirstSize,      \* size of the blocks of the first list, 8 in create_heap
          MallocSizes,    \* sizes the input asks for
          Characters,     \* of the strings the input writes
          Messages,       \* strings the input writes
          ReadSizes,      \* numbers of bytes the input reads
          MaxMallocs,     \* bound of the model on the MALLOCs of one heap
          Garbage,        \* what a byte holds that was never written
          NoHeap          \* NULL for main_heap and heap_arena

ASSUME HeapAssumption ==
  /\ {StartAddress, NumberOfLists, MaximumSize, MaxMallocs} \subseteq Nat
  /\ FirstSize \in Nat \ {0}
  /\ MallocSizes \subseteq Nat /\ ReadSizes \subseteq Nat
  /\ Messages \subseteq Seq(Characters) /\ Garbage \notin Characters

VARIABLES heap,      \* HeapStructure *main_heap
          arena,     \* HeapArena *heap_arena
          output,    \* what the last command printed, DUMP_MEMORY aside
          process    \* "running", "ended" by a fault it reports, or "crashed"

vars == <<heap, arena, output, process>>

Block(a, n) == [address |-> a, size |-> n]

Covers(b) == b.address .. b.address + b.size - 1

\* Faulty variant: the block becomes the head of the list.
InsertAtHead(blocks, b) == <<b>> \o blocks

\* add_info_block_to_segregated_list and add_info_block_to_arena
InsertByAddress(blocks, b) ==
  LET i == SelectInSeq(blocks, LAMBDA c : c.address >= b.address)
  IN  InsertAt(blocks, IF i = 0 THEN Len(blocks) + 1 ELSE i, b)

\* Faulty variant: the lists stay as they are.
NotSorted(lists) == lists

Smaller(lists, i) == {j \in DOMAIN lists : lists[j].size < lists[i].size}

\* sort_the_segregated_free_lists: a list goes behind all those of smaller size.
Sorted(lists) ==
  [k \in DOMAIN lists |->
     lists[CHOOSE i \in DOMAIN lists : Cardinality(Smaller(lists, i)) = k - 1]]
-----------------------------------------------------------------------------
\* The heap INIT_HEAP creates: list i has the blocks of its size that fit in
\* MaximumSize bytes; the remainder of a list belongs to no block.

\* first_size, which doubles from list to list.
BlockSize[i \in 1 .. NumberOfLists] == IF i = 1 THEN FirstSize ELSE 2 * BlockSize[i - 1]

InitialList(i) ==
  LET n == BlockSize[i]
      count == MaximumSize \div n
  IN  [size |-> n, numberOfBlocks |-> count,
       blocks |-> [k \in 1 .. count |->
                     Block(StartAddress + (i - 1) * MaximumSize + (k - 1) * n, n)]]

InitialLists == [i \in 1 .. NumberOfLists |-> InitialList(i)]

InitialHeap ==
  [lists           |-> InitialLists,
   totalMemory     |-> NumberOfLists * MaximumSize,
   totalFreeMemory |-> NumberOfLists * MaximumSize,
   totalBlocks     |-> SumFunction([i \in 1 .. NumberOfLists |-> InitialLists[i].numberOfBlocks]),
   capacity        |-> NumberOfLists,
   freeCalls       |-> 0]

InitialArena == [blocks |-> <<>>, totalAllocatedMemory |-> 0, totalMallocs |-> 0,
                 mallocCalls |-> 0, totalFragmentations |-> 0]

NoOutput == [kind |-> "none", bytes |-> <<>>]
Says(k)  == [NoOutput EXCEPT !.kind = k]

Init == /\ heap = NoHeap /\ arena = NoHeap
        /\ output = NoOutput
        /\ process = "running"

Ready == process = "running" /\ heap # NoHeap

CreateHeap == /\ process = "running" /\ heap = NoHeap
              /\ heap' = InitialHeap
              /\ arena' = InitialArena
              /\ output' = NoOutput
              /\ UNCHANGED process

DestroyHeap == /\ Ready
               /\ heap' = NoHeap /\ arena' = NoHeap
               /\ output' = NoOutput
               /\ UNCHANGED process
-----------------------------------------------------------------------------
\* MALLOC and FREE.

\* Faulty variant: a block that needs a new list is not counted in it.
AddFreeBlockUncounted(h, b) ==
  IF \E i \in DOMAIN h.lists : h.lists[i].size = b.size
  THEN [h EXCEPT !.lists = [i \in DOMAIN h.lists |->
          IF h.lists[i].size # b.size THEN h.lists[i]
          ELSE [h.lists[i] EXCEPT !.blocks = InsertByAddress(@, b)]]]
  ELSE [h EXCEPT !.capacity = IF @ = Len(h.lists) THEN 2 * @ ELSE @,
                 !.lists = Sorted(Append(@,
                   [size |-> b.size, numberOfBlocks |-> 1, blocks |-> <<b>>]))]

\* A free block goes to the list of its size.  A new list may double the array,
\* goes to its end and is then sorted in.  Sizes being distinct (ListsInOrder),
\* the first list of the size, which MALLOC takes, is every list of the size,
\* which FREE takes, and sorting without a new list changes nothing.
AddFreeBlock(h, b) ==
  IF \E i \in DOMAIN h.lists : h.lists[i].size = b.size
  THEN [h EXCEPT !.lists = [i \in DOMAIN h.lists |->
          IF h.lists[i].size # b.size THEN h.lists[i]
          ELSE [h.lists[i] EXCEPT !.numberOfBlocks = @ + 1,
                                  !.blocks = InsertByAddress(@, b)]]]
  ELSE [h EXCEPT !.capacity = IF @ = Len(h.lists) THEN 2 * @ ELSE @,
                 !.lists = Sorted(Append(@,
                   [size |-> b.size, numberOfBlocks |-> 1, blocks |-> <<b>>]))]

\* Faulty variant: the head is unlinked, whichever block was meant.
UnlinkHead(blocks, counter, j) == Tail(blocks)

\* Unlinking block j: a list whose counter is 1 is emptied, any other loses j.
Unlink(blocks, counter, j) == IF counter = 1 THEN <<>> ELSE RemoveAt(blocks, j)

Fits(n, b) == b.size >= n

\* The list and the block MALLOC takes: the first large enough; list 0 is none.
FirstFit(h, n) ==
  LET i == SelectInSeq(h.lists, LAMBDA l : \E b \in ToSet(l.blocks) : Fits(n, b))
  IN  [list  |-> i,
       block |-> IF i = 0 THEN 0
                 ELSE SelectInSeq(h.lists[i].blocks, LAMBDA b : Fits(n, b))]

\* Faulty variant: what is left begins where the block began.
RestAtStart(b, n) == Block(b.address, b.size - n)

\* What a block leaves free when its first n bytes are cut off.
Rest(b, n) == Block(b.address + n, b.size - n)

\* The lists once block j of list i is unlinked and no longer counted.
Without(lists, i, j) ==
  LET l == lists[i]
  IN  [lists EXCEPT ![i] = [l EXCEPT !.blocks = Unlink(l.blocks, l.numberOfBlocks, j),
                                     !.numberOfBlocks = l.numberOfBlocks - 1]]

\* The free lists once n bytes have been cut from block f.
Cut(h, f, n) ==
  LET rest == Rest(h.lists[f.list].blocks[f.block], n)
      without == [h EXCEPT !.lists = Without(@, f.list, f.block),
                           !.totalFreeMemory = @ - n,
                           !.totalBlocks = IF rest.size > 0 THEN @ ELSE @ - 1]
  IN  IF rest.size > 0 THEN AddFreeBlock(without, rest) ELSE without

Malloc(n) ==
  /\ Ready /\ arena.mallocCalls < MaxMallocs
  /\ LET f == FirstFit(heap, n)
         b == heap.lists[f.list].blocks[f.block]
         new == [address |-> b.address, size |-> n,
                 payload |-> [i \in 0 .. n - 1 |-> Garbage]]
     IN  IF f.list = 0
         THEN /\ output' = Says("out of memory")
              /\ UNCHANGED <<heap, arena>>
         ELSE /\ heap' = Cut(heap, f, n)
              /\ arena' = [arena EXCEPT
                   !.blocks = InsertByAddress(@, new),
                   !.totalAllocatedMemory = @ + n,
                   !.totalMallocs = @ + 1,
                   !.mallocCalls = @ + 1,
                   !.totalFragmentations = IF b.size > n THEN @ + 1 ELSE @]
              /\ output' = NoOutput
  /\ UNCHANGED process

Free(a) ==
  /\ Ready
  /\ LET j == SelectInSeq(arena.blocks, LAMBDA t : t.address = a)
         t == arena.blocks[j]
     IN  IF j = 0
         THEN /\ output' = Says("invalid free")
              /\ UNCHANGED <<heap, arena>>
         ELSE /\ heap' = AddFreeBlock([heap EXCEPT !.freeCalls = @ + 1,
                                                   !.totalFreeMemory = @ + t.size,
                                                   !.totalBlocks = @ + 1],
                                      Block(t.address, t.size))
              /\ arena' = [arena EXCEPT
                   !.blocks = Unlink(@, arena.totalMallocs, j),
                   !.totalAllocatedMemory = @ - t.size,
                   !.totalMallocs = @ - 1]
              /\ output' = NoOutput
  /\ UNCHANGED process
-----------------------------------------------------------------------------
\* READ and WRITE of len bytes at address a, over allocated blocks A.

Holds(b, a) == b.address <= a /\ a < b.address + b.size

Adjacent(A, k) == A[k + 1].address = A[k].address + A[k].size

\* The block the walk starts in; it never looks into the last of several.
LeftBound(A, a) ==
  IF Len(A) = 1 THEN 1 ELSE SelectInSeq(Front(A), LAMBDA b : Holds(b, a))

\* Pairs of adjacent blocks from block l on, up to block k.
AdjacentPairs(A, l, k) == {j \in l .. k : Adjacent(A, j)}

\* The block after the last such pair, or else the head of the list.
RightBound(A, l) == Max({1} \cup {k + 1 : k \in AdjacentPairs(A, l, Len(A) - 1)})

\* The walk gives up at a gap before which the blocks are too small together.
TooShort(A, l, len) ==
  \E k \in l .. Len(A) - 1 :
    /\ ~Adjacent(A, k)
    /\ A[l].size + SumFunction([j \in AdjacentPairs(A, l, k) |-> A[j + 1].size]) < len

\* Address 0 is also the code's mark for an address that was not found.
Faults(A, a, len) ==
  LET l == LeftBound(A, a)
  IN  IF l = 0 THEN TRUE
      ELSE \/ A[l].address = 0
           \/ IF Len(A) = 1
              THEN ~(A[1].address <= a /\ a + len < A[1].address + A[1].size)
              ELSE TooShort(A, l, len)

\* The walk from left to right bound misses the right one and leaves the list.
RunsOff(A, a) == LeftBound(A, a) > RightBound(A, LeftBound(A, a)) + 1

\* Faulty variant: the walk starts at the first byte of its first block.
PlaceFromStart(A, a, k, i) ==
  SumFunction([j \in LeftBound(A, a) .. k - 1 |-> A[j].size]) + i

\* The place in the message of byte i of block k, counted from 0.
Place(A, a, k, i) ==
  SumFunction([j \in LeftBound(A, a) .. k - 1 |-> A[j].size]) + i
    - (a - A[LeftBound(A, a)].address)

Walked(A, a) == LeftBound(A, a) .. RightBound(A, LeftBound(A, a))

Written(A, a, m) ==
  [k \in DOMAIN A |->
     IF k \notin Walked(A, a) THEN A[k]
     ELSE [A[k] EXCEPT !.payload = [i \in DOMAIN A[k].payload |->
             IF Place(A, a, k, i) \in 0 .. Len(m) - 1
             THEN m[Place(A, a, k, i) + 1] ELSE A[k].payload[i]]]]

\* The bytes READ finds, in the order of its walk.
BytesRead(A, a, len) ==
  LET bytes == UNION {{k} \X (DOMAIN A[k].payload) : k \in Walked(A, a)}
      end   == Place(A, a, RightBound(A, LeftBound(A, a)) + 1, 0)
  IN  [p \in 1 .. Min({len, end}) |->
         LET x == CHOOSE y \in bytes : Place(A, a, y[1], y[2]) = p - 1
         IN  A[x[1]].payload[x[2]]]

\* A fault is reported, the heap is destroyed and the program ends.
Fault(a, len) ==
  /\ Ready /\ arena.blocks # <<>> /\ Faults(arena.blocks, a, len)
  /\ process' = "ended"
  /\ output' = Says("segmentation fault")
  /\ heap' = NoHeap /\ arena' = NoHeap

\* A walk that leaves the list dereferences NULL.
Crash(a, len) ==
  /\ Ready /\ arena.blocks # <<>>
  /\ ~Faults(arena.blocks, a, len) /\ RunsOff(arena.blocks, a)
  /\ process' = "crashed"
  /\ UNCHANGED <<heap, arena, output>>

Walks(a, len) == /\ Ready
                 /\ arena.blocks # <<>> => /\ ~Faults(arena.blocks, a, len)
                                           /\ ~RunsOff(arena.blocks, a)

\* Without an allocated block both do nothing.
Write(a, m) ==
  /\ Walks(a, Len(m))
  /\ arena' = IF arena.blocks = <<>> THEN arena
              ELSE [arena EXCEPT !.blocks = Written(@, a, m)]
  /\ output' = NoOutput
  /\ UNCHANGED <<heap, process>>

Read(a, len) ==
  /\ Walks(a, len)
  /\ output' = IF arena.blocks = <<>> THEN NoOutput
               ELSE [kind |-> "read", bytes |-> BytesRead(arena.blocks, a, len)]
  /\ UNCHANGED <<heap, arena, process>>
-----------------------------------------------------------------------------
Addresses == StartAddress .. StartAddress + NumberOfLists * MaximumSize

Next == \/ CreateHeap \/ DestroyHeap
        \/ \E n \in MallocSizes : Malloc(n)
        \/ \E a \in Addresses :
             \/ Free(a)
             \/ \E m \in Messages  : Write(a, m) \/ Fault(a, Len(m)) \/ Crash(a, Len(m))
             \/ \E n \in ReadSizes : Read(a, n)  \/ Fault(a, n)      \/ Crash(a, n)

Spec == Init /\ [][Next]_vars
-----------------------------------------------------------------------------
\* Properties.

Exists == heap # NoHeap

BlocksIn(list) == {list.blocks[j] : j \in DOMAIN list.blocks}

FreeBlocks == UNION {BlocksIn(heap.lists[i]) : i \in DOMAIN heap.lists}

InitialBlocks == UNION {BlocksIn(InitialLists[i]) : i \in DOMAIN InitialLists}

Memory == UNION {Covers(b) : b \in InitialBlocks}

FreeBlock == [address : Addresses, size : 0 .. MaximumSize]

Bytes == Characters \cup {Garbage}

AllocatedBlock ==
  UNION {[address : Addresses, size : {n}, payload : [0 .. n - 1 -> Bytes]] : n \in MallocSizes}

Heaps  == [lists : Seq([size : Nat, numberOfBlocks : Nat, blocks : Seq(FreeBlock)]),
           totalMemory : Nat, totalFreeMemory : Nat, totalBlocks : Nat,
           capacity : Nat, freeCalls : Nat]

Arenas == [blocks : Seq(AllocatedBlock), totalAllocatedMemory : Nat, totalMallocs : Nat,
           mallocCalls : Nat, totalFragmentations : Nat]

ASSUME NoHeapAssumption == NoHeap \notin Heaps \cup Arenas

Outputs == [kind  : {"none", "out of memory", "invalid free", "segmentation fault", "read"},
            bytes : Seq(Bytes)]

TypeOK == /\ heap \in Heaps \cup {NoHeap} /\ arena \in Arenas \cup {NoHeap}
          /\ Exists <=> arena # NoHeap
          /\ output \in Outputs
          /\ process \in {"running", "ended", "crashed"}

\* How many of some blocks have byte x.
Covering(blocks, x) == Cardinality({j \in DOMAIN blocks : x \in Covers(blocks[j])})

\* Free and allocated blocks tile the memory: every byte INIT_HEAP made belongs
\* to exactly one block, and no block reaches out of the initial block it was
\* cut from.  Splitting and freeing in whatever order lose or share no byte.
BlocksTileMemory ==
  Exists =>
    /\ \A x \in Memory :
         SumFunction([i \in DOMAIN heap.lists |-> Covering(heap.lists[i].blocks, x)])
           + Covering(arena.blocks, x) = 1
    /\ \A b \in FreeBlocks \cup ToSet(arena.blocks) :
         \E c \in InitialBlocks : Covers(b) \subseteq Covers(c)

\* Every variable has its type, and the counters are what they count.
\* handle_malloc and handle_free unlink by them (a counter of 1 empties a list),
\* and DUMP_MEMORY prints them: blocks of every list, allocated blocks, memory, and every MALLOC and FREE; no block
\* ever joins another, so their number grows by one with each fragmentation.
CountersMatch ==
  /\ TypeOK
  /\ Exists =>
    /\ \A i \in DOMAIN heap.lists :
         heap.lists[i].numberOfBlocks = Len(heap.lists[i].blocks)
    /\ heap.totalBlocks = SumFunction([i \in DOMAIN heap.lists |-> Len(heap.lists[i].blocks)])
    /\ arena.totalMallocs = Len(arena.blocks)
    /\ arena.totalMallocs = arena.mallocCalls - heap.freeCalls
    /\ arena.totalAllocatedMemory =
         SumFunction([k \in DOMAIN arena.blocks |-> arena.blocks[k].size])
    /\ heap.totalFreeMemory = heap.totalMemory - arena.totalAllocatedMemory
    /\ heap.totalBlocks + arena.totalMallocs =
         Cardinality(InitialBlocks) + arena.totalFragmentations
    /\ Len(heap.lists) <= heap.capacity

\* There is one list for each size, sorted by size, with blocks of that size
\* sorted by address, and the arena is sorted by address: first fit is best fit,
\* and FREE may add its block to every list of the size.
ListsInOrder ==
  Exists =>
    /\ \A i, j \in DOMAIN heap.lists : i < j => heap.lists[i].size < heap.lists[j].size
    /\ \A i \in DOMAIN heap.lists : LET l == heap.lists[i] IN
         /\ \A b \in ToSet(l.blocks) : b.size = l.size
         /\ \A j, k \in DOMAIN l.blocks :
              j < k => l.blocks[j].address <= l.blocks[k].address
    /\ \A j, k \in DOMAIN arena.blocks :
         j < k => arena.blocks[j].address <= arena.blocks[k].address

Better(b, c) == b.size < c.size \/ (b.size = c.size /\ b.address < c.address)

Places(blocks) == {Block(b.address, b.size) : b \in ToSet(blocks)}

BestFitTaken(n) ==
  LET fitting == {b \in FreeBlocks : b.size >= n}
  IN  IF fitting = {} THEN output'.kind = "out of memory"
      ELSE \E b \in fitting :
             /\ \A c \in fitting : ~Better(c, b)
             /\ Places(arena'.blocks) = Places(arena.blocks) \cup {Block(b.address, n)}

\* MALLOC takes the smallest free block that is large enough, of those the one
\* with the lowest address, and "Out of memory" means that there is none.
TakesBestFit == [][\A n \in MallocSizes : Malloc(n) => BestFitTaken(n)]_vars

\* The bytes from a to the first gap behind block l, when the next block is adjacent.
Reach(A, a, l) ==
  {x \in a .. a + NumberOfLists * MaximumSize :
     \A y \in a .. x : \E k \in l .. Len(A) : Holds(A[k], y)}

\* Whatever WRITE could now be made: a READ of the same bytes would answer what it
\* stored, a part of the message from its start; no byte below its address would
\* have changed; and when a block is adjacent to the first and the message ends
\* before the next gap, the message would be stored whole, from its address on. Blocks
\* of 0 bytes are excluded there: one that stands behind a block with its address hides
\* from write that the block after it is adjacent, and the walk ends.
ReadsBackWritten ==
  Exists /\ arena.blocks # <<>> =>
    \A a \in Addresses, m \in Messages :
      LET A == arena.blocks  B == Written(A, a, m) \o <<>>  \* TLC evaluates a concatenation once
      IN  ~Faults(A, a, Len(m)) /\ ~RunsOff(A, a) =>
            /\ IsPrefix(BytesRead(B, a, Len(m)), m)
            /\ \A k \in DOMAIN A : \A i \in DOMAIN A[k].payload :
                 A[k].address + i < a => B[k].payload[i] = A[k].payload[i]
            /\ LET l == LeftBound(A, a)
               IN  /\ l < Len(A) /\ Adjacent(A, l) /\ Cardinality(Reach(A, a, l)) >= Len(m)
                   /\ \A k \in l .. Len(A) : A[k].size > 0
                   => \A k \in l .. Len(A) : \A i \in DOMAIN B[k].payload :
                        A[k].address + i - a \in 0 .. Len(m) - 1 =>
                          B[k].payload[i] = m[A[k].address + i - a + 1]

AllocatedBlocks == IF Exists THEN ToSet(arena.blocks) ELSE {}

\* The heap, with its lists and its walks, implements Allocator: allocated
\* blocks never overlap, and only a WRITE changes them.
Promise == INSTANCE Allocator WITH allocated <- AllocatedBlocks

AllocatorSpec == Promise!Spec
=============================================================================
