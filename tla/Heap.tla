--------------------------------- MODULE Heap ---------------------------------
(***************************************************************************)
(* The kernel heap of kernel/memory.c: heap_init, kmalloc, kfree,          *)
(* kmalloc_aligned, the DMA wrappers, and the page directory and the page  *)
(* tables that vmm_init and page_map take from it.  The unit is the word   *)
(* of 4 bytes to which kmalloc rounds; addresses count from HEAP_START.    *)
(*                                                                         *)
(* kmalloc puts the descriptor of the block it splits off where the memory *)
(* of that block starts, and kfree adds the size of a descriptor for every *)
(* merge.  So memory given to a caller may hold a descriptor, its own      *)
(* block's or the next one's, and a split may put one descriptor over      *)
(* another.  What the list is after such a write is undefined.  And an     *)
(* aligned pointer may be where another block starts, which memory_free_dma*)
(* then frees.  The model follows the heap up to the first of these, which *)
(* clears intact: the first write to any block but the first does.  What   *)
(* is stated of the heap is about the arithmetic of its calls, and not     *)
(* about a heap that is in use.                                            *)
(***************************************************************************)
EXTENDS Integers, Sequences, SequencesExt, FiniteSetsExt

CONSTANTS HEAP_SIZE,     \* HEAP_END - HEAP_START
          DESCRIPTOR,    \* sizeof(memory_block_t)
          PAGE_SIZE,
          Sizes,         \* the sizes the kernel asks for
          Directory,     \* indices of the page directory
          MAX_HELD,      \* bound on the pointers the callers of kmalloc hold
          NULL

ASSUME HeapAssumption ==
    /\ HEAP_SIZE \in Nat /\ DESCRIPTOR \in Nat \ {0} /\ HEAP_SIZE > DESCRIPTOR
    /\ PAGE_SIZE \in Nat \ {0}
    /\ Sizes \subseteq Nat \ {0}
    /\ MAX_HELD \in Nat
    /\ NULL \notin Nat

VARIABLES heap,      \* heap_blocks and used_memory
          held,      \* what callers of kmalloc hold: pointers and the sizes they asked for
          dma,       \* the pointers of memory_alloc_dma, and the start of the block taken
          mmu_initialized,
          tables,    \* the entries of page_directory
          intact     \* no write went over a descriptor, no block was freed for another

heapVars == <<heap, held, dma, mmu_initialized, tables, intact>>
paging == <<mmu_initialized, tables>>

Block == [start : Nat, size : Int, used : BOOLEAN]

heap_init ==
    [blocks      |-> <<[start |-> DESCRIPTOR, size |-> HEAP_SIZE - DESCRIPTOR, used |-> FALSE]>>,
     used_memory |-> 0]

-----------------------------------------------------------------------------
(***************************************************************************)
(* kmalloc: the first of the smallest free blocks that are large enough,   *)
(* split when what is left has room for a descriptor and more than a word. *)
(***************************************************************************)
Fits(h, size) == {i \in 1 .. Len(h.blocks) : ~h.blocks[i].used /\ h.blocks[i].size >= size}

BestFit(h, size) ==
    CHOOSE i \in Fits(h, size) :
        \A j \in Fits(h, size) : \/ h.blocks[i].size < h.blocks[j].size
                                 \/ h.blocks[i].size = h.blocks[j].size /\ i <= j

Splits(block, size) == block.size > size + DESCRIPTOR + 1

Rest(block, size) ==
    [start |-> block.start + size, size |-> block.size - size - DESCRIPTOR, used |-> FALSE]

Taken(blocks, i, size) ==
    LET block == [blocks[i] EXCEPT !.used = TRUE]
    IN  IF Splits(blocks[i], size)
        THEN InsertAt([blocks EXCEPT ![i] = [block EXCEPT !.size = size]],
                      i + 1, Rest(blocks[i], size))
        ELSE [blocks EXCEPT ![i] = block]

\* Mutant: the size that was asked for is counted, not the block's.
TakeRequested(h, i, size) ==
    [blocks |-> Taken(h.blocks, i, size), used_memory |-> h.used_memory + size]

Take(h, i, size) ==
    LET blocks == Taken(h.blocks, i, size)
    IN  [blocks |-> blocks, used_memory |-> h.used_memory + blocks[i].size]

kmalloc(h, size) == IF Fits(h, size) = {} THEN h ELSE Take(h, BestFit(h, size), size)

Pointer(h, size) == IF Fits(h, size) = {} THEN NULL ELSE h.blocks[BestFit(h, size)].start

(***************************************************************************)
(* kfree: the block that starts at the pointer is free, merged with the    *)
(* next block and then with the previous one.  A pointer that starts no    *)
(* block is ignored.                                                       *)
(***************************************************************************)
At(h, ptr) == {i \in 1 .. Len(h.blocks) : h.blocks[i].start = ptr}

\* Block i swallows the one after it.
Merge(blocks, i) ==
    RemoveAt([blocks EXCEPT ![i].size = @ + blocks[i + 1].size + DESCRIPTOR], i + 1)

MergeNext(blocks, i) ==
    IF i < Len(blocks) /\ ~blocks[i + 1].used THEN Merge(blocks, i) ELSE blocks

\* Mutant: only the next block is looked at.
MergePreviousNever(blocks, i) == blocks

MergePrevious(blocks, i) ==
    IF i > 1 /\ ~blocks[i - 1].used THEN Merge(blocks, i - 1) ELSE blocks

Release(h, i) ==
    [blocks      |-> MergePrevious(MergeNext([h.blocks EXCEPT ![i].used = FALSE], i), i),
     used_memory |-> h.used_memory - h.blocks[i].size]

kfree(h, ptr) == IF At(h, ptr) = {} THEN h ELSE Release(h, Min(At(h, ptr)))

(***************************************************************************)
(* kmalloc_aligned.  Where the first block is not aligned it is given back *)
(* and a smaller one taken, perhaps elsewhere; the address returned is the *)
(* one computed from the first.                                            *)
(***************************************************************************)
RoundUp(n) == ((n + PAGE_SIZE - 1) \div PAGE_SIZE) * PAGE_SIZE

kmalloc_aligned(h, size) ==
    LET ptr     == Pointer(h, RoundUp(size) + PAGE_SIZE)
        first   == kmalloc(h, RoundUp(size) + PAGE_SIZE)
        again   == kfree(first, ptr)
        smaller == RoundUp(size) + RoundUp(ptr) - ptr
    IN  IF ptr = NULL THEN [first |-> h, heap |-> h, start |-> NULL, ptr |-> NULL]
        ELSE IF ptr = RoundUp(ptr) THEN [first |-> first, heap |-> first, start |-> ptr, ptr |-> ptr]
        ELSE [first |-> first,
              heap  |-> kmalloc(again, smaller),
              start |-> Pointer(again, smaller),
              ptr   |-> IF Pointer(again, smaller) = NULL THEN NULL ELSE RoundUp(ptr)]

-----------------------------------------------------------------------------
(***************************************************************************)
(* The descriptor of the first block is at HEAP_START, that of any other   *)
(* where its memory starts.                                                *)
(***************************************************************************)
DescriptorAt(h, i) == IF i = 1 THEN 0 ELSE h.blocks[i].start

Apart(h) ==
    \A i, j \in 1 .. Len(h.blocks) :
        i < j => DescriptorAt(h, i) + DESCRIPTOR <= DescriptorAt(h, j)

Overwrites(h, ptr, size) ==
    \E i \in 1 .. Len(h.blocks) :
        DescriptorAt(h, i) < ptr + size /\ ptr < DescriptorAt(h, i) + DESCRIPTOR

-----------------------------------------------------------------------------
HeapInit ==
    /\ heap = heap_init
    /\ held = {}
    /\ dma = {}
    /\ mmu_initialized = FALSE
    /\ tables = [i \in Directory |-> NULL]
    /\ intact = TRUE

Allocate(size) ==
    /\ intact
    /\ Cardinality(held) < MAX_HELD
    /\ heap' = kmalloc(heap, size)
    /\ held' = IF Pointer(heap, size) = NULL THEN held
               ELSE held \cup {[ptr |-> Pointer(heap, size), size |-> size]}
    /\ intact' = Apart(heap')
    /\ UNCHANGED <<dma, paging>>

Deallocate(p) ==
    /\ intact
    /\ heap' = kfree(heap, p.ptr)
    /\ held' = held \ {p}
    /\ UNCHANGED <<dma, paging, intact>>

memory_alloc_dma(size) ==
    /\ intact
    /\ LET got == kmalloc_aligned(heap, size)
       IN  /\ heap' = got.heap
           /\ dma' = IF got.ptr = NULL THEN dma
                     ELSE dma \cup {[ptr |-> got.ptr, start |-> got.start]}
           /\ intact' = (Apart(got.first) /\ Apart(got.heap))
    /\ UNCHANGED <<held, paging>>

memory_free_dma(p) ==
    /\ intact
    /\ heap' = kfree(heap, p.ptr)
    /\ dma' = dma \ {p}
    /\ intact' = (p.ptr = p.start \/ At(heap, p.ptr) = {})
    /\ UNCHANGED <<held, paging>>

\* A caller writes the memory it was given.
Write(ptr, size) ==
    /\ intact
    /\ intact' = ~Overwrites(heap, ptr, size)
    /\ UNCHANGED <<heap, held, dma, paging>>

(***************************************************************************)
(* The page that vmm_init and page_map take and clear.                     *)
(***************************************************************************)
TakePage(got) ==
    /\ heap' = got.heap
    /\ intact' = (/\ Apart(got.first) /\ Apart(got.heap)
                  /\ got.ptr # NULL => ~Overwrites(got.heap, got.ptr, PAGE_SIZE))
    /\ UNCHANGED <<held, dma>>

(***************************************************************************)
(* vmm_init.  page_map refuses the pages it maps before mmu_initialized.   *)
(***************************************************************************)
vmm_init ==
    /\ intact
    /\ ~mmu_initialized
    /\ LET got == kmalloc_aligned(heap, PAGE_SIZE)
       IN  /\ TakePage(got)
           /\ mmu_initialized' = (got.ptr # NULL)
    /\ UNCHANGED tables

\* page_map of a page whose table is there changes only the table.
page_map(i) ==
    /\ intact
    /\ mmu_initialized
    /\ tables[i] = NULL
    /\ LET got == kmalloc_aligned(heap, PAGE_SIZE)
       IN  /\ TakePage(got)
           /\ tables' = [tables EXCEPT ![i] = got.ptr]
    /\ UNCHANGED mmu_initialized

HeapNext ==
    \/ \E size \in Sizes : Allocate(size) \/ memory_alloc_dma(size)
    \/ \E p \in held : Deallocate(p) \/ Write(p.ptr, p.size)
    \/ \E p \in dma : memory_free_dma(p) \/ Write(p.ptr, 1)
    \/ vmm_init
    \/ \E i \in Directory : page_map(i)

HeapSpec == HeapInit /\ [][HeapNext]_heapVars

-----------------------------------------------------------------------------
\* The sums of the first i entries of s, for every i.
Sums(s) ==
    LET sum[i \in 0 .. Len(s)] == IF i = 0 THEN 0 ELSE sum[i - 1] + s[i]
    IN  sum

Total(s) == Sums(s)[Len(s)]

Extents(blocks) == [i \in 1 .. Len(blocks) |-> blocks[i].size + DESCRIPTOR]

UsedSizes(blocks) == [i \in 1 .. Len(blocks) |-> IF blocks[i].used THEN blocks[i].size ELSE 0]

(***************************************************************************)
(* The blocks and the gaps that kmalloc leaves for descriptors always add  *)
(* up to the heap, and while no descriptor is overwritten and no block     *)
(* freed for another used_memory to the used blocks: no split, merge or    *)
(* failed allocation loses or counts a word twice (kmalloc, kfree).        *)
(***************************************************************************)
SizesAddUp ==
    /\ Total(Extents(heap.blocks)) = HEAP_SIZE
    /\ intact => Total(UsedSizes(heap.blocks)) = heap.used_memory

(***************************************************************************)
(* No two free blocks are next to each other: free memory is never split   *)
(* into parts that are each too small, whatever the order of the calls     *)
(* (kfree).                                                                *)
(***************************************************************************)
FreeAreMerged ==
    \A i \in 1 .. Len(heap.blocks) - 1 : heap.blocks[i].used \/ heap.blocks[i + 1].used

=============================================================================
