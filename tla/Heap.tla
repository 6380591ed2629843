-------------------------------- MODULE Heap --------------------------------
(***************************************************************************)
(* The kernel heap, memory/heap.c: a list of blocks that tile the used part *)
(* of the arena, first fit, splitting on kmalloc and merging on kfree.  The *)
(* slots of kheap_blocks come from lib/slist.c, whose list is a sequence    *)
(* here.  A call is one step: the model is of callers that do not interrupt *)
(* each other.  Addresses and sizes stay far below 2^32.                    *)
(***************************************************************************)
EXTENDS Integers, Sequences, FiniteSets, SequencesExt

CONSTANTS
  Holders,       \* callers, each with at most one allocation (a bound)
  Nothing,       \* what a caller holds that holds no allocation
  Requests,      \* what callers ask for: a count, and an alignment (0: kmalloc)
  KHEAP_START,   \* kheap_start_addr
  KHEAP_BYTES,   \* kheap_size
  KHEAP_SIZE,    \* slots of kheap_blocks
  WORD           \* sizeof(size_t)

\* An allocation: its block, and the pointer and length its holder sees (they
\* differ for kmalloc_a).
Allocation == [block : Nat, size : Nat, ptr : Nat, len : Nat]

ASSUME RequestsAssumption == Requests \subseteq [count : Nat, align : Nat]
ASSUME ArenaAssumption    == /\ KHEAP_START \in Nat \ {0}
                             /\ KHEAP_BYTES \in Nat
                             /\ KHEAP_SIZE \in Nat \ {0}
                             /\ WORD \in Nat \ {0}
ASSUME NothingAssumption  == Nothing \notin Allocation \cup [ptr : Nat, len : Nat]

VARIABLES
  blocks,   \* kheap_list, in list order
  held,     \* what each caller was given and has not freed yet
  halted    \* the kernel stopped on a page fault inside kmalloc

vars == <<blocks, held, halted>>

Block == [addr : Nat, size : Nat, is_busy : {0, 1}]

Init ==
  /\ blocks = << >>
  /\ held = [h \in Holders |-> Nothing]
  /\ halted = FALSE

EndOf(b)  == b.addr + b.size
ArenaEnd  == KHEAP_START + KHEAP_BYTES
Free(i)   == blocks[i].is_busy = 0
IsLast(i) == i = Len(blocks)

(* Definitions with a suffix _M are slips the code could have had; the     *)
(* mutation runs put them in the place of the definition that follows.     *)

LeftFree(i)  == i > 1 /\ Free(i - 1)
\* kfree does not merge to the right.
RightFree_M(i) == FALSE

RightFree(i) == ~IsLast(i) /\ Free(i + 1)

----------------------------------------------------------------------------
(* kmalloc_a asks kmalloc for room to align and for a word to remember the *)
(* block in.                                                               *)

Wanted(r) == IF r.align = 0 THEN r.count ELSE r.count + r.align + WORD

AlignedPtr(p, align) == (p + align + WORD) - ((p + align + WORD) % align)

PtrFor(p, r) == IF r.align = 0 THEN p ELSE AlignedPtr(p, r.align)

\* The caller h gets the block at p for its request r.
Gets(h, p, r) ==
  held' = [held EXCEPT ![h] = [block |-> p, size |-> Wanted(r),
                               ptr |-> PtrFor(p, r), len |-> r.count]]

----------------------------------------------------------------------------
(* kmalloc.                                                                *)

Fits(i, n) == blocks[i].size >= n

\* Any block can be extended, the one with a right neighbour too.
CanGrow_M(i, n) == EndOf(blocks[i]) + (n - blocks[i].size) < ArenaEnd

\* The last block can be extended (heap.c:52-54).
CanGrow(i, n) == IsLast(i) /\ EndOf(blocks[i]) + (n - blocks[i].size) < ArenaEnd

\* A busy block serves a request like a free one.
Usable_M(i, n) == Fits(i, n) \/ LeftFree(i) \/ CanGrow(i, n)

Usable(i, n) == Free(i) /\ (Fits(i, n) \/ LeftFree(i) \/ CanGrow(i, n))

IsFirstUsable(i, n) ==
  /\ i \in DOMAIN blocks
  /\ Usable(i, n)
  /\ \A j \in 1 .. (i - 1) : ~Usable(j, n)

NoneUsable(n) == \A i \in DOMAIN blocks : ~Usable(i, n)

\* The block keeps its whole size.
Split_M(i, n) ==
  InsertAt([blocks EXCEPT ![i] = [addr |-> @.addr, size |-> @.size, is_busy |-> 1]],
           i + 1,
           [addr |-> blocks[i].addr + n, size |-> blocks[i].size - n, is_busy |-> 0])

\* Take a free block and insert the rest of it, even of size 0, as a new block.
Split(i, n) ==
  InsertAt([blocks EXCEPT ![i] = [addr |-> @.addr, size |-> n, is_busy |-> 1]],
           i + 1,
           [addr |-> blocks[i].addr + n, size |-> blocks[i].size - n, is_busy |-> 0])

\* Take a free block and give the rest of it to its free right neighbour.
Lend(i, n) ==
  LET rest == blocks[i].size - n
  IN  [blocks EXCEPT ![i]     = [addr |-> @.addr, size |-> n, is_busy |-> 1],
                     ![i + 1] = [addr |-> @.addr - rest, size |-> @.size + rest,
                                 is_busy |-> 0]]

\* Take a free block and the missing bytes from its free left neighbour, which
\* is deleted when nothing is left of it.
Steal(i, n) ==
  LET missing == n - blocks[i].size
      stolen  == [blocks EXCEPT
                    ![i - 1] = [addr |-> @.addr, size |-> @.size - missing, is_busy |-> 0],
                    ![i]     = [addr |-> @.addr - missing, size |-> n, is_busy |-> 1]]
  IN  IF stolen[i - 1].size = 0 THEN RemoveAt(stolen, i - 1) ELSE stolen

Grow(i, n) == [blocks EXCEPT ![i] = [addr |-> @.addr, size |-> n, is_busy |-> 1]]

\* The list after the first usable block i was taken for n bytes.
Taken(i, n) ==
  IF Fits(i, n)
  THEN IF RightFree(i) THEN Lend(i, n) ELSE Split(i, n)
  ELSE IF LeftFree(i) THEN Steal(i, n) ELSE Grow(i, n)

TakenAddr(i, n) ==
  IF ~Fits(i, n) /\ LeftFree(i) THEN blocks[i].addr - (n - blocks[i].size)
                               ELSE blocks[i].addr

\* Taking block i needs a slot of kheap_blocks for the rest of it.
NeedsSlot(i, n) == Fits(i, n) /\ ~RightFree(i)

\* One slot too many.
NoSlot_M == Len(blocks) > KHEAP_SIZE

NoSlot == Len(blocks) = KHEAP_SIZE

TailAddr == IF blocks = << >> THEN KHEAP_START ELSE EndOf(blocks[Len(blocks)])

CanCall(h) == ~halted /\ held[h] = Nothing

\* A free block serves the request.
KmallocTakes(h, r) ==
  /\ CanCall(h)
  /\ \E i \in DOMAIN blocks :
       /\ IsFirstUsable(i, Wanted(r))
       /\ ~(NeedsSlot(i, Wanted(r)) /\ NoSlot)
       /\ blocks' = Taken(i, Wanted(r))
       /\ Gets(h, TakenAddr(i, Wanted(r)), r)
  /\ UNCHANGED halted

\* No free block does: a new block goes after the last one, when that one ends
\* inside the arena; where the new one ends is not looked at (heap.c:88-104).
KmallocAppends(h, r) ==
  /\ CanCall(h)
  /\ NoneUsable(Wanted(r))
  /\ TailAddr < ArenaEnd
  /\ ~NoSlot
  /\ blocks' = Append(blocks, [addr |-> TailAddr, size |-> Wanted(r), is_busy |-> 1])
  /\ Gets(h, TailAddr, r)
  /\ UNCHANGED halted

\* kmalloc returns NULL.
KmallocFails(h, r) ==
  /\ CanCall(h)
  /\ NoneUsable(Wanted(r))
  /\ TailAddr >= ArenaEnd
  /\ UNCHANGED vars

\* slist_insert_after finds no slot and its NULL is dereferenced (heap.c:75, 100).
KmallocFaults(h, r) ==
  /\ CanCall(h)
  /\ NoSlot
  /\ \/ \E i \in DOMAIN blocks : IsFirstUsable(i, Wanted(r)) /\ NeedsSlot(i, Wanted(r))
     \/ NoneUsable(Wanted(r)) /\ TailAddr < ArenaEnd
  /\ halted' = TRUE
  /\ UNCHANGED <<blocks, held>>

----------------------------------------------------------------------------
(* kfree.                                                                  *)

IsBusyAt(i, p) == blocks[i].is_busy = 1 /\ blocks[i].addr = p

\* The block kfree(p) frees: the first busy one at that address.
IsFreedBy(i, p) ==
  /\ i \in DOMAIN blocks
  /\ IsBusyAt(i, p)
  /\ \A j \in 1 .. (i - 1) : ~IsBusyAt(j, p)

\* kfree of an address where no busy block starts does nothing.
NothingAt(p) == \A i \in DOMAIN blocks : ~IsBusyAt(i, p)

Widened(s, i, n) == [s EXCEPT ![i] = [addr |-> @.addr, size |-> @.size + n, is_busy |-> 0]]

\* A block merged to the left is not added to its neighbour.
Freed_M(i) ==
  LET next == IF RightFree(i) THEN blocks[i + 1].size ELSE 0
      rest == IF RightFree(i) THEN RemoveAt(blocks, i + 1) ELSE blocks
  IN  IF LeftFree(i) THEN RemoveAt(Widened(rest, i - 1, next), i)
                    ELSE Widened(rest, i, next)

\* Block i is freed into its free left neighbour, and its free right neighbour
\* into what results.
Freed(i) ==
  LET own  == blocks[i].size
      next == IF RightFree(i) THEN blocks[i + 1].size ELSE 0
      rest == IF RightFree(i) THEN RemoveAt(blocks, i + 1) ELSE blocks
  IN  IF LeftFree(i) THEN RemoveAt(Widened(rest, i - 1, own + next), i)
                    ELSE Widened(rest, i, next)

\* kfree_a frees the aligned pointer.
Kfree_M(h) ==
  /\ ~halted
  /\ held[h] # Nothing
  /\ \/ \E i \in DOMAIN blocks : IsFreedBy(i, held[h].ptr) /\ blocks' = Freed(i)
     \/ NothingAt(held[h].ptr) /\ UNCHANGED blocks
  /\ held' = [held EXCEPT ![h] = Nothing]
  /\ UNCHANGED halted

\* kfree, and kfree_a once it has read the block's address, of what h holds.
Kfree(h) ==
  /\ ~halted
  /\ held[h] # Nothing
  /\ \/ \E i \in DOMAIN blocks : IsFreedBy(i, held[h].block) /\ blocks' = Freed(i)
     \/ NothingAt(held[h].block) /\ UNCHANGED blocks
  /\ held' = [held EXCEPT ![h] = Nothing]
  /\ UNCHANGED halted

Next ==
  \E h \in Holders :
     \/ \E r \in Requests : \/ KmallocTakes(h, r)
                           \/ KmallocAppends(h, r)
                           \/ KmallocFails(h, r)
                           \/ KmallocFaults(h, r)
     \/ Kfree(h)

Spec == Init /\ [][Next]_vars

----------------------------------------------------------------------------
(* Properties.                                                             *)

TypeOK ==
  /\ blocks \in Seq(Block)
  /\ Len(blocks) <= KHEAP_SIZE
  /\ held \in [Holders -> Allocation \cup {Nothing}]
  /\ halted \in BOOLEAN

Holding == {h \in Holders : held[h] # Nothing}

\* The blocks tile the arena from its start, in list order: splitting,
\* extending and merging lose no byte and count none twice.
Tiles ==
  /\ blocks # << >> => blocks[1].addr = KHEAP_START
  /\ \A i \in 1 .. (Len(blocks) - 1) : blocks[i + 1].addr = EndOf(blocks[i])

\* kfree leaves no two free blocks side by side, so the code that takes from a
\* free neighbour (heap.c:36-49 and 68-72) never runs.
Coalesced == \A i \in 1 .. (Len(blocks) - 1) : ~(Free(i) /\ Free(i + 1))

\* Every allocation is backed by a busy block of its own size.
Backed ==
  \A h \in Holding : held[h].size > 0 =>
     \E i \in DOMAIN blocks : /\ IsBusyAt(i, held[h].block)
                             /\ blocks[i].size = held[h].size

\* Nothing stays busy that nobody holds: kfree freed what its caller held, or a
\* block of size 0 at the same address.
NoLeak == Cardinality({i \in DOMAIN blocks : ~Free(i)}) = Cardinality(Holding)

\* The bytes two callers were given are never the same (what kmalloc is for).
LiveDisjoint ==
  \A g, h \in Holding : g # h =>
     \/ held[g].ptr + held[g].len <= held[h].ptr
     \/ held[h].ptr + held[h].len <= held[g].ptr

\* kmalloc cannot run out of slots, and fault on it, while fewer than half of
\* them are allocated.
FaultsOnlyWhenFragmented == halted => 2 * Cardinality(Holding) + 1 >= KHEAP_SIZE

\* What callers hold lies in the arena that kheap_size declares (heap.c:15-16).
InArena == \A h \in Holding : held[h].ptr + held[h].len <= ArenaEnd

\* What each caller sees of its allocation, as a region of an allocator's.
Seen == [h \in Holders |-> IF held[h] = Nothing THEN Nothing
                           ELSE [ptr |-> held[h].ptr, len |-> held[h].len]]
Promise == INSTANCE Allocator WITH Address <- Nat, held <- Seen

\* The heap implements the allocator: splitting, growing, merging and aligning
\* never show to a caller but as a region of its own (heap.c:26-151).
KeepsPromise == Promise!Spec
=============================================================================
