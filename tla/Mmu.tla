-------------------------------- MODULE Mmu --------------------------------
(***************************************************************************)
(* memory/mmu.c: which page frames are in use (pages_bitmap), what each    *)
(* user page table maps, and the kernel's mapping of device memory.        *)
(* Addresses are page numbers: a frame is a physical address divided by    *)
(* PAGE_SIZE, an entry of a table a linear one.  Directories are left out: *)
(* one holds its task's only user table and a copy of the kernel's         *)
(* entries.                                                                *)
(***************************************************************************)
EXTENDS Integers

CONSTANTS
  Space,                   \* the user page tables that can be created, numbered
  TABLE_ENTRIES,           \* the entries of one: create_page_table(32)
  PHYS_TASKS_SPACE_START,  \* the frames kept for tasks: from 32 MB
  PHYS_TASKS_SPACE_END,    \* up to 64 MB
  INT_BITS,                \* the frames one word of pages_bitmap stands for: 32
  KERNEL_EXTENDED_PAGES,   \* the linear pages kept for device memory
  Bars                     \* the device memories the kernel maps

ASSUME FrameAssumption ==
  /\ PHYS_TASKS_SPACE_START \in Nat \ {0}
  /\ PHYS_TASKS_SPACE_END \in Nat
  /\ INT_BITS \in Nat \ {0}
  /\ PHYS_TASKS_SPACE_START % INT_BITS = 0
ASSUME TableAssumption ==
  /\ Space \subseteq Nat
  /\ TABLE_ENTRIES \in Nat \ {0}
  /\ KERNEL_EXTENDED_PAGES \in 1 .. PHYS_TASKS_SPACE_START
ASSUME BarAssumption == 0 \notin Bars

Frame     == 0 .. (PHYS_TASKS_SPACE_END - 1)
TaskFrame == PHYS_TASKS_SPACE_START .. (PHYS_TASKS_SPACE_END - 1)
Linear    == 0 .. (TABLE_ENTRIES - 1)
Extended  == 0 .. (KERNEL_EXTENDED_PAGES - 1)

SameWord(f, g) == f \div INT_BITS = g \div INT_BITS

VARIABLES
  pages_bitmap,                  \* the frames marked as used
  page_table,                    \* [Space -> [Linear -> frame, 0 if not present]]
  extended_kernel_pages_bitmap,  \* the extended pages marked as used
  extended                       \* the device memory each extended page maps, or 0

mmuVars == <<pages_bitmap, page_table, extended_kernel_pages_bitmap, extended>>

\* What init_memory_manager leaves: the first 16 MB marked, the heap bound, all
\* below the frames of tasks.
MmuInit ==
  /\ pages_bitmap = [f \in Frame |-> f < PHYS_TASKS_SPACE_START]
  /\ page_table = [s \in Space |-> [l \in Linear |-> 0]]
  /\ extended_kernel_pages_bitmap = [e \in Extended |-> FALSE]
  /\ extended = [e \in Extended |-> 0]

(* Definitions with a suffix _M are slips the code could have had.         *)

\* The bit is not looked at.
FreeFrames_M == TaskFrame

\* The scan of alloc_page: the frames a task can be given, and the first of them.
FreeFrames == {f \in TaskFrame : ~pages_bitmap[f]}
IsFirst(f, S) == f \in S /\ \A g \in S : f <= g

\* The store of set_page_to_bitmap(.., f, 1) goes to a whole word; old is what the
\* word held when it was loaded.
Marked(f, old) ==
  [g \in Frame |-> IF g = f THEN TRUE
                   ELSE IF SameWord(g, f) THEN old[g] ELSE pages_bitmap[g]]

\* unbind_page of every page of a list, in one interrupt.  A page that is not
\* bound, or was unbound before, has the address 0: its bit is cleared instead.
Unbound(s, pages) ==
  [page_table EXCEPT ![s] = [l \in Linear |->
     IF \E i \in DOMAIN pages : pages[i] = l THEN 0 ELSE page_table[s][l]]]

Cleared(s, pages) ==
  LET ofPages == {page_table[s][pages[i]] : i \in DOMAIN pages}
      twice   == \E i, j \in DOMAIN pages : i # j /\ pages[i] = pages[j]
  IN  [f \in Frame |->
         IF f \in ofPages \/ (f = 0 /\ twice) THEN FALSE ELSE pages_bitmap[f]]

----------------------------------------------------------------------------
\* alloc_pci_mem with alloc_page_extended.  Its callback hands the bitmap of the
\* extended pages to set_page_to_bitmap, which writes pages_bitmap whatever it is
\* given: the extended page stays free, and a kernel frame is marked.
alloc_pci_mem(bar) ==
  \E e \in Extended :
     /\ IsFirst(e, {x \in Extended : ~extended_kernel_pages_bitmap[x]})
     /\ extended' = [extended EXCEPT ![e] = bar]
     /\ pages_bitmap' = [pages_bitmap EXCEPT ![e] = TRUE]
     /\ UNCHANGED <<page_table, extended_kernel_pages_bitmap>>

MmuTypeOK ==
  /\ pages_bitmap \in [Frame -> BOOLEAN]
  /\ page_table \in [Space -> [Linear -> TaskFrame \cup {0}]]
  /\ extended_kernel_pages_bitmap \in [Extended -> BOOLEAN]
  /\ extended \in [Extended -> Bars \cup {0}]
=============================================================================
