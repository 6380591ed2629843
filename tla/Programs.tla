------------------------------ MODULE Programs ------------------------------
(***************************************************************************)
(* The life of a user program: vfs/elf.c, task_create and task_delete      *)
(* (scheduler/task.c) over the page frames of Mmu.  elf_exec is called by  *)
(* a kernel task (tests.c:147), so it runs with the interrupts enabled,    *)
(* and is cut at each access to what other tasks change: frames, the       *)
(* bitmap, the task list, and the register cr3.  Each program has an       *)
(* address space of its own, named by its page table.  One task at a time  *)
(* loads programs.                                                         *)
(***************************************************************************)
EXTENDS Mmu, FiniteSets, Sequences

CONSTANTS
  Kernel,     \* the kernel's own address space
  PAGE_SIZE,
  Images      \* program files: sequences of segments [vaddr, filesz, memsz]

\* The address spaces differ from the kernel's.
ASSUME KernelAssumption == Kernel \notin Space /\ PAGE_SIZE \in Nat \ {0}
\* What the linker builds with prog/linker.ld: the segments that are not empty start
\* at a page, fit the table, and come in the order of their addresses without
\* sharing a page.
ASSUME ImageAssumption ==
  \A image \in Images :
     /\ image \in Seq([vaddr : Nat, filesz : Nat, memsz : Nat])
     /\ \A i \in DOMAIN image : image[i].filesz <= image[i].memsz
     /\ \A i \in DOMAIN image : image[i].memsz > 0 =>
          /\ image[i].vaddr % PAGE_SIZE = 0
          /\ image[i].vaddr \div PAGE_SIZE + image[i].memsz \div PAGE_SIZE
               < TABLE_ENTRIES
     /\ \A i, j \in DOMAIN image : i < j /\ image[i].memsz > 0 /\ image[j].memsz > 0 =>
          (image[i].vaddr + image[i].memsz - 1) \div PAGE_SIZE < image[j].vaddr \div PAGE_SIZE

VARIABLES
  status,   \* of the task of each space
  image,    \* the program of each space
  pages,    \* task_mem.pages, as page numbers
  pc,       \* where the loader stands
  space,    \* task_mem: the space it fills
  seg,      \* the segment it is at
  k,        \* and the page of that segment
  frame,    \* the frame alloc_page found
  old,      \* the word of the bitmap set_page_to_bitmap has loaded
  cr3,      \* the space the processor is in when the loader runs
  data,     \* what each frame holds
  crashed,  \* a page fault, a failed assert, a store outside an array: the end
  refused   \* history: alloc_page has found no frame for this program

\* The pointers in the array task_mem.pages, 32 as the entries of the table
\* (elf.c:26-27).
MAX_PAGES == TABLE_ENTRIES

loader == <<pc, space, seg, k, frame, old>>
progVars == <<status, image, pages, loader, cr3, data, crashed, refused>>
mvars == <<mmuVars, progVars>>

\* What a frame holds: zeros, or page l of the program in space s.
Zeros == <<Kernel, 0>>
Holds(s, l) == <<s, l>>

Statuses == {"none", "loading", "linked", "running", "killing", "deleted"}
Labels == {"idle", "header", "alloc", "bind", "load", "store", "enter", "copy",
           "leave", "link", "start"}

ProgInit ==
  /\ MmuInit
  /\ status = [s \in Space |-> "none"]
  /\ image = [s \in Space |-> <<>>]
  /\ pages = [s \in Space |-> <<>>]
  /\ pc = "idle" /\ space = Kernel /\ seg = 0 /\ k = 0
  /\ frame = 0
  /\ old = pages_bitmap
  /\ cr3 = Kernel
  /\ data = [f \in TaskFrame |-> Zeros]
  /\ crashed = FALSE
  /\ refused = FALSE

----------------------------------------------------------------------------
(* Segments.                                                               *)

Segment == image[space][seg]
FirstPage(sg) == sg.vaddr \div PAGE_SIZE

\* The pages elf_exec allocates are one too few.
pages_count_M(sg) == sg.memsz \div PAGE_SIZE
pages_count(sg) == sg.memsz \div PAGE_SIZE + 1

\* The pages that the bytes vaddr .. vaddr + n - 1 lie on.
PagesOf(sg, n) ==
  {l \in Linear : n > 0 /\ FirstPage(sg) <= l
                        /\ l <= (sg.vaddr + n - 1) \div PAGE_SIZE}

\* memcpy of the segment's bytes, or memset of one that has none in the file.
Touched(sg) == PagesOf(sg, IF sg.filesz = 0 THEN sg.memsz ELSE sg.filesz)
Written(s, sg, l) == IF sg.filesz = 0 THEN Zeros ELSE Holds(s, l)

----------------------------------------------------------------------------
(* The loader.                                                             *)

At(l) == ~crashed /\ pc = l

\* An allocation fails.  The page directory, the table and the task are written
\* through NULL and the array of pages is asserted before there is a segment, or
\* when the task is linked; a task without a stack faults when it first runs.
OutOfHeap ==
  /\ \/ At("idle") /\ \E s \in Space : status[s] = "none"
     \/ At("link") \/ At("start")
  /\ crashed' = TRUE
  /\ UNCHANGED <<mmuVars, status, image, pages, loader, cr3, data, refused>>

elf_exec(s, im) ==
  /\ At("idle") /\ IsFirst(s, {t \in Space : status[t] = "none"})
  /\ status' = [status EXCEPT ![s] = "loading"]
  /\ image' = [image EXCEPT ![s] = im]
  /\ space' = s /\ seg' = 1 /\ k' = 0 /\ refused' = FALSE
  /\ pc' = "header"
  /\ UNCHANGED <<mmuVars, pages, frame, old, cr3, data, crashed>>

\* The loop over the program headers; an empty segment is skipped.
ProgramHeader ==
  /\ At("header")
  /\ k' = 0
  /\ IF seg > Len(image[space]) THEN pc' = "link" /\ UNCHANGED seg
     ELSE IF Segment.memsz = 0 THEN seg' = seg + 1 /\ UNCHANGED pc
     ELSE pc' = "alloc" /\ UNCHANGED seg
  /\ UNCHANGED <<mmuVars, status, image, pages, space, frame, old, cr3, data, crashed,
                 refused>>

\* The page is noted, and alloc_page scans for a frame; that none is left goes
\* unnoticed.  Or the segment has its pages.
alloc_page ==
  /\ At("alloc")
  /\ IF k < pages_count(Segment)
     THEN /\ Len(pages[space]) < MAX_PAGES
          /\ pages' = [pages EXCEPT ![space] = Append(@, FirstPage(Segment) + k)]
          /\ \/ \E f \in FreeFrames : IsFirst(f, FreeFrames) /\ frame' = f
                /\ pc' = "bind" /\ UNCHANGED <<k, refused>>
             \/ FreeFrames = {} /\ refused' = TRUE /\ k' = k + 1
                /\ UNCHANGED <<pc, frame>>
     ELSE pc' = "enter" /\ UNCHANGED <<pages, k, frame, refused>>
  /\ UNCHANGED <<mmuVars, status, image, space, seg, old, cr3, data, crashed>>

\* Nobody compares pages_count with the size of the array: one page more is noted
\* behind its end.
NoteBeyond ==
  /\ At("alloc") /\ k < pages_count(Segment)
  /\ Len(pages[space]) = MAX_PAGES
  /\ crashed' = TRUE
  /\ UNCHANGED <<mmuVars, status, image, pages, loader, cr3, data, refused>>

\* The entry is written, over another frame if the page was bound already.
bind_page ==
  /\ At("bind")
  /\ page_table' = [page_table EXCEPT ![space][FirstPage(Segment) + k] = frame]
  /\ pc' = "load"
  /\ UNCHANGED <<pages_bitmap, extended_kernel_pages_bitmap, extended, status, image,
                 pages, space, seg, k, frame, old, cr3, data, crashed, refused>>

\* set_page_to_bitmap: the word is loaded and, with one bit more, stored.
LoadWord ==
  /\ At("load")
  /\ old' = pages_bitmap
  /\ pc' = "store"
  /\ UNCHANGED <<mmuVars, status, image, pages, space, seg, k, frame, cr3, data,
                 crashed, refused>>

\* The bit is forgotten.
StoreWord_M ==
  /\ At("store")
  /\ k' = k + 1
  /\ pc' = "alloc"
  /\ UNCHANGED <<mmuVars, status, image, pages, space, seg, frame, old, cr3, data,
                 crashed, refused>>

StoreWord ==
  /\ At("store")
  /\ pages_bitmap' = Marked(frame, old)
  /\ k' = k + 1
  /\ pc' = "alloc"
  /\ UNCHANGED <<page_table, extended_kernel_pages_bitmap, extended, status, image,
                 pages, space, seg, frame, old, cr3, data, crashed, refused>>

EnterSpace ==
  /\ At("enter")
  /\ cr3' = space
  /\ pc' = "copy"
  /\ UNCHANGED <<mmuVars, status, image, pages, space, seg, k, frame, old, data,
                 crashed, refused>>

\* memcpy or memset at the program's own addresses: a page fault unless the
\* processor is in the program's space and the pages are bound.
CopySegment ==
  /\ At("copy")
  /\ IF cr3 = space /\ \A l \in Touched(Segment) : page_table[space][l] # 0
     THEN /\ data' = [f \in TaskFrame |->
                        IF \E l \in Touched(Segment) : page_table[space][l] = f
                        THEN Written(space, Segment,
                                     CHOOSE l \in Touched(Segment) : page_table[space][l] = f)
                        ELSE data[f]]
          /\ pc' = "leave"
          /\ UNCHANGED crashed
     ELSE crashed' = TRUE /\ UNCHANGED <<data, pc>>
  /\ UNCHANGED <<mmuVars, status, image, pages, space, seg, k, frame, old, cr3, refused>>

LeaveSpace ==
  /\ At("leave")
  /\ cr3' = Kernel
  /\ seg' = seg + 1
  /\ pc' = "header"
  /\ UNCHANGED <<mmuVars, status, image, pages, space, k, frame, old, data, crashed,
                 refused>>

\* task_create links the task before it gives it a status.
LinkTask ==
  /\ At("link")
  /\ status' = [status EXCEPT ![space] = "linked"]
  /\ pc' = "start"
  /\ UNCHANGED <<mmuVars, image, pages, space, seg, k, frame, old, cr3, data, crashed,
                 refused>>

\* The rest of task_create, and the status elf_exec gives.
StartTask ==
  /\ At("start")
  /\ status' = [status EXCEPT ![space] = "running"]
  /\ pc' = "idle"
  /\ UNCHANGED <<mmuVars, image, pages, space, seg, k, frame, old, cr3, data, crashed,
                 refused>>

----------------------------------------------------------------------------
(* The other tasks, while the loader is switched away: sched_schedule      *)
(* comes back to it with the cr3 task_create gave it, the kernel's.        *)

SwitchAway ==
  /\ ~crashed /\ cr3 # Kernel
  /\ cr3' = Kernel
  /\ UNCHANGED <<mmuVars, status, image, pages, loader, data, crashed, refused>>

\* The task just linked has whatever its memory held before as its status: the
\* scheduler may run or delete what is no task yet.
RunUnborn ==
  /\ At("start")
  /\ crashed' = TRUE
  /\ UNCHANGED <<mmuVars, status, image, pages, loader, cr3, data, refused>>

\* SYSCALL_EXIT.
Exit(s) ==
  /\ ~crashed /\ status[s] = "running"
  /\ status' = [status EXCEPT ![s] = "killing"]
  /\ cr3' = Kernel
  /\ UNCHANGED <<mmuVars, image, pages, loader, data, crashed, refused>>

\* From sched_schedule.  The page table itself is never freed: free_page_table
\* takes all of the heap for tables of the kernel.
task_delete(s) ==
  /\ ~crashed /\ status[s] = "killing"
  /\ status' = [status EXCEPT ![s] = "deleted"]
  /\ pages_bitmap' = Cleared(s, pages[s])
  /\ page_table' = Unbound(s, pages[s])
  /\ cr3' = Kernel
  /\ UNCHANGED <<extended_kernel_pages_bitmap, extended, image, pages, loader, data,
                 crashed, refused>>

PciMap(bar) ==
  /\ ~crashed /\ \A e \in Extended : extended[e] # bar
  /\ alloc_pci_mem(bar)
  /\ UNCHANGED progVars

ProgNext ==
  \/ \E s \in Space, im \in Images : elf_exec(s, im)
  \/ ProgramHeader \/ alloc_page \/ bind_page \/ LoadWord \/ StoreWord
  \/ OutOfHeap \/ NoteBeyond
  \/ EnterSpace \/ CopySegment \/ LeaveSpace \/ LinkTask \/ StartTask
  \/ SwitchAway \/ RunUnborn
  \/ \E s \in Space : Exit(s) \/ task_delete(s)
  \/ \E bar \in Bars : PciMap(bar)

ProgSpec == ProgInit /\ [][ProgNext]_mvars

----------------------------------------------------------------------------
(* Properties.                                                             *)

ProgTypeOK ==
  /\ MmuTypeOK
  /\ status \in [Space -> Statuses]
  /\ image \in [Space -> Images \cup {<<>>}]
  /\ pages \in [Space -> Seq(Nat)] /\ \A s \in Space : Len(pages[s]) <= MAX_PAGES
  /\ pc \in Labels
  /\ space \in Space \cup {Kernel}
  /\ seg \in Nat /\ k \in Nat
  /\ frame \in TaskFrame \cup {0}
  /\ old \in [Frame -> BOOLEAN]
  /\ cr3 \in Space \cup {Kernel}
  /\ data \in [TaskFrame -> (Space \cup {Kernel}) \X Linear]
  /\ crashed \in BOOLEAN /\ refused \in BOOLEAN

\* No frame is mapped twice, by one program or by two, and each that is mapped is
\* marked, but the one just being bound, though the bitmap is scanned, the page
\* bound and the bit stored in separate steps (mmu.c:133-151) with deletions that
\* clear bits of the same word in between.
PagesOwned ==
  \A s, t \in Space, l, m \in Linear :
     page_table[s][l] # 0 =>
        /\ page_table[t][m] = page_table[s][l] => s = t /\ l = m
        /\ \/ pages_bitmap[page_table[s][l]]
           \/ pc \in {"load", "store"} /\ page_table[s][l] = frame

\* A program that runs finds in its pages what the loader put there, whatever was
\* loaded and deleted since (elf.c:34-69).
ProgramIntact ==
  \A s \in Space : status[s] = "running" =>
     \A i \in DOMAIN image[s] : \A l \in Touched(image[s][i]) :
        /\ page_table[s][l] # 0
        /\ data[page_table[s][l]] = Written(s, image[s][i], l)

\* What elf_exec copies or clears lies on pages that are bound, unless alloc_page
\* has refused the program a frame: the count of elf.c:40, taken over all segments
\* with their shared pages, leaves no hole, and no deletion of another program
\* (task.c:86-88) takes a page from the one being loaded.
CopyIsBound ==
  pc = "copy" /\ ~refused => \A l \in Touched(Segment) : page_table[space][l] # 0

\* elf.c:66-67: "handle .bss", "fill bss with zeros, because GCC is crazy and code
\* "int x=0;" puts into .bss".  The pages of a running
\* program past what the file has of a segment hold zeros.
BssZeroed ==
  \A s \in Space : status[s] = "running" =>
     \A i \in DOMAIN image[s] :
        LET sg == image[s][i]
        IN  \A l \in PagesOf(sg, sg.memsz) \ PagesOf(sg, sg.filesz) :
              page_table[s][l] # 0 => data[page_table[s][l]] = Zeros
=============================================================================
