# RubiKernel in TLA+

RubiKernel is a small 32-bit x86 kernel: one processor, one address space for
the kernel tasks, a page directory per user task, a round-robin scheduler,
message passing between tasks, a first-fit heap, a keyboard and TTY driver, a
virtual file system over an initrd and a device directory. This directory holds
TLA+ models of its parts, the TLC configurations that check them and proofs
about them for TLAPS. Paths below are relative to `src/kernel/src/kernel`
unless they say otherwise.

## 1. The system

| Component | State | Operations | Interacts through |
|---|---|---|---|
| Scheduler and tasks (`scheduler/schedule.c`, `task.c`) | `task_list` (a circular list), `current_task`, per task `status`, `time`, `reschedule`, saved registers | `sched_schedule` (timer interrupt and `sched_yield`), `task_create`, `task_delete`, `task_find_by_*` | interrupts, system calls, the heap, the lists |
| Message passing (`schedule.c`, `DT/syscall.c`, `kthread/dq.c`) | per task `msg_buff`, `msg_count_in`; the data of messages on the heap | `ksend`, `krecive`, the loop of `dq_task` | plain calls of kernel tasks, system calls, `ksend` from the keyboard interrupt |
| Kernel heap (`memory/heap.c`) | `kheap_blocks`, `kheap_list` | `kmalloc`, `kfree`, `kmalloc_a`, `kfree_a` | called by everything, from tasks and from interrupts, without a lock |
| Lists (`../lib/slist.c`, `clist.c`, `queue.c`) | slots, links, head and tail | insert, delete, find, push, pop | the heap (slist), everything else (clist) |
| Memory manager (`memory/mmu.c`) | page directories and tables, two bitmaps | `alloc_page(_extended)`, `bind_*`, `unbind_*` | ELF loader, PCI, `task_delete` |
| ELF loader (`vfs/elf.c`) | - | `elf_exec` | memory manager, heap, `task_create` |
| Boot (`kernel.c`, `DT/dt.c`, `DT/int.c`) | what has been initialised | `kernel_main` | interrupts, which `idt_init` enables half way |
| Keyboard driver (`dev/kb_driver.c`) | `kb_status`, `kb_last_byte`, `last_func`, the command queue | `keyboard_ih_low`, `send_data`, `keyboard_ioctl` | keyboard interrupt, ports |
| TTY (`dev/tty.c`) | the input buffer, echo and line mode | `tty_keyboard_ih_low`, `tty_read`, `tty_write`, `tty_ioctl` | keyboard interrupt, readers, the deferred queue |
| Device list, PCI (`dev/dev.c`, `dev/pci.c`) | `dev_list`, per device handler list | `dev_create`, `dev_for_each`, `pci_init` | interrupts walk what tasks register |
| Virtual file system (`vfs/*.c`, `vfs/fs/*.c`) | `nodes_list`, per task `fd_table` | open, read, write, ioctl, `resolve_path` | system calls, devices, initrd |
| Output, strings (`vga`, `serial`, `../lib/stdio.c`, `string.c`) | the terminal | formatting | - |

### What is hard

* **Concurrency is interrupts.** Interrupt and system-call handlers run with
  the interrupts disabled, because all gates are interrupt gates. The code of a
  kernel task does not, and in a kernel task `syscall_ksend` is a plain call of
  `ksend` (`include/lib/syscall.h:56`), so `ksend`, `kmalloc` and `clist_*` can
  be cut anywhere by the keyboard and, through the timer, by other tasks.
* **A system call that blocks loses its protection.** `sched_schedule` gives
  every task it switches to the interrupt flag (`schedule.c:57`), so what
  follows `sched_yield` inside `krecive` runs with the interrupts enabled.
* **Statuses are set far from where they are used**: `ksend` wakes, `krecive`
  sleeps, `SYSCALL_EXIT` kills, `sched_schedule` deletes.
* **Nothing checks for NULL**: exhaustion of the heap or of its slots is a page
  fault, and a page fault is a kernel panic.
* **Order of initialisation**: the interrupts are enabled before the device
  list, the deferred queue and the tasks exist.

`PROJECT.json` lists each hazard with its line and the properties that cover it,
or says why none does.

### What makes each component correct

* Scheduler: only a runnable task of `task_list` has the processor; a task that
  exited never runs again and is deleted once; every runnable task runs.
* Messages: no wake-up is lost or spurious; the count stays within the buffer;
  each message's data is freed once.
* Heap: blocks tile the arena; live allocations are disjoint and inside the
  arena; nothing leaks; running out of slots is bounded by what is allocated.
* Lists: an slist and a clist implement a sequence; a queue is first in, first
  out.
* Memory manager and loader: a physical page has one owner and is marked as
  used; a program that runs finds in its pages what was loaded; what the loader
  copies lies on pages it has bound.
* Keyboard driver: three retries, then failure; back to idle after a command.
* TTY: what the reader gets is what was typed, in order.
* Boot: every task of `create_kernel_tasks` comes to exist.
* File system: a path leads where the tree says, or astray only within devfs,
  whatever was opened before; a descriptor stands for what its path named, and a
  failed open leaves the descriptors as they were.
* Terminal: whoever prints, the cursor ends up on the screen.

## 2. Plan

| Step | Modules | State |
|---|---|---|
| 1 | `Sched`, `MCSched`: scheduler, messages, deferred queue, keyboard interrupt | done |
| 2 | `Heap`, `Allocator`, `MCHeap`: heap, and the abstract allocator it implements | done |
| 3 | `ListLemmas`, `HeapProofs`, `SchedProofs` | done |
| 4 | `Slist`, `Clist`, `OrderedList`, `MCLists`, `SlistProofs`: the lists at the level of pointers; `Queue` | done |
| 5 | `Tty`, `TtyProofs`: the input buffer between interrupt and readers; `KbDriver`: the keyboard's commands | done |
| 6 | `Boot`, `MCBoot`: `kernel_main` against the timer and the keyboard, device registration | done |
| 7 | `Mmu`, `Programs`, `MCPrograms`, `MCMemory`, `ProgramsProofs`: page frames, the loader, task creation and deletion at run time | done |
| 8 | `Vfs`, `Vga`, `MCFiles`: descriptors and path resolution, the cursor of the terminal | done |
| 9 | in `SchedProofs`, the bounds of a mailbox and who is woken; in `HeapProofs`, that the heap implements `Allocator` | done |
| 10 | in `SlistProofs`, that the slist implements `OrderedList`; `ClistProofs`; in `HeapProofs`, the bookkeeping; in `TtyProofs`, the cursor and what is read once; `VfsProofs`; the compositions the runs check | done |
| 11 | two `kmalloc` calls that overlap; handlers that walk `dev_list` while `pci_init` inserts into it, over `Clist` | left |

Abstract specifications: an allocator (`Allocator`) and a sequence with insertion
and removal at a given place (`OrderedList`). `Vfs` states the tree that paths are about
(`Branch`, `Named`) apart from the nodes the code caches of it.

## 3. Modules

### Sched

State: `ring` is `task_list` from its head; `current`, `status`, `time`,
`reschedule`, `count` (`msg_count_in`) and `buff` (`msg_buff`) are the fields of
those names; `pc`, `msg`, `out` and `reg` are a task's code position, its two
`message_t` locals and the register that `msg_count_in++` goes through; `live` is
the message data allocated. `ticks` and `fresh` are auxiliary, for the quota: how
often the scheduler was called since the last switch, and whose first quantum is
not over.

`task_create` sets neither `time` nor `reschedule` and clears nothing
(`task.c:25-35`): a task starts with what its slot held, one of `Leftovers`.
`time` counts modulo `TIME_MOD`, 2^32 in the code.

Actions: `TimerIrq` and `KeyboardIrq` are the two interrupts. `Schedule` is the
whole of `sched_schedule`: either `Continue`, or `Switch` with the end of the
quantum (`EndQuantum`, `Cleared`), search, deletion of the victim and switch.
`sched_yield` is `Yield` where the interrupts are disabled: the request and
`int 0x20` are one step. `TtyRead` is a program's `tty_read` up to the line or its
first `sched_yield` (`tty.c:246`); it is resumed with the interrupts enabled, so
its later rounds are `TtyLook`, `YieldMark` (`reschedule` is set) and `YieldInt`,
between which a tick may serve the request first.
`KrecvReady` is a `krecive` that finds a message, one step because the system
call runs with the interrupts disabled; `KrecvBlock` is one that sleeps, and
`KrecvRead`, `KrecvLoad`, `KrecvStore` are the rest of it after it is resumed
with the interrupts enabled. `KsendCheck` ... `KsendWake` are the plain `ksend`
of a kernel task, cut at every access to shared state; `Ksend` is the same code
in an interrupt or system call. `DqHandle` and `Clean` are the body of
`dq_task`, `ClientStart` and `SyscallKsend` are `test1`'s exchange, as the
kernel task it is (`KernelClients`) or as a user program (`SyscallClients`);
`SyscallExit` is `SYSCALL_EXIT`.

`msg_count_in++` and `--` are a load and a store because the default build is
`-g` without optimisation (`src/CMakeLists.txt`). A read outside `msg_buff` or of
a slot never written yields `NoMsg`. Message data are abstract blocks; when
they run out the model stops allocating, since the code would write through
NULL and panic.

### Heap and Allocator

`blocks` is `kheap_list` in list order, `held` what each caller was given,
`halted` the panic on a missing slot. `Usable` is the test of one entry of the
loop in `kmalloc`, `Taken` what is done with the first usable one (`Split`,
`Lend`, `Steal`, `Grow`), `KmallocAppends` the code after the loop, `Freed` the
merging of `kfree`. `KmallocFaults` is the NULL of `slist_insert_after`
dereferenced. `Wanted` and `AlignedPtr` are `kmalloc_a`; its hidden word is why
`kfree_a` can give the block back, so an allocation keeps the block and the
pointer. A call is one step (see section 6). Sizes stay far below 2^32.

`Allocator` is what callers rely on: a region they are given overlaps no region
somebody holds. `Seen` maps `held` to it, and `KeepsPromise` is
`Heap => Allocator`.

### Mmu and Programs

`Mmu` is `mmu.c` in page numbers: `pages_bitmap`, the entries of each program's
only user page table, and the kernel's extended pages. `FreeFrames` with
`IsFirst` is the scan of `alloc_page`; `Marked` is the store of
`set_page_to_bitmap`, which writes a whole word with what the word held when it
was loaded; `Unbound` and `Cleared` are what `unbind_page` does for the pages of
a task, the repeated ones included: the second time the address read is 0, so
the bit of frame 0 is cleared. `alloc_pci_mem` hands the bitmap of the extended
pages over and has `pages_bitmap` written instead, as the code does.

`Programs` is `elf_exec`, `task_create` and `task_delete`. The loader is a kernel
task, so it is cut where it touches what other tasks change: `ProgramHeader` is
the loop over the headers, `alloc_page`, `bind_page`, `LoadWord`, `StoreWord` the
allocation of one page, `EnterSpace`, `CopySegment`, `LeaveSpace` the switch of
`cr3` around the copy, `LinkTask` and `StartTask` the two stores that make a task.
`SwitchAway`, `Exit`, `task_delete`, `RunUnborn` and `PciMap` are the other tasks.
Two things stop the kernel in the middle of a load: an allocation that fails
(`OutOfHeap`: `elf.c:25-32` and `task.c:25-31` write through NULL or assert), and a
program with more pages than the array of 32 has places (`NoteBeyond`,
`elf.c:46`, which writes behind it; `MAX_PAGES`).
`sched_schedule` comes back to the loader with the kernel's `cr3`, which is why
`CopySegment` can fault. `image` is a file as its program headers; `data` says of
each frame whose page it holds.

### Boot

`Boot` is `kernel_main` (`kernel.c:50-99`) with the functions it calls as a
sequence of the stores an interrupt can see, which `MCBoot` lists: the interrupts
come on in `idt_init`, not at `enable_int`. A device or task is in its list
before its fields are set; a field not yet set is `EMPTY` in a first slot and
`GARBAGE` in one `kmalloc` does not clear. `Schedule` is `sched_schedule` without
a current task: it never comes back to `kernel_main`.

### Slist, Clist and Queue

`Slist` is `slist.c` with the fields of `slist_def_t` and `slist_head_t`; a slot
is its number. `InsertAfter` and `InsertBefore` take the first free slot and use
`Link`, the code both share; `Delete` clears the slot. `Walk` is the list as one
sees it from its head; it is the sequence `OrderedList` speaks of. `ImplementsList`
says that each operation is the abstract one with the same argument:
`InsertAfter(pos)` puts the new entry next behind `pos`, at the front without one.

`Clist` is `clist.c`. An insertion by a task runs with the interrupts enabled
while handlers walk `dev_list` or `task_list`, so it is cut at every store such
a walk can see: `InsertBegin` fills in the new entry, then come `InitHead`,
`InitTail` for an empty list or `InsertLink`, `InsertTail`, and `InsertCount`.
`ClistDelete` is one step. `Nth` is the walk of `clist_find` and `clist_get`.
`MCLists` runs the two lists side by side. `Queue` is `queue.c` on `Clist`, with
`pushed`, a history of what is in it.

### Tty and KbDriver

`Tty` has the buffer, its end `ptr`, line mode, and per reader the offset that
`file_read` keeps in `file_t.pos`. `tty_keyboard_ih_low` is the handler's effect
on the buffer (`Stores`, `Erases`). A reader is cut where it looks at what the
interrupt changes: `TestEof`, `Load`, `Advance`, `Reset` or `Rewind`, and
`ReadEnd`, the condition of the loop in `tty_read`. `unread` is a history: cells
written and not yet read. Characters are one of a plain one, newline, backspace.
The echo moves the cursor, which is `Vga`'s `PutAtOnce`.

`KbDriver` has the state of `kb_driver.c`, the length of its queue and `wire`, the
byte the keyboard has not answered; `AnswerEcho`, `AnswerAck`, `AnswerResend` are
the cases of `keyboard_ih_low`, `IoctlEcho` and `IoctlFlush` those of
`keyboard_ioctl`. `kb_status` is 8 bits. That `kb_echo_func` ends a command by
assigning its parameter and not `kb_status` is in `EchoStatus`: the status is
never idle again on that path, and the next flush sends nothing.

### Vfs

`nodes` is `nodes_list`: a node is made when a path first leads to its inode, with
the length the directory had then, and stays. `Part` is one round of the loop in
`resolve_path`, `readdir` and `opennode` the operations of the two file systems,
`devfs_mount` the taking over of `/dev`. `file_open` follows `file.c:24-32`: the
entry is made (`clist_insert_after`), then the file opens and gets its number, or
it does not and the entry is taken out again (`clist_delete`, which on the head
of the table would move the head to the tail). `NewTask` is `task_create` after an
exit. `dev_create` and `NameDevice` are `pci_init`, between which programs may
open paths.

`Branch` and `Named` say what a path names, without nodes. The code differs from
them where a path asks devfs for what is not there (`AsksDevfsInVain`): a device
passes for a directory, so that `/dev/TTY/x` opens the terminal, or another device
if `x` names one; and once a device was registered after the mount, a path to an
absent one ends at `/dev` itself, since the node's length is no longer the number
of entries. `ResolvesAsTree` and `DescriptorsSound` speak of these paths too, and
say how far they go astray: to `/dev` or to a device among the components
(`Mentioned`), never to a file or to another device. The comment at `node.c:51`
would have them lead nowhere; the code does not do that, and the properties do not
claim it.

### Vga

`term_col` and `term_row` are the cursor. A kernel task prints with the interrupts
enabled: `Begin` and `term_putc` (`Newline`, `Back`, `term_setc`, `Forward`,
`WrapDown`, `WrapUp`, `Scroll`) cut it at each load and store of the cursor.
`PutAtOnce` is the same code in the keyboard interrupt or in a program's system
call, `term_clear` the ioctl. `alone` is a history: the writer no other task was
in `term_putc` with.

### Mutations

A definition with the suffix `_M` is a slip the code could have had: a dropped
guard, an off-by-one, a wake-up left out. Each property of a passing run is
paired in `PROJECT.json` with one that breaks it.

## 4. Runs

| Run | Instance | Shows |
|---|---|---|
| `sched_boot` | idle, deferred queue, one worker, one program that reads the terminal, one user client, in slots that hold something; quota 2, mailbox 2, 3 blocks | the safety and action properties of `Sched`; the mailbox fills, messages are refused, tasks exit, yield and are deleted while others sleep |
| `sched_live` | idle, deferred queue, one reader of the terminal; quota 3, mailbox 2, 3 blocks | every runnable task runs; queued messages are taken |
| `sched_cleaned_once` | the default boot; mailbox 8 | **violated**: a key between `schedule.c:109` and `:110` makes the deferred queue free one message's data twice |
| `sched_test1` | `test1` as a kernel task; mailbox 8 | **violated**: a late wake-up of a deferred queue without messages takes `msg_count_in` to -1 |
| `heap` | 4 callers, an arena of 8 bytes and 6 slots, requests of 0, 1, 3 and an aligned one; beside them 3 programs, 5 frames, tables of 4 pages, words of 4 frames | list invariants, disjointness, no leak, the allocator implemented; frames have one owner, programs stay intact, segments are copied into bound pages |
| `heap_arena` | the same heap | **violated**: an allocation past the end of the arena |
| `bss` | the same programs, 4 frames | **violated**: `.bss` of a program holds what a deleted one left |
| `boot` | the default boot | **violated**: a tick after the first task is ready takes the processor from `kernel_main` for good |
| `lists` | an slist of 3 slots, a clist of up to 4 entries | links, ends and counts agree, walks during an insertion are safe, the slist is a sequence changed at the place given, the clist keeps its cyclic order |
| `queue_order` | a clist of 3 entries | **violated**: after pushes 1, 2, 3 the pops give 1, 3, 2 |
| `tty` | one reader, a buffer of 3, reads of 1 and 4; beside it 2 printing tasks on a screen of 3 by 2; beside it one program that opens 13 paths over 6 inodes and 3 devices | reads stay in the buffer and read nothing twice; a complete line gets the read to return; the cursor comes back to the screen; paths lead where the tree says, or astray within devfs; a failed open takes only its own entry out |
| `kb_resend` | up to 2 commands queued, 5 requests to resend | **violated**: a fourth resend |

`CountInRange` and `CopyInBounds` hold in `sched_boot` because the deferred
queue is the only task whose `ksend` can be interrupted and nobody else sends to
its clients; `sched_test1` shows what happens otherwise.

Bounds. Two mailbox slots are enough to have an empty, a partly filled and a
full mailbox, and three blocks let one more message be sent than fits. A quota of
2 gives a task one tick that continues and one that switches; the liveness run
has the real 3. `TIME_MOD` need only be larger than the quota: 4 lets `time`
start above the quota and wrap. The slots of `sched_boot` hold, one each, a zero,
a time just below the quota, one at it, the largest one, and a request to be
rescheduled; the liveness run and the other scheduler runs have zeros. The heap's arena is small enough to be filled, overrun and
fragmented, the slots few enough to run out, and four callers enough for a free
block with busy neighbours on both sides. Callers are interchangeable, and so
are message blocks: symmetry is used in the safety runs only. `heap` and
`heap_arena` may stop (a panic, or every caller refused), hence no deadlock
check there; the scheduler's runs check deadlock.

Three slots and four entries give a list every shape the code tells apart: empty,
one entry, an entry at either end and one between two others; three pushes are
the fewest that show the order of a queue. A terminal buffer of 3 can be full,
partly read and erased, and a read of 4 is larger than it, one of 1 smaller. In
`tty` there is one reader because each open file has an offset of its own: two
readers would both read a character, which `ReadOnce` is not about.

In `heap` and in `tty` the parts share no state, so each is explored while the
others rest where they started: every behaviour of a part is there, and no
product of their states.

Three programs let one exit while another is loaded and the third comes to a
bitmap with holes; five frames are too few for them all, so that `alloc_page`
finds none. Four frames to a word put frames of two programs in one word, which is
what the store of a stale word needs. The images have code and data on
neighbouring pages, an empty segment at the end, zeros only, and more pages than
the array of pages has places for. In `tty` the screen has
an edge on each side of every cell; `MAX_DRIFT` 1 lets tasks that overlap take
the cursor one past each edge, where all tests act. `MAX_PARTS` is 3
instead of 8 and one path is longer. Two descriptors are enough for a failed open
between two good ones.

Fairness (`FairSpec` of `Sched`): weak fairness of `TimerIrq`, since the interval timer
never stops and no handler masks it for ever; strong fairness of each task's
next step, since a task that gets the processor again and again executes
instructions: a quantum is much longer than any one step. Nothing is assumed of
the keyboard. In `Tty`, weak fairness of each reader's step: a task inside
`tty_read` stays runnable, and `RunsEventually` is what the scheduler promises
such a task.

## 5. Proofs

All proofs hold for every value of the constants under the named assumptions of
the modules (`TaskAssumption`, `RingAssumption`, `ArenaAssumption`, ...).

**Scheduler** (`SchedProofs`). `SchedInv` strengthens the properties with: every
task occurs once in the ring, the ring starts with the idle task, the idle task
is runnable and never leaves its loop, and a DQ_TEST message carries the task to
answer. It is needed because `sched_schedule` returns to a task that just went
to sleep or exited when it finds no other; with the idle task on the ring
`AlwaysFound` shows it always finds one. `VictimFacts` shows that the only task
ever deleted is the current one, so the second search for a victim
(`schedule.c:50-53`) never finds any. `SleepersKept` carries the argument about
wake-ups: a task sleeps only after seeing an empty mailbox with the interrupts
disabled, so a message it has not been woken for belongs to a sender that is
between its increment and its wake-up. `SchedSafe` is the conjunction;
`QuotaAlwaysHonoured` holds for whatever the slots held. Its invariant, `QuotaInv`,
says that a task past its first quantum waits with a `time` of 0 and without a
request, unless it is between the two halves of a `sched_yield`, and that while it
runs `time` is the number of ticks of its quantum. In a first quantum only a bound is
left. It may end at its first tick, against `defines.h:13`, if the slot held a
`time` of `TASK_QUOTA - 1` or a request; and a `time` that starts at its largest
value wraps once, which gives the task one tick more than the quota.

**Heap** (`HeapProofs`, with `ListLemmas` for sequences of blocks). `SInv`, the
invariant of the list alone, says that it starts at `kheap_start_addr`, is tiled
and sorted, has no two free neighbours and fits its slots. Coalescing is what makes the
rest work: since no free block has a free left neighbour, `Steal` and `Lend`
are unreachable, and with them the unsigned subtraction that could underflow.
`ListWellFormed` and `HeapListSafe` are that invariant and its consequences.

Who owns what is `Matched` (`BusyIsHeld`). A block of size 0 may share its address
with the block behind it, and `kfree(p)` frees the first busy block at `p`, so no
allocation has a block of its own for good. What stays is that the busy blocks and
the allocations can be paired off one to one, each allocation with a block at its
address, and of its size unless it is for zero bytes. `kmalloc` joins a pair, and
the blocks of the others stay as they are though their places in the list change.
When `kfree` frees the block of another pair, that block comes before the one of
its caller at the same address, so it is of size 0, as is the allocation it was
paired with: the two exchange their blocks and the caller's pair goes.
`NoOverlap` follows: of two blocks of a tiled list one ends before the other
starts, and the bytes of an allocation, an aligned one too, lie in its block
(`Within`). `HeapBookkeeping` counts: nothing leaks (`NoLeak`), and when the slots
run out (`FaultsWhenFull`) the blocks are half free at most, since no two free ones
are neighbours (`HalfBusy`), which is `FaultsOnlyWhenFragmented`.

`HeapImplementsAllocator` maps each step of the heap to one of the allocator or to
a stutter: a region handed out is disjoint from those held because `NoOverlap`
holds after the step too.

**Lists** (`SlistProofs`). Pointers that agree with their neighbours do not make
a list: a separate ring would agree as well. The invariant therefore says that
the valid slots are the elements of one sequence without repetition whose
neighbours are the links (`IsSequence`), and each operation is shown to insert
into or remove from that sequence. `LinksAlwaysAgree` follows. `SlistIsAList` is
the refinement of `OrderedList`: what `Walk` reads off the links is that sequence,
since there is only one walk (`OneWalk`). `Places` and `OperationsMap` add where: the
new slot is next to the one it was given, or at the end the code uses when it was
given none, and the slot deleted is the one given.

`ClistProofs` does the same for the ring, at each store of an insertion: `Ring` is a
numbering of the linked entries that follows the links round to the head, and
`Inserting` says which stores have been done and that the entry being inserted is
not yet on it. `ClistSafe` follows: a walk in the middle of an insertion sees
entries with their data, in the ring's order, and comes back to the head. The place of
each entry on the walk is shown by taking the first that is wrong (`NatMin`).
`ClistKeepsOrder` compares the rings before and after a step. `ListsSafe` puts
the two libraries together, as the run has them.

**TTY** (`TtyProofs`). The invariant adds to the types that a reader in the middle
of a read still wants something; `TtySafe` rests on the offset having passed
the test `tty.c:254`, which later interrupts cannot undo since the size of the
buffer, not its end, bounds the access. `TtyReadsOnce` assumes one reader
(`OneReader`), as the run does: between any two of the reader's accesses every cell
from its offset to the end of what was typed is unread (`Fresh`), whatever is typed
or erased meanwhile.

**Mailboxes** (`SchedProofs`). Assumption: no kernel task sends as `test1` does
(`KernelClients = {}`); the run `sched_test1` shows that it is needed.
`MailInv` adds to `SchedInv`: only the deferred queue is ever inside a plain
`ksend`, and only towards a client (`Mails`); from its test to its store there is
room in that mailbox, because only the owner, which takes, can change the count
meanwhile (`Room`); a receiver that goes on to read has something to read, and
stores back a count it loaded from a mailbox that was not empty (`Reads`,
`Loads`). `MailboxBounds`
gives the bounds of the count and of every copy; `SleepersWakeToMail` that a task
is only woken when something is in its mailbox (`Wakes`, `Sleeps`).

**Programs** (`ProgramsProofs`). `PInv` says of the frame under way that nobody else
has it (`FrameFresh`), and of the word the loader holds that it has the bit of
every frame still marked (`OldCovers`): deletions only clear bits meanwhile, so
the store may leave a free frame marked, but never marks a used one as free. `FramesOwned` follows, and `ProgramsTyped`. `FInv` adds that the pages
`pages_count` counts of a segment cover what the copy and the fill touch, and are
bound when the copy comes, unless one was refused, since a deletion only unbinds
in the table of its own program: `CopiesBoundPages`. `KInv` adds what
the frames hold; since segments do not share pages, a copy does not disturb an
earlier one: `ProgramsStayIntact`.

**Terminal** (`TtyProofs`). `EdgesWatched`: whenever the cursor is off the screen at
an edge, some task still has to come to the test of that edge. It is not true of
one task's own characters only, hence a statement over all writers; it gives
`CursorComesBack`. `AloneSound` carries `PrintsOnScreen`.

**File system** (`VfsProofs`). `VfsInv` says that a node is what its inode says it is,
whoever made it (`NodesOK`): so the length a node was made with is that of its
directory, but for `/dev`, which may have one device more than when it was
mounted. From that a component leads where the tree says unless it asks devfs for
what is not there (`PartFollows`), and so does a path as long as it has not gone on
behind `/dev` (`PathFollows`, by taking the first component that goes astray). Behind
`/dev` a path is at `/dev`, at a device it has mentioned, or nowhere, and stays so
(`BehindDev`, `PastDev`); devices have nothing in them, so a path that does go on
asks in vain (`PassesInVain`). A device registered later changes only what `/dev`
adds at the end of a path (`BranchesAgree`, `StaysInDev`, `NamedStays`): a descriptor
opened earlier keeps standing for what its path named. `MadeAndDeleted` shows that an
entry put behind the tail and deleted again leaves the table as it was, the empty
table included. `VfsSound` is the result, for any image and paths, of
which the code looks at the first `MAX_PARTS` components. It assumes `OneLateDevice`: `pci_init` is the only task that registers a device
(`dev/pci.c:118`), one. With two the theorem would be false: the loop of
`resolve_path` tries one entry more than the node's length (`vfs/node.c:44`) and
would not reach the second.

**Compositions.** `ListsSafe`, `MemorySafe` and `FilesSafe` carry these results to the
specifications the runs check, `MCLists`, `MCMemory` and `MCFiles`: each step of
those is a step of one part and a stutter of the others.

Induction over the length of a list or a path is by the least counterexample
(`NatMin`), and the recursive functions `Parts`, `Branch` and the walks are shown to
satisfy their equations (`PartsIs`, `BranchIs`, `WalkExists`).

Only model-checked: liveness and everything under fairness (`RunsEventually`,
`PendingHandled`, `LineRead`), which is out of the prover's reach. The runs that are
meant to fail have no theorem.

## 6. What is not modelled

* Registers and stacks of a context switch, page directories beyond the one user
  table they hold, `bind_addr` and `mmu_dump`.
* What the cells of the screen hold, colours, the serial port, formatting and the
  string functions: no control depends on them. The data of read and write.
* The enumeration of the PCI bus and the sizing of BARs, which are accesses to
  configuration ports.
* `kmalloc` calls that overlap (a keyboard interrupt in the middle of a task's
  call): the list is corrupt afterwards, and nothing is promised of it.
* What goes on after an allocation of the loader or of `task_create` failed, or after
  the array of pages overflowed: the model stops there.
* What `msg_buff` of an unzeroed slot held: nobody reads it before it is written,
  but in the runs that are meant to fail. It is taken as zeroed.
* More than one task that loads programs or creates tasks at a time; a deletion
  of the last entry of `task_list` in the middle of an insertion.
* A kernel task inside `resolve_path`, as in `tests.c`, with the interrupts
  enabled: `Vfs` has programs, which come by system calls.
* A flush of the keyboard's queue when it is empty, and an answer before the
  first command.
* `start.asm`, the build, and user programs other than as clients of the system
  calls.

Assumptions taken from outside the models: page 0 is unmapped once `start.asm` has
handed over, all gates are interrupt gates, the build is the default one, and
program files are what `prog/linker.ld` lays out (segments start at a page and
share none).
