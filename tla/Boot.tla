-------------------------------- MODULE Boot --------------------------------
(***************************************************************************)
(* kernel_main up to its sched_yield, against the interrupts it enables on *)
(* the way: idt_init ends with enable_int (DT/dt.c:156) and pic_enable     *)
(* lets the timer and the keyboard through, while devices and tasks have   *)
(* still to be made.                                                       *)
(***************************************************************************)
EXTENDS Integers, Sequences

CONSTANTS
  Boot,   \* the steps of kernel_main, in order
  NoTask

VARIABLES
  step,          \* how many steps are done
  int_enabled,   \* the interrupt flag of the processor
  irq_enabled,   \* the mask of the interrupt controller
  devs,          \* dev_list: per device, what its list of handlers is
  tasks,         \* task_list: per task, its status
  ktasks,        \* the table of kernel tasks
  current_task,
  panic          \* an exception stopped the kernel

lists == <<devs, tasks, ktasks>>
vars  == <<step, int_enabled, irq_enabled, lists, current_task, panic>>

\* A handler list is EMPTY (a null head), GARBAGE (the slot is not zeroed, except
\* the first of a list) or READY; so is ktasks.  A status is TASK_UNINTERRUPTABLE
\* (BLOCKED), TASK_RUNNING (READY), or what the slot held.
EMPTY == "empty"
GARBAGE == "garbage"
READY == "ready"
BLOCKED == "blocked"

Init ==
  /\ step = 0
  /\ int_enabled = FALSE /\ irq_enabled = FALSE
  /\ devs = <<>> /\ tasks = <<>>
  /\ ktasks = EMPTY
  /\ current_task = NoTask
  /\ panic = FALSE

----------------------------------------------------------------------------
(* kernel_main.                                                            *)

\* The processor is still kernel_main's: it is nobody's once a task has run.
Does(name) ==
  /\ ~panic /\ current_task = NoTask
  /\ step < Len(Boot) /\ Boot[step + 1] = name
  /\ step' = step + 1

\* What interrupts do not see: the memory manager, gdt_init, the file systems.
Quiet ==
  /\ Does("init_memory_manager") \/ Does("gdt_init") \/ Does("initrd_init")
  /\ UNCHANGED <<int_enabled, irq_enabled, lists, current_task, panic>>

\* pic_init masks everything first.
idt_init ==
  /\ Does("idt_init")
  /\ int_enabled' = TRUE /\ irq_enabled' = FALSE
  /\ UNCHANGED <<lists, current_task, panic>>

pic_enable ==
  /\ Does("pic_enable")
  /\ irq_enabled' = TRUE
  /\ UNCHANGED <<int_enabled, lists, current_task, panic>>

\* keyboard_init and tty_init: the device is in the list, then it has its handler.
dev_create ==
  /\ Does("dev_create")
  /\ devs' = Append(devs, IF devs = <<>> THEN EMPTY ELSE GARBAGE)
  /\ UNCHANGED <<int_enabled, irq_enabled, tasks, ktasks, current_task, panic>>

SetHandler ==
  /\ Does("ih_list")
  /\ devs' = [devs EXCEPT ![Len(devs)] = READY]
  /\ UNCHANGED <<int_enabled, irq_enabled, tasks, ktasks, current_task, panic>>

\* task_create: the task is in the list, then it has a status, not to be run; its
\* caller lets it run.
task_create ==
  /\ Does("task_create")
  /\ tasks' = Append(tasks, IF tasks = <<>> THEN EMPTY ELSE GARBAGE)
  /\ UNCHANGED <<int_enabled, irq_enabled, devs, ktasks, current_task, panic>>

SetStatus ==
  /\ \/ Does("TASK_UNINTERRUPTABLE") /\ tasks' = [tasks EXCEPT ![Len(tasks)] = BLOCKED]
     \/ Does("TASK_RUNNING") /\ tasks' = [tasks EXCEPT ![Len(tasks)] = READY]
  /\ UNCHANGED <<int_enabled, irq_enabled, devs, ktasks, current_task, panic>>

\* kernel_tasks_init: the table is allocated, and filled when its task is made.
SetKtasks ==
  /\ \/ Does("kmalloc ktasks") /\ ktasks' = GARBAGE
     \/ Does("ktasks[DQ]") /\ ktasks' = READY
  /\ UNCHANGED <<int_enabled, irq_enabled, devs, tasks, current_task, panic>>

enable_int ==
  /\ Does("enable_int")
  /\ int_enabled' = TRUE
  /\ UNCHANGED <<irq_enabled, lists, current_task, panic>>

----------------------------------------------------------------------------
(* Interrupts, for as long as kernel_main has the processor.               *)

\* sched_schedule with no current task: nothing is saved, and the first task to
\* run gets the processor.  The search begins after the head of the list.  A status
\* that is garbage may read as TASK_RUNNING, or as TASK_KILLING: what is no task
\* yet is deleted.
Rank(i) == IF i = 1 THEN Len(tasks) + 1 ELSE i

Schedule ==
  LET ready   == {i \in DOMAIN tasks : tasks[i] = READY}
      garbage == {i \in DOMAIN tasks : tasks[i] = GARBAGE}
      found   == {i \in ready \cup garbage : \A j \in ready : Rank(i) <= Rank(j)}
  IN  /\ \/ current_task' \in found
            /\ panic' \in IF garbage = {} THEN {FALSE} ELSE BOOLEAN
         \/ ready = {} /\ UNCHANGED <<current_task, panic>>
      /\ UNCHANGED <<int_enabled, irq_enabled, lists>>

sched_yield == Does("sched_yield") /\ Schedule

Interrupt == ~panic /\ current_task = NoTask /\ int_enabled /\ irq_enabled

cint_timer == Interrupt /\ Schedule /\ UNCHANGED step

\* dev_for_each reads the first device, dev_each_low_ih_cb the first handler of
\* each, and the terminal's sends to ktasks[KERNEL_DQ_TASK_ID]: a null pointer on
\* the way is a page fault, and garbage may be.
cint_keyboard ==
  LET faults == devs = <<>> \/ (\E i \in DOMAIN devs : devs[i] = EMPTY)
                \/ (Len(devs) = 2 /\ devs[2] = READY /\ ktasks = EMPTY)
      may    == (\E i \in DOMAIN devs : devs[i] = GARBAGE)
                \/ (Len(devs) = 2 /\ devs[2] = READY /\ ktasks = GARBAGE)
  IN  /\ Interrupt
      /\ panic' \in IF faults THEN {TRUE} ELSE IF may THEN BOOLEAN ELSE {FALSE}
      /\ UNCHANGED <<step, int_enabled, irq_enabled, lists, current_task>>

Next ==
  \/ Quiet \/ idt_init \/ pic_enable \/ dev_create \/ SetHandler
  \/ task_create \/ SetStatus \/ SetKtasks \/ enable_int \/ sched_yield
  \/ cint_timer \/ cint_keyboard

Spec == Init /\ [][Next]_vars

----------------------------------------------------------------------------
\* kernel.c:55-56: "And also we disable interrupts, because i hate timer that
\* triggers to early".  No task gets the processor before kernel_main has made
\* them all and gives it up: what comes after the step it is at is lost.
NotTooEarly == current_task # NoTask => step = Len(Boot)
=============================================================================
