------------------------------- MODULE Sched -------------------------------
(***************************************************************************)
(* The scheduler and the message passing of RubiKernel: scheduler/task.c,  *)
(* scheduler/schedule.c, the EXIT, KSEND and KRECV system calls of         *)
(* DT/syscall.c, the deferred-queue task of kthread/dq.c and the keyboard  *)
(* interrupt that feeds it.                                                *)
(*                                                                         *)
(* One processor.  Every handler is an interrupt gate, so a system call or *)
(* an interrupt is one step; the code of a kernel task runs with the       *)
(* interrupts enabled and is cut at each access to shared state.  A task   *)
(* that gives the processor up inside a system call is resumed with the    *)
(* interrupts enabled (schedule.c:57 forces the IF bit), so the rest of    *)
(* krecive, and the rest of tty_read with its sched_yield, is cut too.     *)
(*                                                                         *)
(* task_create zeroes nothing and sets neither time nor reschedule         *)
(* (task.c:25-35): a task starts with what its slot held, one of Leftovers.*)
(* The mailbox is another matter: only a slot that was never counted in    *)
(* msg_count_in could show what it held, and it is taken as zeroed.        *)
(***************************************************************************)
EXTENDS Integers, Sequences, FiniteSets

CONSTANTS
  Idle,               \* infiloop, the head of task_list
  Dq,                 \* the deferred-queue task
  Workers,            \* tasks that run and exit (PCI_init_task, test2 .. test5)
  Readers,            \* programs that read a line of the terminal and exit
  SyscallClients,     \* tasks that do test1's exchange through system calls
  KernelClients,      \* test1 itself: a kernel task, its ksend is a plain call
  NoTask,             \* NULL as a task
  BootRing,           \* task_list as create_kernel_tasks leaves it
  TASK_QUOTA,
  TIME_MOD,           \* task_t.time is a uint32_t: 2^32
  Leftovers,          \* what time and reschedule may hold in the unzeroed slots
  TASK_MSG_BUFF_SIZE,
  Blocks,             \* the heap blocks the messages' data may lie in (a bound)
  NoBlock             \* NULL as a block

Clients == SyscallClients \cup KernelClients
Task    == {Idle, Dq} \cup Workers \cup Readers \cup Clients
Slots   == 0 .. (TASK_MSG_BUFF_SIZE - 1)

ASSUME TaskAssumption ==
  /\ NoTask \notin Task
  /\ Idle # Dq
  /\ {Idle, Dq} \cap (Workers \cup Readers \cup Clients) = {}
  /\ Workers \cap Clients = {}
  /\ Readers \cap (Workers \cup Clients) = {}
  /\ SyscallClients \cap KernelClients = {}
ASSUME RingAssumption ==
  /\ BootRing \in Seq(Task)
  /\ BootRing # << >>
  /\ BootRing[1] = Idle
  /\ \A t \in Task : \E i \in DOMAIN BootRing : BootRing[i] = t
  /\ \A i, j \in DOMAIN BootRing : BootRing[i] = BootRing[j] => i = j
ASSUME QuotaAssumption  == TASK_QUOTA \in Nat \ {0}
ASSUME TimeAssumption   == TIME_MOD \in Nat /\ TIME_MOD > TASK_QUOTA
ASSUME LeftoverAssumption ==
  Leftovers \subseteq [Task -> [time : 0 .. (TIME_MOD - 1), reschedule : BOOLEAN]]
ASSUME BufferAssumption == TASK_MSG_BUFF_SIZE \in Nat \ {0}
ASSUME BlockAssumption  == NoBlock \notin Blocks

UNINTERRUPTABLE == "uninterruptable"
RUNNING         == "running"
KILLING         == "killing"
INTERRUPTABLE   == "interruptable"
Status == {UNINTERRUPTABLE, RUNNING, KILLING, INTERRUPTABLE}

(* A message_t.  `from` is the reply address a DQ_TEST message carries in  *)
(* its data; NoMsg is a zeroed slot, and what a read outside msg_buff      *)
(* yields.                                                                 *)
Message == [type : {"none", "sched", "test", "reply"},
            data : Blocks \cup {NoBlock},
            from : Task \cup {NoTask}]
NoMsg   == [type |-> "none", data |-> NoBlock, from |-> NoTask]

VARIABLES
  ring,      \* task_list, from its head
  current,   \* current_task
  status,    \* task_t.status
  time,      \* task_t.time
  reschedule, \* task_t.reschedule
  count,     \* task_t.msg_count_in
  buff,      \* task_t.msg_buff
  pc,        \* where each task's code stands
  msg,       \* the message_t a task received into
  out,       \* the message_t a task is sending
  reg,       \* the register a task loaded msg_count_in into
  live,      \* the message data allocated on the heap
  (* Auxiliary: written by sched_schedule, read by no guard.               *)
  ticks,     \* calls of sched_schedule since the current task got the processor
  fresh      \* the tasks whose first quantum has not ended

quantumVars == <<time, reschedule, ticks, fresh>>
schedVars == <<ring, current, status, quantumVars>>
mailVars  == <<count, buff>>
taskVars  == <<pc, msg, out, reg>>
vars      == <<ring, current, status, time, reschedule, ticks, fresh,
               count, buff, pc, msg, out, reg, live>>

Labels == {"idle", "start", "syscall_ksend",
           "check", "index", "copy", "load_in", "store_in", "wake",
           "recv", "read", "load_de", "store_de", "handle", "clean",
           "tty_read", "look", "mark", "int",
           "exit", "done"}

Start(t) == CASE t = Idle      -> "idle"
              [] t = Dq        -> "recv"
              [] t \in Clients -> "start"
              [] t \in Readers -> "tty_read"
              [] OTHER         -> "exit"

Init ==
  /\ ring    = BootRing
  /\ current = NoTask
  /\ status  = [t \in Task |-> RUNNING]
  /\ \E f \in Leftovers : /\ time       = [t \in Task |-> f[t].time]
                           /\ reschedule = [t \in Task |-> f[t].reschedule]
  /\ ticks   = 0
  /\ fresh   = Task
  /\ count   = [t \in Task |-> 0]
  /\ buff    = [t \in Task |-> [i \in Slots |-> NoMsg]]
  /\ pc      = [t \in Task |-> Start(t)]
  /\ msg     = [t \in Task |-> NoMsg]
  /\ out     = [t \in Task |-> NoMsg]
  /\ reg     = [t \in Task |-> 0]
  /\ live    = {}

----------------------------------------------------------------------------
(* The run queue.                                                          *)

OnRing(t) == \E i \in DOMAIN ring : ring[i] = t

\* The task k places after position i, around the ring.
After(i, k) == ring[((i + k - 1) % Len(ring)) + 1]

(* Definitions with a suffix _M are slips the code could have had; the     *)
(* mutation runs put them in the place of the definition that follows.     *)

\* The search takes the next task whatever its status.
FindByStatusFrom_M(start, s, st) ==
  {t \in Task : \E i \in DOMAIN ring : ring[i] = start /\ t = After(i, 1)}

\* task_find_by_status_from: the search begins after `start` and does not look
\* at `start` itself unless it is alone.  The empty set is NULL.
FindByStatusFrom(start, s, st) ==
  {t \in Task :
     \E i \in DOMAIN ring, k \in 1 .. (IF Len(ring) = 1 THEN 1 ELSE Len(ring) - 1) :
        /\ ring[i] = start
        /\ t = After(i, k)
        /\ st[t] = s
        /\ \A j \in 1 .. (k - 1) : st[After(i, j)] # s}

\* clist_delete on task_list, of a task that is not its head.
Unlink(r, t) ==
  LET i == CHOOSE i \in DOMAIN r : r[i] = t
  IN  [j \in 1 .. (Len(r) - 1) |-> IF j < i THEN r[j] ELSE r[j + 1]]

\* Nothing is ever deleted.
Victims_M(st) == {}

\* The task whose memory sched_schedule frees while it switches.
Victims(st) ==
  IF current # NoTask /\ st[current] = KILLING
  THEN {current}
  ELSE FindByStatusFrom(ring[1], KILLING, st)

\* task_t.time does not wrap.
Continue_M(st, rs) ==
  /\ time'       = [time EXCEPT ![current] = @ + 1]
  /\ ticks'      = ticks + 1
  /\ status'     = st
  /\ reschedule' = rs
  /\ UNCHANGED <<ring, current, fresh>>

\* sched_schedule returns to the task it interrupted.
Continue(st, rs) ==
  /\ time'       = [time EXCEPT ![current] = (@ + 1) % TIME_MOD]
  /\ ticks'      = ticks + 1
  /\ status'     = st
  /\ reschedule' = rs
  /\ UNCHANGED <<ring, current, fresh>>

\* The request to be rescheduled outlives the switch.
Cleared_M(rs) == rs

\* The quantum is over, and so is the request to end it.
Cleared(rs) == IF current = NoTask THEN rs ELSE [rs EXCEPT ![current] = FALSE]

\* What a quantum leaves behind when it ends (schedule.c:27-28).
EndQuantum(rs) ==
  /\ time'       = IF current = NoTask THEN time ELSE [time EXCEPT ![current] = 0]
  /\ reschedule' = Cleared(rs)
  /\ ticks'      = 0
  /\ fresh'      = fresh \ {current}

\* The search always starts at the head of the list.
Switch_M(st, rs) ==
  LET found == FindByStatusFrom(ring[1], RUNNING, st)
  IN  /\ EndQuantum(rs)
      /\ status' = st
      /\ IF found = {} THEN UNCHANGED current ELSE current' \in found
      /\ UNCHANGED ring

\* sched_schedule looks for another task and, when there is one, switches.
Switch(st, rs) ==
  LET found == FindByStatusFrom(IF current = NoTask THEN ring[1] ELSE current,
                                RUNNING, st)
  IN  /\ EndQuantum(rs)
      /\ status' = st
      /\ IF found = {}
         THEN UNCHANGED <<ring, current>>
         ELSE /\ current' \in found
              /\ IF Victims(st) = {}
                 THEN UNCHANGED ring
                 ELSE \E t \in Victims(st) : ring' = Unlink(ring, t)

\* sched_schedule, entered with the statuses st and the requests rs.
Schedule(st, rs) ==
  IF current # NoTask /\ (time[current] + 1) % TIME_MOD < TASK_QUOTA /\ ~rs[current]
  THEN Continue(st, rs)
  ELSE Switch(st, rs)

\* sched_yield by t with the interrupts disabled: the request and int 0x20 are
\* one step.
Yield(t, st) == Schedule(st, [reschedule EXCEPT ![t] = TRUE])

\* The timer interrupt, and kernel_main's own sched_yield while there is no
\* current task to ask for.
TimerIrq == Schedule(status, reschedule) /\ UNCHANGED <<mailVars, taskVars, live>>

----------------------------------------------------------------------------
(* Messages.                                                               *)

\* kmalloc of a message's data.  Nobody looks at its NULL before writing through
\* it, which stops the kernel: the model goes no further than Blocks.
Kmalloc == Blocks \ live

Slot(t, i) == IF i \in Slots THEN buff[t][i] ELSE NoMsg

\* The mailbox is never full.
Refuses_M(t) == ~OnRing(t)

Refuses(t) == ~OnRing(t) \/ count[t] = TASK_MSG_BUFF_SIZE

\* A sleeping receiver is left asleep.
Woken_M(t) == status

Woken(t) == [status EXCEPT ![t] = IF @ = INTERRUPTABLE THEN RUNNING ELSE @]

\* The receiver is woken and the message not counted.
Ksend_M(t, m) ==
  IF Refuses(t)
  THEN UNCHANGED <<count, buff, status>>
  ELSE /\ buff'   = [buff EXCEPT ![t] = [i \in Slots |-> IF i = count[t] THEN m ELSE @[i]]]
       /\ status' = Woken(t)
       /\ UNCHANGED count

\* ksend with the interrupts disabled.  A refused message is dropped and its
\* data stays allocated.
Ksend(t, m) ==
  IF Refuses(t)
  THEN UNCHANGED <<count, buff, status>>
  ELSE /\ buff'   = [buff EXCEPT ![t] = [i \in Slots |-> IF i = count[t] THEN m ELSE @[i]]]
       /\ count'  = [count EXCEPT ![t] = @ + 1]
       /\ status' = Woken(t)

\* cint_keyboard -> tty_keyboard_ih_low: a key queues a deferred call.
KeyboardIrq ==
  \E b \in Kmalloc :
     /\ live' = live \cup {b}
     /\ Ksend(Dq, [type |-> "sched", data |-> b, from |-> NoTask])
     /\ UNCHANGED <<ring, current, quantumVars, taskVars>>

At(t, l)   == current = t /\ pc[t] = l
Goto(t, l) == pc' = [pc EXCEPT ![t] = l]

(* krecive, reached through SYSCALL_KRECV. *)

AfterKrecv(t) == IF t = Dq THEN "handle" ELSE "clean"

\* A message is there: read and count down inside the system call.
KrecvReady(t) ==
  /\ At(t, "recv")
  /\ count[t] # 0
  /\ msg'   = [msg EXCEPT ![t] = Slot(t, count[t] - 1)]
  /\ count' = [count EXCEPT ![t] = @ - 1]
  /\ Goto(t, AfterKrecv(t))
  /\ UNCHANGED <<schedVars, buff, out, reg, live>>

KrecvBlock(t) ==
  /\ At(t, "recv")
  /\ count[t] = 0
  /\ Yield(t, [status EXCEPT ![t] = INTERRUPTABLE])
  /\ Goto(t, "read")
  /\ UNCHANGED <<mailVars, msg, out, reg, live>>

\* The rest of a krecive that blocked, with the interrupts enabled.
KrecvRead(t) ==
  /\ At(t, "read")
  /\ msg' = [msg EXCEPT ![t] = Slot(t, count[t] - 1)]
  /\ Goto(t, "load_de")
  /\ UNCHANGED <<schedVars, mailVars, out, reg, live>>

KrecvLoad(t) ==
  /\ At(t, "load_de")
  /\ reg' = [reg EXCEPT ![t] = count[t]]
  /\ Goto(t, "store_de")
  /\ UNCHANGED <<schedVars, mailVars, msg, out, live>>

KrecvStore(t) ==
  /\ At(t, "store_de")
  /\ count' = [count EXCEPT ![t] = reg[t] - 1]
  /\ Goto(t, AfterKrecv(t))
  /\ UNCHANGED <<schedVars, buff, msg, out, reg, live>>

(* ksend called by a kernel task, with the interrupts enabled. *)

Target(s)    == IF s = Dq THEN msg[s].from ELSE Dq
AfterSend(s) == IF s = Dq THEN "clean" ELSE "recv"

KsendCheck(s) ==
  /\ At(s, "check")
  /\ Goto(s, IF Refuses(Target(s)) THEN AfterSend(s) ELSE "index")
  /\ UNCHANGED <<schedVars, mailVars, msg, out, reg, live>>

\* The message goes one slot too far.
KsendIndex_M(s) ==
  /\ At(s, "index")
  /\ reg' = [reg EXCEPT ![s] = count[Target(s)] + 1]
  /\ Goto(s, "copy")
  /\ UNCHANGED <<schedVars, mailVars, msg, out, live>>

KsendIndex(s) ==
  /\ At(s, "index")
  /\ reg' = [reg EXCEPT ![s] = count[Target(s)]]
  /\ Goto(s, "copy")
  /\ UNCHANGED <<schedVars, mailVars, msg, out, live>>

KsendCopy(s) ==
  /\ At(s, "copy")
  /\ buff' = [buff EXCEPT ![Target(s)] =
                [i \in Slots |-> IF i = reg[s] THEN out[s] ELSE @[i]]]
  /\ Goto(s, "load_in")
  /\ UNCHANGED <<schedVars, count, msg, out, reg, live>>

KsendLoad(s) ==
  /\ At(s, "load_in")
  /\ reg' = [reg EXCEPT ![s] = count[Target(s)]]
  /\ Goto(s, "store_in")
  /\ UNCHANGED <<schedVars, mailVars, msg, out, live>>

KsendStore(s) ==
  /\ At(s, "store_in")
  /\ count' = [count EXCEPT ![Target(s)] = reg[s] + 1]
  /\ Goto(s, "wake")
  /\ UNCHANGED <<schedVars, buff, msg, out, reg, live>>

KsendWake(s) ==
  /\ At(s, "wake")
  /\ status' = Woken(Target(s))
  /\ Goto(s, AfterSend(s))
  /\ UNCHANGED <<ring, current, quantumVars, mailVars, msg, out, reg, live>>

----------------------------------------------------------------------------
(* The tasks.                                                              *)

\* dq_task: run the deferred call, or answer a DQ_TEST message.
DqHandle(t) ==
  /\ t = Dq
  /\ At(t, "handle")
  /\ IF msg[t].type = "test"
     THEN \E b \in Kmalloc :
            /\ live' = live \cup {b}
            /\ out' = [out EXCEPT ![t] = [type |-> "reply", data |-> b, from |-> t]]
            /\ Goto(t, "check")
     ELSE UNCHANGED <<live, out>> /\ Goto(t, "clean")
  /\ UNCHANGED <<schedVars, mailVars, msg, reg>>

\* kfree(msg.data), the receiver's duty: dq_task loops, a client goes on to exit.
Clean(t) ==
  /\ At(t, "clean")
  /\ live' = live \ {msg[t].data}
  /\ Goto(t, IF t = Dq THEN "recv" ELSE "exit")
  /\ msg' = [msg EXCEPT ![t] = NoMsg]
  /\ out' = [out EXCEPT ![t] = NoMsg]
  /\ reg' = [reg EXCEPT ![t] = 0]
  /\ UNCHANGED <<schedVars, mailVars>>

\* test1: allocate the request that carries its own tid.
ClientStart(t) ==
  /\ t \in Clients
  /\ At(t, "start")
  /\ \E b \in Kmalloc :
       /\ live' = live \cup {b}
       /\ out' = [out EXCEPT ![t] = [type |-> "test", data |-> b, from |-> t]]
  /\ Goto(t, IF t \in KernelClients THEN "check" ELSE "syscall_ksend")
  /\ UNCHANGED <<schedVars, mailVars, msg, reg>>

SyscallKsend(t) ==
  /\ At(t, "syscall_ksend")
  /\ Ksend(Dq, out[t])
  /\ Goto(t, "recv")
  /\ UNCHANGED <<ring, current, quantumVars, msg, out, reg, live>>

SyscallExit(t) ==
  /\ At(t, "exit")
  /\ Yield(t, [status EXCEPT ![t] = KILLING])
  /\ Goto(t, "done")
  /\ UNCHANGED <<mailVars, msg, out, reg, live>>

(* A program in tty_read, reached through SYSCALL_READ.  What the input      *)
(* buffer holds is Tty's matter: here a look finds the rest of the line, or  *)
(* it finds nothing.                                                         *)

\* The first looks, inside the system call, up to the line or to the first
\* sched_yield, by a task that stays RUNNING.
TtyRead(t) ==
  /\ At(t, "tty_read")
  /\ \/ Goto(t, "exit") /\ UNCHANGED schedVars
     \/ Goto(t, "look") /\ Yield(t, status)
  /\ UNCHANGED <<mailVars, msg, out, reg, live>>

\* A later look, with the interrupts enabled.
TtyLook(t) ==
  /\ At(t, "look")
  /\ Goto(t, "exit") \/ Goto(t, "mark")
  /\ UNCHANGED <<schedVars, mailVars, msg, out, reg, live>>

(* sched_yield with the interrupts enabled: an interrupt may come between the *)
(* request and the int 0x20.                                                  *)

YieldMark(t) ==
  /\ At(t, "mark")
  /\ reschedule' = [reschedule EXCEPT ![t] = TRUE]
  /\ Goto(t, "int")
  /\ UNCHANGED <<ring, current, status, time, ticks, fresh, mailVars, msg, out, reg, live>>

YieldInt(t) ==
  /\ At(t, "int")
  /\ Schedule(status, reschedule)
  /\ Goto(t, "look")
  /\ UNCHANGED <<mailVars, msg, out, reg, live>>

TaskStep(t) ==
  \/ KrecvReady(t) \/ KrecvBlock(t) \/ KrecvRead(t) \/ KrecvLoad(t) \/ KrecvStore(t)
  \/ KsendCheck(t) \/ KsendIndex(t) \/ KsendCopy(t)
  \/ KsendLoad(t) \/ KsendStore(t) \/ KsendWake(t)
  \/ DqHandle(t) \/ Clean(t)
  \/ TtyRead(t) \/ TtyLook(t) \/ YieldMark(t) \/ YieldInt(t)
  \/ ClientStart(t) \/ SyscallKsend(t) \/ SyscallExit(t)

Next == TimerIrq \/ KeyboardIrq \/ \E t \in Task : TaskStep(t)

Spec == Init /\ [][Next]_vars

\* The interval timer never stops, and a task that gets the processor again and
\* again executes instructions: a quantum is longer than any one step.
Fairness == WF_vars(TimerIrq) /\ \A t \in Task : SF_vars(TaskStep(t))

FairSpec == Spec /\ Fairness
----------------------------------------------------------------------------
(* Properties.                                                             *)

TypeOK ==
  /\ ring \in Seq(Task)
  /\ current \in Task \cup {NoTask}
  /\ status \in [Task -> Status]
  /\ time \in [Task -> 0 .. (TIME_MOD - 1)]
  /\ reschedule \in [Task -> BOOLEAN]
  /\ ticks \in Nat
  /\ fresh \subseteq Task
  /\ count \in [Task -> Int]
  /\ buff \in [Task -> [Slots -> Message]]
  /\ pc \in [Task -> Labels]
  /\ msg \in [Task -> Message]
  /\ out \in [Task -> Message]
  /\ reg \in [Task -> Int]
  /\ live \in SUBSET Blocks

\* The processor is only ever given to a task that is runnable and linked in
\* task_list: what krecive asserts on both sides of its yield (schedule.c:98
\* and 107), and why a task that exited never executes again.
CurrentIsRunning ==
  current # NoTask => status[current] = RUNNING /\ OnRing(current)

\* Nobody sleeps on a mailbox with a message in it, unless the sender of that
\* message has yet to reach the wake-up at the end of its ksend
\* (schedule.c:88): the check-and-sleep of krecive cannot miss a message.
NoLostWakeup ==
  \A t \in Task : status[t] = INTERRUPTABLE /\ count[t] # 0
                  => \E s \in Task : pc[s] = "wake" /\ Target(s) = t

\* msg_count_in is a count of messages that fits msg_buff (task.h:99-100).
CountInRange == \A t \in Task : count[t] \in 0 .. TASK_MSG_BUFF_SIZE

\* No ksend writes outside msg_buff, though the fullness test (schedule.c:82)
\* and the memcpy (schedule.c:86) are apart.
CopyInBounds == \A s \in Task : pc[s] = "copy" => reg[s] \in Slots

\* A task that called exit is off task_list as soon as another one runs: no
\* zombie is ever left for the scheduler to find (schedule.c:46-53).
NoZombies == \A t \in Task : OnRing(t) => status[t] # KILLING

\* The receiver cleans each message's data once (task.h:77): what is freed at
\* dq.c:36 is still allocated.
CleanedOnce ==
  \A t \in Task : pc[t] = "clean" => msg[t].data \in live \cup {NoBlock}

\* A task that sleeps in krecive is woken only when there is a message for it,
\* because krecive does not look again (schedule.c:101-109).
NoSpuriousWake ==
  [][\A t \in Task : status[t] = INTERRUPTABLE /\ status'[t] = RUNNING
                      => count'[t] > 0]_vars

\* The current task loses the processor after TASK_QUOTA ticks of the quantum,
\* by a step of its own (it blocked, exited or yielded) or, when a tick comes
\* between the two halves of its sched_yield, because it asked for it.
LosesItAsDue ==
  ticks = TASK_QUOTA - 1 \/ pc[current] = "int" \/ pc'[current] # pc[current]

\* From its second quantum on a task has the processor for TASK_QUOTA ticks,
\* counted from the switch to it, no fewer unless it gives it up and no more
\* (schedule.c:21-28): a wake-up or a message preempts nobody, a request to be
\* rescheduled that a tick has already served costs the task nothing of the next
\* quantum, and no time is carried over.  The first quantum, which starts with
\* what the slot held, is at most one tick too long.
QuotaHonoured ==
  [][current # NoTask =>
       /\ current' # current /\ current \notin fresh => LosesItAsDue
       /\ current \notin fresh => ticks' < TASK_QUOTA
       /\ ticks' <= TASK_QUOTA]_vars

\* Round robin: a runnable task gets the processor, whatever the others do.
RunsEventually ==
  \A t \in Task : status[t] = RUNNING ~> current = t

\* A message for the deferred queue gets the deferred queue to handle something.
PendingHandled == count[Dq] # 0 ~> pc[Dq] = "handle"
=============================================================================
