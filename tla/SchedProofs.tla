---------------------------- MODULE SchedProofs ----------------------------
(***************************************************************************)
(* Proofs about Sched, for every set of tasks, quota, mailbox and heap:    *)
(* the scheduler first, the mailboxes after it.                            *)
(* SchedInv is inductive: besides the properties themselves it says that   *)
(* every task is linked once in task_list, that the idle task heads it and *)
(* that the idle task is always runnable, so that a task which blocks or   *)
(* exits always finds another one to switch to, and that a DQ_TEST message *)
(* carries the task the deferred queue is to answer.                       *)
(***************************************************************************)
EXTENDS Sched, SequenceTheorems, WellFoundedInduction, TLAPS

RingOK == /\ Len(ring) > 0
          /\ ring[1] = Idle
          /\ \A i, j \in DOMAIN ring : ring[i] = ring[j] => i = j

IdleReady == status[Idle] = RUNNING /\ pc[Idle] = "idle"

GoodMsg == {m \in Message : m.type = "test" => m.from \in Task}

SendLabels == {"check", "index", "copy", "load_in", "store_in", "wake"}

MailOK == /\ buff \in [Task -> [Slots -> GoodMsg]]
          /\ msg \in [Task -> GoodMsg]
          /\ out \in [Task -> GoodMsg]
          /\ pc[Dq] \in SendLabels => msg[Dq].from \in Task

SchedInv == /\ TypeOK /\ RingOK /\ IdleReady /\ MailOK
            /\ CurrentIsRunning /\ NoZombies /\ NoLostWakeup

----------------------------------------------------------------------------
(* The ring.                                                               *)

LEMMA LeastNat ==
  ASSUME NEW T \in SUBSET Nat, T # {}
  PROVE  \E x \in T : \A y \in T : x <= y
<1> DEFINE R == {ss \in Nat \X Nat : ss[1] < ss[2]}
<1>1. IsWellFoundedOn(R, Nat)
  BY NatLessThanWellFounded DEF OpToRel
<1>2. PICK x \in T : \A y \in T : ~(<<y, x>> \in R)
  <2> HIDE DEF R
  <2> QED  BY <1>1, WFMin
<1>3. \A y \in T : x <= y
  <2> TAKE y \in T
  <2>1. x \in Nat /\ y \in Nat /\ ~(<<y, x>> \in R)  BY <1>2
  <2>2. ~(y < x)  BY <2>1
  <2> QED  BY <2>1, <2>2
<1> QED  BY <1>3

LEMMA RingFacts ==
  ASSUME SchedInv
  PROVE  /\ ring \in Seq(Task) /\ Len(ring) \in Nat /\ DOMAIN ring = 1 .. Len(ring)
         /\ 1 \in DOMAIN ring /\ ring[1] = Idle
         /\ \A i \in DOMAIN ring : ring[i] \in Task
BY LenProperties, ElementOfSeq DEF SchedInv, TypeOK, RingOK

LEMMA AfterFacts ==
  ASSUME SchedInv, NEW i \in DOMAIN ring, NEW k \in Nat
  PROVE  /\ After(i, k) \in Task /\ OnRing(After(i, k))
         /\ i + k = Len(ring) + 1 => After(i, k) = Idle
<1>1. Len(ring) \in Nat /\ i \in 1 .. Len(ring) /\ Len(ring) > 0
  BY RingFacts
<1>2. i + k - 1 \in Nat  BY <1>1
<1>3. \A x, y \in Nat : y > 0 => x % y \in 0 .. (y - 1)  OBVIOUS
<1>4. (i + k - 1) % Len(ring) \in 0 .. (Len(ring) - 1)  BY <1>1, <1>2, <1>3
<1>5. PICK j \in 1 .. Len(ring) : j = ((i + k - 1) % Len(ring)) + 1  BY <1>1, <1>4
<1>6. After(i, k) = ring[j]  BY <1>5 DEF After
<1>7. j \in DOMAIN ring /\ ring[j] \in Task  BY RingFacts
<1>8. i + k = Len(ring) + 1 => j = 1
  <2>1. \A y \in Nat : y > 0 => y % y = 0  OBVIOUS
  <2>2. i + k = Len(ring) + 1 => i + k - 1 = Len(ring)  BY <1>1
  <2> QED  BY <1>1, <1>5, <2>1, <2>2
<1> QED  BY <1>6, <1>7, <1>8, RingFacts DEF OnRing

\* What the search finds is a task of task_list in the state it asked for.
LEMMA FoundFacts ==
  ASSUME SchedInv, NEW start, NEW s, NEW st, NEW t \in FindByStatusFrom(start, s, st)
  PROVE  t \in Task /\ st[t] = s /\ OnRing(t)
<1>1. PICK i \in DOMAIN ring, k \in 1 .. (IF Len(ring) = 1 THEN 1 ELSE Len(ring) - 1) :
         t = After(i, k) /\ st[t] = s /\ t \in Task
  BY DEF FindByStatusFrom
<1>2. k \in Nat  BY RingFacts
<1> QED  BY <1>1, <1>2, AfterFacts

\* The idle task is there to be found by any other task.
LEMMA AlwaysFound ==
  ASSUME SchedInv, NEW t \in Task, OnRing(t), t # Idle, NEW st, st[Idle] = RUNNING
  PROVE  FindByStatusFrom(t, RUNNING, st) # {}
<1>1. PICK i \in DOMAIN ring : ring[i] = t  BY DEF OnRing
<1>2. PICK n \in Nat : n = Len(ring) /\ n > 1 /\ i \in 2 .. n
  <2>1. Len(ring) \in Nat /\ i \in 1 .. Len(ring) /\ i # 1  BY <1>1, RingFacts
  <2> QED  BY <2>1
<1> DEFINE T == {k \in 1 .. (n - 1) : st[After(i, k)] = RUNNING}
<1>3. T \in SUBSET Nat  OBVIOUS
<1>4. T # {}
  <2>1. PICK k \in 1 .. (n - 1) : i + k = n + 1
    <3>1. n + 1 - i \in 1 .. (n - 1) /\ i + (n + 1 - i) = n + 1  BY <1>2
    <3> QED  BY <3>1
  <2>2. After(i, k) = Idle  BY <1>2, <2>1, AfterFacts
  <2> QED  BY <2>2
<1> HIDE DEF T
<1>5. PICK k \in T : \A j \in T : k <= j  BY <1>3, <1>4, LeastNat
<1>6. k \in 1 .. (n - 1) /\ st[After(i, k)] = RUNNING  BY <1>5 DEF T
<1>7. \A j \in 1 .. (k - 1) : st[After(i, j)] # RUNNING
  <2> TAKE j \in 1 .. (k - 1)
  <2>1. j \in 1 .. (n - 1) /\ ~(k <= j)  BY <1>6
  <2> QED  BY <1>5, <2>1 DEF T
<1>8. After(i, k) \in Task  BY <1>6, AfterFacts
<1>9. k \in 1 .. (IF Len(ring) = 1 THEN 1 ELSE Len(ring) - 1)  BY <1>2, <1>6
<1>10. After(i, k) \in FindByStatusFrom(t, RUNNING, st)
  BY <1>1, <1>6, <1>7, <1>8, <1>9 DEF FindByStatusFrom
<1> QED  BY <1>10

\* Deleting a task keeps all the others, each once, and the head.
LEMMA UnlinkFacts ==
  ASSUME SchedInv, NEW v \in Task, OnRing(v), v # Idle, NEW r, r = Unlink(ring, v)
  PROVE  /\ r \in Seq(Task) /\ Len(r) > 0 /\ r[1] = Idle
         /\ \A i, j \in DOMAIN r : r[i] = r[j] => i = j
         /\ \A t \in Task : (\E j \in DOMAIN r : r[j] = t) <=> OnRing(t) /\ t # v
<1>1. PICK n \in Nat : n = Len(ring) /\ DOMAIN ring = 1 .. n  BY RingFacts
<1>2. PICK p \in 1 .. n : /\ p = CHOOSE i \in DOMAIN ring : ring[i] = v
                         /\ ring[p] = v
  BY <1>1 DEF OnRing
<1>3. p > 1 /\ n > 1  BY <1>1, <1>2, RingFacts
<1>4. r = [j \in 1 .. (n - 1) |-> IF j < p THEN ring[j] ELSE ring[j + 1]]
  BY <1>1, <1>2 DEF Unlink
<1>5. \A j \in 1 .. n : ring[j] \in Task  BY <1>1, RingFacts
<1>6. r \in [1 .. (n - 1) -> Task]  BY <1>4, <1>5
<1>7. r \in Seq(Task) /\ Len(r) = n - 1 /\ DOMAIN r = 1 .. (n - 1)
  <2>1. n - 1 \in Nat  BY <1>3
  <2> QED  BY <1>6, <2>1
<1>8. r[1] = Idle  BY <1>3, <1>4, RingFacts
<1> DEFINE old(j) == IF j < p THEN j ELSE j + 1
<1>9. \A j \in 1 .. (n - 1) : old(j) \in 1 .. n /\ old(j) # p
  BY <1>3
<1>10. \A j \in 1 .. (n - 1) : r[j] = ring[old(j)]  BY <1>4
<1>11. \A i, j \in 1 .. (n - 1) : old(i) = old(j) => i = j  BY <1>3
<1>12. \A i \in 1 .. n : i # p => \E j \in 1 .. (n - 1) : old(j) = i
  <2> TAKE i \in 1 .. n
  <2>1. CASE i < p
    <3>1. i \in 1 .. (n - 1) /\ old(i) = i  BY <1>3, <2>1
    <3> QED  BY <3>1
  <2>2. CASE i > p
    <3>1. i - 1 \in 1 .. (n - 1) /\ old(i - 1) = i  BY <1>3, <2>2
    <3> QED  BY <3>1
  <2> QED  BY <1>2, <2>1, <2>2
<1> HIDE DEF old
<1>13. \A i, j \in 1 .. n : ring[i] = ring[j] => i = j
  BY <1>1 DEF SchedInv, RingOK
<1>14. \A i, j \in 1 .. (n - 1) : r[i] = r[j] => i = j
  BY <1>9, <1>10, <1>11, <1>13
<1>15. ASSUME NEW t \in Task
       PROVE  (\E j \in 1 .. (n - 1) : r[j] = t) <=> OnRing(t) /\ t # v
  <2>1. ASSUME NEW j \in 1 .. (n - 1), r[j] = t  PROVE OnRing(t) /\ t # v
    <3>1. PICK i \in 1 .. n : i = old(j) /\ i # p  BY <1>9
    <3>2. ring[i] = t  BY <1>10, <2>1, <3>1
    <3>3. OnRing(t)  BY <1>1, <3>2 DEF OnRing
    <3>4. t # v  BY <1>2, <1>13, <3>1, <3>2
    <3> QED  BY <3>3, <3>4
  <2>2. ASSUME OnRing(t), t # v  PROVE \E j \in 1 .. (n - 1) : r[j] = t
    <3>1. PICK i \in 1 .. n : ring[i] = t  BY <1>1, <2>2 DEF OnRing
    <3>2. i # p  BY <1>2, <2>2, <3>1
    <3>3. PICK j \in 1 .. (n - 1) : old(j) = i  BY <1>12, <3>2
    <3> QED  BY <1>10, <3>1, <3>3
  <2> QED  BY <2>1, <2>2
<1> QED  BY <1>3, <1>7, <1>8, <1>14, <1>15

----------------------------------------------------------------------------
(* sched_schedule.                                                         *)

\* What sched_schedule is entered with: only the current task's status differs
\* from the one it had, and then it asked to be rescheduled.
Entered(st, rs) ==
  /\ st \in [Task -> Status] /\ st[Idle] = RUNNING
  /\ \A t \in Task : t # current => st[t] = status[t]
  /\ rs \in [Task -> BOOLEAN]
  /\ st = status \/ rs[current]

\* What it leaves: SchedInv, but for the mailboxes and the code of the tasks.
Scheduled(st) ==
  /\ status' = st
  /\ time' \in [Task -> 0 .. (TIME_MOD - 1)] /\ reschedule' \in [Task -> BOOLEAN]
  /\ ticks' \in Nat /\ fresh' \subseteq Task
  /\ ring' \in Seq(Task)
  /\ current' \in Task \cup {NoTask}
  /\ RingOK' /\ CurrentIsRunning' /\ NoZombies'

\* It leaves the ring as it is, or without the current task, that exited.
LEMMA VictimFacts ==
  ASSUME SchedInv, NEW st, NEW rs, Entered(st, rs), NEW v \in Victims(st)
  PROVE  v = current /\ v \in Task /\ OnRing(v) /\ v # Idle /\ st[v] = KILLING
<1>1. CASE current # NoTask /\ st[current] = KILLING
  BY <1>1 DEF Victims, Entered, SchedInv, TypeOK, CurrentIsRunning, KILLING, RUNNING
<1>2. CASE ~(current # NoTask /\ st[current] = KILLING)
  <2>1. v \in Task /\ st[v] = KILLING /\ OnRing(v)
    BY <1>2, FoundFacts DEF Victims
  <2>2. v # current  BY <1>2, <2>1, TaskAssumption
  <2>3. status[v] = KILLING  BY <2>1, <2>2 DEF Entered
  <2> QED  BY <2>1, <2>3 DEF SchedInv, NoZombies
<1> QED  BY <1>1, <1>2

\* The counters of the quantum, whichever way it goes on.
LEMMA QuantumTypes ==
  ASSUME SchedInv, NEW rs \in [Task -> BOOLEAN],
         \/ EndQuantum(rs)
         \/ /\ current # NoTask /\ reschedule' = rs /\ ticks' = ticks + 1 /\ fresh' = fresh
            /\ time' = [time EXCEPT ![current] = (@ + 1) % TIME_MOD]
  PROVE  /\ time' \in [Task -> 0 .. (TIME_MOD - 1)] /\ reschedule' \in [Task -> BOOLEAN]
         /\ ticks' \in Nat /\ fresh' \subseteq Task
<1>1. /\ time \in [Task -> 0 .. (TIME_MOD - 1)] /\ ticks \in Nat /\ fresh \subseteq Task
      /\ TIME_MOD \in Nat /\ TIME_MOD > 0 /\ current \in Task \cup {NoTask}
  BY TimeAssumption, QuotaAssumption DEF SchedInv, TypeOK
<1>2. CASE EndQuantum(rs)
  <2>1. 0 \in 0 .. (TIME_MOD - 1)  BY <1>1
  <2> QED  BY <1>1, <1>2, <2>1 DEF EndQuantum, Cleared
<1>3. CASE /\ current # NoTask /\ reschedule' = rs /\ ticks' = ticks + 1 /\ fresh' = fresh
           /\ time' = [time EXCEPT ![current] = (@ + 1) % TIME_MOD]
  <2>1. \A x, y \in Nat : y > 0 => x % y \in 0 .. (y - 1)  OBVIOUS
  <2>2. time[current] + 1 \in Nat  BY <1>1, <1>3
  <2>3. (time[current] + 1) % TIME_MOD \in 0 .. (TIME_MOD - 1)  BY <1>1, <2>1, <2>2
  <2> QED  BY <1>1, <1>3, <2>3
<1> QED  BY <1>2, <1>3

\* The request that sched_yield makes.
LEMMA Asking ==
  ASSUME SchedInv, NEW t \in Task
  PROVE  \E rs \in [Task -> BOOLEAN] : rs = [reschedule EXCEPT ![t] = TRUE] /\ rs[t]
<1>1. reschedule \in [Task -> BOOLEAN]  BY DEF SchedInv, TypeOK
<1>2. [reschedule EXCEPT ![t] = TRUE] \in [Task -> BOOLEAN]  BY <1>1
<1>3. [reschedule EXCEPT ![t] = TRUE][t] = TRUE  BY <1>1
<1> QED  BY <1>2, <1>3

LEMMA ScheduleStep ==
  ASSUME SchedInv, NEW st, NEW rs, Entered(st, rs), Schedule(st, rs)
  PROVE  Scheduled(st)
<1> USE DEF Entered
<1>1. TypeOK /\ RingOK /\ CurrentIsRunning /\ NoZombies  BY DEF SchedInv
<1>2. CASE Continue(st, rs) /\ current # NoTask /\ ~rs[current]
  <2>1. st = status /\ ring' = ring /\ current' = current /\ status' = status
    BY <1>2 DEF Continue
  <2>2. /\ time' \in [Task -> 0 .. (TIME_MOD - 1)] /\ reschedule' \in [Task -> BOOLEAN]
        /\ ticks' \in Nat /\ fresh' \subseteq Task
    BY <1>2, QuantumTypes DEF Continue
  <2>3. RingOK' /\ CurrentIsRunning' /\ NoZombies'
    BY <1>1, <2>1 DEF RingOK, CurrentIsRunning, NoZombies, OnRing
  <2> QED  BY <1>1, <2>1, <2>2, <2>3 DEF Scheduled, TypeOK
<1>3. CASE Switch(st, rs)
  <2> DEFINE start == IF current = NoTask THEN ring[1] ELSE current
             found == FindByStatusFrom(start, RUNNING, st)
  <2>1. /\ EndQuantum(rs)
        /\ status' = st
        /\ found = {} => ring' = ring /\ current' = current
        /\ found # {} => /\ current' \in found
                         /\ \/ ring' = ring /\ Victims(st) = {}
                            \/ \E v \in Victims(st) : ring' = Unlink(ring, v)
    BY <1>3 DEF Switch
  <2>2. /\ time' \in [Task -> 0 .. (TIME_MOD - 1)] /\ reschedule' \in [Task -> BOOLEAN]
        /\ ticks' \in Nat /\ fresh' \subseteq Task
    BY <2>1, QuantumTypes
  <2>3. CASE found = {}
    <3>1. current = NoTask \/ current = Idle
      BY <1>1, <2>3, AlwaysFound DEF TypeOK, CurrentIsRunning
    <3>2. ring' = ring /\ current' = current /\ status' = st  BY <2>1, <2>3
    <3>3. CurrentIsRunning'
      BY <1>1, <3>1, <3>2 DEF CurrentIsRunning, OnRing
    <3>4. NoZombies'
      <4> SUFFICES ASSUME NEW t \in Task, OnRing(t)  PROVE st[t] # KILLING
        BY <3>2 DEF NoZombies, OnRing
      <4>1. CASE t = current
        BY <3>1, <4>1, TaskAssumption DEF KILLING, RUNNING
      <4>2. CASE t # current
        BY <1>1, <4>2 DEF NoZombies
      <4> QED  BY <4>1, <4>2
    <3> QED  BY <1>1, <2>2, <3>2, <3>3, <3>4 DEF Scheduled, RingOK, TypeOK
  <2>4. CASE found # {}
    <3>1. current' \in Task /\ st[current'] = RUNNING /\ OnRing(current')
      BY <2>1, <2>4, FoundFacts
    <3>2. CASE ring' = ring /\ Victims(st) = {}
      <4>1. NoZombies'
        <5> SUFFICES ASSUME NEW t \in Task, OnRing(t)  PROVE st[t] # KILLING
          BY <2>1, <3>2 DEF NoZombies, OnRing
        <5>1. CASE t = current
          BY <3>2, <5>1, TaskAssumption DEF Victims
        <5>2. CASE t # current
          BY <1>1, <5>2 DEF NoZombies
        <5> QED  BY <5>1, <5>2
      <4>2. CurrentIsRunning'
        BY <2>1, <3>1, <3>2 DEF CurrentIsRunning, OnRing
      <4> QED  BY <1>1, <2>1, <2>2, <3>1, <3>2, <4>1, <4>2 DEF Scheduled, RingOK, TypeOK
    <3>3. CASE \E v \in Victims(st) : ring' = Unlink(ring, v)
      <4>1. PICK v \in Victims(st) : ring' = Unlink(ring, v)  BY <3>3
      <4>2. v = current /\ v \in Task /\ OnRing(v) /\ v # Idle /\ st[v] = KILLING
        BY VictimFacts
      <4>3. PICK r : r = Unlink(ring, v)  OBVIOUS
      <4>4. /\ r \in Seq(Task) /\ Len(r) > 0 /\ r[1] = Idle
            /\ \A i, j \in DOMAIN r : r[i] = r[j] => i = j
            /\ \A t \in Task : (\E j \in DOMAIN r : r[j] = t) <=> OnRing(t) /\ t # v
        BY <4>2, <4>3, UnlinkFacts
      <4>5. ring' = r  BY <4>1, <4>3
      <4>6. RingOK'  BY <4>4, <4>5 DEF RingOK
      <4>7. \A t \in Task : OnRing(t)' <=> OnRing(t) /\ t # v
        BY <4>4, <4>5 DEF OnRing
      <4>8. current' # v  BY <3>1, <4>2 DEF KILLING, RUNNING
      <4>9. CurrentIsRunning'
        <5>1. \E j \in DOMAIN r : r[j] = current'  BY <3>1, <4>4, <4>8
        <5> QED  BY <2>1, <3>1, <4>5, <5>1 DEF CurrentIsRunning, OnRing
      <4>10. NoZombies'
        BY <1>1, <2>1, <4>2, <4>7 DEF NoZombies
      <4> QED  BY <2>1, <2>2, <3>1, <4>4, <4>5, <4>6, <4>9, <4>10 DEF Scheduled
    <3> QED  BY <2>1, <2>4, <3>2, <3>3
  <2> QED  BY <2>3, <2>4
<1> QED  BY <1>2, <1>3 DEF Schedule

----------------------------------------------------------------------------
(* What the steps have in common.                                          *)

LEMMA MessageFacts ==
  /\ NoMsg \in GoodMsg
  /\ SchedInv => \A t \in Task, i \in Int : Slot(t, i) \in GoodMsg
  /\ Kmalloc \subseteq Blocks
<1>1. NoMsg \in GoodMsg  BY DEF NoMsg, GoodMsg, Message
<1>2. ASSUME SchedInv, NEW t \in Task, NEW i \in Int  PROVE Slot(t, i) \in GoodMsg
  BY <1>1, <1>2 DEF Slot, SchedInv, MailOK
<1>3. Kmalloc \subseteq Blocks  BY DEF Kmalloc
<1> QED  BY <1>1, <1>2, <1>3

LEMMA GoodIsTyped ==
  /\ \A f : f \in [Task -> GoodMsg] => f \in [Task -> Message]
  /\ \A f : f \in [Task -> [Slots -> GoodMsg]] => f \in [Task -> [Slots -> Message]]
<1>1. GoodMsg \subseteq Message  BY DEF GoodMsg
<1> QED  BY <1>1

\* A step of a task's code moves that task only, and it is never the idle one.
LEMMA CodeStep ==
  ASSUME SchedInv, NEW t \in Task, NEW l, NEW m,
         At(t, l), Goto(t, m), l # "idle", m \in Labels
  PROVE  /\ pc' \in [Task -> Labels] /\ pc'[Idle] = "idle" /\ pc'[t] = m
         /\ \A s \in Task : s # t => pc'[s] = pc[s]
         /\ t = current /\ t # Idle /\ t # NoTask
         /\ pc[t] = l /\ status[t] = RUNNING /\ OnRing(t)
<1>1. pc' = [pc EXCEPT ![t] = m] /\ pc \in [Task -> Labels] /\ pc[t] = l /\ t = current
  BY DEF Goto, At, SchedInv, TypeOK
<1>2. pc[Idle] = "idle" /\ Idle \in Task /\ NoTask \notin Task
  BY TaskAssumption DEF SchedInv, IdleReady, Task
<1>3. status[t] = RUNNING /\ OnRing(t)  BY <1>1, <1>2 DEF SchedInv, CurrentIsRunning
<1> QED  BY <1>1, <1>2, <1>3

LEMMA QuietStep ==
  ASSUME SchedInv, UNCHANGED <<ring, current, status>>
  PROVE  RingOK' /\ CurrentIsRunning' /\ NoZombies'
BY DEF SchedInv, RingOK, CurrentIsRunning, NoZombies, OnRing

\* A step that puts no task to sleep over a message, and counts none for a
\* sleeping task, keeps every sleeper's sender on its way to the wake-up.
LEMMA SleepersKept ==
  ASSUME SchedInv, NEW t \in Task, pc[t] # "wake",
         \A s \in Task : s # t => pc'[s] = pc[s] /\ msg'[s] = msg[s],
         \A u \in Task : status'[u] = INTERRUPTABLE /\ count'[u] # 0
                         => status[u] = INTERRUPTABLE /\ count[u] # 0
  PROVE  NoLostWakeup'
<1> SUFFICES ASSUME NEW u \in Task, status'[u] = INTERRUPTABLE, count'[u] # 0
             PROVE  \E s \in Task : pc'[s] = "wake" /\ Target(s)' = u
  BY DEF NoLostWakeup
<1>1. PICK s \in Task : pc[s] = "wake" /\ Target(s) = u
  BY DEF SchedInv, NoLostWakeup
<1>2. s # t  BY <1>1
<1>3. Target(s)' = Target(s)  BY <1>2 DEF Target
<1> QED  BY <1>1, <1>2, <1>3

\* The wake-up at the end of ksend.
LEMMA WokenFacts ==
  ASSUME SchedInv, NEW t, status' = Woken(t)
  PROVE  /\ status' \in [Task -> Status]
         /\ \A u \in Task : u # t => status'[u] = status[u]
         /\ \A u \in Task : status'[u] = INTERRUPTABLE => u # t /\ status[u] = INTERRUPTABLE
         /\ \A u \in Task : status[u] = RUNNING => status'[u] = RUNNING
         /\ \A u \in Task : status'[u] = KILLING <=> status[u] = KILLING
<1>1. status' = [status EXCEPT ![t] = IF status[t] = INTERRUPTABLE THEN RUNNING
                                                                  ELSE status[t]]
  BY DEF Woken
<1>2. status \in [Task -> Status]  BY DEF SchedInv, TypeOK
<1> QED  BY <1>1, <1>2 DEF Status, UNINTERRUPTABLE, RUNNING, KILLING, INTERRUPTABLE

\* Waking a task takes the processor from nobody and links nobody.
LEMMA WokenStep ==
  ASSUME SchedInv, NEW t, status' = Woken(t), UNCHANGED <<ring, current>>
  PROVE  RingOK' /\ CurrentIsRunning' /\ NoZombies' /\ status'[Idle] = RUNNING
<1>1. Idle \in Task /\ status[Idle] = RUNNING  BY DEF SchedInv, IdleReady, Task
<1>2. RingOK'  BY DEF SchedInv, RingOK
<1>3. CurrentIsRunning'
  BY WokenFacts DEF SchedInv, CurrentIsRunning, OnRing, TypeOK
<1>4. NoZombies'  BY WokenFacts DEF SchedInv, NoZombies, OnRing
<1> QED  BY <1>1, <1>2, <1>3, <1>4, WokenFacts

\* ksend with the interrupts disabled.
LEMMA KsendFacts ==
  ASSUME SchedInv, NEW t \in Task, NEW m \in GoodMsg, Ksend(t, m),
         UNCHANGED <<ring, current>>
  PROVE  /\ buff' \in [Task -> [Slots -> GoodMsg]] /\ count' \in [Task -> Int]
         /\ status' \in [Task -> Status] /\ status'[Idle] = RUNNING
         /\ RingOK' /\ CurrentIsRunning' /\ NoZombies'
         /\ \A u \in Task : status'[u] = INTERRUPTABLE /\ count'[u] # 0
                            => status[u] = INTERRUPTABLE /\ count[u] # 0
<1>1. TypeOK /\ MailOK /\ status[Idle] = RUNNING  BY DEF SchedInv, IdleReady
<1>2. CASE Refuses(t)
  <2>1. UNCHANGED <<count, buff, status>>  BY <1>2 DEF Ksend
  <2> QED  BY <1>1, <2>1, QuietStep DEF TypeOK, MailOK
<1>3. CASE ~Refuses(t)
  <2>1. /\ buff' = [buff EXCEPT ![t] = [i \in Slots |-> IF i = count[t] THEN m ELSE buff[t][i]]]
        /\ count' = [count EXCEPT ![t] = count[t] + 1]
        /\ status' = Woken(t)
    BY <1>3 DEF Ksend
  <2>2. buff' \in [Task -> [Slots -> GoodMsg]]
    <3>1. [i \in Slots |-> IF i = count[t] THEN m ELSE buff[t][i]] \in [Slots -> GoodMsg]
      BY <1>1 DEF MailOK
    <3> QED  BY <1>1, <2>1, <3>1 DEF MailOK
  <2>3. count' \in [Task -> Int]  BY <1>1, <2>1 DEF TypeOK
  <2>4. \A u \in Task : u # t => count'[u] = count[u]  BY <1>1, <2>1 DEF TypeOK
  <2> QED  BY <2>1, <2>2, <2>3, <2>4, WokenFacts, WokenStep
<1> QED  BY <1>2, <1>3

----------------------------------------------------------------------------
(* Every step keeps SchedInv.                                              *)

USE DEF schedVars, quantumVars, mailVars, taskVars

\* A step of a task's code that changes no status, and of the mailboxes at most
\* what is in them, keeps SchedInv when it keeps the types.
LEMMA PlainStep ==
  ASSUME SchedInv, NEW t \in Task, NEW l, NEW m,
         At(t, l), Goto(t, m), l \notin {"idle", "wake"}, m \in Labels,
         UNCHANGED <<ring, current, status, time, ticks, fresh>>,
         reschedule' \in [Task -> BOOLEAN],
         \A s \in Task : s # t => msg'[s] = msg[s],
         \A u \in Task : u # t => count'[u] = count[u],
         count' \in [Task -> Int], buff' \in [Task -> [Slots -> GoodMsg]],
         msg' \in [Task -> GoodMsg], out' \in [Task -> GoodMsg],
         reg' \in [Task -> Int], live' \in SUBSET Blocks,
         t = Dq /\ m \in SendLabels => msg'[Dq].from \in Task
  PROVE  SchedInv'
<1>1. /\ pc' \in [Task -> Labels] /\ pc'[Idle] = "idle"
      /\ \A s \in Task : s # t => pc'[s] = pc[s]
      /\ pc'[t] = m /\ pc[t] = l /\ status[t] = RUNNING
  BY CodeStep
<1>2. TypeOK'  BY <1>1, GoodIsTyped DEF SchedInv, TypeOK
<1>3. \A u \in Task : status'[u] = INTERRUPTABLE /\ count'[u] # 0
                      => status[u] = INTERRUPTABLE /\ count[u] # 0
  BY <1>1 DEF RUNNING, INTERRUPTABLE
<1>4. NoLostWakeup'  BY <1>1, <1>3, SleepersKept
<1>5. IdleReady'  BY <1>1 DEF SchedInv, IdleReady
<1>6. MailOK'  BY <1>1 DEF SchedInv, MailOK, Task
<1> QED  BY <1>2, <1>4, <1>5, <1>6, QuietStep DEF SchedInv

LEMMA TimerIrqStep == ASSUME SchedInv, TimerIrq  PROVE SchedInv'
<1>1. Schedule(status, reschedule) /\ UNCHANGED <<mailVars, taskVars, live>>
  BY DEF TimerIrq
<1>2. Entered(status, reschedule)  BY DEF Entered, SchedInv, TypeOK, IdleReady
<1>3. Scheduled(status)  BY <1>1, <1>2, ScheduleStep
<1>4. TypeOK'  BY <1>1, <1>3 DEF Scheduled, SchedInv, TypeOK
<1>5. IdleReady'  BY <1>1, <1>3 DEF Scheduled, SchedInv, IdleReady
<1>6. NoLostWakeup'
  BY <1>1, <1>3 DEF Scheduled, SchedInv, NoLostWakeup, Target
<1>7. MailOK'  BY <1>1 DEF SchedInv, MailOK
<1> QED  BY <1>3, <1>4, <1>5, <1>6, <1>7 DEF Scheduled, SchedInv

LEMMA KeyboardIrqStep == ASSUME SchedInv, KeyboardIrq  PROVE SchedInv'
<1>1. PICK b \in Kmalloc :
         /\ live' = live \cup {b}
         /\ Ksend(Dq, [type |-> "sched", data |-> b, from |-> NoTask])
         /\ UNCHANGED <<ring, current, quantumVars, taskVars>>
  BY DEF KeyboardIrq
<1>2. Dq \in Task /\ Idle \in Task  BY DEF Task
<1>3. PICK m \in GoodMsg : m = [type |-> "sched", data |-> b, from |-> NoTask]
  BY MessageFacts DEF GoodMsg, Message
<1>4. Ksend(Dq, m)  BY <1>1, <1>3
<1>5. /\ buff' \in [Task -> [Slots -> GoodMsg]] /\ count' \in [Task -> Int]
      /\ status' \in [Task -> Status] /\ status'[Idle] = RUNNING
      /\ RingOK' /\ CurrentIsRunning' /\ NoZombies'
      /\ \A u \in Task : status'[u] = INTERRUPTABLE /\ count'[u] # 0
                         => status[u] = INTERRUPTABLE /\ count[u] # 0
  BY <1>1, <1>2, <1>4, KsendFacts
<1>6. TypeOK'  BY <1>1, <1>5, MessageFacts, GoodIsTyped DEF SchedInv, TypeOK
<1>7. IdleReady'  BY <1>1, <1>5 DEF SchedInv, IdleReady
<1>8. NoLostWakeup'
  <2>1. pc[Idle] # "wake"  BY DEF SchedInv, IdleReady
  <2> QED  BY <1>1, <1>2, <1>5, <2>1, SleepersKept
<1>9. MailOK'  BY <1>1, <1>5 DEF SchedInv, MailOK
<1> QED  BY <1>5, <1>6, <1>7, <1>8, <1>9 DEF SchedInv

LEMMA SyscallKsendStep ==
  ASSUME SchedInv, NEW t \in Task, SyscallKsend(t)  PROVE SchedInv'
<1>1. /\ At(t, "syscall_ksend") /\ Ksend(Dq, out[t]) /\ Goto(t, "recv")
      /\ UNCHANGED <<ring, current, quantumVars, msg, out, reg, live>>
  BY DEF SyscallKsend
<1>2. Dq \in Task /\ out[t] \in GoodMsg  BY DEF Task, SchedInv, MailOK
<1>3. "recv" \in Labels  BY DEF Labels
<1>4. /\ pc' \in [Task -> Labels] /\ pc'[Idle] = "idle"
      /\ \A s \in Task : s # t => pc'[s] = pc[s]
      /\ pc'[t] = "recv" /\ pc[t] = "syscall_ksend"
  BY <1>1, <1>3, CodeStep
<1>5. /\ buff' \in [Task -> [Slots -> GoodMsg]] /\ count' \in [Task -> Int]
      /\ status' \in [Task -> Status] /\ status'[Idle] = RUNNING
      /\ RingOK' /\ CurrentIsRunning' /\ NoZombies'
      /\ \A u \in Task : status'[u] = INTERRUPTABLE /\ count'[u] # 0
                         => status[u] = INTERRUPTABLE /\ count[u] # 0
  BY <1>1, <1>2, KsendFacts
<1>6. TypeOK'  BY <1>1, <1>4, <1>5, GoodIsTyped DEF SchedInv, TypeOK
<1>7. IdleReady'  BY <1>4, <1>5 DEF IdleReady
<1>8. NoLostWakeup'  BY <1>1, <1>4, <1>5, SleepersKept
<1>9. MailOK'  BY <1>1, <1>2, <1>4, <1>5 DEF SchedInv, MailOK, SendLabels
<1> QED  BY <1>5, <1>6, <1>7, <1>8, <1>9 DEF SchedInv

\* A step that calls the scheduler, of a task that blocks, exits or stays RUNNING.
LEMMA LeavingStep ==
  ASSUME SchedInv, NEW t \in Task, NEW s \in {RUNNING, INTERRUPTABLE, KILLING},
         NEW l, NEW m, s = INTERRUPTABLE => count[t] = 0,
         At(t, l), l \notin {"idle", "wake"}, m \in Labels \ SendLabels, Goto(t, m),
         NEW rs \in [Task -> BOOLEAN], s # RUNNING => rs[t],
         Schedule([status EXCEPT ![t] = s], rs),
         UNCHANGED <<mailVars, msg, out, reg, live>>
  PROVE  SchedInv'
<1>1. /\ pc' \in [Task -> Labels] /\ pc'[Idle] = "idle"
      /\ \A u \in Task : u # t => pc'[u] = pc[u]
      /\ pc'[t] = m /\ pc[t] = l /\ t = current /\ t # Idle /\ status[t] = RUNNING
  BY CodeStep
<1>2. PICK st : st = [status EXCEPT ![t] = s]  OBVIOUS
<1>3. /\ st \in [Task -> Status] /\ st[t] = s
      /\ \A u : u # t => st[u] = status[u]
  BY <1>2 DEF SchedInv, TypeOK, Status
<1>4. Entered(st, rs)
  <2>1. s = RUNNING => st = status  BY <1>1, <1>2 DEF SchedInv, TypeOK
  <2> QED  BY <1>1, <1>3, <2>1 DEF Entered, SchedInv, IdleReady
<1>5. Scheduled(st)  BY <1>2, <1>4, ScheduleStep
<1>6. TypeOK'  BY <1>1, <1>3, <1>5 DEF Scheduled, SchedInv, TypeOK
<1>7. IdleReady'  BY <1>1, <1>4, <1>5 DEF Scheduled, Entered, IdleReady
<1>8. NoLostWakeup'
  <2>1. \A u \in Task : status'[u] = INTERRUPTABLE /\ count'[u] # 0
                        => status[u] = INTERRUPTABLE /\ count[u] # 0
    BY <1>3, <1>5 DEF Scheduled, INTERRUPTABLE, KILLING, RUNNING
  <2> QED  BY <1>1, <2>1, SleepersKept
<1>9. MailOK'  BY <1>1 DEF SchedInv, MailOK, Task
<1> QED  BY <1>5, <1>6, <1>7, <1>8, <1>9 DEF Scheduled, SchedInv

LEMMA KrecvStep ==
  ASSUME SchedInv, NEW t \in Task,
         \/ KrecvReady(t) \/ KrecvBlock(t) \/ KrecvRead(t) \/ KrecvLoad(t) \/ KrecvStore(t)
  PROVE  SchedInv'
<1>1. TypeOK /\ MailOK  BY DEF SchedInv
<1>2. count[t] \in Int /\ AfterKrecv(t) \in Labels \ SendLabels
  BY <1>1 DEF TypeOK, AfterKrecv, Labels, SendLabels
<1>3. Slot(t, count[t] - 1) \in GoodMsg  BY <1>2, MessageFacts
<1>4. CASE KrecvReady(t)
  <2>1. /\ At(t, "recv") /\ Goto(t, AfterKrecv(t))
        /\ msg' = [msg EXCEPT ![t] = Slot(t, count[t] - 1)]
        /\ count' = [count EXCEPT ![t] = count[t] - 1]
        /\ UNCHANGED <<schedVars, buff, out, reg, live>>
    BY <1>4 DEF KrecvReady
  <2>2. msg' \in [Task -> GoodMsg] /\ \A s \in Task : s # t => msg'[s] = msg[s]
    BY <1>1, <1>3, <2>1 DEF MailOK
  <2>3. count' \in [Task -> Int] /\ \A s \in Task : s # t => count'[s] = count[s]
    BY <1>1, <1>2, <2>1 DEF TypeOK
  <2> QED  BY <1>1, <1>2, <2>1, <2>2, <2>3, PlainStep DEF TypeOK, MailOK
<1>5. CASE KrecvBlock(t)
  <2>1. /\ At(t, "recv") /\ count[t] = 0 /\ Goto(t, "read")
        /\ Yield(t, [status EXCEPT ![t] = INTERRUPTABLE])
        /\ UNCHANGED <<mailVars, msg, out, reg, live>>
    BY <1>5 DEF KrecvBlock
  <2>2. "read" \in Labels \ SendLabels  BY DEF Labels, SendLabels
  <2>3. PICK rs \in [Task -> BOOLEAN] : rs = [reschedule EXCEPT ![t] = TRUE] /\ rs[t]
    BY Asking
  <2>4. Schedule([status EXCEPT ![t] = INTERRUPTABLE], rs)  BY <2>1, <2>3 DEF Yield
  <2> QED  BY <2>1, <2>2, <2>3, <2>4, LeavingStep
<1>6. CASE KrecvRead(t)
  <2>1. /\ At(t, "read") /\ Goto(t, "load_de")
        /\ msg' = [msg EXCEPT ![t] = Slot(t, count[t] - 1)]
        /\ UNCHANGED <<schedVars, mailVars, out, reg, live>>
    BY <1>6 DEF KrecvRead
  <2>2. msg' \in [Task -> GoodMsg] /\ \A s \in Task : s # t => msg'[s] = msg[s]
    BY <1>1, <1>3, <2>1 DEF MailOK
  <2>3. "load_de" \in Labels \ SendLabels  BY DEF Labels, SendLabels
  <2> QED  BY <1>1, <2>1, <2>2, <2>3, PlainStep DEF TypeOK, MailOK
<1>7. CASE KrecvLoad(t)
  <2>1. /\ At(t, "load_de") /\ Goto(t, "store_de")
        /\ reg' = [reg EXCEPT ![t] = count[t]]
        /\ UNCHANGED <<schedVars, mailVars, msg, out, live>>
    BY <1>7 DEF KrecvLoad
  <2>2. reg' \in [Task -> Int]  BY <1>1, <1>2, <2>1 DEF TypeOK
  <2>3. "store_de" \in Labels \ SendLabels  BY DEF Labels, SendLabels
  <2> QED  BY <1>1, <2>1, <2>2, <2>3, PlainStep DEF TypeOK, MailOK
<1>8. CASE KrecvStore(t)
  <2>1. /\ At(t, "store_de") /\ Goto(t, AfterKrecv(t))
        /\ count' = [count EXCEPT ![t] = reg[t] - 1]
        /\ UNCHANGED <<schedVars, buff, msg, out, reg, live>>
    BY <1>8 DEF KrecvStore
  <2>2. count' \in [Task -> Int] /\ \A s \in Task : s # t => count'[s] = count[s]
    BY <1>1, <2>1 DEF TypeOK
  <2> QED  BY <1>1, <1>2, <2>1, <2>2, PlainStep DEF TypeOK, MailOK
<1> QED  BY <1>4, <1>5, <1>6, <1>7, <1>8

LEMMA KsendPlainStep ==
  ASSUME SchedInv, NEW s \in Task,
         KsendCheck(s) \/ KsendIndex(s) \/ KsendCopy(s) \/ KsendLoad(s)
  PROVE  SchedInv'
<1>1. TypeOK /\ MailOK /\ \A u \in Task : count[u] \in Int  BY DEF SchedInv, TypeOK
<1> DEFINE u == Target(s)
<1>2. \A l \in SendLabels : At(s, l) => u \in Task /\ (s = Dq => msg[Dq].from \in Task)
  BY <1>1 DEF Target, At, MailOK, Task
<1> USE DEF SendLabels, Labels
<1> HIDE DEF u
<1>3. CASE KsendCheck(s)
  <2>1. PICK m \in Labels : /\ At(s, "check") /\ Goto(s, m)
                           /\ UNCHANGED <<schedVars, mailVars, msg, out, reg, live>>
    BY <1>3 DEF KsendCheck, AfterSend
  <2> QED  BY <1>1, <1>2, <2>1, PlainStep DEF TypeOK, MailOK
<1>4. ASSUME NEW l \in {"index", "load_in"}, NEW m \in {"copy", "store_in"},
             At(s, l), Goto(s, m),
             reg' = [reg EXCEPT ![s] = count[u]],
             UNCHANGED <<schedVars, mailVars, msg, out, live>>
      PROVE  SchedInv'
  <2>1. reg' \in [Task -> Int]  BY <1>1, <1>2, <1>4 DEF TypeOK
  <2> QED  BY <1>1, <1>2, <1>4, <2>1, PlainStep DEF TypeOK, MailOK
<1>5. CASE KsendIndex(s) \/ KsendLoad(s)
  BY <1>4, <1>5 DEF KsendIndex, KsendLoad, u
<1>6. CASE KsendCopy(s)
  <2>1. /\ At(s, "copy") /\ Goto(s, "load_in")
        /\ buff' = [buff EXCEPT ![u] =
                      [i \in Slots |-> IF i = reg[s] THEN out[s] ELSE buff[u][i]]]
        /\ UNCHANGED <<schedVars, count, msg, out, reg, live>>
    BY <1>6 DEF KsendCopy, u
  <2>2. buff' \in [Task -> [Slots -> GoodMsg]]  BY <1>1, <2>1 DEF MailOK
  <2> QED  BY <1>1, <1>2, <2>1, <2>2, PlainStep DEF TypeOK, MailOK
<1> QED  BY <1>3, <1>5, <1>6

LEMMA KsendStoreStep ==
  ASSUME SchedInv, NEW s \in Task, KsendStore(s)  PROVE SchedInv'
<1> DEFINE u == Target(s)
<1>1. TypeOK /\ MailOK  BY DEF SchedInv
<1>2. /\ At(s, "store_in") /\ Goto(s, "wake")
      /\ count' = [count EXCEPT ![u] = reg[s] + 1]
      /\ UNCHANGED <<schedVars, buff, msg, out, reg, live>>
  BY DEF KsendStore
<1>3. "wake" \in Labels  BY DEF Labels
<1>4. /\ pc' \in [Task -> Labels] /\ pc'[Idle] = "idle" /\ pc'[s] = "wake"
      /\ \A r \in Task : r # s => pc'[r] = pc[r]
      /\ pc[s] = "store_in"
  BY <1>2, <1>3, CodeStep
<1>5. count' \in [Task -> Int] /\ \A r \in Task : r # u => count'[r] = count[r]
  <2>1. reg[s] + 1 \in Int /\ count \in [Task -> Int]  BY <1>1 DEF TypeOK
  <2> HIDE DEF u
  <2> QED  BY <1>2, <2>1
<1>6. TypeOK'  BY <1>1, <1>2, <1>4, <1>5 DEF TypeOK
<1>7. IdleReady'  BY <1>2, <1>4 DEF SchedInv, IdleReady
<1>8. MailOK'  BY <1>1, <1>2, <1>4 DEF MailOK, SendLabels, Task
<1>9. NoLostWakeup'
  <2> SUFFICES ASSUME NEW r \in Task, status[r] = INTERRUPTABLE, count'[r] # 0
               PROVE  \E x \in Task : pc'[x] = "wake" /\ Target(x)' = r
    BY <1>2 DEF NoLostWakeup
  <2>1. \A x \in Task : Target(x)' = Target(x)  BY <1>2 DEF Target
  <2>2. CASE r = u
    BY <1>4, <2>1, <2>2
  <2>3. CASE r # u
    <3>1. PICK x \in Task : pc[x] = "wake" /\ Target(x) = r
      BY <1>5, <2>3 DEF SchedInv, NoLostWakeup
    <3>2. x # s  BY <1>4, <3>1
    <3> QED  BY <1>4, <2>1, <3>1, <3>2
  <2> QED  BY <2>2, <2>3
<1> QED  BY <1>2, <1>6, <1>7, <1>8, <1>9, QuietStep DEF SchedInv

LEMMA KsendWakeStep ==
  ASSUME SchedInv, NEW s \in Task, KsendWake(s)  PROVE SchedInv'
<1>1. TypeOK /\ MailOK  BY DEF SchedInv
<1>2. /\ At(s, "wake") /\ Goto(s, AfterSend(s))
      /\ status' = Woken(Target(s))
      /\ UNCHANGED <<ring, current, quantumVars, mailVars, msg, out, reg, live>>
  BY DEF KsendWake
<1>3. AfterSend(s) \in Labels \ SendLabels  BY DEF AfterSend, Labels, SendLabels
<1>4. /\ pc' \in [Task -> Labels] /\ pc'[Idle] = "idle" /\ pc'[s] = AfterSend(s)
      /\ \A r \in Task : r # s => pc'[r] = pc[r]
      /\ pc[s] = "wake"
  BY <1>2, <1>3, CodeStep
<1>5. RingOK' /\ CurrentIsRunning' /\ NoZombies' /\ status'[Idle] = RUNNING
      /\ status' \in [Task -> Status]
      /\ \A r \in Task : status'[r] = INTERRUPTABLE
                         => r # Target(s) /\ status[r] = INTERRUPTABLE
  BY <1>2, WokenStep, WokenFacts
<1>6. TypeOK'  BY <1>1, <1>2, <1>4, <1>5 DEF TypeOK
<1>7. IdleReady'  BY <1>4, <1>5 DEF IdleReady
<1>8. MailOK'  BY <1>1, <1>2, <1>3, <1>4 DEF MailOK, Task
<1>9. NoLostWakeup'
  <2> SUFFICES ASSUME NEW r \in Task, status'[r] = INTERRUPTABLE, count[r] # 0
               PROVE  \E x \in Task : pc'[x] = "wake" /\ Target(x)' = r
    BY <1>2 DEF NoLostWakeup
  <2>1. PICK x \in Task : pc[x] = "wake" /\ Target(x) = r
    BY <1>5 DEF SchedInv, NoLostWakeup
  <2>2. x # s /\ Target(x)' = Target(x)  BY <1>2, <1>5, <2>1 DEF Target
  <2> QED  BY <1>4, <2>1, <2>2
<1> QED  BY <1>5, <1>6, <1>7, <1>8, <1>9 DEF SchedInv

LEMMA DqHandleStep ==
  ASSUME SchedInv, NEW t \in Task, DqHandle(t)  PROVE SchedInv'
<1> USE DEF SendLabels, Labels
<1>1. TypeOK /\ MailOK  BY DEF SchedInv
<1>2. /\ t = Dq /\ At(t, "handle")
      /\ UNCHANGED <<schedVars, mailVars, msg, reg>>
  BY DEF DqHandle
<1>3. CASE msg[t].type = "test"
  <2>1. PICK b \in Kmalloc :
          /\ live' = live \cup {b}
          /\ out' = [out EXCEPT ![t] = [type |-> "reply", data |-> b, from |-> t]]
          /\ Goto(t, "check")
    BY <1>3 DEF DqHandle
  <2>2. live' \in SUBSET Blocks  BY <1>1, <2>1, MessageFacts DEF TypeOK
  <2>3. [type |-> "reply", data |-> b, from |-> t] \in GoodMsg
    BY MessageFacts DEF GoodMsg, Message
  <2>4. out' \in [Task -> GoodMsg]  BY <1>1, <2>1, <2>3 DEF MailOK
  <2>5. msg'[Dq].from \in Task  BY <1>1, <1>2, <1>3 DEF MailOK, GoodMsg
  <2> QED  BY <1>1, <1>2, <2>1, <2>2, <2>4, <2>5, PlainStep DEF TypeOK, MailOK
<1>4. CASE msg[t].type # "test"
  <2>1. UNCHANGED <<live, out>> /\ Goto(t, "clean")  BY <1>4 DEF DqHandle
  <2> QED  BY <1>1, <1>2, <2>1, PlainStep DEF TypeOK, MailOK
<1> QED  BY <1>3, <1>4

LEMMA CleanStep == ASSUME SchedInv, NEW t \in Task, Clean(t)  PROVE SchedInv'
<1>1. TypeOK /\ MailOK  BY DEF SchedInv
<1>2. PICK m \in Labels \ SendLabels :
        /\ At(t, "clean") /\ Goto(t, m)
        /\ live' = live \ {msg[t].data}
        /\ msg' = [msg EXCEPT ![t] = NoMsg]
        /\ out' = [out EXCEPT ![t] = NoMsg]
        /\ reg' = [reg EXCEPT ![t] = 0]
        /\ UNCHANGED <<schedVars, mailVars>>
  BY DEF Clean, Labels, SendLabels
<1>3. /\ msg' \in [Task -> GoodMsg] /\ out' \in [Task -> GoodMsg]
      /\ \A s \in Task : s # t => msg'[s] = msg[s]
  BY <1>1, <1>2, MessageFacts DEF MailOK
<1>4. reg' \in [Task -> Int] /\ live' \in SUBSET Blocks  BY <1>1, <1>2 DEF TypeOK
<1> QED  BY <1>1, <1>2, <1>3, <1>4, PlainStep DEF TypeOK, MailOK

LEMMA ClientStartStep ==
  ASSUME SchedInv, NEW t \in Task, ClientStart(t)  PROVE SchedInv'
<1>1. TypeOK /\ MailOK  BY DEF SchedInv
<1>2. PICK b \in Kmalloc, m \in {"check", "syscall_ksend"} :
        /\ t \in Clients /\ At(t, "start") /\ Goto(t, m)
        /\ live' = live \cup {b}
        /\ out' = [out EXCEPT ![t] = [type |-> "test", data |-> b, from |-> t]]
        /\ UNCHANGED <<schedVars, mailVars, msg, reg>>
  BY DEF ClientStart
<1>3. live' \in SUBSET Blocks  BY <1>1, <1>2, MessageFacts DEF TypeOK
<1>4. [type |-> "test", data |-> b, from |-> t] \in GoodMsg
  BY MessageFacts DEF GoodMsg, Message
<1>5. out' \in [Task -> GoodMsg]  BY <1>1, <1>2, <1>4 DEF MailOK
<1>6. t # Dq  BY <1>2, TaskAssumption
<1>7. m \in Labels  BY DEF Labels
<1> QED  BY <1>1, <1>2, <1>3, <1>5, <1>6, <1>7, PlainStep DEF TypeOK, MailOK

LEMMA SyscallExitStep ==
  ASSUME SchedInv, NEW t \in Task, SyscallExit(t)  PROVE SchedInv'
<1>1. /\ At(t, "exit") /\ Goto(t, "done")
      /\ Yield(t, [status EXCEPT ![t] = KILLING])
      /\ UNCHANGED <<mailVars, msg, out, reg, live>>
  BY DEF SyscallExit
<1>2. "done" \in Labels \ SendLabels  BY DEF Labels, SendLabels
<1>3. PICK rs \in [Task -> BOOLEAN] : rs = [reschedule EXCEPT ![t] = TRUE] /\ rs[t]
  BY Asking
<1>4. Schedule([status EXCEPT ![t] = KILLING], rs)  BY <1>1, <1>3 DEF Yield
<1> QED  BY <1>1, <1>2, <1>3, <1>4, LeavingStep DEF INTERRUPTABLE, KILLING

LEMMA ReaderStep ==
  ASSUME SchedInv, NEW t \in Task, TtyRead(t) \/ TtyLook(t) \/ YieldMark(t) \/ YieldInt(t)
  PROVE  SchedInv'
<1>1. TypeOK /\ MailOK  BY DEF SchedInv
<1> USE DEF SendLabels, Labels
<1>2. ASSUME NEW l \in Labels, At(t, l), l # "idle"  PROVE status = [status EXCEPT ![t] = RUNNING]
  <2>1. status[t] = RUNNING
    BY <1>2, TaskAssumption DEF At, SchedInv, CurrentIsRunning
  <2> QED  BY <1>1, <2>1 DEF TypeOK
<1>3. CASE TtyRead(t)
  <2>1. At(t, "tty_read") /\ UNCHANGED <<mailVars, msg, out, reg, live>>
    BY <1>3 DEF TtyRead
  <2>2. CASE Goto(t, "exit") /\ UNCHANGED schedVars
    BY <1>1, <2>1, <2>2, PlainStep DEF TypeOK, MailOK
  <2>3. CASE Goto(t, "look") /\ Yield(t, status)
    <3>1. PICK rs \in [Task -> BOOLEAN] : rs = [reschedule EXCEPT ![t] = TRUE] /\ rs[t]
      BY Asking
    <3>2. Schedule([status EXCEPT ![t] = RUNNING], rs)  BY <1>2, <2>1, <2>3, <3>1 DEF Yield
    <3> QED  BY <2>1, <2>3, <3>1, <3>2, LeavingStep DEF RUNNING, INTERRUPTABLE
  <2> QED  BY <1>3, <2>2, <2>3 DEF TtyRead
<1>4. CASE TtyLook(t)
  <2>1. PICK m \in {"exit", "mark"} : /\ At(t, "look") /\ Goto(t, m)
                                      /\ UNCHANGED <<schedVars, mailVars, msg, out, reg, live>>
    BY <1>4 DEF TtyLook
  <2> QED  BY <1>1, <2>1, PlainStep DEF TypeOK, MailOK
<1>5. CASE YieldMark(t)
  <2>1. /\ At(t, "mark") /\ Goto(t, "int")
        /\ UNCHANGED <<ring, current, status, time, ticks, fresh, mailVars, msg, out, reg, live>>
        /\ reschedule' = [reschedule EXCEPT ![t] = TRUE]
    BY <1>5 DEF YieldMark
  <2>2. reschedule' \in [Task -> BOOLEAN]  BY <1>1, <2>1 DEF TypeOK
  <2> QED  BY <1>1, <2>1, <2>2, PlainStep DEF TypeOK, MailOK
<1>6. CASE YieldInt(t)
  <2>1. /\ At(t, "int") /\ Goto(t, "look")
        /\ UNCHANGED <<mailVars, msg, out, reg, live>>
        /\ Schedule(status, reschedule)
    BY <1>6 DEF YieldInt
  <2>2. Schedule([status EXCEPT ![t] = RUNNING], reschedule)  BY <1>2, <2>1
  <2>3. reschedule \in [Task -> BOOLEAN]  BY <1>1 DEF TypeOK
  <2> QED  BY <2>1, <2>2, <2>3, LeavingStep DEF RUNNING, INTERRUPTABLE
<1> QED  BY <1>3, <1>4, <1>5, <1>6

----------------------------------------------------------------------------
(* The theorems.                                                           *)

LEMMA SchedInit == Init => SchedInv
<1> SUFFICES ASSUME Init  PROVE SchedInv
  OBVIOUS
<1> USE DEF Init
<1>1. Idle \in Task /\ Dq \in Task /\ NoMsg \in GoodMsg /\ NoMsg \in Message
  BY MessageFacts, GoodIsTyped DEF Task, GoodMsg
<1>2. pc \in [Task -> Labels] /\ pc[Idle] = "idle" /\ pc[Dq] = "recv"
  BY <1>1, TaskAssumption DEF Start, Labels
<1>3. TypeOK
  <2>1. PICK f \in Leftovers : /\ time       = [t \in Task |-> f[t].time]
                              /\ reschedule = [t \in Task |-> f[t].reschedule]
    OBVIOUS
  <2>2. f \in [Task -> [time : 0 .. (TIME_MOD - 1), reschedule : BOOLEAN]]
    BY <2>1, LeftoverAssumption
  <2>3. time \in [Task -> 0 .. (TIME_MOD - 1)] /\ reschedule \in [Task -> BOOLEAN]
    BY <2>1, <2>2
  <2> QED  BY <1>1, <1>2, <2>3, RingAssumption DEF TypeOK, Status, RUNNING
<1>4. RingOK
  <2>1. Len(BootRing) > 0  BY RingAssumption, EmptySeq, LenProperties
  <2> QED  BY <2>1, RingAssumption DEF RingOK
<1>5. IdleReady  BY <1>1, <1>2 DEF IdleReady
<1>6. MailOK  BY <1>1, <1>2 DEF MailOK, SendLabels
<1>7. CurrentIsRunning /\ NoZombies /\ NoLostWakeup
  BY DEF CurrentIsRunning, NoZombies, NoLostWakeup, RUNNING, KILLING, INTERRUPTABLE
<1> QED  BY <1>3, <1>4, <1>5, <1>6, <1>7 DEF SchedInv

LEMMA SchedNext == SchedInv /\ [Next]_vars => SchedInv'
<1> SUFFICES ASSUME SchedInv, [Next]_vars  PROVE SchedInv'
  OBVIOUS
<1>1. CASE TimerIrq  BY <1>1, TimerIrqStep
<1>2. CASE KeyboardIrq  BY <1>2, KeyboardIrqStep
<1>3. ASSUME NEW t \in Task, TaskStep(t)  PROVE SchedInv'
  BY <1>3, KrecvStep, KsendPlainStep, KsendStoreStep, KsendWakeStep, DqHandleStep,
     CleanStep, ClientStartStep, SyscallKsendStep, SyscallExitStep, ReaderStep DEF TaskStep
<1>4. CASE UNCHANGED vars
  <2> USE <1>4 DEF vars
  <2>1. TypeOK' /\ IdleReady' /\ MailOK'  BY DEF SchedInv, TypeOK, IdleReady, MailOK
  <2>2. NoLostWakeup'  BY DEF SchedInv, NoLostWakeup, Target
  <2> QED  BY <2>1, <2>2, QuietStep DEF SchedInv
<1> QED  BY <1>1, <1>2, <1>3, <1>4 DEF Next

\* Whatever the tasks, the interrupts and the order of their steps: the types
\* hold, the processor is only given to a task that is runnable and on
\* task_list (sched_schedule), a task that exited is off it (task_delete), and
\* no task sleeps over a message whose sender is not about to wake it (ksend).
THEOREM SchedSafe ==
  Spec => [](TypeOK /\ CurrentIsRunning /\ NoZombies /\ NoLostWakeup)
<1>1. SchedInv => TypeOK /\ CurrentIsRunning /\ NoZombies /\ NoLostWakeup
  BY DEF SchedInv
<1> QED  BY <1>1, SchedInit, SchedNext, PTL DEF Spec

----------------------------------------------------------------------------
(* The quota.  Past its first quantum a task has no time left over and no  *)
(* request but the one it is about to serve, so that its time is the count *)
(* of the ticks it has had.                                                *)

QuotaInv ==
  /\ \A t \in Task \ fresh : t # current => time[t] = 0
  /\ \A t \in Task \ fresh : reschedule[t] => pc[t] = "int"
  /\ current \in Task \ fresh => time[current] = ticks /\ ticks < TASK_QUOTA
  /\ current \in fresh => \/ ticks = 0
                          \/ time[current] < TASK_QUOTA /\ ticks <= time[current] + 1

\* What a step may do to the quantum of the current task, which made the
\* request `asked` of the scheduler.
KeepsQuota(asked) ==
  current # NoTask =>
    /\ current' # current /\ current \notin fresh => ticks = TASK_QUOTA - 1 \/ asked
    /\ current \notin fresh => ticks' < TASK_QUOTA
    /\ ticks' <= TASK_QUOTA

LEMMA QuotaBound ==
  ASSUME SchedInv, QuotaInv, current # NoTask
  PROVE  /\ current \in Task /\ ticks \in Nat /\ time[current] \in 0 .. (TIME_MOD - 1)
         /\ ticks <= TASK_QUOTA /\ (current \notin fresh => ticks < TASK_QUOTA)
<1>1. current \in Task /\ ticks \in Nat /\ time[current] \in 0 .. (TIME_MOD - 1)
  BY DEF SchedInv, TypeOK
<1> QED  BY <1>1, QuotaAssumption, TimeAssumption DEF QuotaInv

LEMMA SmallMod == \A x, y \in Nat : x < y => x % y = x
OBVIOUS

LEMMA QuotaSchedule ==
  ASSUME SchedInv, QuotaInv, NEW st, NEW rs \in [Task -> BOOLEAN], Schedule(st, rs),
         \A u \in Task : u # current => rs[u] = reschedule[u] /\ pc'[u] = pc[u]
  PROVE  QuotaInv' /\ KeepsQuota(rs[current])
<1>1. /\ time \in [Task -> 0 .. (TIME_MOD - 1)] /\ fresh \subseteq Task
      /\ current \in Task \cup {NoTask} /\ NoTask \notin Task
      /\ ticks \in Nat /\ TASK_QUOTA \in Nat /\ TASK_QUOTA > 0
      /\ TIME_MOD \in Nat /\ TASK_QUOTA < TIME_MOD
  BY QuotaAssumption, TimeAssumption, TaskAssumption DEF SchedInv, TypeOK
<1>2. CASE /\ current # NoTask /\ (time[current] + 1) % TIME_MOD < TASK_QUOTA
           /\ ~rs[current] /\ Continue(st, rs)
  <2>1. /\ current' = current /\ fresh' = fresh /\ ticks' = ticks + 1 /\ reschedule' = rs
        /\ time' = [time EXCEPT ![current] = (@ + 1) % TIME_MOD]
    BY <1>2 DEF Continue
  <2>2. /\ current \in Task /\ time'[current] = (time[current] + 1) % TIME_MOD
        /\ time'[current] < TASK_QUOTA
        /\ \A u \in Task : u # current => time'[u] = time[u]
    BY <1>1, <1>2, <2>1
  <2>3. time[current] < TASK_QUOTA => time'[current] = time[current] + 1
    <3>1. time[current] \in Nat  BY <1>1, <2>2
    <3> HIDE DEF Continue
    <3> SUFFICES ASSUME time[current] < TASK_QUOTA  PROVE (time[current] + 1) % TIME_MOD = time[current] + 1
      BY <2>2
    <3>2. time[current] + 1 \in Nat /\ time[current] + 1 < TIME_MOD  BY <1>1, <3>1
    <3> QED  BY <1>1, <3>2, SmallMod
  <2>4. PICK v \in Nat, w \in Nat : v = time[current] /\ w = time'[current]
    <3>1. time[current] \in Nat  BY <1>1, <2>2
    <3>2. \A x, y \in Nat : y > 0 => x % y \in Nat  OBVIOUS
    <3>3. (time[current] + 1) % TIME_MOD \in Nat  BY <1>1, <3>1, <3>2
    <3> QED  BY <2>2, <3>1, <3>3
  <2>5. w < TASK_QUOTA /\ (v < TASK_QUOTA => w = v + 1)  BY <2>2, <2>3, <2>4
  <2>6. CASE current \in fresh
    <3>1. ticks = 0 \/ (v < TASK_QUOTA /\ ticks <= v + 1)  BY <2>4, <2>6 DEF QuotaInv
    <3>2. ticks + 1 <= w + 1 /\ ticks + 1 <= TASK_QUOTA  BY <1>1, <2>4, <2>5, <3>1
    <3>3. QuotaInv'
      BY <1>2, <2>1, <2>2, <2>4, <2>5, <2>6, <3>2 DEF QuotaInv
    <3> QED  BY <2>1, <2>6, <3>2, <3>3 DEF KeepsQuota
  <2>7. CASE current \notin fresh
    <3>1. v = ticks /\ ticks < TASK_QUOTA  BY <2>2, <2>4, <2>7 DEF QuotaInv
    <3>2. w = ticks + 1 /\ ticks + 1 < TASK_QUOTA  BY <2>5, <3>1
    <3>3. QuotaInv'
      BY <1>2, <2>1, <2>2, <2>4, <2>7, <3>2 DEF QuotaInv
    <3> QED  BY <1>1, <2>1, <2>7, <3>2, <3>3 DEF KeepsQuota
  <2> QED  BY <2>6, <2>7
<1>3. CASE /\ Switch(st, rs)
           /\ current # NoTask => ~((time[current] + 1) % TIME_MOD < TASK_QUOTA) \/ rs[current]
  <2>1. /\ time' = IF current = NoTask THEN time ELSE [time EXCEPT ![current] = 0]
        /\ reschedule' = IF current = NoTask THEN rs ELSE [rs EXCEPT ![current] = FALSE]
        /\ ticks' = 0 /\ fresh' = fresh \ {current}
    BY <1>3 DEF Switch, EndQuantum, Cleared
  <2>2. /\ \A u \in Task : u # current => /\ time'[u] = time[u]
                                          /\ reschedule'[u] = reschedule[u]
        /\ current \in Task => time'[current] = 0 /\ ~reschedule'[current]
    BY <1>1, <2>1
  <2>3. \A u \in Task \ fresh' : time'[u] = 0 \/ u = current'
    <3> SUFFICES ASSUME NEW u \in Task, u \notin fresh \ {current}  PROVE time'[u] = 0 \/ u = current'
      BY <2>1
    <3> QED  BY <2>2 DEF QuotaInv
  <2>4. \A u \in Task \ fresh' : reschedule'[u] => pc'[u] = "int"
    <3> SUFFICES ASSUME NEW u \in Task, u \notin fresh \ {current}, reschedule'[u]
                 PROVE  pc'[u] = "int"
      BY <2>1
    <3> QED  BY <2>2 DEF QuotaInv
  <2>5. current' \in Task \ fresh' => time'[current'] = 0
    <3> SUFFICES ASSUME current' \in Task, current' \notin fresh \ {current}
                 PROVE  time'[current'] = 0
      BY <2>1
    <3> QED  BY <2>2 DEF QuotaInv
  <2>6. QuotaInv'  BY <1>1, <2>1, <2>3, <2>4, <2>5 DEF QuotaInv
  <2>7. KeepsQuota(rs[current])
    <3>1. ASSUME current \in Task, current \notin fresh, ~rs[current]
          PROVE  ticks = TASK_QUOTA - 1
      <4>1. time[current] = ticks /\ ticks < TASK_QUOTA  BY <3>1 DEF QuotaInv
      <4>2. ~((ticks + 1) % TIME_MOD < TASK_QUOTA)  BY <1>1, <1>3, <3>1, <4>1
      <4>3. (ticks + 1) % TIME_MOD = ticks + 1
        <5>1. ticks + 1 \in Nat /\ ticks + 1 < TIME_MOD  BY <1>1, <4>1
        <5> QED  BY <1>1, <5>1, SmallMod
      <4> QED  BY <1>1, <4>1, <4>2, <4>3
    <3> QED  BY <1>1, <2>1, <3>1 DEF KeepsQuota
  <2> QED  BY <2>6, <2>7
<1> QED  BY <1>2, <1>3 DEF Schedule

\* A step that calls no scheduler.
LEMMA QuotaQuiet ==
  ASSUME SchedInv, QuotaInv, UNCHANGED <<current, quantumVars>>,
         \A u \in Task : pc[u] = "int" => pc'[u] = "int"
  PROVE  QuotaInv' /\ KeepsQuota(FALSE)
<1>1. QuotaInv'  BY DEF QuotaInv
<1> QED  BY <1>1, QuotaBound DEF KeepsQuota

\* Whom a step takes the processor from, and why it may.
QuotaKept ==
  current # NoTask =>
    /\ current' # current /\ current \notin fresh => LosesItAsDue
    /\ current \notin fresh => ticks' < TASK_QUOTA
    /\ ticks' <= TASK_QUOTA

LEMMA KeptIfDue ==
  ASSUME NEW asked, KeepsQuota(asked),
         asked /\ current # NoTask /\ current \notin fresh
           => pc[current] = "int" \/ pc'[current] # pc[current]
  PROVE  QuotaKept
BY DEF KeepsQuota, QuotaKept, LosesItAsDue

LEMMA QuotaStep ==
  ASSUME SchedInv, QuotaInv, [Next]_vars
  PROVE  QuotaInv' /\ QuotaKept
<1>1. /\ pc \in [Task -> Labels] /\ reschedule \in [Task -> BOOLEAN]
      /\ current \in Task \cup {NoTask} /\ NoTask \notin Task
  BY TaskAssumption DEF SchedInv, TypeOK
<1>2. CASE TimerIrq
  <2>1. Schedule(status, reschedule) /\ pc' = pc  BY <1>2 DEF TimerIrq
  <2>2. QuotaInv' /\ KeepsQuota(reschedule[current])  BY <1>1, <2>1, QuotaSchedule
  <2>3. reschedule[current] /\ current # NoTask /\ current \notin fresh => pc[current] = "int"
    BY <1>1 DEF QuotaInv
  <2> QED  BY <2>2, <2>3, KeptIfDue
<1>3. CASE KeyboardIrq \/ UNCHANGED vars
  <2>1. UNCHANGED <<current, quantumVars, pc>>  BY <1>3 DEF KeyboardIrq, vars
  <2> QED  BY <2>1, QuotaQuiet, KeptIfDue
<1>4. ASSUME NEW t \in Task, TaskStep(t)  PROVE QuotaInv' /\ QuotaKept
  <2>1. ASSUME NEW st, NEW l \in Labels, NEW m \in Labels, l # m,
               At(t, l), Goto(t, m), Yield(t, st)
        PROVE  QuotaInv' /\ QuotaKept
    <3>1. PICK rs \in [Task -> BOOLEAN] : rs = [reschedule EXCEPT ![t] = TRUE]  BY Asking
    <3>2. Schedule(st, rs)  BY <2>1, <3>1 DEF Yield
    <3>3. t = current /\ pc[t] = l /\ pc'[t] = m  BY <1>1, <2>1 DEF At, Goto
    <3>4. \A u \in Task : u # current => rs[u] = reschedule[u] /\ pc'[u] = pc[u]
      BY <1>1, <2>1, <3>1, <3>3 DEF Goto
    <3>5. QuotaInv' /\ KeepsQuota(rs[current])  BY <3>2, <3>4, QuotaSchedule
    <3> QED  BY <2>1, <3>3, <3>5, KeptIfDue
  <2>2. CASE KrecvBlock(t)
    BY <2>1, <2>2 DEF KrecvBlock, Labels
  <2>3. CASE SyscallExit(t)
    BY <2>1, <2>3 DEF SyscallExit, Labels
  <2>4. ASSUME NEW l \in Labels \ {"int"}, NEW m \in Labels, At(t, l), Goto(t, m),
               UNCHANGED <<current, quantumVars>>
        PROVE  QuotaInv' /\ QuotaKept
    <3>1. \A u \in Task : pc[u] = "int" => pc'[u] = "int"  BY <1>1, <2>4 DEF At, Goto
    <3> QED  BY <2>4, <3>1, QuotaQuiet, KeptIfDue
  <2>5. CASE TtyRead(t)
    BY <2>1, <2>4, <2>5 DEF TtyRead, Labels
  <2>6. CASE YieldMark(t)
    <3>1. /\ At(t, "mark") /\ pc'[t] = "int" /\ reschedule' = [reschedule EXCEPT ![t] = TRUE]
          /\ UNCHANGED <<current, time, ticks, fresh>>
          /\ \A u \in Task : u # t => pc'[u] = pc[u]
      BY <1>1, <2>6 DEF YieldMark, Goto
    <3>2. QuotaInv'
      <4>1. \A u \in Task \ fresh : reschedule'[u] => pc'[u] = "int"
        BY <1>1, <3>1 DEF QuotaInv
      <4> QED  BY <3>1, <4>1 DEF QuotaInv
    <3>3. KeepsQuota(FALSE)  BY <3>1, QuotaBound DEF KeepsQuota
    <3> QED  BY <3>2, <3>3, KeptIfDue
  <2>7. CASE YieldInt(t)
    <3>1. t = current /\ pc[t] = "int" /\ Schedule(status, reschedule)
      BY <2>7 DEF YieldInt, At
    <3>2. \A u \in Task : u # current => pc'[u] = pc[u]
      BY <1>1, <2>7, <3>1 DEF YieldInt, Goto
    <3>3. QuotaInv' /\ KeepsQuota(reschedule[current])  BY <1>1, <3>1, <3>2, QuotaSchedule
    <3> QED  BY <3>1, <3>3, KeptIfDue
  <2>8. CASE \/ KrecvReady(t) \/ KrecvRead(t) \/ KrecvLoad(t) \/ KrecvStore(t)
             \/ KsendCheck(t) \/ KsendIndex(t) \/ KsendCopy(t)
             \/ KsendLoad(t) \/ KsendStore(t) \/ KsendWake(t)
             \/ DqHandle(t) \/ Clean(t) \/ ClientStart(t) \/ SyscallKsend(t) \/ TtyLook(t)
    <3>1. PICK l \in Labels \ {"int"}, m \in Labels : /\ At(t, l) /\ Goto(t, m)
                                                     /\ UNCHANGED <<current, quantumVars>>
      BY <2>8 DEF KrecvReady, KrecvRead, KrecvLoad, KrecvStore, KsendCheck, KsendIndex,
         KsendCopy, KsendLoad, KsendStore, KsendWake, DqHandle, Clean, ClientStart,
         SyscallKsend, TtyLook, Labels, AfterKrecv, AfterSend
    <3> QED  BY <2>4, <3>1
  <2> QED  BY <1>4, <2>2, <2>3, <2>5, <2>6, <2>7, <2>8 DEF TaskStep
<1> QED  BY <1>2, <1>3, <1>4 DEF Next

\* Whatever the slots of the tasks held, and wherever a tick cuts a sched_yield:
\* from its second quantum on a task has the processor for TASK_QUOTA ticks
\* unless it gives it up itself, never for more, and a first quantum is at most
\* one tick too long (schedule.c:21-28).
THEOREM QuotaAlwaysHonoured == Spec => QuotaHonoured
<1>1. Init => QuotaInv  BY DEF Init, QuotaInv
<1>2. SchedInv /\ QuotaInv /\ [Next]_vars => QuotaInv' /\ [QuotaKept]_vars
  BY QuotaStep
<1>3. QuotaKept => [current # NoTask =>
       /\ current' # current /\ current \notin fresh => LosesItAsDue
       /\ current \notin fresh => ticks' < TASK_QUOTA
       /\ ticks' <= TASK_QUOTA]_vars
  BY DEF QuotaKept
<1> QED  BY <1>1, <1>2, <1>3, SchedInit, SchedNext, PTL DEF Spec, QuotaHonoured

----------------------------------------------------------------------------
(* Mailboxes stay in their bounds when every ksend but the deferred        *)
(* queue's runs with the interrupts disabled: then a mailbox has at most   *)
(* one sender that can be interrupted, only its owner takes from it        *)
(* meanwhile, and the test that there is room stays true up to the store.  *)
(* SchedTest1 shows that it is not so with test1, a second such sender.    *)

SIZE == TASK_MSG_BUFF_SIZE

\* A DQ_TEST message carries a client, and only the deferred queue is in a ksend
\* that can be interrupted.
FromClient(m) == m.type = "test" => m.from \in Clients
Mails ==
  /\ \A t \in Task : \A i \in Slots : FromClient(buff[t][i])
  /\ \A t \in Task : FromClient(msg[t]) /\ FromClient(out[t])
  /\ pc[Dq] \in SendLabels => msg[Dq].from \in Clients
  /\ \A t \in Task : pc[t] \in SendLabels => t = Dq

\* A receiver that goes on to read has something to read.
Reads ==
  \A t \in Task : pc[t] = "load_de" \/ (pc[t] = "read" /\ status[t] # INTERRUPTABLE)
                    => count[t] > 0
Loads == \A t \in Task : pc[t] = "store_de" => reg[t] \in 1 .. SIZE

\* The deferred queue found room, and room there is until it has counted.
Room ==
  /\ pc[Dq] \in {"index", "copy", "load_in"} => count[msg[Dq].from] < SIZE
  /\ pc[Dq] \in {"copy", "store_in"} => reg[Dq] \in 0 .. (SIZE - 1)

\* Whom it is about to wake has a message, if it still waits for one.
BeforeRead == {"start", "syscall_ksend", "recv", "read"}
Wakes == pc[Dq] = "wake" /\ pc[msg[Dq].from] \in BeforeRead => count[msg[Dq].from] > 0

Sleeps == \A t \in Task : status[t] = INTERRUPTABLE => pc[t] = "read"

MailInv == CountInRange /\ Mails /\ Reads /\ Loads /\ Room /\ Wakes /\ Sleeps

\* What the types of the state say, without sequences.
Shapes ==
  /\ pc \in [Task -> Labels] /\ status \in [Task -> Status]
  /\ count \in [Task -> Int] /\ reg \in [Task -> Int]
  /\ buff \in [Task -> [Slots -> Message]]
  /\ msg \in [Task -> Message] /\ out \in [Task -> Message]
  /\ SIZE \in Nat /\ SIZE > 0
  /\ Dq \in Task /\ Clients \subseteq Task /\ Dq \notin Clients

LEMMA ShapesHold == SchedInv => Shapes
<1> SUFFICES ASSUME SchedInv PROVE Shapes
  OBVIOUS
<1>1. SIZE \in Nat /\ SIZE > 0
  BY BufferAssumption DEF SIZE
<1>2. Dq \in Task /\ Clients \subseteq Task /\ Dq \notin Clients
  BY TaskAssumption DEF Task, Clients
<1> QED BY <1>1, <1>2 DEF SchedInv, TypeOK, Shapes

LEMMA NoMsgFine == FromClient(NoMsg)
BY DEF FromClient, NoMsg

LEMMA MailInitial == ASSUME Init PROVE MailInv
<1>1. SIZE \in Nat /\ SIZE > 0 /\ Dq \in Task
  BY BufferAssumption DEF SIZE, Task
<1>2. \A t \in Task : pc[t] \in {"idle", "recv", "start", "tty_read", "exit"}
  BY DEF Init, Start
<1>3. \A t \in Task : count[t] = 0 /\ status[t] = RUNNING /\ msg[t] = NoMsg /\ out[t] = NoMsg
                      /\ \A i \in Slots : buff[t][i] = NoMsg
  BY DEF Init
<1>4. Mails
  BY <1>1, <1>2, <1>3, NoMsgFine DEF Mails, SendLabels
<1>5. CountInRange
  BY <1>1, <1>3 DEF CountInRange, SIZE
<1> QED BY <1>1, <1>2, <1>3, <1>4, <1>5
        DEF MailInv, Reads, Loads, Room, Wakes, Sleeps, RUNNING, INTERRUPTABLE

----------------------------------------------------------------------------
(* Steps that leave the mailboxes alone.                                   *)

\* Only the statuses of tasks that do not sleep change, and not into sleep.
LEMMA NothingMoves ==
  ASSUME MailInv, UNCHANGED <<mailVars, taskVars>>, status' = status PROVE MailInv'
BY DEF MailInv, CountInRange, Mails, Reads, Loads, Room, Wakes, Sleeps, mailVars, taskVars

LEMMA ScheduleStatus ==
  ASSUME NEW st, NEW rs, Schedule(st, rs) PROVE status' = st
BY DEF Schedule, Continue, Switch

\* The code of a task moves on to a label that promises nothing.
Plain == {"idle", "syscall_ksend", "recv", "handle", "clean", "look", "mark", "int", "exit", "done"}
LEMMA MovesOn ==
  ASSUME Shapes, MailInv, NEW t \in Task, NEW to \in Plain,
         pc' = [pc EXCEPT ![t] = to], count' = count, status' = status,
         t = Dq \/ (to \in BeforeRead => pc[t] \in BeforeRead),
         \A s \in Task : FromClient(msg'[s]) /\ FromClient(out'[s]),
         \A s \in Task \ {t} : reg'[s] = reg[s] /\ msg'[s] = msg[s],
         \A s \in Task : \A i \in Slots : FromClient(buff'[s][i]),
         status[t] # INTERRUPTABLE
  PROVE  MailInv'
<1>1. pc'[t] = to /\ \A s \in Task : s # t => pc'[s] = pc[s]
  BY DEF Shapes
<1>2. to \notin SendLabels /\ to \notin {"load_de", "read", "store_de", "wake"}
  BY DEF Plain, SendLabels
<1>3. CountInRange' /\ Reads' /\ Loads' /\ Sleeps'
  BY <1>1, <1>2 DEF MailInv, CountInRange, Reads, Loads, Sleeps
<1>4. Mails'
  BY <1>1, <1>2 DEF MailInv, Mails, Shapes
<1>5. CASE t = Dq
  BY <1>1, <1>2, <1>3, <1>4, <1>5 DEF MailInv, Room, Wakes, SendLabels
<1>6. CASE t # Dq
  <2>1. msg'[Dq] = msg[Dq] /\ reg'[Dq] = reg[Dq] /\ pc'[Dq] = pc[Dq]
    BY <1>1, <1>6 DEF Shapes
  <2>2. pc'[msg[Dq].from] \in BeforeRead /\ pc[Dq] = "wake" => pc[msg[Dq].from] \in BeforeRead
    <3>1. pc[Dq] = "wake" => msg[Dq].from \in Task
      BY DEF MailInv, Mails, SendLabels, Shapes
    <3> QED BY <1>1, <1>6, <3>1
  <2>3. Room' /\ Wakes'
    BY <2>1, <2>2 DEF MailInv, Room, Wakes
  <2> QED BY <1>3, <1>4, <2>3 DEF MailInv
<1> QED BY <1>5, <1>6

\* A task that executes is not asleep.
LEMMA Awake ==
  ASSUME SchedInv, NEW t \in Task, NEW l, At(t, l)  PROVE pc[t] = l /\ status[t] # INTERRUPTABLE
<1>1. t # NoTask  BY TaskAssumption
<1> QED  BY <1>1 DEF SchedInv, CurrentIsRunning, At, RUNNING, INTERRUPTABLE

LEMMA LeavingMail ==
  ASSUME SchedInv, MailInv, NEW t \in Task, KrecvBlock(t) \/ SyscallExit(t)  PROVE MailInv'
<1>0. Shapes  BY ShapesHold
<1>1. PICK s \in {INTERRUPTABLE, KILLING}, to \in {"read", "done"} :
        /\ status' = [status EXCEPT ![t] = s] /\ pc' = [pc EXCEPT ![t] = to]
        /\ UNCHANGED <<mailVars, msg, out, reg>>
        /\ s = INTERRUPTABLE <=> to = "read"
        /\ to = "read" => pc[t] = "recv"
  <2>1. CASE KrecvBlock(t)
    BY <2>1, ScheduleStatus DEF KrecvBlock, Yield, Goto, At
  <2>2. CASE SyscallExit(t)
    BY <2>2, ScheduleStatus DEF SyscallExit, Yield, Goto, KILLING, INTERRUPTABLE
  <2> QED  BY <2>1, <2>2
<1>2. /\ pc'[t] = to /\ status'[t] = s
      /\ \A u \in Task : u # t => pc'[u] = pc[u] /\ status'[u] = status[u]
  BY <1>0, <1>1 DEF Shapes
<1>3. count' = count /\ buff' = buff /\ msg' = msg /\ out' = out /\ reg' = reg
  BY <1>1 DEF mailVars
<1>4. CountInRange' /\ Reads' /\ Loads' /\ Sleeps'
  BY <1>1, <1>2, <1>3 DEF MailInv, CountInRange, Reads, Loads, Sleeps
<1>5. to \notin SendLabels /\ Dq \in Task  BY <1>0, <1>1 DEF SendLabels, Shapes
<1>6. pc'[Dq] \in SendLabels => pc'[Dq] = pc[Dq]  BY <1>2, <1>5
<1>7. Mails'  BY <1>2, <1>3, <1>5, <1>6 DEF MailInv, Mails
<1>8. Room'  BY <1>3, <1>6 DEF MailInv, Room, SendLabels
<1>9. Wakes'
  <2>1. SUFFICES ASSUME pc'[Dq] = "wake", pc'[msg[Dq].from] \in BeforeRead
                 PROVE  count[msg[Dq].from] > 0
    BY <1>3 DEF Wakes
  <2>2. pc[Dq] = "wake" /\ msg[Dq].from \in Task
    BY <1>0, <1>6, <2>1 DEF SendLabels, MailInv, Mails, Shapes
  <2>3. pc[msg[Dq].from] \in BeforeRead
    BY <1>1, <1>2, <2>1, <2>2 DEF BeforeRead
  <2> QED  BY <2>2, <2>3 DEF MailInv, Wakes
<1> QED  BY <1>4, <1>7, <1>8, <1>9 DEF MailInv

----------------------------------------------------------------------------
(* krecive.                                                                *)

LEMMA SlotFine ==
  ASSUME MailInv, NEW t \in Task, NEW i  PROVE FromClient(Slot(t, i))
BY NoMsgFine DEF MailInv, Mails, Slot

LEMMA KrecvReadyMail ==
  ASSUME SchedInv, MailInv, NEW t \in Task, KrecvReady(t)  PROVE MailInv'
<1>0. Shapes  BY ShapesHold
<1>1. /\ pc[t] = "recv" /\ count[t] # 0
      /\ msg' = [msg EXCEPT ![t] = Slot(t, count[t] - 1)]
      /\ count' = [count EXCEPT ![t] = @ - 1]
      /\ status' = status /\ buff' = buff /\ out' = out /\ reg' = reg
  BY DEF KrecvReady, At, schedVars
<1>2. PICK to \in {"handle", "clean"} : pc' = [pc EXCEPT ![t] = to]
  BY DEF KrecvReady, Goto, AfterKrecv
<1>3. /\ pc'[t] = to /\ count'[t] = count[t] - 1
      /\ \A u \in Task : u # t => pc'[u] = pc[u] /\ count'[u] = count[u] /\ msg'[u] = msg[u]
      /\ FromClient(msg'[t])
  BY <1>0, <1>1, <1>2, SlotFine DEF Shapes
<1>4. \A u \in Task : count[u] \in 0 .. SIZE  BY DEF MailInv, CountInRange, SIZE
<1>5. count'[t] \in 0 .. SIZE /\ count'[t] < SIZE
  <2>1. SIZE \in Nat /\ count[t] \in 1 .. SIZE  BY <1>0, <1>1, <1>4 DEF Shapes
  <2> QED  BY <1>3, <2>1
<1>6. CountInRange' /\ Reads' /\ Loads' /\ Sleeps'
  BY <1>1, <1>3, <1>4, <1>5 DEF MailInv, CountInRange, Reads, Loads, Sleeps, SIZE
<1>7. to \notin SendLabels /\ Dq \in Task  BY <1>0 DEF SendLabels, Shapes
<1>8. pc'[Dq] \in SendLabels => t # Dq  BY <1>3, <1>7
<1>9. Mails'  BY <1>1, <1>3, <1>7, <1>8 DEF MailInv, Mails
<1>10. pc'[Dq] \in SendLabels => /\ pc'[Dq] = pc[Dq] /\ msg'[Dq] = msg[Dq]
                                 /\ msg[Dq].from \in Task
  BY <1>0, <1>3, <1>7, <1>8 DEF MailInv, Mails, Shapes
<1>11. Room'
  BY <1>1, <1>3, <1>5, <1>10 DEF MailInv, Room, SendLabels
<1>12. Wakes'
  BY <1>2, <1>3, <1>10 DEF MailInv, Wakes, SendLabels, BeforeRead
<1> QED  BY <1>6, <1>9, <1>11, <1>12 DEF MailInv

LEMMA KrecvReadMail ==
  ASSUME SchedInv, MailInv, NEW t \in Task, KrecvRead(t) \/ KrecvLoad(t)  PROVE MailInv'
<1>0. Shapes  BY ShapesHold
<1>1. /\ status' = status /\ count' = count /\ buff' = buff /\ out' = out
      /\ pc[t] \in {"read", "load_de"} /\ status[t] # INTERRUPTABLE
  BY Awake DEF KrecvRead, KrecvLoad, At, schedVars, mailVars
<1>2. PICK to \in {"load_de", "store_de"} :
        /\ pc' = [pc EXCEPT ![t] = to]
        /\ to = "store_de" => reg' = [reg EXCEPT ![t] = count[t]]
        /\ to = "load_de" => reg' = reg
  BY DEF KrecvRead, KrecvLoad, Goto
<1>3. /\ pc'[t] = to /\ \A u \in Task : u # t => pc'[u] = pc[u] /\ reg'[u] = reg[u]
      /\ to = "store_de" => reg'[t] = count[t]
  BY <1>0, <1>2 DEF Shapes
<1>4. \A u \in Task : FromClient(msg'[u]) /\ (u # t => msg'[u] = msg[u])
  <2>1. msg' = msg \/ msg' = [msg EXCEPT ![t] = Slot(t, count[t] - 1)]
    BY DEF KrecvRead, KrecvLoad
  <2> QED  BY <1>0, <2>1, SlotFine DEF MailInv, Mails, Shapes
<1>5. count[t] \in 1 .. SIZE
  BY <1>0, <1>1 DEF MailInv, Reads, CountInRange, SIZE, Shapes
<1>6. CountInRange' /\ Reads' /\ Loads' /\ Sleeps'
  BY <1>1, <1>3, <1>5 DEF MailInv, CountInRange, Reads, Loads, Sleeps
<1>7. to \notin SendLabels /\ Dq \in Task  BY <1>0 DEF SendLabels, Shapes
<1>8. Mails'  BY <1>1, <1>3, <1>4, <1>7 DEF MailInv, Mails
<1>9. pc'[Dq] \in SendLabels => /\ pc'[Dq] = pc[Dq] /\ msg'[Dq] = msg[Dq] /\ reg'[Dq] = reg[Dq]
                                /\ msg[Dq].from \in Task
  BY <1>0, <1>3, <1>4, <1>7 DEF MailInv, Mails, Shapes
<1>10. Room'
  BY <1>1, <1>9 DEF MailInv, Room, SendLabels
<1>11. Wakes'
  BY <1>1, <1>2, <1>3, <1>9 DEF MailInv, Wakes, SendLabels, BeforeRead
<1> QED  BY <1>6, <1>8, <1>10, <1>11 DEF MailInv

LEMMA KrecvStoreMail ==
  ASSUME SchedInv, MailInv, NEW t \in Task, KrecvStore(t)  PROVE MailInv'
<1>0. Shapes  BY ShapesHold
<1>1. /\ pc[t] = "store_de" /\ count' = [count EXCEPT ![t] = reg[t] - 1]
      /\ status' = status /\ buff' = buff /\ msg' = msg /\ out' = out /\ reg' = reg
  BY DEF KrecvStore, At, schedVars
<1>2. PICK to \in {"handle", "clean"} : pc' = [pc EXCEPT ![t] = to]
  BY DEF KrecvStore, Goto, AfterKrecv
<1>3. /\ pc'[t] = to /\ count'[t] = reg[t] - 1
      /\ \A u \in Task : u # t => pc'[u] = pc[u] /\ count'[u] = count[u]
  BY <1>0, <1>1, <1>2 DEF Shapes
<1>4. count'[t] \in 0 .. SIZE /\ count'[t] < SIZE
  BY <1>0, <1>1, <1>3 DEF MailInv, Loads, Shapes
<1>5. CountInRange' /\ Reads' /\ Loads' /\ Sleeps'
  BY <1>1, <1>3, <1>4 DEF MailInv, CountInRange, Reads, Loads, Sleeps, SIZE
<1>6. to \notin SendLabels /\ Dq \in Task  BY <1>0 DEF SendLabels, Shapes
<1>7. pc'[Dq] \in SendLabels => pc'[Dq] = pc[Dq] /\ msg[Dq].from \in Task
  BY <1>0, <1>3, <1>6 DEF MailInv, Mails, Shapes
<1>8. Mails'  BY <1>1, <1>3, <1>6, <1>7 DEF MailInv, Mails
<1>9. Room'
  BY <1>1, <1>3, <1>4, <1>7 DEF MailInv, Room, SendLabels
<1>10. Wakes'
  BY <1>1, <1>2, <1>3, <1>7 DEF MailInv, Wakes, SendLabels, BeforeRead
<1> QED  BY <1>5, <1>8, <1>9, <1>10 DEF MailInv

----------------------------------------------------------------------------
(* The deferred queue's ksend, which can be interrupted.                   *)

\* While it sends, it alone moves, to a client that it answers.
LEMMA SenderFacts ==
  ASSUME SchedInv, MailInv, NEW t \in Task, NEW l \in SendLabels, At(t, l)
  PROVE  /\ t = Dq /\ pc[Dq] = l /\ Target(t) = msg[Dq].from
         /\ msg[Dq].from \in Task /\ msg[Dq].from \in Clients /\ msg[Dq].from # Dq
         /\ status[Dq] # INTERRUPTABLE
<1>0. Shapes  BY ShapesHold
<1>1. t = Dq /\ pc[Dq] = l  BY DEF At, MailInv, Mails
<1>2. msg[Dq].from \in Clients  BY <1>1 DEF MailInv, Mails
<1> QED  BY <1>0, <1>1, <1>2, Awake DEF Target, Shapes

LEMMA KsendQuietMail ==
  ASSUME SchedInv, MailInv, NEW t \in Task, KsendCheck(t) \/ KsendIndex(t) \/ KsendLoad(t)
  PROVE  MailInv'
<1>0. Shapes  BY ShapesHold
<1>1. PICK l \in {"check", "index", "load_in"} : At(t, l)
  BY DEF KsendCheck, KsendIndex, KsendLoad
<1>2. /\ t = Dq /\ pc[Dq] = l /\ Target(t) = msg[Dq].from /\ msg[Dq].from \in Task
      /\ status[Dq] # INTERRUPTABLE /\ msg[Dq].from \in Clients
  BY <1>1, SenderFacts DEF SendLabels
<1>3. status' = status /\ count' = count /\ buff' = buff /\ msg' = msg /\ out' = out
  BY DEF KsendCheck, KsendIndex, KsendLoad, schedVars, mailVars
<1>4. PICK to \in {"clean", "index", "copy", "store_in"} :
        /\ pc' = [pc EXCEPT ![Dq] = to]
        /\ to = "index" => l = "check" /\ ~Refuses(msg[Dq].from)
        /\ to \in {"copy", "store_in"} => /\ reg' = [reg EXCEPT ![Dq] = count[msg[Dq].from]]
                                          /\ l \in {"index", "load_in"}
        /\ to \notin {"copy", "store_in"} => reg' = reg
  <2>1. CASE KsendCheck(t)
    BY <1>1, <1>2, <2>1 DEF KsendCheck, Goto, AfterSend, At
  <2>2. CASE KsendIndex(t)
    BY <1>1, <1>2, <2>2 DEF KsendIndex, Goto, At
  <2>3. CASE KsendLoad(t)
    BY <1>1, <1>2, <2>3 DEF KsendLoad, Goto, At
  <2> QED  BY <2>1, <2>2, <2>3
<1>5. /\ pc'[Dq] = to /\ \A u \in Task : u # Dq => pc'[u] = pc[u] /\ reg'[u] = reg[u]
      /\ to \in {"copy", "store_in"} => reg'[Dq] = count[msg[Dq].from]
  BY <1>0, <1>4 DEF Shapes
<1>6. CountInRange' /\ Reads' /\ Loads' /\ Sleeps'
  BY <1>2, <1>3, <1>4, <1>5 DEF MailInv, CountInRange, Reads, Loads, Sleeps
<1>7. Mails'
  BY <1>2, <1>3, <1>5 DEF MailInv, Mails
<1>8. count[msg[Dq].from] \in 0 .. SIZE
  BY <1>2 DEF MailInv, CountInRange, SIZE
<1>9. to \in {"index", "copy", "store_in"} => count[msg[Dq].from] # SIZE
  <2>1. to = "index" => count[msg[Dq].from] # SIZE  BY <1>4 DEF Refuses, SIZE
  <2>2. l \in {"index", "load_in"} => count[msg[Dq].from] < SIZE
    BY <1>2 DEF MailInv, Room
  <2>3. SIZE \in Nat  BY <1>0 DEF Shapes
  <2> QED  BY <1>4, <1>8, <2>1, <2>2, <2>3
<1>10. to \in {"index", "copy", "store_in"} => /\ count[msg[Dq].from] \in 0 .. (SIZE - 1)
                                               /\ count[msg[Dq].from] < SIZE
  <2>1. \A k \in 0 .. SIZE : k # SIZE => k \in 0 .. (SIZE - 1) /\ k < SIZE
    BY <1>0 DEF Shapes
  <2> QED  BY <1>8, <1>9, <2>1
<1>11. Room'
  BY <1>3, <1>4, <1>5, <1>10 DEF Room
<1>12. Wakes'
  BY <1>4, <1>5 DEF Wakes
<1> QED  BY <1>6, <1>7, <1>11, <1>12 DEF MailInv

LEMMA KsendCopyMail ==
  ASSUME SchedInv, MailInv, NEW t \in Task, KsendCopy(t)  PROVE MailInv'
<1>0. Shapes  BY ShapesHold
<1>1. At(t, "copy")  BY DEF KsendCopy
<1>2. /\ t = Dq /\ pc[Dq] = "copy" /\ Target(t) = msg[Dq].from /\ msg[Dq].from \in Task
      /\ status[Dq] # INTERRUPTABLE /\ msg[Dq].from \in Clients
  BY <1>1, SenderFacts DEF SendLabels
<1>3. /\ status' = status /\ count' = count /\ msg' = msg /\ out' = out /\ reg' = reg
      /\ pc' = [pc EXCEPT ![Dq] = "load_in"]
      /\ buff' = [buff EXCEPT ![msg[Dq].from] =
                    [i \in Slots |-> IF i = reg[Dq] THEN out[Dq] ELSE @[i]]]
  BY <1>2 DEF KsendCopy, Goto, schedVars
<1>4. pc'[Dq] = "load_in" /\ \A u \in Task : u # Dq => pc'[u] = pc[u]
  BY <1>0, <1>3 DEF Shapes
<1>5. CountInRange' /\ Reads' /\ Loads' /\ Sleeps'
  BY <1>2, <1>3, <1>4 DEF MailInv, CountInRange, Reads, Loads, Sleeps
<1>6. \A u \in Task : \A i \in Slots : FromClient(buff'[u][i])
  BY <1>0, <1>2, <1>3 DEF MailInv, Mails, Shapes
<1>7. Mails'
  BY <1>2, <1>3, <1>4, <1>6 DEF MailInv, Mails
<1>8. Room' /\ Wakes'
  BY <1>2, <1>3, <1>4 DEF MailInv, Room, Wakes
<1> QED  BY <1>5, <1>7, <1>8 DEF MailInv

LEMMA KsendStoreMail ==
  ASSUME SchedInv, MailInv, NEW t \in Task, KsendStore(t)  PROVE MailInv'
<1>0. Shapes  BY ShapesHold
<1>1. At(t, "store_in")  BY DEF KsendStore
<1>2. /\ t = Dq /\ pc[Dq] = "store_in" /\ Target(t) = msg[Dq].from /\ msg[Dq].from \in Task
      /\ status[Dq] # INTERRUPTABLE /\ msg[Dq].from \in Clients
  BY <1>1, SenderFacts DEF SendLabels
<1>3. /\ status' = status /\ buff' = buff /\ msg' = msg /\ out' = out /\ reg' = reg
      /\ pc' = [pc EXCEPT ![Dq] = "wake"]
      /\ count' = [count EXCEPT ![msg[Dq].from] = reg[Dq] + 1]
  BY <1>2 DEF KsendStore, Goto, schedVars
<1>4. /\ pc'[Dq] = "wake" /\ count'[msg[Dq].from] = reg[Dq] + 1
      /\ \A u \in Task : u # Dq => pc'[u] = pc[u]
      /\ \A u \in Task : u # msg[Dq].from => count'[u] = count[u]
  BY <1>0, <1>2, <1>3 DEF Shapes
<1>5. count'[msg[Dq].from] \in 0 .. SIZE /\ count'[msg[Dq].from] > 0
  <2>1. reg[Dq] \in 0 .. (SIZE - 1) /\ SIZE \in Nat
    BY <1>0, <1>2 DEF MailInv, Room, Shapes
  <2> QED  BY <1>4, <2>1
<1>6. CountInRange' /\ Reads' /\ Loads' /\ Sleeps'
  BY <1>2, <1>3, <1>4, <1>5 DEF MailInv, CountInRange, Reads, Loads, Sleeps, SIZE
<1>7. Mails'
  BY <1>2, <1>3, <1>4 DEF MailInv, Mails
<1>8. Room' /\ Wakes'
  BY <1>3, <1>4, <1>5 DEF Room, Wakes
<1> QED  BY <1>6, <1>7, <1>8 DEF MailInv

LEMMA KsendWakeMail ==
  ASSUME SchedInv, MailInv, NEW t \in Task, KsendWake(t)
  PROVE  /\ MailInv'
         /\ \A u \in Task : status'[u] # status[u] /\ status[u] = INTERRUPTABLE => count'[u] > 0
<1>0. Shapes  BY ShapesHold
<1>1. At(t, "wake")  BY DEF KsendWake
<1>2. /\ t = Dq /\ pc[Dq] = "wake" /\ Target(t) = msg[Dq].from /\ msg[Dq].from \in Task
      /\ status[Dq] # INTERRUPTABLE /\ msg[Dq].from \in Clients
  BY <1>1, SenderFacts DEF SendLabels
<1>3. /\ count' = count /\ buff' = buff /\ msg' = msg /\ out' = out /\ reg' = reg
      /\ pc' = [pc EXCEPT ![Dq] = "clean"]
      /\ status' = Woken(msg[Dq].from)
  BY <1>2 DEF KsendWake, Goto, mailVars, AfterSend
<1>4. /\ pc'[Dq] = "clean" /\ \A u \in Task : u # Dq => pc'[u] = pc[u]
      /\ \A u \in Task : u # msg[Dq].from => status'[u] = status[u]
      /\ status'[msg[Dq].from] # INTERRUPTABLE
      /\ status[msg[Dq].from] # INTERRUPTABLE
           => status'[msg[Dq].from] = status[msg[Dq].from]
  BY <1>0, <1>2, <1>3 DEF Shapes, Woken, RUNNING, INTERRUPTABLE
<1>5. status[msg[Dq].from] = INTERRUPTABLE => count[msg[Dq].from] > 0
  BY <1>2 DEF MailInv, Wakes, Sleeps, BeforeRead
<1>6. CountInRange' /\ Loads' /\ Sleeps'
  BY <1>2, <1>3, <1>4 DEF MailInv, CountInRange, Loads, Sleeps
<1>7. Reads'
  <2> SUFFICES ASSUME NEW u \in Task,
                      pc'[u] = "load_de" \/ (pc'[u] = "read" /\ status'[u] # INTERRUPTABLE)
               PROVE  count[u] > 0
    BY <1>3 DEF Reads
  <2>1. u # Dq /\ pc'[u] = pc[u]  BY <1>4
  <2> QED  BY <1>4, <1>5, <2>1 DEF MailInv, Reads
<1>8. Mails'
  BY <1>2, <1>3, <1>4 DEF MailInv, Mails, SendLabels
<1>9. Room' /\ Wakes'
  BY <1>4 DEF Room, Wakes
<1> QED  BY <1>3, <1>4, <1>5, <1>6, <1>7, <1>8, <1>9 DEF MailInv

----------------------------------------------------------------------------
(* The ksend that cannot be interrupted, to the deferred queue.            *)

LEMMA KsendMail ==
  ASSUME Shapes, MailInv, NEW m, FromClient(m), m \in Message, Ksend(Dq, m)
  PROVE  /\ CountInRange' /\ \A u \in Task : \A i \in Slots : FromClient(buff'[u][i])
         /\ \A u \in Task : u # Dq => count'[u] = count[u] /\ status'[u] = status[u]
         /\ status'[Dq] = status[Dq] \/ (status'[Dq] = RUNNING /\ count'[Dq] > 0)
         /\ count[Dq] > 0 => count'[Dq] > 0
<1>0. Dq \in Task /\ SIZE \in Nat  BY DEF Shapes
<1>1. CASE Refuses(Dq)
  BY <1>0, <1>1 DEF Ksend, MailInv, CountInRange, Mails
<1>2. CASE ~Refuses(Dq)
  <2>1. /\ count' = [count EXCEPT ![Dq] = @ + 1] /\ status' = Woken(Dq)
        /\ buff' = [buff EXCEPT ![Dq] = [i \in Slots |-> IF i = count[Dq] THEN m ELSE @[i]]]
    BY <1>2 DEF Ksend
  <2>2. count[Dq] \in 0 .. SIZE /\ count[Dq] # SIZE
    BY <1>0, <1>2 DEF Refuses, MailInv, CountInRange, SIZE
  <2>3. count'[Dq] = count[Dq] + 1 /\ \A u \in Task : u # Dq => count'[u] = count[u]
    BY <2>1 DEF Shapes
  <2>4. count'[Dq] \in 0 .. SIZE /\ count'[Dq] > 0
    BY <1>0, <2>2, <2>3
  <2>5. CountInRange'
    BY <2>3, <2>4 DEF MailInv, CountInRange, SIZE
  <2>6. \A u \in Task : \A i \in Slots : FromClient(buff'[u][i])
    BY <2>1 DEF MailInv, Mails, Shapes
  <2>7. /\ \A u \in Task : u # Dq => status'[u] = status[u]
        /\ status'[Dq] = status[Dq] \/ status'[Dq] = RUNNING
    BY <2>1 DEF Shapes, Woken
  <2> QED  BY <2>3, <2>4, <2>5, <2>6, <2>7
<1> QED  BY <1>1, <1>2

\* And what it leaves alone: the code of the tasks, up to one that goes on to
\* wait for its answer.
LEMMA SentMail ==
  ASSUME Shapes, MailInv, NEW m, FromClient(m), m \in Message, Ksend(Dq, m),
         msg' = msg, out' = out, reg' = reg, NEW t \in Task,
         pc' = pc \/ (pc[t] = "syscall_ksend" /\ pc' = [pc EXCEPT ![t] = "recv"]
                        /\ status[t] # INTERRUPTABLE)
  PROVE  MailInv' /\ \A u \in Task : status'[u] # status[u] => count'[u] > 0
<1>0. Dq \in Task  BY DEF Shapes
<1>1. /\ CountInRange' /\ \A u \in Task : \A i \in Slots : FromClient(buff'[u][i])
      /\ \A u \in Task : u # Dq => count'[u] = count[u] /\ status'[u] = status[u]
      /\ status'[Dq] = status[Dq] \/ (status'[Dq] = RUNNING /\ count'[Dq] > 0)
      /\ count[Dq] > 0 => count'[Dq] > 0
  BY KsendMail
<1>2. \A u \in Task : pc'[u] = pc[u] \/ (/\ u = t /\ pc[u] = "syscall_ksend" /\ pc'[u] = "recv"
                                         /\ status[u] # INTERRUPTABLE)
  BY DEF Shapes
<1>3. pc'[Dq] = "recv" \/ pc'[Dq] = pc[Dq]  BY <1>0, <1>2
<1>4. Reads'
  <2> SUFFICES ASSUME NEW u \in Task,
                      pc'[u] = "load_de" \/ (pc'[u] = "read" /\ status'[u] # INTERRUPTABLE)
               PROVE  count'[u] > 0
    BY DEF Reads
  <2>1. pc[u] = "load_de" \/ pc[u] = "read"  BY <1>2
  <2>2. CASE u # Dq
    BY <1>1, <1>2, <2>2 DEF MailInv, Reads
  <2>3. CASE u = Dq
    BY <1>1, <1>2, <2>3 DEF MailInv, Reads
  <2> QED  BY <2>2, <2>3
<1>5. Loads'  BY <1>2 DEF MailInv, Loads
<1>6. Sleeps'
  BY <1>1, <1>2 DEF MailInv, Sleeps, RUNNING, INTERRUPTABLE
<1>7. Mails'
  BY <1>0, <1>1, <1>2, <1>3 DEF MailInv, Mails, SendLabels
<1>8. pc'[Dq] \in SendLabels => /\ pc'[Dq] = pc[Dq] /\ msg[Dq].from \in Task /\ msg[Dq].from # Dq
  BY <1>3 DEF SendLabels, MailInv, Mails, Shapes
<1>9. Room'
  BY <1>1, <1>8 DEF MailInv, Room, SendLabels
<1>10. Wakes'
  <2> SUFFICES ASSUME pc'[Dq] = "wake", pc'[msg[Dq].from] \in BeforeRead
               PROVE  count'[msg[Dq].from] > 0
    BY DEF Wakes
  <2>1. pc[Dq] = "wake" /\ msg[Dq].from \in Task /\ msg[Dq].from # Dq
    BY <1>8 DEF SendLabels
  <2>2. pc[msg[Dq].from] \in BeforeRead  BY <1>2, <2>1 DEF BeforeRead
  <2> QED  BY <1>1, <2>1, <2>2 DEF MailInv, Wakes
<1> QED  BY <1>0, <1>1, <1>4, <1>5, <1>6, <1>7, <1>9, <1>10 DEF MailInv

LEMMA KeyboardMail ==
  ASSUME SchedInv, MailInv, KeyboardIrq
  PROVE  MailInv' /\ \A u \in Task : status'[u] # status[u] => count'[u] > 0
<1>1. PICK b \in Kmalloc : Ksend(Dq, [type |-> "sched", data |-> b, from |-> NoTask])
  BY DEF KeyboardIrq
<1>2. [type |-> "sched", data |-> b, from |-> NoTask] \in Message
  BY DEF Message, Kmalloc
<1>3. FromClient([type |-> "sched", data |-> b, from |-> NoTask])
  BY DEF FromClient
<1>4. pc' = pc /\ msg' = msg /\ out' = out /\ reg' = reg  BY DEF KeyboardIrq, taskVars
<1>5. Shapes /\ Dq \in Task  BY ShapesHold DEF Shapes
<1> QED  BY <1>1, <1>2, <1>3, <1>4, <1>5, SentMail

LEMMA SyscallKsendMail ==
  ASSUME SchedInv, MailInv, NEW t \in Task, SyscallKsend(t)
  PROVE  MailInv' /\ \A u \in Task : status'[u] # status[u] => count'[u] > 0
<1>0. Shapes  BY ShapesHold
<1>1. /\ pc[t] = "syscall_ksend" /\ status[t] # INTERRUPTABLE
      /\ Ksend(Dq, out[t]) /\ pc' = [pc EXCEPT ![t] = "recv"]
      /\ msg' = msg /\ out' = out /\ reg' = reg
  BY Awake DEF SyscallKsend, Goto
<1>2. out[t] \in Message /\ FromClient(out[t])
  BY <1>0 DEF Shapes, MailInv, Mails
<1> QED  BY <1>0, <1>1, <1>2, SentMail

----------------------------------------------------------------------------
(* The tasks.                                                              *)

LEMMA ClientStartMail ==
  ASSUME SchedInv, MailInv, KernelClients = {}, NEW t \in Task, ClientStart(t)
  PROVE  MailInv'
<1>0. Shapes  BY ShapesHold
<1>1. /\ t \in Clients /\ pc[t] = "start" /\ status[t] # INTERRUPTABLE
      /\ status' = status /\ count' = count /\ buff' = buff /\ msg' = msg /\ reg' = reg
      /\ pc' = [pc EXCEPT ![t] = "syscall_ksend"]
  BY Awake DEF ClientStart, At, Goto, schedVars, mailVars
<1>2. PICK b : out' = [out EXCEPT ![t] = [type |-> "test", data |-> b, from |-> t]]
  BY DEF ClientStart
<1>3. FromClient([type |-> "test", data |-> b, from |-> t])
  BY <1>1 DEF FromClient
<1>4. \A u \in Task : FromClient(msg'[u]) /\ FromClient(out'[u])
  BY <1>0, <1>1, <1>2, <1>3 DEF MailInv, Mails, Shapes
<1>5. "syscall_ksend" \in Plain /\ pc[t] \in BeforeRead  BY <1>1 DEF Plain, BeforeRead
<1>6. \A u \in Task : \A i \in Slots : FromClient(buff'[u][i])
  BY <1>1 DEF MailInv, Mails
<1> QED  BY <1>0, <1>1, <1>4, <1>5, <1>6, MovesOn

LEMMA CleanMail ==
  ASSUME SchedInv, MailInv, NEW t \in Task, Clean(t)  PROVE MailInv'
<1>0. Shapes  BY ShapesHold
<1>1. /\ pc[t] = "clean" /\ status[t] # INTERRUPTABLE
      /\ status' = status /\ count' = count /\ buff' = buff
      /\ msg' = [msg EXCEPT ![t] = NoMsg] /\ out' = [out EXCEPT ![t] = NoMsg]
      /\ reg' = [reg EXCEPT ![t] = 0]
  BY Awake DEF Clean, At, schedVars, mailVars
<1>2. PICK to \in {"recv", "exit"} : /\ pc' = [pc EXCEPT ![t] = to]
                                     /\ to = "recv" => t = Dq
  BY DEF Clean, Goto
<1>3. \A u \in Task : FromClient(msg'[u]) /\ FromClient(out'[u])
  BY <1>0, <1>1, NoMsgFine DEF MailInv, Mails, Shapes
<1>4. \A u \in Task \ {t} : reg'[u] = reg[u] /\ msg'[u] = msg[u]
  BY <1>0, <1>1 DEF Shapes
<1>5. to \in Plain /\ (t = Dq \/ to \notin BeforeRead)  BY <1>2 DEF Plain, BeforeRead
<1>6. \A u \in Task : \A i \in Slots : FromClient(buff'[u][i])
  BY <1>1 DEF MailInv, Mails
<1> QED  BY <1>0, <1>1, <1>2, <1>3, <1>4, <1>5, <1>6, MovesOn

LEMMA DqHandleMail ==
  ASSUME SchedInv, MailInv, NEW t \in Task, DqHandle(t)  PROVE MailInv'
<1>0. Shapes  BY ShapesHold
<1>1. /\ t = Dq /\ pc[Dq] = "handle" /\ status[Dq] # INTERRUPTABLE
      /\ status' = status /\ count' = count /\ buff' = buff /\ msg' = msg /\ reg' = reg
  BY Awake DEF DqHandle, At, schedVars, mailVars
<1>2. \A u \in Task : \A i \in Slots : FromClient(buff'[u][i])
  BY <1>1 DEF MailInv, Mails
<1>3. CASE msg[Dq].type = "test"
  <2>1. PICK b : out' = [out EXCEPT ![Dq] = [type |-> "reply", data |-> b, from |-> t]]
    BY <1>1, <1>3 DEF DqHandle
  <2>2. pc' = [pc EXCEPT ![Dq] = "check"]
    BY <1>1, <1>3 DEF DqHandle, Goto
  <2>3. pc'[Dq] = "check" /\ \A u \in Task : u # Dq => pc'[u] = pc[u]
    BY <1>0, <2>2 DEF Shapes
  <2>4. FromClient([type |-> "reply", data |-> b, from |-> t])
    BY DEF FromClient
  <2>5. \A u \in Task : FromClient(out'[u])
    BY <1>0, <2>1, <2>4 DEF MailInv, Mails, Shapes
  <2>6. msg[Dq].from \in Clients
    BY <1>0, <1>3 DEF MailInv, Mails, FromClient, Shapes
  <2>7. Mails'
    BY <1>1, <1>2, <2>3, <2>5, <2>6 DEF MailInv, Mails
  <2>8. CountInRange' /\ Reads' /\ Loads' /\ Sleeps' /\ Room' /\ Wakes'
    BY <1>1, <2>3 DEF MailInv, CountInRange, Reads, Loads, Sleeps, Room, Wakes
  <2> QED  BY <2>7, <2>8 DEF MailInv
<1>4. CASE msg[Dq].type # "test"
  <2>1. out' = out /\ pc' = [pc EXCEPT ![Dq] = "clean"]
    BY <1>1, <1>4 DEF DqHandle, Goto
  <2>2. \A u \in Task : FromClient(msg'[u]) /\ FromClient(out'[u])
    BY <1>1, <2>1 DEF MailInv, Mails
  <2>3. "clean" \in Plain  BY DEF Plain
  <2> QED  BY <1>0, <1>1, <1>2, <2>1, <2>2, <2>3, MovesOn
<1> QED  BY <1>3, <1>4

LEMMA ReaderMail ==
  ASSUME SchedInv, MailInv, NEW t \in Task,
         TtyRead(t) \/ TtyLook(t) \/ YieldMark(t) \/ YieldInt(t)
  PROVE  MailInv' /\ status' = status
<1>0. Shapes  BY ShapesHold
<1>1. PICK l \in {"tty_read", "look", "mark", "int"}, to \in {"exit", "look", "mark", "int"} :
        /\ At(t, l) /\ pc' = [pc EXCEPT ![t] = to]
        /\ UNCHANGED <<mailVars, msg, out, reg>>
  BY DEF TtyRead, TtyLook, YieldMark, YieldInt, Goto
<1>2. status' = status
  <2>1. CASE TtyRead(t) \/ YieldInt(t)
    BY <2>1, ScheduleStatus DEF TtyRead, YieldInt, Yield, schedVars
  <2>2. CASE TtyLook(t) \/ YieldMark(t)
    BY <2>2 DEF TtyLook, YieldMark, schedVars
  <2> QED  BY <2>1, <2>2
<1>3. count' = count /\ buff' = buff /\ msg' = msg /\ out' = out /\ reg' = reg
  BY <1>1 DEF mailVars
<1>4. /\ \A u \in Task : FromClient(msg'[u]) /\ FromClient(out'[u])
      /\ \A u \in Task : \A i \in Slots : FromClient(buff'[u][i])
  BY <1>3 DEF MailInv, Mails
<1>5. to \in Plain /\ to \notin BeforeRead  BY DEF Plain, BeforeRead
<1>6. status[t] # INTERRUPTABLE  BY <1>1, Awake
<1>7. MailInv'  BY <1>0, <1>1, <1>2, <1>3, <1>4, <1>5, <1>6, MovesOn
<1> QED  BY <1>2, <1>7

\* A sleeper is made runnable by nothing but a message.
WokenByMail == \A t \in Task : status[t] = INTERRUPTABLE /\ status'[t] = RUNNING => count'[t] > 0

LEMMA MailNext ==
  ASSUME SchedInv, MailInv, KernelClients = {}, [Next]_vars
  PROVE  MailInv' /\ WokenByMail
<1>0. INTERRUPTABLE # RUNNING /\ KILLING # RUNNING  BY DEF INTERRUPTABLE, RUNNING, KILLING
<1>1. CASE TimerIrq
  BY <1>0, <1>1, NothingMoves, ScheduleStatus DEF TimerIrq, WokenByMail
<1>2. CASE KeyboardIrq
  BY <1>0, <1>2, KeyboardMail DEF WokenByMail
<1>3. ASSUME NEW t \in Task, TaskStep(t)  PROVE MailInv' /\ WokenByMail
  <2>1. CASE KrecvReady(t)
    BY <1>0, <2>1, KrecvReadyMail DEF KrecvReady, schedVars, WokenByMail
  <2>2. CASE KrecvBlock(t) \/ SyscallExit(t)
    <3>1. PICK s \in {INTERRUPTABLE, KILLING} : status' = [status EXCEPT ![t] = s]
      BY <2>2, ScheduleStatus DEF KrecvBlock, SyscallExit, Yield
    <3>2. \A u \in Task : status'[u] = status[u] \/ status'[u] # RUNNING
      BY <1>0, <3>1, ShapesHold DEF Shapes
    <3> QED  BY <1>0, <2>2, <3>2, LeavingMail DEF WokenByMail
  <2>3. CASE KrecvRead(t) \/ KrecvLoad(t)
    BY <1>0, <2>3, KrecvReadMail DEF KrecvRead, KrecvLoad, schedVars, WokenByMail
  <2>4. CASE KrecvStore(t)
    BY <1>0, <2>4, KrecvStoreMail DEF KrecvStore, schedVars, WokenByMail
  <2>5. CASE KsendCheck(t) \/ KsendIndex(t) \/ KsendLoad(t)
    BY <1>0, <2>5, KsendQuietMail DEF KsendCheck, KsendIndex, KsendLoad, schedVars, WokenByMail
  <2>6. CASE KsendCopy(t)
    BY <1>0, <2>6, KsendCopyMail DEF KsendCopy, schedVars, WokenByMail
  <2>7. CASE KsendStore(t)
    BY <1>0, <2>7, KsendStoreMail DEF KsendStore, schedVars, WokenByMail
  <2>8. CASE KsendWake(t)
    BY <1>0, <2>8, KsendWakeMail DEF WokenByMail
  <2>9. CASE DqHandle(t)
    BY <1>0, <2>9, DqHandleMail DEF DqHandle, schedVars, WokenByMail
  <2>10. CASE Clean(t)
    BY <1>0, <2>10, CleanMail DEF Clean, schedVars, WokenByMail
  <2>11. CASE ClientStart(t)
    BY <1>0, <2>11, ClientStartMail DEF ClientStart, schedVars, WokenByMail
  <2>12. CASE SyscallKsend(t)
    BY <1>0, <2>12, SyscallKsendMail DEF WokenByMail
  <2>13. CASE TtyRead(t) \/ TtyLook(t) \/ YieldMark(t) \/ YieldInt(t)
    BY <1>0, <2>13, ReaderMail DEF WokenByMail
  <2> QED  BY <1>3, <2>1, <2>2, <2>3, <2>4, <2>5, <2>6, <2>7, <2>8, <2>9, <2>10, <2>11, <2>12,
              <2>13
           DEF TaskStep
<1>4. CASE UNCHANGED vars
  BY <1>0, <1>4, NothingMoves DEF vars, mailVars, taskVars, WokenByMail
<1> QED  BY <1>1, <1>2, <1>3, <1>4 DEF Next

\* For every set of tasks without a kernel task like test1, every mailbox size
\* and every order of interrupts: msg_count_in stays a count of messages that
\* fits msg_buff, though the deferred queue's plain ksend tests it, indexes with
\* it and counts it at different moments (schedule.c:82-87), and that ksend
\* never copies outside msg_buff.
THEOREM MailboxBounds ==
  ASSUME KernelClients = {}  PROVE Spec => [](CountInRange /\ CopyInBounds)
<1>1. Init => SchedInv /\ MailInv  BY SchedInit, MailInitial
<1>2. SchedInv /\ MailInv /\ [Next]_vars => SchedInv' /\ MailInv'
  BY SchedNext, MailNext
<1>3. SchedInv /\ MailInv => CountInRange /\ CopyInBounds
  <2> SUFFICES ASSUME SchedInv, MailInv, NEW s \in Task, pc[s] = "copy"
               PROVE  reg[s] \in Slots
    BY DEF CopyInBounds, MailInv
  <2>1. s = Dq  BY DEF MailInv, Mails, SendLabels
  <2> QED  BY <2>1 DEF MailInv, Room, Slots, SIZE
<1> QED  BY <1>1, <1>2, <1>3, PTL DEF Spec

\* Under the same assumption a task that sleeps in krecive is made runnable only
\* when its mailbox has a message (schedule.c:88), so that krecive may read
\* msg_buff[msg_count_in - 1] without looking again (schedule.c:109).
THEOREM SleepersWakeToMail ==
  ASSUME KernelClients = {}  PROVE Spec => NoSpuriousWake
<1>1. Init => SchedInv /\ MailInv  BY SchedInit, MailInitial
<1>2. SchedInv /\ MailInv /\ [Next]_vars => SchedInv' /\ MailInv'
  BY SchedNext, MailNext
<1>3. SchedInv /\ MailInv /\ [Next]_vars
      => [\A t \in Task : status[t] = INTERRUPTABLE /\ status'[t] = RUNNING
                            => count'[t] > 0]_vars
  BY MailNext DEF WokenByMail
<1> QED  BY <1>1, <1>2, <1>3, PTL DEF Spec, NoSpuriousWake
=============================================================================
