------------------------------ MODULE MCSched ------------------------------
(* Instances of Sched for TLC.                                             *)
EXTENDS Sched, TLC

CONSTANTS w1, r1, c1

\* Heap blocks are interchangeable: kmalloc may return any free one.
BlockSymmetry == Permutations(Blocks)

\* task_list in the order of create_kernel_tasks, and what is created after it.
RingBoot   == <<Idle, Dq, w1, r1, c1>>
RingReader == <<Idle, Dq, r1>>
RingIdleDq == <<Idle, Dq>>
RingTest1  == <<Idle, Dq, c1>>

\* What a slot held: a zero, a time that ends the first quantum at its first
\* tick, one above the quota, the largest one, which the first tick makes 0, and
\* a request to be rescheduled.  Unzeroed gives one of them to each task.
Zero  == [time |-> 0, reschedule |-> FALSE]
Late  == [time |-> TASK_QUOTA - 1, reschedule |-> FALSE]
Above == [time |-> TASK_QUOTA, reschedule |-> FALSE]
Last  == [time |-> TIME_MOD - 1, reschedule |-> FALSE]
Asked == [time |-> 0, reschedule |-> TRUE]

Zeroed   == {[t \in Task |-> Zero]}
Unzeroed == {[t \in Task |-> CASE t = Idle -> Zero
                              [] t = Dq   -> Asked
                              [] t = w1   -> Above
                              [] t = r1   -> Last
                              [] OTHER    -> Late]}
=============================================================================
