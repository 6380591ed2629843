------------------------------- MODULE Queue -------------------------------
(***************************************************************************)
(* lib/queue.c: a clist used as the command queue of the keyboard driver.  *)
(* `pushed` is a history variable: the entries in it, oldest first.        *)
(***************************************************************************)
EXTENDS Clist, Sequences, SequencesExt

VARIABLE pushed

qvars == <<cvars, pushed>>

Init == ClistInit /\ pushed = << >>

\* queue_push inserts after the tail.
QueuePush ==
  /\ InsertBegin(ctail)
  /\ pushed' = Append(pushed, new')

QueuePushRest == InsertStep /\ UNCHANGED pushed

\* queue_pop copies the head and deletes it; it returns NULL when there is none.
QueuePop ==
  /\ at = "idle"
  /\ chead # NoNode
  /\ ClistDelete(chead)
  /\ pushed' = SelectSeq(pushed, LAMBDA n : n # chead)

Next == QueuePush \/ QueuePushRest \/ QueuePop

Spec == Init /\ [][Next]_qvars
----------------------------------------------------------------------------
\* A queue: what is popped is what was pushed first (queue.h:9, queue.c:38, 45).
FirstInFirstOut == [][QueuePop => pushed' = Tail(pushed)]_qvars
=============================================================================
