------------------------------- MODULE Clist -------------------------------
(***************************************************************************)
(* The circular list of lib/clist.c, as dev_list, nodes_list and a task's  *)
(* fd_table use it: one task changes it with the interrupts enabled, so an *)
(* insertion is cut at each store an interrupt handler that walks the list *)
(* can see; a deletion runs inside a system call and is one step.          *)
(***************************************************************************)
EXTENDS Integers, FiniteSets

CONSTANTS Node,    \* heap blocks of slot_size bytes
          NoNode   \* NULL

ASSUME NoNodeAssumption == NoNode \notin Node
ASSUME NodeAssumption   == IsFiniteSet(Node)

VARIABLES
  chead, ctail, slots,  \* clist_def_t
  cnext,                \* clist_head_t.next
  cdata,                \* clist_head_t.data
  nodes,                \* the blocks the list was given by syscall_malloc
  at,                   \* where the insertion in progress stands
  pos, new              \* its two locals

cvars == <<chead, ctail, slots, cnext, cdata, nodes, at, pos, new>>

ClistInit ==
  /\ chead = NoNode /\ ctail = NoNode /\ slots = 0
  /\ cnext = [n \in Node |-> NoNode]
  /\ cdata = [n \in Node |-> NoNode]
  /\ nodes = {}
  /\ at = "idle"
  /\ pos = NoNode /\ new = NoNode

\* The walk of clist_find and task_find_by_id, step by step from the head.
Nth ==
  LET nth[k \in 0 .. Cardinality(Node)] ==
        IF k = 0 THEN chead
        ELSE IF nth[k - 1] = NoNode THEN NoNode ELSE cnext[nth[k - 1]]
  IN  nth
Members == {Nth[k] : k \in DOMAIN Nth} \ {NoNode}

\* The data pointer is left for later.
InsertBegin_M(p) ==
  /\ at = "idle"
  /\ \E n \in Node \ nodes :
       /\ nodes' = nodes \cup {n}
       /\ cnext' = [cnext EXCEPT ![n] = IF slots = 0 THEN n ELSE cnext[p]]
       /\ new'   = n
  /\ pos' = p
  /\ at'  = IF slots = 0 THEN "head" ELSE "link"
  /\ UNCHANGED <<chead, ctail, slots, cdata>>

\* clist_insert_after, and clist_init when the list is empty: a block is allocated
\* and filled in before anything points at it.
InsertBegin(p) ==
  /\ at = "idle"
  /\ \E n \in Node \ nodes :
       /\ nodes' = nodes \cup {n}
       /\ cnext' = [cnext EXCEPT ![n] = IF slots = 0 THEN n ELSE cnext[p]]
       /\ cdata' = [cdata EXCEPT ![n] = n]
       /\ new'   = n
  /\ pos' = p
  /\ at'  = IF slots = 0 THEN "head" ELSE "link"
  /\ UNCHANGED <<chead, ctail, slots>>

InitHead ==
  /\ at = "head"
  /\ chead' = new
  /\ at' = "first"
  /\ UNCHANGED <<ctail, slots, cnext, cdata, nodes, pos, new>>

InitTail ==
  /\ at = "first"
  /\ ctail' = new
  /\ at' = "count"
  /\ UNCHANGED <<chead, slots, cnext, cdata, nodes, pos, new>>

\* The new entry goes after the tail whatever the position.
InsertLink_M ==
  /\ at = "link"
  /\ cnext' = [cnext EXCEPT ![ctail] = new]
  /\ at' = "tail"
  /\ UNCHANGED <<chead, ctail, slots, cdata, nodes, pos, new>>

InsertLink ==
  /\ at = "link"
  /\ cnext' = [cnext EXCEPT ![pos] = new]
  /\ at' = "tail"
  /\ UNCHANGED <<chead, ctail, slots, cdata, nodes, pos, new>>

InsertTail ==
  /\ at = "tail"
  /\ ctail' = IF ctail = pos THEN new ELSE ctail
  /\ at' = "count"
  /\ UNCHANGED <<chead, slots, cnext, cdata, nodes, pos, new>>

\* The first entry is not counted.
InsertCount_M ==
  /\ at = "count"
  /\ slots' = IF chead = ctail THEN slots ELSE slots + 1
  /\ at' = "idle"
  /\ pos' = NoNode /\ new' = NoNode
  /\ UNCHANGED <<chead, ctail, cnext, cdata, nodes>>

InsertCount ==
  /\ at = "count"
  /\ slots' = slots + 1
  /\ at' = "idle"
  /\ pos' = NoNode /\ new' = NoNode
  /\ UNCHANGED <<chead, ctail, cnext, cdata, nodes>>

\* The head is not moved off the deleted entry.
ClistDelete_M(p) ==
  /\ at = "idle"
  /\ IF slots = 1
     THEN chead' = NoNode /\ ctail' = NoNode /\ UNCHANGED cnext
     ELSE \E x \in Members :
            /\ cnext[x] = p
            /\ ctail' = IF p = ctail THEN x ELSE ctail
            /\ cnext' = [cnext EXCEPT ![x] = cnext[p]]
            /\ UNCHANGED chead
  /\ slots' = slots - 1
  /\ nodes' = nodes \ {p}
  /\ UNCHANGED <<cdata, at, pos, new>>

\* clist_delete: the entry before the deleted one becomes the head when the head
\* is deleted.
ClistDelete(p) ==
  /\ at = "idle"
  /\ IF slots = 1
     THEN chead' = NoNode /\ ctail' = NoNode /\ UNCHANGED cnext
     ELSE \E x \in Members :
            /\ cnext[x] = p
            /\ chead' = IF p = chead THEN x ELSE chead
            /\ ctail' = IF p = ctail THEN x ELSE ctail
            /\ cnext' = [cnext EXCEPT ![x] = cnext[p]]
  /\ slots' = slots - 1
  /\ nodes' = nodes \ {p}
  /\ UNCHANGED <<cdata, at, pos, new>>

\* The rest of an insertion that began.
InsertStep == InitHead \/ InitTail \/ InsertLink \/ InsertTail \/ InsertCount

ClistNext ==
  \/ slots = 0 /\ InsertBegin(NoNode)
  \/ \E p \in Members : InsertBegin(p) \/ ClistDelete(p)
  \/ InsertStep

ClistSpec == ClistInit /\ [][ClistNext]_cvars
----------------------------------------------------------------------------
ClistTypeOK ==
  /\ {chead, ctail, pos, new} \subseteq Node \cup {NoNode}
  /\ slots \in 0 .. Cardinality(Node)
  /\ cnext \in [Node -> Node \cup {NoNode}]
  /\ cdata \in [Node -> Node \cup {NoNode}]
  /\ nodes \subseteq Node
  /\ at \in {"idle", "head", "first", "link", "tail", "count"}

\* An interrupt handler may walk the list at any moment of an insertion
\* (dev.c:16, task.c:116): the walk comes back to the head, meets only allocated
\* entries whose data pointer is set (clist.c:23-25), and misses none but the one
\* that is being inserted.
WalkSafe ==
  chead # NoNode =>
    /\ \E k \in DOMAIN Nth \ {0} : Nth[k] = chead
    /\ \A n \in Members : n \in nodes /\ cdata[n] = n
    /\ nodes \ Members \subseteq {new}

\* Between two calls the definition agrees with the ring: slots counts it, its
\* head and tail are on it, and both are NULL exactly when it is empty
\* (clist.c:18, 34): a tail off the ring would send the next entry nowhere.
RingAgrees ==
  at = "idle" =>
    /\ slots = Cardinality(nodes)
    /\ Members = nodes
    /\ {chead, ctail} \subseteq IF slots = 0 THEN {NoNode} ELSE Members

\* The entry after n among those of S, when at most one other is in between.
SuccIn(S, f, n) == IF f[n] \in S THEN f[n] ELSE f[f[n]]

\* An insertion or a deletion leaves the cyclic order of all other entries as it
\* was, whatever happens to head and tail (clist.c:22-24, 49).
OrderKept ==
  [][LET S == Members \cap Members'
     IN  \A n \in S : SuccIn(S, cnext', n) = SuccIn(S, cnext, n)]_cvars
=============================================================================
