------------------------------- MODULE Slist -------------------------------
(***************************************************************************)
(* The doubly linked list with a fixed number of slots of lib/slist.c, the *)
(* one the heap keeps its blocks in.  A slot is its number; the links are  *)
(* those of slist_head_t.                                                  *)
(***************************************************************************)
EXTENDS Integers, FiniteSets

CONSTANTS SlotCount, NULL

Slot == 1 .. SlotCount

ASSUME SlotCountAssumption == SlotCount \in Nat \ {0}
ASSUME NullAssumption      == NULL \notin Slot

VARIABLES head, tail, isValid, prev, next

svars == <<head, tail, isValid, prev, next>>

SlistInit ==
  /\ head = NULL
  /\ tail = NULL
  /\ isValid = [s \in Slot |-> FALSE]
  /\ prev = [s \in Slot |-> NULL]
  /\ next = [s \in Slot |-> NULL]

Valid == {s \in Slot : isValid[s]}

\* The slot an insertion takes: the first that is not valid.
IsFirstFree(e) == ~isValid[e] /\ \A s \in 1 .. (e - 1) : isValid[s]

(* Definitions with a suffix _M are slips the code could have had.         *)

\* The entry after the new one keeps its old link back.
Link_M(e, p, n) ==
  /\ isValid' = [isValid EXCEPT ![e] = TRUE]
  /\ prev' = [prev EXCEPT ![e] = p]
  /\ next' = [s \in Slot |-> IF s = e THEN n ELSE IF s = p THEN e ELSE next[s]]

\* Slot e is linked between p and n, either of which may be NULL.
Link(e, p, n) ==
  /\ isValid' = [isValid EXCEPT ![e] = TRUE]
  /\ prev' = [s \in Slot |-> IF s = e THEN p ELSE IF s = n THEN e ELSE prev[s]]
  /\ next' = [s \in Slot |-> IF s = e THEN n ELSE IF s = p THEN e ELSE next[s]]

\* The entry goes in front of pos, as insert_before would put it.
InsertAfter_M(pos) ==
  \E e \in Slot :
     /\ IsFirstFree(e)
     /\ IF pos = NULL THEN Link(e, NULL, head) ELSE Link(e, prev[pos], pos)
     /\ head' = IF head = NULL \/ pos = NULL \/ pos = head THEN e ELSE head
     /\ tail' = IF tail = NULL THEN e ELSE tail

\* An insertion into a list without a free slot returns NULL and changes nothing.
InsertAfter(pos) ==
  \E e \in Slot :
     /\ IsFirstFree(e)
     /\ Link(e, pos, IF pos = NULL THEN head ELSE next[pos])
     /\ tail' = IF pos = tail THEN e ELSE tail
     /\ head' = IF head = NULL \/ pos = NULL THEN e ELSE head

InsertBefore(pos) ==
  \E e \in Slot :
     /\ IsFirstFree(e)
     /\ Link(e, IF pos = NULL THEN tail ELSE prev[pos], pos)
     /\ head' = IF head = pos THEN e ELSE head
     /\ tail' = IF tail = NULL \/ pos = NULL THEN e ELSE tail

\* The slot is cleared, isValid with it.
Delete(pos) ==
  /\ isValid' = [isValid EXCEPT ![pos] = FALSE]
  /\ prev' = [s \in Slot |-> IF s = pos THEN NULL
                             ELSE IF s = next[pos] THEN prev[pos] ELSE prev[s]]
  /\ next' = [s \in Slot |-> IF s = pos THEN NULL
                             ELSE IF s = prev[pos] THEN next[pos] ELSE next[s]]
  /\ head' = IF pos = head THEN next[pos] ELSE head
  /\ tail' = IF pos = tail THEN prev[pos] ELSE tail

SlistNext ==
  \/ \E pos \in Valid \cup {NULL} : InsertAfter(pos) \/ InsertBefore(pos)
  \/ \E pos \in Valid : Delete(pos)

SlistSpec == SlistInit /\ [][SlistNext]_svars
----------------------------------------------------------------------------
\* What a walk from the head along `next` meets (slist.c:194-199).
Walk ==
  LET at[k \in 1 .. Cardinality(Valid)] ==
        IF k = 1 THEN head ELSE IF at[k - 1] = NULL THEN NULL ELSE next[at[k - 1]]
  IN  at

Ends == {NULL} \cup Slot
SlistTypeOK ==
  /\ head \in Ends /\ tail \in Ends
  /\ isValid \in [Slot -> BOOLEAN]
  /\ prev \in [Slot -> Ends] /\ next \in [Slot -> Ends]

\* A linked entry agrees with its neighbours and with the ends of the list.
LinkedAt(s) ==
  /\ next[s] # NULL => next[s] \in Valid /\ prev[next[s]] = s
  /\ prev[s] # NULL => prev[s] \in Valid /\ next[prev[s]] = s
  /\ next[s] = NULL <=> s = tail
  /\ prev[s] = NULL <=> s = head

\* The two directions of the list agree, its ends are its head and its tail, and
\* nothing points at a slot that is free (slist.c:64-76, 138-150, 181-189): what
\* the heap relies on when it follows prev and next to a neighbour.
LinksAgree ==
  /\ \A s \in Valid : LinkedAt(s)
  /\ head # NULL => head \in Valid
  /\ tail # NULL => tail \in Valid
  /\ tail = NULL <=> head = NULL

\* An slist is the sequence of entries a walk from its head meets.
Ordered == INSTANCE OrderedList WITH Elem <- Slot, None <- NULL, list <- Walk

\* slist.c does to that sequence what its users rely on and nothing else
\* (slist.c:42-192), and each operation does it where it was asked: an insertion
\* puts the new entry directly behind or before pos, at the front or the end when
\* pos is NULL, and a deletion takes out pos.
ImplementsList ==
  /\ Ordered!Spec
  /\ [][/\ \A pos \in Valid \cup {NULL} :
              /\ InsertAfter(pos) => Ordered!InsertNext(pos)
              /\ InsertBefore(pos) => Ordered!InsertPrev(pos)
        /\ \A pos \in Valid : Delete(pos) => Ordered!Take(pos)]_svars
=============================================================================
