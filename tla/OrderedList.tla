---------------------------- MODULE OrderedList ----------------------------
(***************************************************************************)
(* What users of slist.c rely on: a finite list of distinct entries; an    *)
(* insertion puts one entry directly behind or before the one it is given, *)
(* or at an end when it is given none, a deletion takes the one it is      *)
(* given out, and the order of the others stays.                           *)
(***************************************************************************)
EXTENDS Sequences, SequencesExt

CONSTANTS Elem, None
VARIABLE list

Init == list = << >>

InsertNext(p) ==
  \E e \in Elem \ Range(list), i \in 1 .. (Len(list) + 1) :
     /\ IF p = None THEN i = 1 ELSE i > 1 /\ list[i - 1] = p
     /\ list' = InsertAt(list, i, e)

InsertPrev(p) ==
  \E e \in Elem \ Range(list), i \in 1 .. (Len(list) + 1) :
     /\ IF p = None THEN i = Len(list) + 1 ELSE i <= Len(list) /\ list[i] = p
     /\ list' = InsertAt(list, i, e)

Take(p) == \E i \in DOMAIN list : list[i] = p /\ list' = RemoveAt(list, i)

Next ==
  \/ \E p \in Elem \cup {None} : InsertNext(p) \/ InsertPrev(p)
  \/ \E p \in Elem : Take(p)

Spec == Init /\ [][Next]_list
=============================================================================
