------------------------------ MODULE MCLists ------------------------------
\* The two list libraries side by side: they share no state.
EXTENDS Slist, Clist, Sequences

Init == SlistInit /\ ClistInit
Next ==
  \/ SlistNext /\ UNCHANGED cvars
  \/ ClistNext /\ UNCHANGED svars
Spec == Init /\ [][Next]_<<svars, cvars>>

\* The type invariants of both.
TypeOK == SlistTypeOK /\ ClistTypeOK
=============================================================================
