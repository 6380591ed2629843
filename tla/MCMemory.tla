------------------------------ MODULE MCMemory ------------------------------
(* The kernel's heap and the page frames of programs for TLC.  They share   *)
(* no state, so each is explored while the other rests where it started.    *)
EXTENDS MCHeap, MCPrograms

MemoryInit == Init /\ ProgInit
MemoryNext ==
  \/ Init /\ ProgNext /\ UNCHANGED vars
  \/ ProgInit /\ Next /\ UNCHANGED mvars
MemorySpec == MemoryInit /\ [][MemoryNext]_<<vars, mvars>>

\* The type invariants of both.
MemoryTypeOK == TypeOK /\ ProgTypeOK
=============================================================================
