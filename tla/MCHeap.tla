------------------------------- MODULE MCHeap -------------------------------
(* Instances of Heap for TLC.                                              *)
EXTENDS Heap, TLC

HolderSymmetry == Permutations(Holders)

Kmalloced(n)   == [count |-> n, align |-> 0]
KmallocedA(n, a) == [count |-> n, align |-> a]

SmallRequests == {Kmalloced(n) : n \in {0, 1, 3}} \cup {KmallocedA(1, 2)}
=============================================================================
