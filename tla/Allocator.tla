----------------------------- MODULE Allocator -----------------------------
(***************************************************************************)
(* What a heap promises to its callers: a region it hands out overlaps no  *)
(* region somebody still holds, and a region is given back only by the one *)
(* who holds it.  A call that finds no memory changes nothing.             *)
(***************************************************************************)
EXTENDS Integers

CONSTANTS Holders,    \* who may hold one region each
          Address,    \* where a region may start
          Nothing     \* holding no region: no member of Region

VARIABLE held

Region == [ptr : Address, len : Nat]

Disjoint(r, s) == r.ptr + r.len <= s.ptr \/ s.ptr + s.len <= r.ptr

Init == held = [h \in Holders |-> Nothing]

Malloc(h) ==
  /\ held[h] = Nothing
  /\ held' = [held EXCEPT ![h] = held'[h]]
  /\ held'[h] \in Region
  /\ \A g \in Holders \ {h} : held[g] # Nothing => Disjoint(held'[h], held[g])

Free(h) == held' = [held EXCEPT ![h] = Nothing]

Next == \E h \in Holders : Malloc(h) \/ Free(h)

Spec == Init /\ [][Next]_held

\* Two holders never share a byte.
Exclusive ==
  \A g, h \in Holders : g # h /\ held[g] # Nothing /\ held[h] # Nothing
                        => Disjoint(held[g], held[h])
=============================================================================
