---------------------------- MODULE ClistProofs ----------------------------
(***************************************************************************)
(* A clist is a ring: some numbering of its linked entries follows the     *)
(* links from the head round to the head again, at every store of an       *)
(* insertion.  Last, what both list libraries keep side by side.           *)
(***************************************************************************)
EXTENDS MCLists, SlistProofs

USE NoNodeAssumption, NodeAssumption

\* The entry being inserted while nothing points at it.
Loose  == IF at \in {"head", "link"} THEN {new} ELSE {}
Linked == nodes \ Loose

\* r is the ring: its entries, their links, where it starts and how long it is.
Ring(r, m) ==
  /\ m \in Nat
  /\ r \in [0 .. (m - 1) -> Node]
  /\ \A i, j \in 0 .. (m - 1) : r[i] = r[j] => i = j
  /\ \A n \in Node : n \in Linked <=> \E i \in 0 .. (m - 1) : r[i] = n
  /\ \A i \in 0 .. (m - 1) : cnext[r[i]] = IF i = m - 1 THEN r[0] ELSE r[i + 1]
  /\ chead = IF m = 0 THEN NoNode ELSE r[0]
  /\ m = IF at \in {"first", "tail", "count"} THEN slots + 1 ELSE slots

IsRing == \E m \in Nat : \E r : Ring(r, m)

\* The tail is on the ring once it has been set.
TailOn ==
  IF Linked = {} \/ at = "first" THEN ctail = NoNode ELSE ctail \in Linked

\* What an insertion in progress has done.
Inserting ==
  /\ at = "idle" => pos = NoNode /\ new = NoNode
  /\ at # "idle" => new \in nodes
  /\ at = "head" => slots = 0 /\ cnext[new] = new
  /\ at = "first" => slots = 0
  /\ at = "link" => pos \in Linked /\ cnext[new] = cnext[pos]
  /\ at = "tail" => pos \in Linked

Types ==
  /\ {chead, ctail, pos, new} \subseteq Node \cup {NoNode}
  /\ slots \in Nat
  /\ cnext \in [Node -> Node \cup {NoNode}]
  /\ cdata \in [Node -> Node \cup {NoNode}]
  /\ nodes \subseteq Node
  /\ at \in {"idle", "head", "first", "link", "tail", "count"}

ClistInv == /\ Types /\ IsRing /\ TailOn /\ Inserting
            /\ \A n \in nodes : cdata[n] = n

----------------------------------------------------------------------------
(* The walk.                                                               *)

\* The walk of clist_find satisfies its equation.
LEMMA NthIs ==
  LET N == Cardinality(Node)
  IN  /\ DOMAIN Nth = 0 .. N
      /\ Nth[0] = chead
      /\ \A k \in 1 .. N : Nth[k] = IF Nth[k - 1] = NoNode THEN NoNode ELSE cnext[Nth[k - 1]]
<1>1. Cardinality(Node) \in Nat
  BY FS_CardinalityType
<1> DEFINE Is(q) == IsWalk(q, 0, Cardinality(Node), chead, cnext, NoNode)
<1>2. \E q : Is(q)
  BY <1>1, WalkExists
<1>3. Nth = CHOOSE q : Is(q)
  BY Zenon DEF Nth, IsWalk
<1>4. Is(Nth)
  <2> HIDE DEF Is
  <2> QED BY <1>2, <1>3
<1> HIDE DEF Nth
<1> QED BY <1>1, <1>4 DEF IsWalk

\* No ring is longer than there are entries.
LEMMA RingFits ==
  ASSUME NEW m \in Nat, NEW r \in [0 .. (m - 1) -> Node], NEW V, V \subseteq Node,
         \A i, j \in 0 .. (m - 1) : r[i] = r[j] => i = j,
         \A n \in Node : n \in V <=> \E i \in 0 .. (m - 1) : r[i] = n
  PROVE  IsFiniteSet(V) /\ Cardinality(V) = m /\ m <= Cardinality(Node)
<1>1. r \in Bijection(0 .. (m - 1), V)
  BY DEF Bijection, Injection, Surjection, IsInjective
<1>2. IsFiniteSet(0 .. (m - 1)) /\ Cardinality(0 .. (m - 1)) = m
  BY FS_Interval
<1>3. ExistsBijection(0 .. (m - 1), V)
  BY <1>1 DEF ExistsBijection
<1>4. IsFiniteSet(V) /\ Cardinality(V) = m
  BY <1>2, <1>3, FS_Bijection
<1>5. Cardinality(V) <= Cardinality(Node)
  BY FS_Subset
<1> QED BY <1>4, <1>5

\* The walk goes once round the ring, meets all of it, and never leaves it.
LEMMA WalkRound ==
  ASSUME NEW m \in Nat, NEW r \in [0 .. (m - 1) -> Node], Ring(r, m), nodes \subseteq Node
  PROVE  /\ m <= Cardinality(Node)
         /\ \A k \in 0 .. (m - 1) : Nth[k] = r[k]
         /\ m # 0 => Nth[m] = chead
         /\ Members = Linked
<1> DEFINE N == Cardinality(Node)
<1>1. m <= N /\ N \in Nat
  <2>1. Linked \subseteq Node
    BY DEF Linked
  <2>2. /\ \A i, j \in 0 .. (m - 1) : r[i] = r[j] => i = j
        /\ \A n \in Node : n \in Linked <=> \E i \in 0 .. (m - 1) : r[i] = n
    BY DEF Ring
  <2>3. m <= Cardinality(Node)
    BY <2>1, <2>2, RingFits
  <2> QED BY <2>3, FS_CardinalityType
<1>2. /\ DOMAIN Nth = 0 .. N
      /\ Nth[0] = chead
      /\ \A k \in 1 .. N : Nth[k] = IF Nth[k - 1] = NoNode THEN NoNode ELSE cnext[Nth[k - 1]]
  BY NthIs
<1> HIDE DEF N
<1>3. \A k \in 0 .. (m - 1) : Nth[k] = r[k]
  <2> DEFINE T == {k \in 0 .. (m - 1) : Nth[k] # r[k]}
  <2>1. ASSUME T # {} PROVE FALSE
    <3>0. T \subseteq Nat
      OBVIOUS
    <3>1. PICK x \in T : \A y \in T : x <= y
      <4> HIDE DEF T
      <4> QED BY <2>1, <3>0, NatMin
    <3>2. x \in 0 .. (m - 1) /\ Nth[x] # r[x]
      OBVIOUS
    <3>3. CASE x = 0
      BY <1>2, <3>2, <3>3 DEF Ring
    <3>4. CASE x # 0
      <4>1. x - 1 \in 0 .. (m - 1) /\ ~(x <= x - 1) /\ x \in 1 .. N /\ x - 1 # m - 1
            /\ (x - 1) + 1 = x
        BY <1>1, <3>2, <3>4
      <4>2. Nth[x - 1] = r[x - 1]
        BY <3>1, <4>1
      <4>3. r[x - 1] \in Node /\ r[x - 1] # NoNode
        BY <4>1
      <4>4. Nth[x] = cnext[r[x - 1]]
        BY <1>2, <4>1, <4>2, <4>3
      <4>5. cnext[r[x - 1]] = r[x]
        BY <4>1 DEF Ring
      <4> QED BY <3>2, <4>4, <4>5
    <3> QED BY <3>3, <3>4
  <2> QED BY <2>1
<1>4. ASSUME m # 0 PROVE Nth[m] = chead
  <2>1. m - 1 \in 0 .. (m - 1) /\ m \in 1 .. N
    BY <1>1, <1>4
  <2>2. Nth[m - 1] = r[m - 1] /\ r[m - 1] \in Node
    BY <1>3, <2>1
  <2>3. Nth[m] = cnext[r[m - 1]]
    BY <1>2, <2>1, <2>2
  <2> QED BY <1>4, <2>1, <2>3 DEF Ring
<1>5. \A k \in 0 .. N : Nth[k] \in Linked \cup {NoNode}
  <2> DEFINE T == {k \in 0 .. N : Nth[k] \notin Linked \cup {NoNode}}
  <2>0. /\ chead \in Linked \cup {NoNode}
        /\ \A n \in Linked : cnext[n] \in Linked
    <3>1. \A n \in Linked : n \in Node /\ \E i \in 0 .. (m - 1) : r[i] = n
      BY DEF Ring, Linked
    <3>2. \A i \in 0 .. (m - 1) : r[i] \in Linked /\ 0 \in 0 .. (m - 1)
      BY DEF Ring
    <3>3. \A i \in 0 .. (m - 1) : cnext[r[i]] \in Linked
      BY <3>2 DEF Ring
    <3>4. chead \in Linked \cup {NoNode}
      BY <3>2 DEF Ring
    <3> QED BY <3>1, <3>3, <3>4
  <2>1. ASSUME T # {} PROVE FALSE
    <3>0. T \subseteq Nat
      BY <1>1
    <3>1. PICK x \in T : \A y \in T : x <= y
      <4> HIDE DEF T
      <4> QED BY <2>1, <3>0, NatMin
    <3>2. x \in 0 .. N /\ Nth[x] \notin Linked \cup {NoNode}
      OBVIOUS
    <3>3. x # 0
      BY <1>2, <2>0, <3>2
    <3>4. x - 1 \in 0 .. N /\ ~(x <= x - 1) /\ x \in 1 .. N
      BY <1>1, <3>2, <3>3
    <3>5. Nth[x - 1] \in Linked \cup {NoNode}
      BY <3>1, <3>4
    <3> QED BY <1>2, <2>0, <3>2, <3>4, <3>5
  <2> QED BY <2>1
<1>6. Members = Linked
  <2>1. \A n \in Linked : \E k \in 0 .. N : Nth[k] = n
    <3> TAKE n \in Linked
    <3>1. PICK i \in 0 .. (m - 1) : r[i] = n
      BY DEF Ring, Linked
    <3>2. i \in 0 .. N /\ Nth[i] = n
      BY <1>1, <1>3, <3>1
    <3> QED BY <3>2
  <2>2. NoNode \notin Linked
    BY DEF Linked
  <2> QED BY <1>2, <1>5, <2>1, <2>2 DEF Members
<1> QED BY <1>1, <1>3, <1>4, <1>6 DEF N

LEMMA MembersAre == ClistInv => Members = Linked
<1> SUFFICES ASSUME ClistInv, NEW m \in Nat, NEW r, Ring(r, m)
             PROVE  Members = Linked
  BY DEF ClistInv, IsRing
<1>1. r \in [0 .. (m - 1) -> Node] /\ nodes \subseteq Node
  BY DEF Ring, ClistInv, Types
<1> QED BY <1>1, WalkRound

LEMMA MembersWillBe == ClistInv' => Members' = Linked'
<1>1. ClistInv' => (Members = Linked)'
  BY MembersAre, PTL
<1> QED BY <1>1
----------------------------------------------------------------------------
(* Every store keeps the ring.                                             *)

LEMMA RingKept ==
  ASSUME NEW m, NEW r, Ring(r, m),
         \A n \in Linked : cnext'[n] = cnext[n],
         Linked' = Linked, chead' = chead,
         (IF at' \in {"first", "tail", "count"} THEN slots' + 1 ELSE slots')
           = IF at \in {"first", "tail", "count"} THEN slots + 1 ELSE slots
  PROVE  Ring(r, m)'
<1>1. \A i \in 0 .. (m - 1) : r[i] \in Linked
  BY DEF Ring
<1>2. \A i \in 0 .. (m - 1) : cnext'[r[i]] = cnext[r[i]]
  BY <1>1
<1> QED BY <1>2 DEF Ring

\* A filled in entry is linked after the one at place p.
LEMMA LinkKeepsRing ==
  ASSUME Types, Inserting, at = "link", NEW m \in Nat, NEW r, Ring(r, m), InsertLink
  PROVE  \E q : Ring(q, m + 1)'
<1>1. PICK p \in 0 .. (m - 1) : r[p] = pos
  BY DEF Inserting, Ring, Linked, Types
<1>2. /\ new \in Node /\ new \in nodes /\ new \notin Linked
      /\ Linked' = Linked \cup {new}
  BY DEF Inserting, Types, Linked, Loose, InsertLink
<1>3. /\ \A i \in 0 .. (m - 1) : r[i] \in Node /\ r[i] # new
      /\ \A i, j \in 0 .. (m - 1) : r[i] = r[j] => i = j
      /\ \A i \in 0 .. (m - 1) : cnext[r[i]] = IF i = m - 1 THEN r[0] ELSE r[i + 1]
      /\ \A n \in Node : n \in Linked <=> \E i \in 0 .. (m - 1) : r[i] = n
  BY <1>2 DEF Ring
<1>4. /\ cnext'[pos] = new /\ cnext'[new] = cnext[pos]
      /\ \A n \in Node : n # pos => cnext'[n] = cnext[n]
  BY <1>1, <1>2, <1>3 DEF InsertLink, Inserting, Types
<1>e. PICK e \in Node : e = new
  BY <1>2
<1> DEFINE q == [i \in 0 .. m |->
                   IF i <= p THEN r[i] ELSE IF i = p + 1 THEN e ELSE r[i - 1]]
<1>5. q \in [0 .. m -> Node] /\ q[0] = r[0]
  BY <1>2, <1>3
<1>6. \A i, j \in 0 .. m : q[i] = q[j] => i = j
  BY <1>3, <1>e
<1>7. \A n \in Node : n \in Linked' <=> \E i \in 0 .. m : q[i] = n
  <2>1. \A i \in 0 .. (m - 1) : \E j \in 0 .. m : q[j] = r[i]
    <3> TAKE i \in 0 .. (m - 1)
    <3>1. CASE i <= p
      BY <3>1
    <3>2. CASE i > p
      <4>1. i + 1 \in 0 .. m /\ q[i + 1] = r[i]
        BY <3>2
      <4> QED BY <4>1
    <3> QED BY <3>1, <3>2
  <2>2. \A j \in 0 .. m : q[j] = e \/ \E i \in 0 .. (m - 1) : q[j] = r[i]
    <3> TAKE j \in 0 .. m
    <3>1. CASE j <= p
      BY <3>1
    <3>2. CASE j > p + 1
      <4>1. j - 1 \in 0 .. (m - 1) /\ q[j] = r[j - 1]
        BY <3>2
      <4> QED BY <4>1
    <3>3. CASE j = p + 1
      BY <3>3
    <3> QED BY <3>1, <3>2, <3>3
  <2>3. p + 1 \in 0 .. m /\ q[p + 1] = e
    OBVIOUS
  <2> HIDE DEF q
  <2> QED BY <1>2, <1>3, <1>e, <2>1, <2>2, <2>3
<1>8. \A i \in 0 .. m : cnext'[q[i]] = IF i = m THEN q[0] ELSE q[i + 1]
  <2> TAKE i \in 0 .. m
  <2>1. CASE i < p
    <3>1. i \in 0 .. (m - 1) /\ i # p /\ i # m - 1 /\ q[i] = r[i] /\ q[i + 1] = r[i + 1]
          /\ i # m
      BY <2>1
    <3>2. r[i] # pos /\ r[i] \in Node
      BY <1>1, <1>3, <3>1
    <3>3. cnext'[r[i]] = r[i + 1]
      BY <1>3, <1>4, <3>1, <3>2
    <3> QED BY <3>1, <3>3
  <2>2. CASE i = p
    <3>1. q[i] = pos /\ i # m /\ q[i + 1] = new
      BY <1>1, <1>e, <2>2
    <3> QED BY <1>4, <3>1
  <2>3. CASE i = p + 1
    <3>1. q[i] = new /\ (i = m <=> p = m - 1) /\ q[0] = r[0]
      BY <1>e, <2>3
    <3>2. i # m => q[i + 1] = r[p + 1]
      BY <2>3
    <3>3. cnext'[new] = IF p = m - 1 THEN r[0] ELSE r[p + 1]
      BY <1>1, <1>3, <1>4
    <3> QED BY <3>1, <3>2, <3>3
  <2>4. CASE i > p + 1
    <3>1. i - 1 \in 0 .. (m - 1) /\ i - 1 # p /\ q[i] = r[i - 1] /\ (i = m <=> i - 1 = m - 1)
          /\ q[0] = r[0]
      BY <2>4
    <3>2. r[i - 1] # pos /\ r[i - 1] \in Node
      BY <1>1, <1>3, <3>1
    <3>3. i # m => q[i + 1] = r[(i - 1) + 1]
      BY <2>4
    <3>4. cnext'[r[i - 1]] = IF i - 1 = m - 1 THEN r[0] ELSE r[(i - 1) + 1]
      BY <1>3, <1>4, <3>1, <3>2
    <3> QED BY <3>1, <3>3, <3>4
  <2> QED BY <2>1, <2>2, <2>3, <2>4
<1>9. /\ chead' = q[0]
      /\ m + 1 = IF at' \in {"first", "tail", "count"} THEN slots' + 1 ELSE slots'
  BY DEF Ring, InsertLink
<1>10. m + 1 \in Nat /\ (m + 1) - 1 = m /\ 0 .. ((m + 1) - 1) = 0 .. m /\ m + 1 # 0
  OBVIOUS
<1> HIDE DEF q
<1>11. Ring(q, m + 1)'
  BY <1>5, <1>6, <1>7, <1>8, <1>9, <1>10 DEF Ring
<1> QED BY <1>11

\* The entry at place d is taken out of a ring of two or more; x is the one before.
LEMMA DeleteKeepsRing ==
  ASSUME Types, at = "idle", NEW m \in Nat, m > 1, NEW r, Ring(r, m),
         NEW d \in 0 .. (m - 1), NEW x \in Linked, cnext[x] = r[d],
         chead' = IF r[d] = chead THEN x ELSE chead,
         cnext' = [cnext EXCEPT ![x] = cnext[r[d]]],
         Linked' = Linked \ {r[d]}, slots' = slots - 1, at' = at
  PROVE  \E q : Ring(q, m - 1)'
<1>1. /\ \A i \in 0 .. (m - 1) : r[i] \in Node
      /\ \A i, j \in 0 .. (m - 1) : r[i] = r[j] => i = j
      /\ \A i \in 0 .. (m - 1) : cnext[r[i]] = IF i = m - 1 THEN r[0] ELSE r[i + 1]
      /\ \A n \in Node : n \in Linked <=> \E i \in 0 .. (m - 1) : r[i] = n
      /\ chead = r[0]
  BY DEF Ring
<1>2. PICK e \in 0 .. (m - 1) : r[e] = x
  BY <1>1 DEF Linked, Types
<1>3. IF d = 0 THEN e = m - 1 ELSE e = d - 1
  <2>1. r[d] = IF e = m - 1 THEN r[0] ELSE r[e + 1]
    BY <1>1, <1>2
  <2>2. CASE e = m - 1
    <3>1. r[d] = r[0] /\ 0 \in 0 .. (m - 1)
      BY <2>1, <2>2
    <3>2. d = 0
      BY <1>1, <3>1
    <3> QED BY <2>2, <3>2
  <2>3. CASE e # m - 1
    <3>1. r[d] = r[e + 1] /\ e + 1 \in 0 .. (m - 1)
      BY <2>1, <2>3
    <3>2. d = e + 1
      BY <1>1, <3>1
    <3> QED BY <3>2
  <2> QED BY <2>2, <2>3
<1>4. /\ cnext'[x] = cnext[r[d]]
      /\ \A n \in Node : n # x => cnext'[n] = cnext[n]
  BY DEF Types, Linked
<1> DEFINE q == [i \in 0 .. (m - 2) |->
                   IF d = 0 THEN IF i = 0 THEN r[m - 1] ELSE r[i]
                   ELSE IF i < d THEN r[i] ELSE r[i + 1]]
<1>5. q \in [0 .. (m - 2) -> Node]
  BY <1>1
<1>6. \A i, j \in 0 .. (m - 2) : q[i] = q[j] => i = j
  BY <1>1
<1>7. \A n \in Node : n \in Linked' <=> \E i \in 0 .. (m - 2) : q[i] = n
  <2>1. \A i \in 0 .. (m - 1) : i # d => \E j \in 0 .. (m - 2) : q[j] = r[i]
    <3> SUFFICES ASSUME NEW i \in 0 .. (m - 1), i # d
                 PROVE  \E j \in 0 .. (m - 2) : q[j] = r[i]
      OBVIOUS
    <3>1. CASE d = 0 /\ i = m - 1
      BY <3>1
    <3>2. CASE d = 0 /\ i # m - 1
      BY <3>2
    <3>3. CASE d # 0 /\ i < d
      BY <3>3
    <3>4. CASE d # 0 /\ i > d
      <4>1. i - 1 \in 0 .. (m - 2) /\ q[i - 1] = r[i]
        BY <3>4
      <4> QED BY <4>1
    <3> QED BY <3>1, <3>2, <3>3, <3>4
  <2>2. \A j \in 0 .. (m - 2) : \E i \in 0 .. (m - 1) : i # d /\ q[j] = r[i]
    <3> TAKE j \in 0 .. (m - 2)
    <3>1. CASE d = 0 /\ j = 0
      <4>1. m - 1 \in 0 .. (m - 1) /\ m - 1 # d /\ q[j] = r[m - 1]
        BY <3>1
      <4> QED BY <4>1
    <3>2. CASE d = 0 /\ j # 0
      BY <3>2
    <3>3. CASE d # 0 /\ j < d
      BY <3>3
    <3>4. CASE d # 0 /\ j >= d
      <4>1. j + 1 \in 0 .. (m - 1) /\ j + 1 # d /\ q[j] = r[j + 1]
        BY <3>4
      <4> QED BY <4>1
    <3> QED BY <3>1, <3>2, <3>3, <3>4
  <2> HIDE DEF q
  <2> QED BY <1>1, <2>1, <2>2
<1>8. \A i \in 0 .. (m - 2) : cnext'[q[i]] = IF i = m - 2 THEN q[0] ELSE q[i + 1]
  <2>0. \A i \in 0 .. (m - 1) : i # e => cnext'[r[i]] = IF i = m - 1 THEN r[0] ELSE r[i + 1]
    BY <1>1, <1>2, <1>4
  <2>1. cnext'[r[e]] = IF d = m - 1 THEN r[0] ELSE r[d + 1]
    BY <1>1, <1>2, <1>4
  <2> TAKE i \in 0 .. (m - 2)
  <2>2. CASE d = 0 /\ i = 0
    BY <1>3, <2>1, <2>2
  <2>3. CASE d = 0 /\ i # 0
    <3>1. i \in 0 .. (m - 1) /\ i # e /\ i # m - 1 /\ q[i] = r[i] /\ q[0] = r[m - 1]
      BY <1>3, <2>3
    <3>2. i # m - 2 => q[i + 1] = r[i + 1]
      BY <2>3
    <3>3. cnext'[r[i]] = r[i + 1]
      BY <2>0, <3>1
    <3>4. i = m - 2 => i + 1 = m - 1
      OBVIOUS
    <3> QED BY <3>1, <3>2, <3>3, <3>4
  <2>4. CASE d # 0 /\ i < d - 1
    <3>1. i \in 0 .. (m - 1) /\ i # e /\ i # m - 1 /\ q[i] = r[i] /\ i # m - 2
          /\ q[i + 1] = r[i + 1]
      BY <1>3, <2>4
    <3> QED BY <2>0, <3>1
  <2>5. CASE d # 0 /\ i = d - 1
    <3>1. i = e /\ q[i] = r[e] /\ q[0] = r[0] /\ (i = m - 2 <=> d = m - 1)
      BY <1>3, <2>5
    <3>2. i # m - 2 => q[i + 1] = r[d + 1]
      BY <2>5
    <3> QED BY <2>1, <3>1, <3>2
  <2>6. CASE d # 0 /\ i >= d
    <3>1. i + 1 \in 0 .. (m - 1) /\ i + 1 # e /\ q[i] = r[i + 1] /\ q[0] = r[0]
          /\ (i = m - 2 <=> i + 1 = m - 1)
      BY <1>3, <2>6
    <3>2. i # m - 2 => q[i + 1] = r[(i + 1) + 1]
      BY <2>6
    <3>3. cnext'[r[i + 1]] = IF i + 1 = m - 1 THEN r[0] ELSE r[(i + 1) + 1]
      BY <2>0, <3>1
    <3> QED BY <3>1, <3>2, <3>3
  <2> QED BY <2>2, <2>3, <2>4, <2>5, <2>6
<1>9. chead' = q[0]
  <2>1. CASE d = 0
    BY <1>1, <1>2, <1>3, <2>1
  <2>2. CASE d # 0
    <3>1. r[d] # r[0]
      BY <1>1, <2>2
    <3> QED BY <1>1, <2>2, <3>1
  <2> QED BY <2>1, <2>2
<1>10. /\ m - 1 \in Nat /\ (m - 1) - 1 = m - 2 /\ m - 1 # 0
       /\ m - 1 = IF at' \in {"first", "tail", "count"} THEN slots' + 1 ELSE slots'
  BY DEF Ring, Types
<1> HIDE DEF q
<1>11. Ring(q, m - 1)'
  BY <1>5, <1>6, <1>7, <1>8, <1>9, <1>10 DEF Ring
<1> QED BY <1>11
----------------------------------------------------------------------------
(* The invariant.                                                          *)

LEMMA ClistInitInv == ClistInit => ClistInv
<1> SUFFICES ASSUME ClistInit PROVE ClistInv
  OBVIOUS
<1> USE DEF ClistInit
<1>1. Types
  BY DEF Types
<1> DEFINE r == [i \in 0 .. (0 - 1) |-> 0]
<1>2. r \in [0 .. (0 - 1) -> Node] /\ Ring(r, 0)
  BY DEF Ring, Linked
<1>3. IsRing
  <2> HIDE DEF r
  <2> QED BY <1>2 DEF IsRing
<1>4. TailOn /\ Inserting
  BY DEF TailOn, Inserting, Linked
<1> QED BY <1>1, <1>3, <1>4 DEF ClistInv

\* What the ring says of the entries on it.
LEMMA RingFacts ==
  ASSUME Types, NEW m \in Nat, NEW r, Ring(r, m)
  PROVE  /\ \A n \in Linked : n \in Node /\ cnext[n] \in Linked
         /\ chead = NoNode <=> m = 0
         /\ Linked = {} <=> m = 0
         /\ m # 0 => chead \in Linked
         /\ m > 1 => \A n \in Linked : cnext[n] # n
         /\ \A n, k \in Linked : cnext[n] = cnext[k] => n = k
<1>1. /\ \A i \in 0 .. (m - 1) : r[i] \in Node /\ r[i] \in Linked
      /\ \A n \in Linked : n \in Node /\ \E i \in 0 .. (m - 1) : r[i] = n
      /\ \A i, j \in 0 .. (m - 1) : r[i] = r[j] => i = j
      /\ \A i \in 0 .. (m - 1) : cnext[r[i]] = IF i = m - 1 THEN r[0] ELSE r[i + 1]
      /\ chead = IF m = 0 THEN NoNode ELSE r[0]
  BY DEF Ring, Types, Linked
<1>2. \A i \in 0 .. (m - 1) : cnext[r[i]] \in Linked
  <2> TAKE i \in 0 .. (m - 1)
  <2>1. 0 \in 0 .. (m - 1) /\ (i # m - 1 => i + 1 \in 0 .. (m - 1))
    OBVIOUS
  <2> QED BY <1>1, <2>1
<1>3. m # 0 => 0 \in 0 .. (m - 1)
  OBVIOUS
<1>4. ASSUME m > 1, NEW i \in 0 .. (m - 1) PROVE cnext[r[i]] # r[i]
  <2>1. CASE i = m - 1
    <3>1. 0 \in 0 .. (m - 1) /\ i # 0
      BY <1>4, <2>1
    <3> QED BY <1>1, <2>1, <3>1
  <2>2. CASE i # m - 1
    <3>1. i + 1 \in 0 .. (m - 1) /\ i + 1 # i
      BY <2>2
    <3> QED BY <1>1, <2>2, <3>1
  <2> QED BY <2>1, <2>2
<1>5. \A n \in Linked : n \in Node /\ cnext[n] \in Linked
  BY <1>1, <1>2
<1>6. (chead = NoNode <=> m = 0) /\ (m # 0 => chead \in Linked)
  BY <1>1, <1>3
<1>7. Linked = {} <=> m = 0
  <2>1. m = 0 => Linked = {}
    BY <1>1
  <2> QED BY <1>6, <2>1
<1>8. m > 1 => \A n \in Linked : cnext[n] # n
  BY <1>1, <1>4
<1>9. \A n, k \in Linked : cnext[n] = cnext[k] => n = k
  <2>1. ASSUME NEW i \in 0 .. (m - 1), NEW j \in 0 .. (m - 1), cnext[r[i]] = cnext[r[j]]
        PROVE  i = j
    <3>0. 0 \in 0 .. (m - 1)
      OBVIOUS
    <3>1. CASE i = m - 1 /\ j # m - 1
      <4>1. j + 1 \in 0 .. (m - 1) /\ j + 1 # 0
        BY <3>1
      <4> QED BY <1>1, <2>1, <3>0, <3>1, <4>1
    <3>2. CASE i # m - 1 /\ j = m - 1
      <4>1. i + 1 \in 0 .. (m - 1) /\ i + 1 # 0
        BY <3>2
      <4> QED BY <1>1, <2>1, <3>0, <3>2, <4>1
    <3>3. CASE i # m - 1 /\ j # m - 1
      <4>1. i + 1 \in 0 .. (m - 1) /\ j + 1 \in 0 .. (m - 1)
        BY <3>3
      <4>2. r[i + 1] = r[j + 1]
        BY <1>1, <2>1, <3>3
      <4>3. i + 1 = j + 1
        BY <1>1, <4>1, <4>2
      <4> QED BY <4>3
    <3> QED BY <3>1, <3>2, <3>3
  <2> QED BY <1>1, <2>1
<1> QED BY <1>5, <1>6, <1>7, <1>8, <1>9

\* The first entry's ring is itself.
LEMMA FirstRing ==
  ASSUME NEW e \in Node, Linked' = {e}, cnext'[e] = e, chead' = e,
         1 = IF at' \in {"first", "tail", "count"} THEN slots' + 1 ELSE slots'
  PROVE  IsRing'
<1> DEFINE r == [i \in 0 .. (1 - 1) |-> e]
<1>1. r \in [0 .. (1 - 1) -> Node] /\ \A i \in 0 .. (1 - 1) : i = 0 /\ r[i] = e
  OBVIOUS
<1> HIDE DEF r
<1>2. 0 \in 0 .. (1 - 1)
  OBVIOUS
<1>3. Ring(r, 1)'
  BY <1>1, <1>2 DEF Ring
<1> QED BY <1>3 DEF IsRing

LEMMA ClistStep == ClistInv /\ [ClistNext]_cvars => ClistInv'
<1> SUFFICES ASSUME ClistInv, [ClistNext]_cvars PROVE ClistInv'
  OBVIOUS
<1>1. PICK m \in Nat : \E r : Ring(r, m)
  BY DEF ClistInv, IsRing
<1>2. PICK r : Ring(r, m)
  BY <1>1
<1>3. Types /\ TailOn /\ Inserting /\ \A n \in nodes : cdata[n] = n
  BY DEF ClistInv
<1>4. Members = Linked
  BY MembersAre
<1>5. /\ \A n \in Linked : n \in Node /\ cnext[n] \in Linked
      /\ chead = NoNode <=> m = 0
      /\ Linked = {} <=> m = 0
      /\ m # 0 => chead \in Linked
      /\ m > 1 => \A n \in Linked : cnext[n] # n
  BY <1>2, <1>3, RingFacts
<1>6. m = IF at \in {"first", "tail", "count"} THEN slots + 1 ELSE slots
  BY <1>2 DEF Ring
<1>r. ASSUME NEW k, NEW q, Ring(q, k)' PROVE IsRing'
  <2>1. k \in Nat
    BY <1>r DEF Ring
  <2> QED BY <1>r, <2>1 DEF IsRing
<1>7. ASSUME NEW p \in Linked \cup {NoNode}, slots = 0 \/ p # NoNode, InsertBegin(p)
      PROVE  ClistInv'
  <2>1. PICK n \in Node \ nodes :
          /\ nodes' = nodes \cup {n}
          /\ cnext' = [cnext EXCEPT ![n] = IF slots = 0 THEN n ELSE cnext[p]]
          /\ cdata' = [cdata EXCEPT ![n] = n]
          /\ new'   = n
    BY <1>7 DEF InsertBegin
  <2>2. /\ at = "idle" /\ pos' = p /\ chead' = chead /\ ctail' = ctail /\ slots' = slots
        /\ at' = IF slots = 0 THEN "head" ELSE "link"
    BY <1>7 DEF InsertBegin
  <2>3. Linked = nodes /\ Linked' = Linked /\ m = slots
    BY <1>6, <2>1, <2>2 DEF Linked, Loose
  <2>4. p = NoNode \/ (p \in Node /\ cnext[p] \in Node)
    BY <1>5
  <2>5. Types'
    BY <1>3, <2>1, <2>2, <2>4, <1>7 DEF Types
  <2>6. Ring(r, m)'
    BY <1>2, <1>3, <1>5, <2>1, <2>2, <2>3, RingKept DEF Types
  <2>7. TailOn'
    BY <1>3, <2>2, <2>3 DEF TailOn
  <2>8. cnext'[n] = (IF slots = 0 THEN n ELSE cnext[p]) /\ (p \in Linked => cnext'[p] = cnext[p])
    BY <1>3, <1>5, <2>1, <2>3 DEF Types
  <2>9. Inserting'
    BY <1>7, <2>1, <2>2, <2>3, <2>8 DEF Inserting
  <2>10. \A k \in nodes' : cdata'[k] = k
    BY <1>3, <2>1 DEF Types
  <2> QED BY <1>r, <2>5, <2>6, <2>7, <2>9, <2>10 DEF ClistInv
<1>8. CASE InitHead
  <2> USE <1>8 DEF InitHead
  <2>1. slots = 0 /\ cnext[new] = new /\ new \in nodes /\ new \in Node
    BY <1>3 DEF Inserting, Types
  <2>2. Linked = {} /\ nodes = {new} /\ Linked' = {new}
    BY <1>5, <1>6, <2>1 DEF Linked, Loose
  <2>3. Types'
    BY <1>3, <2>1 DEF Types
  <2>4. IsRing'
    <3>1. PICK e \in Node : e = new
      BY <2>1
    <3>2. /\ Linked' = {e} /\ cnext'[e] = e /\ chead' = e
          /\ 1 = IF at' \in {"first", "tail", "count"} THEN slots' + 1 ELSE slots'
      BY <2>1, <2>2, <3>1
    <3> HIDE <1>8
    <3> QED BY <3>2, FirstRing
  <2>5. TailOn'
    BY <1>3, <2>2 DEF TailOn
  <2>6. Inserting'
    BY <2>1 DEF Inserting
  <2> QED BY <1>3, <2>3, <2>4, <2>5, <2>6 DEF ClistInv
<1>9. CASE InitTail
  <2> USE <1>9 DEF InitTail
  <2>1. new \in nodes /\ new \in Node
    BY <1>3 DEF Inserting, Types
  <2>2. Linked' = Linked /\ new \in Linked
    BY <2>1 DEF Linked, Loose
  <2>3. Types'
    BY <1>3, <2>1 DEF Types
  <2>4. Ring(r, m)'
    BY <1>2, <2>2, RingKept
  <2>5. TailOn' /\ Inserting'
    BY <2>1, <2>2 DEF TailOn, Inserting
  <2> QED BY <1>3, <1>r, <2>3, <2>4, <2>5 DEF ClistInv
<1>10. CASE InsertLink
  <2>1. at = "link" /\ at' = "tail"
    BY <1>10 DEF InsertLink
  <2>2. new \in nodes /\ new \in Node /\ pos \in Linked /\ pos \in Node
    BY <1>3, <1>5, <2>1 DEF Inserting, Types
  <2>3. Linked' = Linked \cup {new}
    BY <1>10, <2>1, <2>2 DEF InsertLink, Linked, Loose
  <2>4. Types'
    BY <1>3, <1>10, <2>2 DEF InsertLink, Types
  <2>5. IsRing'
    BY <1>2, <1>3, <1>10, <1>r, <2>1, LinkKeepsRing
  <2>6. TailOn' /\ Inserting'
    BY <1>3, <1>10, <2>1, <2>2, <2>3 DEF InsertLink, TailOn, Inserting
  <2> QED BY <1>3, <1>10, <2>4, <2>5, <2>6 DEF ClistInv, InsertLink
<1>11. CASE InsertTail
  <2> USE <1>11 DEF InsertTail
  <2>1. new \in nodes /\ new \in Node /\ Linked' = Linked /\ new \in Linked
    BY <1>3 DEF Inserting, Types, Linked, Loose
  <2>2. Types'
    BY <1>3, <2>1 DEF Types
  <2>3. Ring(r, m)'
    BY <1>2, <2>1, RingKept
  <2>4. TailOn' /\ Inserting'
    BY <1>3, <2>1 DEF TailOn, Inserting
  <2> QED BY <1>3, <1>r, <2>2, <2>3, <2>4 DEF ClistInv
<1>12. CASE InsertCount
  <2> USE <1>12 DEF InsertCount
  <2>1. Linked' = Linked
    BY DEF Linked, Loose
  <2>2. Types'
    BY <1>3 DEF Types
  <2>3. Ring(r, m)'
    BY <1>2, <2>1, RingKept
  <2>4. TailOn' /\ Inserting'
    BY <1>3, <2>1 DEF TailOn, Inserting
  <2> QED BY <1>3, <1>r, <2>2, <2>3, <2>4 DEF ClistInv
<1>13. ASSUME NEW p \in Linked, ClistDelete(p)
       PROVE  ClistInv'
  <2>1. /\ at = "idle" /\ at' = "idle" /\ slots' = slots - 1 /\ nodes' = nodes \ {p}
        /\ cdata' = cdata /\ pos' = pos /\ new' = new
    BY <1>13 DEF ClistDelete
  <2>2. m = slots /\ Linked = nodes /\ Linked' = Linked \ {p} /\ m # 0 /\ p \in Node
    BY <1>5, <1>6, <2>1 DEF Linked, Loose
  <2>3. Inserting' /\ \A n \in nodes' : cdata'[n] = n
    BY <1>3, <2>1 DEF Inserting
  <2>4. CASE slots = 1
    <3>1. chead' = NoNode /\ ctail' = NoNode /\ cnext' = cnext
      BY <1>13, <2>4 DEF ClistDelete
    <3>2. \A n \in Linked : n = p
      <4>1. PICK d \in 0 .. (m - 1) : r[d] = p
        BY <1>2, <2>2 DEF Ring
      <4>2. \A i \in 0 .. (m - 1) : i = d
        BY <2>2, <2>4
      <4>3. \A n \in Linked : \E i \in 0 .. (m - 1) : r[i] = n
        BY <1>2, <1>5 DEF Ring
      <4> QED BY <4>1, <4>2, <4>3
    <3>3. Linked' = {}
      BY <2>2, <3>2
    <3>4. Types'
      BY <1>3, <2>1, <2>4, <3>1 DEF Types
    <3> DEFINE q == [i \in 0 .. (0 - 1) |-> 0]
    <3>5. q \in [0 .. (0 - 1) -> Node] /\ \A i \in 0 .. (0 - 1) : FALSE
      OBVIOUS
    <3> HIDE DEF q
    <3>6. Ring(q, 0)'
      BY <2>1, <2>4, <3>1, <3>3, <3>5 DEF Ring
    <3>7. TailOn'
      BY <3>1, <3>3 DEF TailOn
    <3> QED BY <1>r, <2>3, <3>4, <3>6, <3>7 DEF ClistInv
  <2>5. CASE slots # 1
    <3>1. PICK x \in Linked :
            /\ cnext[x] = p
            /\ chead' = IF p = chead THEN x ELSE chead
            /\ ctail' = IF p = ctail THEN x ELSE ctail
            /\ cnext' = [cnext EXCEPT ![x] = cnext[p]]
      BY <1>4, <1>13, <2>5 DEF ClistDelete
    <3>2. m > 1 /\ x \in Node /\ x # p /\ cnext[p] \in Node
      <4>1. m > 1
        BY <2>2, <2>5
      <4> QED BY <1>5, <3>1, <4>1
    <3>3. PICK d \in 0 .. (m - 1) : r[d] = p
      BY <1>2, <2>2 DEF Ring
    <3>4. IsRing'
      <4>1. /\ chead' = IF r[d] = chead THEN x ELSE chead
            /\ cnext' = [cnext EXCEPT ![x] = cnext[r[d]]]
            /\ cnext[x] = r[d] /\ Linked' = Linked \ {r[d]} /\ at' = at
        BY <2>1, <2>2, <3>1, <3>3
      <4>2. \E q : Ring(q, m - 1)'
        BY <1>2, <1>3, <2>1, <3>2, <4>1, DeleteKeepsRing
      <4> QED BY <1>r, <4>2
    <3>5. Types'
      BY <1>3, <2>1, <2>2, <3>1, <3>2 DEF Types
    <3>6. x \in Linked' /\ (ctail \in Linked => ctail' \in Linked')
      BY <2>2, <3>1, <3>2
    <3>7. TailOn'
      BY <1>3, <2>1, <2>2, <3>6 DEF TailOn
    <3> QED BY <2>3, <3>4, <3>5, <3>7 DEF ClistInv
  <2> QED BY <2>4, <2>5
<1>14. CASE UNCHANGED cvars
  <2> USE <1>14 DEF cvars
  <2>1. Linked' = Linked
    BY DEF Linked, Loose
  <2>2. Ring(r, m)'
    BY <1>2, <2>1, RingKept
  <2>3. Types' /\ TailOn' /\ Inserting'
    BY <1>3, <2>1 DEF Types, TailOn, Inserting
  <2> QED BY <1>3, <1>r, <2>2, <2>3 DEF ClistInv
<1>15. CASE ClistNext
  <2>1. CASE slots = 0 /\ InsertBegin(NoNode)
    BY <1>7, <2>1
  <2>2. CASE \E p \in Members : InsertBegin(p) \/ ClistDelete(p)
    <3>1. PICK p \in Linked : InsertBegin(p) \/ ClistDelete(p)
      BY <1>4, <2>2
    <3>2. p # NoNode
      BY <1>5
    <3> QED BY <1>7, <1>13, <3>1, <3>2
  <2> QED BY <1>8, <1>9, <1>10, <1>11, <1>12, <1>15, <2>1, <2>2 DEF ClistNext, InsertStep
<1> QED BY <1>14, <1>15
----------------------------------------------------------------------------
(* What the users of the list rely on.                                     *)

\* A walk is safe and the definition agrees with the ring.
LEMMA ClistSound == ClistInv => ClistTypeOK /\ WalkSafe /\ RingAgrees
<1> SUFFICES ASSUME ClistInv, NEW m \in Nat, NEW r, Ring(r, m)
             PROVE  ClistTypeOK /\ WalkSafe /\ RingAgrees
  BY DEF ClistInv, IsRing
<1>1. Types /\ TailOn /\ Inserting /\ \A n \in nodes : cdata[n] = n
  BY DEF ClistInv
<1>2. r \in [0 .. (m - 1) -> Node] /\ nodes \subseteq Node /\ Linked \subseteq Node
  BY <1>1 DEF Ring, Types, Linked
<1>3. /\ m <= Cardinality(Node)
      /\ m # 0 => Nth[m] = chead
      /\ Members = Linked
  BY <1>2, WalkRound
<1>4. Cardinality(Linked) = m
  <2>1. /\ \A i, j \in 0 .. (m - 1) : r[i] = r[j] => i = j
        /\ \A n \in Node : n \in Linked <=> \E i \in 0 .. (m - 1) : r[i] = n
    BY DEF Ring
  <2> QED BY <1>2, <2>1, RingFits
<1>5. /\ chead = NoNode <=> m = 0
      /\ Linked = {} <=> m = 0
      /\ m # 0 => chead \in Linked
  BY <1>1, RingFacts
<1>6. m = IF at \in {"first", "tail", "count"} THEN slots + 1 ELSE slots
  BY DEF Ring
<1>7. Cardinality(Node) \in Nat /\ DOMAIN Nth = 0 .. Cardinality(Node)
  BY FS_CardinalityType, NthIs
<1>8. ClistTypeOK
  BY <1>1, <1>3, <1>6, <1>7 DEF ClistTypeOK, Types
<1>9. WalkSafe
  <2> SUFFICES ASSUME chead # NoNode
               PROVE  /\ \E k \in DOMAIN Nth \ {0} : Nth[k] = chead
                      /\ \A n \in Members : n \in nodes /\ cdata[n] = n
                      /\ nodes \ Members \subseteq {new}
    BY DEF WalkSafe
  <2>1. m \in DOMAIN Nth \ {0} /\ Nth[m] = chead
    BY <1>3, <1>5, <1>7
  <2>2. \A n \in Members : n \in nodes /\ cdata[n] = n
    BY <1>1, <1>3 DEF Linked
  <2>3. nodes \ Members \subseteq {new}
    BY <1>3 DEF Linked, Loose
  <2> QED BY <2>1, <2>2, <2>3
<1>10. RingAgrees
  <2> SUFFICES ASSUME at = "idle"
               PROVE  /\ slots = Cardinality(nodes)
                      /\ Members = nodes
                      /\ {chead, ctail} \subseteq IF slots = 0 THEN {NoNode} ELSE Members
    BY DEF RingAgrees
  <2>1. Linked = nodes /\ m = slots
    BY <1>6 DEF Linked, Loose
  <2> QED BY <1>1, <1>3, <1>4, <1>5, <2>1 DEF TailOn
<1> QED BY <1>8, <1>9, <1>10

\* For every set of entries: at every store of an insertion a walk comes back to
\* the head over entries that are allocated and filled in and misses none but the
\* new one, and between two calls the count, the head and the tail agree with the
\* ring (clist.c:9-56).
THEOREM ClistSafe == ClistSpec => [](ClistTypeOK /\ WalkSafe /\ RingAgrees)
<1> QED BY ClistInitInv, ClistStep, ClistSound, PTL DEF ClistSpec

\* A step keeps the order of all entries on the ring before and after it.
LEMMA StepKeepsOrder ==
  ASSUME ClistInv, ClistInv', [ClistNext]_cvars
  PROVE  LET S == Members \cap Members'
         IN  \A n \in S : SuccIn(S, cnext', n) = SuccIn(S, cnext, n)
<1> DEFINE S == Linked \cap Linked'
           Kept == \A n \in S : SuccIn(S, cnext', n) = SuccIn(S, cnext, n)
<1>1. Members = Linked /\ Members' = Linked'
  BY MembersAre, MembersWillBe
<1> SUFFICES Kept
  BY <1>1
<1>2. PICK m \in Nat : \E r : Ring(r, m)
  BY DEF ClistInv, IsRing
<1>3. PICK r : Ring(r, m)
  BY <1>2
<1>4. Types /\ Inserting
  BY DEF ClistInv
<1>5. /\ \A n \in Linked : n \in Node /\ cnext[n] \in Linked
      /\ Linked = {} <=> m = 0
      /\ m > 1 => \A n \in Linked : cnext[n] # n
      /\ \A n, k \in Linked : cnext[n] = cnext[k] => n = k
  BY <1>3, <1>4, RingFacts
<1>6. m = IF at \in {"first", "tail", "count"} THEN slots + 1 ELSE slots
  BY <1>3 DEF Ring
\* Nothing on the ring changes its link.
<1>7. ASSUME \A n \in Linked : cnext'[n] = cnext[n], Linked \subseteq Linked'
      PROVE  Kept
  BY <1>5, <1>7 DEF SuccIn
<1>8. ASSUME NEW p, InsertBegin(p) PROVE Kept
  <2>1. /\ at = "idle" /\ nodes \subseteq nodes'
        /\ \A n \in nodes : n # new' /\ cnext'[n] = cnext[n]
    BY <1>4, <1>8 DEF InsertBegin, Types
  <2>2. \A n \in Linked : n \in Linked' /\ cnext'[n] = cnext[n]
    BY <2>1 DEF Linked, Loose
  <2> QED BY <1>7, <2>2
<1>9. CASE InitHead
  <2>1. Linked = {}
    BY <1>4, <1>5, <1>6, <1>9 DEF InitHead, Inserting
  <2> QED BY <2>1
<1>10. CASE InitTail \/ InsertTail \/ InsertCount \/ UNCHANGED cvars
  <2>1. cnext' = cnext /\ Linked' = Linked
    BY <1>10 DEF InitTail, InsertTail, InsertCount, cvars, Linked, Loose
  <2> QED BY <1>7, <2>1
<1>11. CASE InsertLink
  <2>1. /\ at = "link" /\ at' = "tail" /\ nodes' = nodes /\ new' = new
        /\ cnext' = [cnext EXCEPT ![pos] = new]
    BY <1>11 DEF InsertLink
  <2>2. /\ new \in Node /\ new \notin Linked /\ pos \in Linked
        /\ cnext[new] = cnext[pos]
    BY <1>4, <2>1 DEF Inserting, Types, Linked, Loose
  <2>3. S = Linked
    BY <2>1 DEF Linked, Loose
  <2>4. /\ cnext'[pos] = new /\ cnext'[new] = cnext[pos]
        /\ \A n \in Node : n # pos => cnext'[n] = cnext[n]
    BY <1>4, <1>5, <2>1, <2>2 DEF Types
  <2> HIDE DEF S
  <2> QED BY <1>5, <2>2, <2>3, <2>4 DEF SuccIn
<1>12. ASSUME NEW p \in Linked, ClistDelete(p) PROVE Kept
  <2>1. at = "idle" /\ at' = "idle" /\ nodes' = nodes \ {p}
    BY <1>12 DEF ClistDelete
  <2>2. S = Linked \ {p} /\ m = slots
    BY <1>6, <2>1 DEF Linked, Loose
  <2>3. CASE slots = 1
    <3>1. cnext' = cnext
      BY <1>12, <2>3 DEF ClistDelete
    <3> QED BY <3>1
  <2>4. CASE slots # 1
    <3>1. PICK x \in Linked : cnext[x] = p /\ cnext' = [cnext EXCEPT ![x] = cnext[p]]
      BY <1>1, <1>12, <2>4 DEF ClistDelete
    <3>2. m > 1
      BY <1>5, <2>2, <2>4
    <3>3. x # p /\ cnext[p] \in S
      BY <1>5, <2>2, <3>1, <3>2
    <3>4. /\ cnext'[x] = cnext[p]
          /\ \A n \in Node : n # x => cnext'[n] = cnext[n]
      BY <1>4, <1>5, <3>1 DEF Types
    <3>5. p \notin S /\ \A n \in S : n \in Node /\ n \in Linked
      BY <1>5, <2>2
    <3>6. \A n \in S : n # x => cnext[n] \in S /\ cnext'[n] = cnext[n]
      BY <1>5, <2>2, <3>1, <3>4
    <3> HIDE DEF S
    <3> QED BY <3>1, <3>3, <3>4, <3>5, <3>6 DEF SuccIn
  <2> QED BY <2>3, <2>4
<1> HIDE DEF Kept
<1>13. CASE \E p \in Members : InsertBegin(p) \/ ClistDelete(p)
  BY <1>1, <1>8, <1>12, <1>13
<1> QED BY <1>8, <1>9, <1>10, <1>11, <1>13 DEF ClistNext, InsertStep

\* For every set of entries: an insertion or a deletion leaves the cyclic order of
\* all other entries as it was, at every store and whatever happens to head and
\* tail (clist.c:22-24, 49).
THEOREM ClistKeepsOrder == ClistSpec => OrderKept
<1>1. ClistInv /\ ClistInv' /\ [ClistNext]_cvars
        => [LET S == Members \cap Members'
            IN  \A n \in S : SuccIn(S, cnext', n) = SuccIn(S, cnext, n)]_cvars
  BY StepKeepsOrder
<1> QED BY <1>1, ClistInitInv, ClistStep, PTL DEF ClistSpec, OrderKept

----------------------------------------------------------------------------
\* Both libraries, used side by side in any order: what either keeps is not lost
\* by the calls of the other, as they share no entry (slist.c, clist.c).
THEOREM ListsSafe ==
  Spec => /\ [](TypeOK /\ LinksAgree /\ WalkSafe /\ RingAgrees)
          /\ ImplementsList /\ OrderKept
<1>1. Init => SlistInit /\ ClistInit
  BY DEF Init
<1>2. [Next]_<<svars, cvars>> => [SlistNext]_svars /\ [ClistNext]_cvars
  BY DEF Next
<1>3. SlistTypeOK /\ ClistTypeOK => TypeOK
  BY DEF TypeOK
<1>4. Spec => SlistSpec /\ ClistSpec
  BY <1>1, <1>2, PTL DEF Spec, SlistSpec, ClistSpec
<1> QED  BY <1>3, <1>4, LinksAlwaysAgree, SlistIsAList, ClistSafe, ClistKeepsOrder, PTL
=============================================================================
