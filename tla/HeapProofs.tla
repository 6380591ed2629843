----------------------------- MODULE HeapProofs -----------------------------
(***************************************************************************)
(* Proofs about Heap, for every arena, table of slots and set of requests. *)
(* SInv, that the list is well formed, is inductive alone; Matched, that   *)
(* busy blocks and allocations pair off, is relative to it.  The argument: *)
(* a change of the list is described by its elements (lemmas ...Shape);    *)
(* that description keeps the list well formed (lemmas ...Step, by the     *)
(* arithmetic of ListLemmas) and says where each busy block was before     *)
(* (lemmas ...Places), from which the new pairing is made.                 *)
(***************************************************************************)
EXTENDS Heap, ListLemmas, SequenceTheorems, FunctionTheorems, FiniteSetTheorems, TLAPS

----------------------------------------------------------------------------
(* The invariant, and what the list becomes.                               *)

\* The inductive strengthening of Tiles: any two blocks, not only neighbours,
\* are in order (heap.c keeps the list sorted by address).
Ordered == \A i, j \in DOMAIN blocks : i < j => EndOf(blocks[i]) <= blocks[j].addr

SInv == TypeOK /\ Tiles /\ Coalesced /\ Ordered

LEMMA BlockFields ==
  ASSUME TypeOK, NEW i \in DOMAIN blocks
  PROVE  /\ i \in 1 .. Len(blocks)
         /\ blocks[i] \in Block
         /\ blocks[i].addr \in Nat
         /\ blocks[i].size \in Nat
         /\ blocks[i].is_busy \in {0, 1}
         /\ Len(blocks) \in Nat
<1>1. blocks \in Seq(Block)  BY DEF TypeOK
<1>2. /\ Len(blocks) \in Nat
      /\ i \in 1 .. Len(blocks)
      /\ blocks[i] \in Block
  BY <1>1, LenProperties
<1> QED  BY <1>2 DEF Block

\* Merging leaves no free neighbours, so a free block that serves a request is
\* split, or is the last one and grows; it neither lends nor steals.
LEMMA TakenShape ==
  ASSUME SInv, NEW i \in DOMAIN blocks, NEW n \in Nat, Usable(i, n)
  PROVE  /\ TakenAddr(i, n) = blocks[i].addr
         /\ \/ Fits(i, n) /\ ~RightFree(i) /\ Taken(i, n) = Split(i, n)
            \/ ~Fits(i, n) /\ IsLast(i) /\ Taken(i, n) = Grow(i, n)
<1>1. i \in 1 .. Len(blocks) /\ Len(blocks) \in Nat
  BY BlockFields DEF SInv
<1>2. Free(i)  BY DEF Usable
<1>3. ~LeftFree(i)
  BY <1>1, <1>2 DEF LeftFree, SInv, Coalesced
<1>4. ~RightFree(i)
  BY <1>1, <1>2 DEF RightFree, IsLast, SInv, Coalesced
<1>5. Fits(i, n) \/ CanGrow(i, n)  BY <1>3 DEF Usable
<1> QED  BY <1>3, <1>4, <1>5 DEF Taken, TakenAddr, CanGrow

LEMMA SplitShape ==
  ASSUME SInv, NEW i \in DOMAIN blocks, NEW n \in Nat, Fits(i, n)
  PROVE  /\ Split(i, n) \in Seq(Block)
         /\ Len(Split(i, n)) = Len(blocks) + 1
         /\ \A j \in 1 .. (Len(blocks) + 1) :
              Split(i, n)[j] =
                IF j < i THEN blocks[j]
                ELSE IF j = i THEN [addr |-> blocks[i].addr, size |-> n, is_busy |-> 1]
                ELSE IF j = i + 1 THEN [addr |-> blocks[i].addr + n,
                                        size |-> blocks[i].size - n, is_busy |-> 0]
                ELSE blocks[j - 1]
<1> DEFINE b == [addr |-> blocks[i].addr, size |-> n, is_busy |-> 1]
           rest == [addr |-> blocks[i].addr + n, size |-> blocks[i].size - n, is_busy |-> 0]
           bs == [blocks EXCEPT ![i] = b]
<1>1. /\ i \in 1 .. Len(blocks) /\ Len(blocks) \in Nat
      /\ blocks[i].addr \in Nat /\ blocks[i].size \in Nat
      /\ blocks \in Seq(Block)
  BY BlockFields DEF SInv, TypeOK
<1>2. b \in Block /\ rest \in Block
  BY <1>1 DEF Block, Fits
<1>3. /\ bs \in Seq(Block) /\ Len(bs) = Len(blocks)
      /\ \A j \in 1 .. Len(blocks) : bs[j] = IF j = i THEN b ELSE blocks[j]
  BY <1>1, <1>2, ExceptSeq
<1>4. Split(i, n) = InsertAt(bs, i + 1, rest)  BY DEF Split
<1> HIDE DEF b, rest, bs
<1>5. PICK k : k = i + 1  OBVIOUS
<1>6. /\ InsertAt(bs, k, rest) \in Seq(Block)
      /\ Len(InsertAt(bs, k, rest)) = Len(bs) + 1
      /\ \A j \in 1 .. (Len(bs) + 1) :
            InsertAt(bs, k, rest)[j] =
              IF j < k THEN bs[j] ELSE IF j = k THEN rest ELSE bs[j - 1]
  <2>1. bs \in Seq(Block) /\ rest \in Block /\ k \in 1 .. (Len(bs) + 1)
    BY <1>1, <1>2, <1>3, <1>5
  <2> QED  BY <2>1, InsertAtFacts, SMT
<1>7. ASSUME NEW j \in 1 .. (Len(blocks) + 1)
      PROVE  Split(i, n)[j] = IF j < i THEN blocks[j] ELSE IF j = i THEN b
                              ELSE IF j = i + 1 THEN rest ELSE blocks[j - 1]
  <2>1. /\ j \in Nat
        /\ Split(i, n)[j] = IF j < i + 1 THEN bs[j] ELSE IF j = i + 1 THEN rest ELSE bs[j - 1]
    BY <1>1, <1>3, <1>4, <1>5, <1>6
  <2>2. CASE j < i
    BY <1>1, <1>3, <2>1, <2>2
  <2>3. CASE j = i
    BY <1>1, <1>3, <2>1, <2>3
  <2>4. CASE j = i + 1
    BY <1>1, <2>1, <2>4
  <2>5. CASE j > i + 1
    <3>1. j - 1 \in 1 .. Len(blocks) /\ j - 1 # i
      BY <1>1, <2>1, <2>5
    <3>2. Split(i, n)[j] = bs[j - 1]  BY <1>1, <2>1, <2>5
    <3>3. bs[j - 1] = blocks[j - 1]  BY <1>3, <3>1
    <3> QED  BY <1>1, <2>1, <2>5, <3>2, <3>3
  <2> QED  BY <1>1, <2>1, <2>2, <2>3, <2>4, <2>5
<1> QED  BY <1>3, <1>4, <1>5, <1>6, <1>7 DEF b, rest

LEMMA GrowShape ==
  ASSUME SInv, NEW i \in DOMAIN blocks, NEW n \in Nat
  PROVE  /\ Grow(i, n) \in Seq(Block)
         /\ Len(Grow(i, n)) = Len(blocks)
         /\ \A j \in 1 .. Len(blocks) :
              Grow(i, n)[j] = IF j = i THEN [addr |-> blocks[i].addr, size |-> n, is_busy |-> 1]
                                       ELSE blocks[j]
<1> DEFINE b == [addr |-> blocks[i].addr, size |-> n, is_busy |-> 1]
<1>1. i \in 1 .. Len(blocks) /\ blocks[i].addr \in Nat /\ blocks \in Seq(Block)
  BY BlockFields DEF SInv, TypeOK
<1>2. b \in Block  BY <1>1 DEF Block
<1>3. Grow(i, n) = [blocks EXCEPT ![i] = b]  BY DEF Grow
<1> HIDE DEF b
<1>4. /\ Grow(i, n) \in Seq(Block)
      /\ Len(Grow(i, n)) = Len(blocks)
      /\ \A j \in 1 .. Len(blocks) : Grow(i, n)[j] = IF j = i THEN b ELSE blocks[j]
  BY <1>1, <1>2, <1>3, ExceptSeq
<1> QED  BY <1>4 DEF b

\* t is the list with the blocks from a to b merged into one free block.
IsMerge(t, a, b) ==
  /\ t \in Seq(Block)
  /\ Len(t) = Len(blocks) - (b - a)
  /\ \A j \in 1 .. Len(t) :
        t[j] = IF j < a THEN blocks[j]
               ELSE IF j = a THEN [addr |-> blocks[a].addr,
                                   size |-> EndOf(blocks[b]) - blocks[a].addr,
                                   is_busy |-> 0]
               ELSE blocks[j + (b - a)]

LEMMA WidenedShape ==
  ASSUME NEW t \in Seq(Block), NEW k \in 1 .. Len(t), NEW m \in Nat
  PROVE  /\ Widened(t, k, m) \in Seq(Block)
         /\ Len(Widened(t, k, m)) = Len(t)
         /\ \A j \in 1 .. Len(t) :
              Widened(t, k, m)[j] =
                IF j = k THEN [addr |-> t[k].addr, size |-> t[k].size + m, is_busy |-> 0]
                         ELSE t[j]
<1> DEFINE w == [addr |-> t[k].addr, size |-> t[k].size + m, is_busy |-> 0]
<1>1. t[k] \in Block  BY ElementOfSeq
<1>2. w \in Block  BY <1>1 DEF Block
<1>3. Widened(t, k, m) = [t EXCEPT ![k] = w]  BY DEF Widened
<1> HIDE DEF w
<1>4. /\ Widened(t, k, m) \in Seq(Block)
      /\ Len(Widened(t, k, m)) = Len(t)
      /\ \A j \in 1 .. Len(t) : Widened(t, k, m)[j] = IF j = k THEN w ELSE t[j]
  BY <1>2, <1>3, ExceptSeq
<1> QED  BY <1>4 DEF w

\* What kfree leaves, whichever of its neighbours are free.
LEMMA FreedShape ==
  ASSUME SInv, NEW i \in DOMAIN blocks
  PROVE  \E a, b \in DOMAIN blocks :
           /\ a = IF LeftFree(i) THEN i - 1 ELSE i
           /\ b = IF RightFree(i) THEN i + 1 ELSE i
           /\ IsMerge(Freed(i), a, b)
<1> DEFINE gap  == IF RightFree(i) THEN 1 ELSE 0
           next == IF RightFree(i) THEN blocks[i + 1].size ELSE 0
           rest == IF RightFree(i) THEN RemoveAt(blocks, i + 1) ELSE blocks
           last == IF RightFree(i) THEN i + 1 ELSE i
<1> HIDE DEF gap, next, rest, last
<1>0. blocks \in Seq(Block)  BY DEF SInv, TypeOK
<1>1. /\ i \in 1 .. Len(blocks) /\ Len(blocks) \in Nat
      /\ blocks \in Seq(Block) /\ DOMAIN blocks = 1 .. Len(blocks)
  BY <1>0, LenProperties
<1>2. \A j \in 1 .. Len(blocks) : /\ blocks[j] \in Block
                                 /\ blocks[j].addr \in Nat /\ blocks[j].size \in Nat
  <2> TAKE j \in 1 .. Len(blocks)
  <2>1. blocks[j] \in Block  BY <1>0, ElementOfSeq
  <2> QED  BY <2>1 DEF Block
<1>3. /\ last \in 1 .. Len(blocks) /\ gap \in 0 .. 1 /\ last = i + gap /\ next \in Nat
      /\ EndOf(blocks[last]) = EndOf(blocks[i]) + next
  <2>1. CASE RightFree(i)
    <3>1. /\ i + 1 \in 1 .. Len(blocks) /\ last = i + 1 /\ gap = 1
          /\ next = blocks[i + 1].size
      BY <1>1, <2>1 DEF RightFree, IsLast, last, gap, next
    <3>2. blocks[i + 1].addr = EndOf(blocks[i])
      BY <1>1, <3>1 DEF SInv, Tiles
    <3> QED  BY <1>1, <1>2, <3>1, <3>2 DEF EndOf
  <2>2. CASE ~RightFree(i)
    <3>1. last = i /\ gap = 0 /\ next = 0  BY <2>2 DEF last, gap, next
    <3> QED  BY <1>1, <1>2, <3>1 DEF EndOf
  <2> QED  BY <2>1, <2>2
<1>ints. i \in Int /\ last \in Int /\ gap \in Int /\ last = i + gap /\ Len(blocks) \in Int
  BY <1>1, <1>3
<1>4. /\ rest \in Seq(Block) /\ Len(rest) = Len(blocks) - gap
      /\ \A j \in 1 .. Len(rest) : rest[j] = IF j <= i THEN blocks[j] ELSE blocks[j + gap]
  <2>1. CASE RightFree(i)
    <3>1. i + 1 \in 1 .. Len(blocks)  BY <1>1, <2>1 DEF RightFree, IsLast
    <3>2. PICK k \in 1 .. Len(blocks) : k = i + 1  BY <3>1
    <3>3. /\ RemoveAt(blocks, k) \in Seq(Block)
          /\ Len(RemoveAt(blocks, k)) = Len(blocks) - 1
          /\ \A j \in 1 .. (Len(blocks) - 1) :
                RemoveAt(blocks, k)[j] = IF j < k THEN blocks[j] ELSE blocks[j + 1]
      BY <1>1, RemoveAtFacts
    <3>4. rest = RemoveAt(blocks, k) /\ gap = 1  BY <2>1, <3>2 DEF rest, gap
    <3>5. rest \in Seq(Block) /\ Len(rest) = Len(blocks) - gap  BY <3>3, <3>4
    <3>6. ASSUME NEW j \in 1 .. Len(rest)
          PROVE  rest[j] = IF j <= i THEN blocks[j] ELSE blocks[j + gap]
      <4>1. j \in Int /\ j \in 1 .. (Len(blocks) - 1)  BY <1>ints, <3>4, <3>5
      <4>2. j < k <=> j <= i  BY <1>ints, <3>2, <4>1
      <4> QED  BY <3>3, <3>4, <4>1, <4>2
    <3> QED  BY <3>5, <3>6
  <2>2. CASE ~RightFree(i)
    <3>1. rest = blocks /\ gap = 0  BY <2>2 DEF rest, gap
    <3> QED  BY <1>1, <3>1
  <2> QED  BY <2>1, <2>2
<1>5. CASE LeftFree(i)
  <2>1. i - 1 \in 1 .. Len(rest) /\ i - 1 \in 1 .. Len(blocks) /\ i \in 1 .. Len(rest)
    BY <1>1, <1>3, <1>4, <1>5 DEF LeftFree
  <2>2. PICK a \in 1 .. Len(blocks) : a = i - 1  BY <2>1
  <2>dist. last - a = gap + 1  BY <1>ints, <2>2
  <2>3. PICK m \in Nat : m = blocks[i].size + next  BY <1>1, <1>2, <1>3
  <2>4. /\ Widened(rest, a, m) \in Seq(Block)
        /\ Len(Widened(rest, a, m)) = Len(rest)
        /\ \A j \in 1 .. Len(rest) :
              Widened(rest, a, m)[j] =
                IF j = a THEN [addr |-> rest[a].addr, size |-> rest[a].size + m, is_busy |-> 0]
                         ELSE rest[j]
    BY <1>4, <2>1, <2>2, WidenedShape
  <2>5. PICK w \in Seq(Block) : w = Widened(rest, a, m)  BY <2>4
  <2>6. /\ RemoveAt(w, i) \in Seq(Block)
        /\ Len(RemoveAt(w, i)) = Len(w) - 1
        /\ \A j \in 1 .. (Len(w) - 1) :
              RemoveAt(w, i)[j] = IF j < i THEN w[j] ELSE w[j + 1]
    <3>1. i \in 1 .. Len(w)  BY <2>1, <2>4, <2>5
    <3> QED  BY <3>1, RemoveAtFacts
  <2>7. Freed(i) = RemoveAt(w, i)
    BY <1>5, <2>2, <2>3, <2>5 DEF Freed, next, rest
  <2>8. EndOf(blocks[last]) - blocks[a].addr = blocks[a].size + m
    <3>1. blocks[i].addr = EndOf(blocks[a])
      BY <1>1, <2>2 DEF SInv, Tiles
    <3>2. /\ blocks[a].addr \in Int /\ blocks[a].size \in Int
          /\ blocks[i].addr \in Int /\ blocks[i].size \in Int /\ next \in Int
      BY <1>1, <1>2, <1>3
    <3>3. EndOf(blocks[last]) = EndOf(blocks[i]) + next  BY <1>3
    <3>4. EndOf(blocks[last]) = blocks[a].addr + blocks[a].size + blocks[i].size + next
      BY <3>1, <3>3 DEF EndOf
    <3>5. PICK p \in Int, x \in Int, y \in Int, z \in Int :
             /\ p = blocks[a].addr /\ x = blocks[a].size
             /\ y = blocks[i].size /\ z = next
      BY <3>2, Zenon
    <3>6. PICK e \in Int : e = EndOf(blocks[last])
      <4>1. p + x + y + z \in Int  BY <3>5
      <4>2. EndOf(blocks[last]) = p + x + y + z  BY <3>4, <3>5
      <4> QED  BY <4>1, <4>2, Zenon
    <3>7. e = p + x + y + z /\ m = y + z  BY <2>3, <3>4, <3>5, <3>6, Zenon
    <3>8. e - p = x + m  BY <3>7
    <3> QED  BY <3>5, <3>6, <3>8, Zenon
  <2>9. /\ Len(Freed(i)) = Len(blocks) - (last - a)
        /\ Len(Freed(i)) = Len(rest) - 1
    <3>1. Len(rest) = Len(blocks) - gap  BY <1>4
    <3>2. Len(Freed(i)) = Len(rest) - 1  BY <2>4, <2>5, <2>6, <2>7
    <3>3. Len(blocks) - gap - 1 = Len(blocks) - (gap + 1)  BY <1>ints
    <3> QED  BY <2>dist, <3>1, <3>2, <3>3
  <2>10. ASSUME NEW j \in 1 .. Len(Freed(i))
         PROVE  Freed(i)[j] = IF j < a THEN blocks[j]
                              ELSE IF j = a THEN [addr |-> blocks[a].addr,
                                                  size |-> EndOf(blocks[last]) - blocks[a].addr,
                                                  is_busy |-> 0]
                              ELSE blocks[j + (last - a)]
    <3>1. /\ Freed(i)[j] = IF j < i THEN w[j] ELSE w[j + 1]
          /\ j \in 1 .. Len(rest) /\ j + 1 \in 1 .. Len(rest)
      BY <1>1, <1>4, <2>4, <2>5, <2>6, <2>7, <2>9
    <3>2. CASE j < a
      BY <1>1, <1>4, <2>2, <2>4, <2>5, <3>1, <3>2
    <3>3. CASE j = a
      <4>1. Freed(i)[j] = w[a] /\ rest[a] = blocks[a]
        BY <1>1, <1>4, <2>1, <2>2, <3>1, <3>3
      <4> QED  BY <2>1, <2>2, <2>4, <2>5, <2>8, <3>3, <4>1
    <3>4. CASE j > a
      <4>1. Freed(i)[j] = rest[j + 1]
        BY <1>1, <2>2, <2>4, <2>5, <3>1, <3>4
      <4>2. rest[j + 1] = blocks[j + 1 + gap]
        BY <1>1, <1>3, <1>4, <2>2, <3>1, <3>4
      <4>3. j + 1 + gap = j + (last - a)
        <5>1. j \in Int  BY <1>ints
        <5>2. j + 1 + gap = j + (gap + 1)  BY <1>ints, <5>1
        <5> QED  BY <2>dist, <5>2
      <4> QED  BY <2>2, <3>4, <4>1, <4>2, <4>3
    <3> QED  BY <2>2, <3>1, <3>2, <3>3, <3>4
  <2> QED  BY <1>1, <1>3, <1>5, <2>2, <2>6, <2>7, <2>9, <2>10 DEF IsMerge, last
<1>6. CASE ~LeftFree(i)
  <2>1. i \in 1 .. Len(rest)
    BY <1>1, <1>3, <1>4
  <2>2. /\ Widened(rest, i, next) \in Seq(Block)
        /\ Len(Widened(rest, i, next)) = Len(rest)
        /\ \A j \in 1 .. Len(rest) :
              Widened(rest, i, next)[j] =
                IF j = i THEN [addr |-> rest[i].addr, size |-> rest[i].size + next, is_busy |-> 0]
                         ELSE rest[j]
    BY <1>3, <1>4, <2>1, WidenedShape
  <2>3. Freed(i) = Widened(rest, i, next)
    BY <1>6 DEF Freed, next, rest
  <2>4. EndOf(blocks[last]) - blocks[i].addr = blocks[i].size + next
    BY <1>1, <1>2, <1>3 DEF EndOf
  <2>5. ASSUME NEW j \in 1 .. Len(Freed(i))
        PROVE  Freed(i)[j] = IF j < i THEN blocks[j]
                             ELSE IF j = i THEN [addr |-> blocks[i].addr,
                                                 size |-> EndOf(blocks[last]) - blocks[i].addr,
                                                 is_busy |-> 0]
                             ELSE blocks[j + (last - i)]
    <3>1. j \in 1 .. Len(rest) /\ j \in Nat  BY <1>1, <1>3, <1>4, <2>2, <2>3
    <3>2. CASE j < i
      BY <1>1, <1>4, <2>2, <2>3, <3>1, <3>2
    <3>3. CASE j = i
      <4>1. rest[i] = blocks[i]  BY <1>1, <1>4, <2>1
      <4> QED  BY <2>1, <2>2, <2>3, <2>4, <3>3, <4>1
    <3>4. CASE j > i
      <4>1. Freed(i)[j] = rest[j]  BY <1>1, <2>2, <2>3, <3>1, <3>4
      <4>2. rest[j] = blocks[j + gap]  BY <1>1, <1>4, <3>1, <3>4
      <4>3. j + gap = j + (last - i)  BY <1>1, <1>3, <3>1
      <4> QED  BY <1>1, <3>1, <3>4, <4>1, <4>2, <4>3
    <3> QED  BY <1>1, <3>1, <3>2, <3>3, <3>4
  <2>6. Len(Freed(i)) = Len(blocks) - (last - i)
    <3>1. Len(Freed(i)) = Len(blocks) - gap  BY <1>4, <2>2, <2>3
    <3> QED  BY <1>ints, <3>1
  <2> QED  BY <1>1, <1>3, <1>6, <2>2, <2>3, <2>5, <2>6 DEF IsMerge, last
<1> QED  BY <1>5, <1>6
----------------------------------------------------------------------------
(* What a step makes of a well-formed list is a well-formed list.          *)

ListInv == /\ blocks \in Seq(Block)
           /\ Len(blocks) <= KHEAP_SIZE
           /\ Tiles /\ Coalesced /\ Ordered

\* A well-formed list, as facts about its elements.
LEMMA ListFacts ==
  ASSUME SInv
  PROVE  /\ Len(blocks) \in Nat /\ DOMAIN blocks = 1 .. Len(blocks)
         /\ Len(blocks) <= KHEAP_SIZE
         /\ Typed(blocks, Len(blocks))
         /\ Adjacent(blocks, Len(blocks))
         /\ Sorted(blocks, Len(blocks))
         /\ Starts(blocks, Len(blocks), KHEAP_START)
<1>1. blocks \in Seq(Block) /\ Len(blocks) <= KHEAP_SIZE  BY DEF SInv, TypeOK
<1>2. Len(blocks) \in Nat /\ DOMAIN blocks = 1 .. Len(blocks)  BY <1>1, LenProperties
<1>3. Typed(blocks, Len(blocks))
  <2> SUFFICES ASSUME NEW j \in 1 .. Len(blocks)
               PROVE  blocks[j].addr \in Nat /\ blocks[j].size \in Nat
    BY DEF Typed
  <2>1. blocks[j] \in Block  BY <1>1, ElementOfSeq
  <2> QED  BY <2>1 DEF Block
<1>4. Starts(blocks, Len(blocks), KHEAP_START)
  BY <1>1, EmptySeq DEF SInv, Tiles, Starts
<1>5. Adjacent(blocks, Len(blocks))
  <2> SUFFICES ASSUME NEW j \in 1 .. Len(blocks), NEW k \in 1 .. Len(blocks), k = j + 1
               PROVE  /\ blocks[k].addr = blocks[j].addr + blocks[j].size
                      /\ ~(blocks[j].is_busy = 0 /\ blocks[k].is_busy = 0)
    BY DEF Adjacent
  <2>1. j \in 1 .. (Len(blocks) - 1)  BY <1>2
  <2> QED  BY <2>1 DEF SInv, Tiles, Coalesced, Free, EndOf
<1>6. Sorted(blocks, Len(blocks))
  BY <1>2 DEF SInv, Ordered, EndOf, Sorted
<1> QED  BY <1>1, <1>2, <1>3, <1>4, <1>5, <1>6

\* And back.
LEMMA ListInvFrom ==
  ASSUME NEW t, blocks' = t, t \in Seq(Block), Len(t) <= KHEAP_SIZE,
         Adjacent(t, Len(t)), Sorted(t, Len(t)), Starts(t, Len(t), KHEAP_START)
  PROVE  ListInv'
<1>1. Len(t) \in Nat /\ DOMAIN t = 1 .. Len(t)  BY LenProperties
<1>2. t # << >> => Len(t) > 0  BY <1>1, EmptySeq
<1>3. ASSUME NEW j \in 1 .. (Len(t) - 1)
      PROVE  /\ t[j + 1].addr = t[j].addr + t[j].size
             /\ ~(t[j].is_busy = 0 /\ t[j + 1].is_busy = 0)
  <2>1. j \in 1 .. Len(t) /\ j + 1 \in 1 .. Len(t)  BY <1>1
  <2> QED  BY <2>1 DEF Adjacent
<1>4. Tiles'  BY <1>2, <1>3 DEF Tiles, EndOf, Starts
<1>5. Coalesced'  BY <1>3 DEF Coalesced, Free
<1>6. Ordered'  BY <1>1 DEF Ordered, EndOf, Sorted
<1> QED  BY <1>4, <1>5, <1>6 DEF ListInv

LEMMA SplitStep ==
  ASSUME SInv, NEW i \in DOMAIN blocks, NEW n \in Nat,
         Fits(i, n), ~RightFree(i), ~NoSlot, blocks' = Split(i, n)
  PROVE  ListInv'
<1>1. PICK t : t = Split(i, n)  OBVIOUS
<1>2. PICK L \in Nat : L = Len(blocks)  BY ListFacts
<1>3. /\ t \in Seq(Block) /\ Len(t) = L + 1
      /\ \A j \in 1 .. (L + 1) :
           t[j] = IF j < i THEN blocks[j]
                  ELSE IF j = i THEN [addr |-> blocks[i].addr, size |-> n, is_busy |-> 1]
                  ELSE IF j = i + 1 THEN [addr |-> blocks[i].addr + n,
                                          size |-> blocks[i].size - n, is_busy |-> 0]
                  ELSE blocks[j - 1]
  BY <1>1, <1>2, SplitShape
<1>4. /\ i \in 1 .. L
      /\ Typed(blocks, L) /\ Adjacent(blocks, L) /\ Sorted(blocks, L)
      /\ Starts(blocks, L, KHEAP_START)
  BY <1>2, ListFacts
<1>5. n <= blocks[i].size  BY <1>4 DEF Fits, Typed
<1>6. \A k \in 1 .. L : k = i + 1 => blocks[k].is_busy # 0
  BY <1>2, <1>4 DEF RightFree, IsLast, Free
<1>7. \A j \in 1 .. L : j < i => t[j] = blocks[j]
  BY <1>3
<1>8. t[i].addr = blocks[i].addr /\ t[i].size = n /\ t[i].is_busy = 1
  BY <1>3, <1>4
<1>9. \A k \in 1 .. (L + 1) : k = i + 1 => /\ t[k].addr = blocks[i].addr + n
                                         /\ t[k].size = blocks[i].size - n
  BY <1>3, <1>4
<1>10. ASSUME NEW j \in 1 .. L, NEW k \in 1 .. (L + 1), j > i, k = j + 1
       PROVE  t[k] = blocks[j]
  <2>1. k - 1 = j /\ ~(k < i) /\ k # i /\ k # i + 1  BY <1>4, <1>10
  <2> QED  BY <1>3, <2>1
<1>11. Adjacent(t, L + 1) /\ Sorted(t, L + 1) /\ Starts(t, L + 1, KHEAP_START)
  BY <1>4, <1>5, <1>6, <1>7, <1>8, <1>9, <1>10, SplitKeeps
<1>12. Len(t) <= KHEAP_SIZE
  <2>1. L <= KHEAP_SIZE /\ L # KHEAP_SIZE  BY <1>2, ListFacts DEF NoSlot
  <2> QED  BY <1>3, <2>1, ArenaAssumption
<1> QED  BY <1>1, <1>3, <1>11, <1>12, ListInvFrom

LEMMA GrowStep ==
  ASSUME SInv, NEW i \in DOMAIN blocks, NEW n \in Nat,
         IsLast(i), blocks' = Grow(i, n)
  PROVE  ListInv'
<1>1. PICK t : t = Grow(i, n)  OBVIOUS
<1>2. PICK L \in Nat : L = Len(blocks)  BY ListFacts
<1>3. /\ t \in Seq(Block) /\ Len(t) = L
      /\ \A j \in 1 .. L :
           t[j] = IF j = i THEN [addr |-> blocks[i].addr, size |-> n, is_busy |-> 1]
                  ELSE blocks[j]
  BY <1>1, <1>2, GrowShape
<1>4. /\ i \in 1 .. L /\ i = L /\ L > 0 /\ L <= KHEAP_SIZE
      /\ Typed(blocks, L) /\ Adjacent(blocks, L) /\ Sorted(blocks, L)
      /\ Starts(blocks, L, KHEAP_START)
  BY <1>2, ListFacts DEF IsLast
<1>5. \A j \in 1 .. L : j < L => t[j] = blocks[j]
  BY <1>3, <1>4
<1>6. t[L].addr = blocks[L].addr /\ t[L].is_busy = 1
  BY <1>3, <1>4
<1>7. Adjacent(t, L) /\ Sorted(t, L) /\ Starts(t, L, KHEAP_START)
  BY <1>4, <1>5, <1>6, GrowKeeps
<1> QED  BY <1>1, <1>3, <1>4, <1>7, ListInvFrom

LEMMA AppendStep ==
  ASSUME SInv, NEW n \in Nat, ~NoSlot,
         blocks' = Append(blocks, [addr |-> TailAddr, size |-> n, is_busy |-> 1])
  PROVE  ListInv'
<1>1. PICK t : t = Append(blocks, [addr |-> TailAddr, size |-> n, is_busy |-> 1])  OBVIOUS
<1>2. PICK L \in Nat : L = Len(blocks)  BY ListFacts
<1>3. /\ Typed(blocks, L) /\ Adjacent(blocks, L) /\ Sorted(blocks, L)
      /\ Starts(blocks, L, KHEAP_START) /\ L <= KHEAP_SIZE
      /\ blocks \in Seq(Block)
  BY <1>2, ListFacts DEF SInv, TypeOK
<1>4. TailAddr = IF L = 0 THEN KHEAP_START ELSE blocks[L].addr + blocks[L].size
  <2>1. blocks = << >> <=> L = 0  BY <1>2, <1>3, EmptySeq
  <2> QED  BY <1>2, <2>1 DEF TailAddr, EndOf
<1>5. TailAddr \in Nat
  BY <1>3, <1>4, ArenaAssumption DEF Typed
<1>6. [addr |-> TailAddr, size |-> n, is_busy |-> 1] \in Block
  BY <1>5 DEF Block
<1>7. /\ t \in Seq(Block) /\ Len(t) = L + 1
      /\ \A j \in 1 .. L : t[j] = blocks[j]
      /\ t[L + 1] = [addr |-> TailAddr, size |-> n, is_busy |-> 1]
  BY <1>1, <1>2, <1>3, <1>6, AppendProperties
<1>8. t[L + 1].addr = IF L = 0 THEN KHEAP_START ELSE blocks[L].addr + blocks[L].size
  BY <1>4, <1>7
<1>9. t[L + 1].is_busy = 1  BY <1>7
<1>10. Adjacent(t, L + 1) /\ Sorted(t, L + 1) /\ Starts(t, L + 1, KHEAP_START)
  BY <1>3, <1>7, <1>8, <1>9, AppendKeeps
<1>11. Len(t) <= KHEAP_SIZE
  BY <1>2, <1>3, <1>7, ArenaAssumption DEF NoSlot
<1> QED  BY <1>1, <1>7, <1>10, <1>11, ListInvFrom

LEMMA FreedStep ==
  ASSUME SInv, NEW i \in DOMAIN blocks, blocks' = Freed(i)
  PROVE  ListInv'
<1>1. PICK t : t = Freed(i)  OBVIOUS
<1>2. PICK L \in Nat : L = Len(blocks)  BY ListFacts
<1>3. /\ i \in 1 .. L /\ DOMAIN blocks = 1 .. L /\ L <= KHEAP_SIZE
      /\ Typed(blocks, L) /\ Adjacent(blocks, L) /\ Sorted(blocks, L)
      /\ Starts(blocks, L, KHEAP_START)
  BY <1>2, ListFacts
<1>4. PICK a \in 1 .. L, b \in 1 .. L :
         /\ a = IF LeftFree(i) THEN i - 1 ELSE i
         /\ b = IF RightFree(i) THEN i + 1 ELSE i
         /\ IsMerge(t, a, b)
  BY <1>1, <1>3, FreedShape
<1>5. b \in a .. L  BY <1>3, <1>4
<1>6. PICK N \in Nat, d \in Nat : b = a + d /\ L = N + d /\ d = b - a /\ N = L - d
  <2>1. b - a \in Nat /\ L - (b - a) \in Nat /\ b = a + (b - a) /\ L = (L - (b - a)) + (b - a)
    BY <1>5
  <2> QED  BY <2>1
<1>7. /\ t \in Seq(Block) /\ Len(t) = N
      /\ \A j \in 1 .. N :
           t[j] = IF j < a THEN blocks[j]
                  ELSE IF j = a THEN [addr |-> blocks[a].addr,
                                      size |-> EndOf(blocks[b]) - blocks[a].addr,
                                      is_busy |-> 0]
                  ELSE blocks[j + d]
  BY <1>2, <1>4, <1>6 DEF IsMerge
<1>8. ASSUME NEW j \in 1 .. L, a = j + 1  PROVE blocks[j].is_busy # 0
  <2>1. CASE LeftFree(i)
    <3>1. a = i - 1 /\ blocks[a].is_busy = 0  BY <1>4, <2>1 DEF LeftFree, Free
    <3> QED  BY <1>3, <1>8, <3>1 DEF Adjacent
  <2>2. CASE ~LeftFree(i)
    <3>1. j = i - 1 /\ i > 1  BY <1>3, <1>4, <1>8, <2>2
    <3> QED  BY <2>2, <3>1 DEF LeftFree, Free
  <2> QED  BY <2>1, <2>2
<1>9. ASSUME NEW k \in 1 .. L, k = b + 1  PROVE blocks[k].is_busy # 0
  <2>1. CASE RightFree(i)
    <3>1. b = i + 1 /\ blocks[b].is_busy = 0  BY <1>4, <2>1 DEF RightFree, Free
    <3> QED  BY <1>3, <1>9, <3>1 DEF Adjacent
  <2>2. CASE ~RightFree(i)
    <3>1. k = i + 1 /\ i # L  BY <1>3, <1>4, <1>9, <2>2
    <3> QED  BY <1>2, <2>2, <3>1 DEF RightFree, IsLast, Free
  <2> QED  BY <2>1, <2>2
<1>10. \A j \in 1 .. N : j < a => t[j] = blocks[j]  BY <1>7
<1>11. /\ t[a].addr = blocks[a].addr
       /\ t[a].addr + t[a].size = blocks[b].addr + blocks[b].size
  <2>1. a \in 1 .. N  BY <1>5, <1>6
  <2>2. t[a] = [addr |-> blocks[a].addr, size |-> EndOf(blocks[b]) - blocks[a].addr,
                is_busy |-> 0]
    BY <1>7, <2>1
  <2>3. blocks[a].addr \in Int /\ blocks[b].addr \in Int /\ blocks[b].size \in Int
    BY <1>3 DEF Typed
  <2>4. t[a].addr = blocks[a].addr /\ t[a].size = EndOf(blocks[b]) - blocks[a].addr
    BY <2>2
  <2> QED  BY <2>3, <2>4 DEF EndOf
<1>12. ASSUME NEW j \in 1 .. L, NEW k \in 1 .. N, k > a, j = k + d
       PROVE  t[k] = blocks[j]
  BY <1>7, <1>12
<1>13. Adjacent(t, N) /\ Sorted(t, N) /\ Starts(t, N, KHEAP_START)
  <2>1. \A j \in 1 .. L : a = j + 1 => blocks[j].is_busy # 0  BY <1>8
  <2>2. \A k \in 1 .. L : k = b + 1 => blocks[k].is_busy # 0  BY <1>9
  <2>3. \A j \in 1 .. L, k \in 1 .. N : k > a /\ j = k + d => t[k] = blocks[j]
    BY <1>12
  <2>4. MergesInto(blocks, L, a, b, d, t, N)
    BY <1>6, <1>10, <1>11, <2>1, <2>2, <2>3 DEF MergesInto
  <2> QED  BY <1>3, <2>4, MergeKeeps
<1>14. Len(t) <= KHEAP_SIZE
  BY <1>3, <1>5, <1>6, <1>7, ArenaAssumption
<1> QED  BY <1>1, <1>7, <1>13, <1>14, ListInvFrom
----------------------------------------------------------------------------
(* The actions.                                                            *)

\* The pointer a caller sees, and the bytes it asked for, lie in its block.
LEMMA PtrFacts ==
  ASSUME NEW r \in Requests, NEW p \in Nat
  PROVE  /\ Wanted(r) \in Nat
         /\ PtrFor(p, r) \in Nat
         /\ p <= PtrFor(p, r)
         /\ PtrFor(p, r) + r.count <= p + Wanted(r)
<1>1. r.count \in Nat /\ r.align \in Nat /\ WORD \in Nat
  BY RequestsAssumption, ArenaAssumption
<1>2. CASE r.align = 0
  BY <1>1, <1>2 DEF Wanted, PtrFor
<1>3. CASE r.align # 0
  <2>1. PICK x \in Nat, m \in Int : /\ x = p + r.align + WORD
                                   /\ m = x % r.align
                                   /\ 0 <= m /\ m < r.align
    <3>1. p + r.align + WORD \in Int /\ r.align \in Int /\ r.align > 0  BY <1>1, <1>3
    <3>2. \A x \in Int, y \in Int : y > 0 => x % y \in 0 .. (y - 1)  OBVIOUS
    <3>3. (p + r.align + WORD) % r.align \in 0 .. (r.align - 1)  BY <3>1, <3>2
    <3> QED  BY <1>1, <3>3
  <2>2. PtrFor(p, r) = x - m  BY <1>3, <2>1 DEF PtrFor, AlignedPtr
  <2>3. Wanted(r) = r.count + r.align + WORD  BY <1>3 DEF Wanted
  <2> QED  BY <1>1, <2>1, <2>2, <2>3
<1> QED  BY <1>2, <1>3

LEMMA HeldType ==
  ASSUME TypeOK, NEW h \in Holders, NEW r \in Requests, NEW p \in Nat, Gets(h, p, r)
  PROVE  held' \in [Holders -> Allocation \cup {Nothing}]
<1>1. r.count \in Nat  BY RequestsAssumption
<1>2. [block |-> p, size |-> Wanted(r), ptr |-> PtrFor(p, r), len |-> r.count] \in Allocation
  BY <1>1, PtrFacts DEF Allocation
<1> QED  BY <1>2 DEF Gets, TypeOK

\* The block a request is served from is where its caller is told it is.
LEMMA TakenFacts ==
  ASSUME SInv, NEW i \in DOMAIN blocks, NEW n \in Nat, IsFirstUsable(i, n),
         ~(NeedsSlot(i, n) /\ NoSlot), blocks' = Taken(i, n)
  PROVE  ListInv' /\ TakenAddr(i, n) \in Nat
<1>1. Usable(i, n)  BY DEF IsFirstUsable
<1>2. TakenAddr(i, n) \in Nat
  BY <1>1, TakenShape, BlockFields DEF SInv
<1>3. CASE Fits(i, n) /\ ~RightFree(i) /\ Taken(i, n) = Split(i, n)
  <2>1. Fits(i, n) /\ ~RightFree(i) /\ blocks' = Split(i, n)  BY <1>3
  <2>2. ~NoSlot  BY <2>1 DEF NeedsSlot
  <2>3. ListInv'  BY <2>1, <2>2, SplitStep
  <2> QED  BY <1>2, <2>3
<1>4. CASE ~Fits(i, n) /\ IsLast(i) /\ Taken(i, n) = Grow(i, n)
  <2>1. IsLast(i) /\ blocks' = Grow(i, n)  BY <1>4
  <2>2. ListInv'  BY <2>1, GrowStep
  <2> QED  BY <1>2, <2>2
<1> QED  BY <1>1, <1>2, <1>3, <1>4, TakenShape

LEMMA KmallocTakesStep ==
  ASSUME SInv, NEW h \in Holders, NEW r \in Requests, KmallocTakes(h, r)
  PROVE  SInv'
<1>1. PICK i \in DOMAIN blocks :
         /\ IsFirstUsable(i, Wanted(r))
         /\ ~(NeedsSlot(i, Wanted(r)) /\ NoSlot)
         /\ blocks' = Taken(i, Wanted(r))
         /\ Gets(h, TakenAddr(i, Wanted(r)), r)
  BY DEF KmallocTakes
<1>2. Wanted(r) \in Nat  BY PtrFacts
<1>3. ListInv' /\ TakenAddr(i, Wanted(r)) \in Nat  BY <1>1, <1>2, TakenFacts
<1>4. held' \in [Holders -> Allocation \cup {Nothing}]
  BY <1>1, <1>3, HeldType DEF SInv
<1> QED  BY <1>3, <1>4 DEF SInv, TypeOK, ListInv, KmallocTakes

LEMMA KmallocAppendsStep ==
  ASSUME SInv, NEW h \in Holders, NEW r \in Requests, KmallocAppends(h, r)
  PROVE  SInv'
<1>1. Wanted(r) \in Nat  BY PtrFacts
<1>2. ListInv'  BY <1>1, AppendStep DEF KmallocAppends
<1>3. TailAddr \in Nat
  <2>1. CASE blocks = << >>
    BY <2>1, ArenaAssumption DEF TailAddr
  <2>2. CASE blocks # << >>
    <3>1. Len(blocks) \in 1 .. Len(blocks) /\ Typed(blocks, Len(blocks))
      BY <2>2, ListFacts, EmptySeq DEF SInv, TypeOK
    <3> QED  BY <2>2, <3>1 DEF TailAddr, EndOf, Typed
  <2> QED  BY <2>1, <2>2
<1>4. held' \in [Holders -> Allocation \cup {Nothing}]
  BY <1>3, HeldType DEF SInv, KmallocAppends
<1> QED  BY <1>2, <1>4 DEF SInv, TypeOK, ListInv, KmallocAppends

LEMMA KfreeStep ==
  ASSUME SInv, NEW h \in Holders, Kfree(h)
  PROVE  SInv'
<1>1. held' \in [Holders -> Allocation \cup {Nothing}] /\ halted' \in BOOLEAN
  BY DEF Kfree, SInv, TypeOK
<1>2. CASE UNCHANGED blocks
  BY <1>1, <1>2 DEF SInv, TypeOK, Tiles, Coalesced, Ordered, Free, EndOf
<1>3. CASE \E i \in DOMAIN blocks : blocks' = Freed(i)
  <2>1. ListInv'  BY <1>3, FreedStep
  <2> QED  BY <1>1, <2>1 DEF SInv, TypeOK, ListInv
<1> QED  BY <1>2, <1>3 DEF Kfree

LEMMA SameList ==
  ASSUME SInv, UNCHANGED <<blocks, held>>, halted' \in BOOLEAN
  PROVE  SInv'
BY DEF SInv, TypeOK, Tiles, Coalesced, Ordered, Free, EndOf

\* The inductive invariant holds for every arena, every number of slots and every
\* request: heap.c keeps kheap_list typed, tiling, coalesced and in address order.
THEOREM ListWellFormed == Spec => []SInv
<1>1. Init => SInv
  <2> SUFFICES ASSUME Init PROVE SInv
    OBVIOUS
  <2>1. /\ blocks \in Seq(Block) /\ Len(blocks) = 0 /\ DOMAIN blocks = 1 .. 0
        /\ blocks = << >>
    BY EmptySeq, LenProperties DEF Init
  <2>2. TypeOK
    <3>1. Len(blocks) <= KHEAP_SIZE  BY <2>1, ArenaAssumption
    <3>2. held \in [Holders -> Allocation \cup {Nothing}] /\ halted \in BOOLEAN
      BY DEF Init
    <3> QED  BY <2>1, <3>1, <3>2 DEF TypeOK
  <2>3. Tiles /\ Coalesced /\ Ordered
    BY <2>1 DEF Tiles, Coalesced, Ordered
  <2> QED  BY <2>2, <2>3 DEF SInv
<1>2. SInv /\ [Next]_vars => SInv'
  <2> SUFFICES ASSUME SInv, [Next]_vars PROVE SInv'
    OBVIOUS
  <2>1. CASE UNCHANGED vars
    BY <2>1, SameList DEF vars, SInv, TypeOK
  <2>2. ASSUME NEW h \in Holders, NEW r \in Requests, KmallocTakes(h, r)
        PROVE  SInv'
    BY <2>2, KmallocTakesStep
  <2>3. ASSUME NEW h \in Holders, NEW r \in Requests, KmallocAppends(h, r)
        PROVE  SInv'
    BY <2>3, KmallocAppendsStep
  <2>4. ASSUME NEW h \in Holders, NEW r \in Requests, KmallocFails(h, r)
        PROVE  SInv'
    BY <2>4, SameList DEF KmallocFails, vars, SInv, TypeOK
  <2>5. ASSUME NEW h \in Holders, NEW r \in Requests, KmallocFaults(h, r)
        PROVE  SInv'
    BY <2>5, SameList DEF KmallocFaults
  <2>6. ASSUME NEW h \in Holders, Kfree(h)
        PROVE  SInv'
    BY <2>6, KfreeStep
  <2> QED  BY <2>1, <2>2, <2>3, <2>4, <2>5, <2>6 DEF Next
<1> QED  BY <1>1, <1>2, PTL DEF Spec
\* kfree merges so well, and kmalloc takes so carefully, that the blocks always
\* tile the arena from its start with no two free ones side by side: the branches
\* of kmalloc that take from a free neighbour are dead code.
THEOREM HeapListSafe == Spec => [](TypeOK /\ Tiles /\ Coalesced)
<1>1. SInv => TypeOK /\ Tiles /\ Coalesced  BY DEF SInv
<1> QED  BY <1>1, ListWellFormed, PTL

----------------------------------------------------------------------------
(* Who owns what.  A block of size 0 may share its address with another,   *)
(* and kfree(p) frees the first one there, so an allocation has no block   *)
(* of its own for good.  What stays is that the busy blocks and the        *)
(* allocations can be paired off, each allocation with a block at its      *)
(* address, and of its size unless it is of size 0.                        *)

Busy == {i \in DOMAIN blocks : ~Free(i)}

\* w is one to one from B onto H.
Pairs(w, B, H) ==
  /\ w \in [B -> H]
  /\ \A i, j \in B : w[i] = w[j] => i = j
  /\ \A h \in H : \E i \in B : w[i] = h

\* The block b can serve for the allocation a.
Serves(b, a) == a.block = b.addr /\ a.size \in {0, b.size}

Matched == \E w : Pairs(w, Busy, Holding) /\ \A i \in Busy : Serves(blocks[i], held[w[i]])

\* What a caller sees of its allocation lies in what kmalloc was asked for.
Within ==
  \A h \in Holding : /\ held[h].block <= held[h].ptr
                     /\ held[h].ptr + held[h].len <= held[h].block + held[h].size

\* The blocks that stay busy when number m is taken, or number i is freed, are
\* the old ones at the places e gives.
LEMMA PairsTaken ==
  ASSUME NEW B, NEW B2, NEW H, NEW m \in B2, NEW h, h \notin H,
         NEW e, Pairs(e, B2 \ {m}, B), NEW w, Pairs(w, B, H),
         NEW v, v = [j \in B2 |-> IF j = m THEN h ELSE w[e[j]]]
  PROVE  Pairs(v, B2, H \cup {h})
<1>1. /\ \A j \in B2 \ {m} : e[j] \in B
      /\ \A i, j \in B2 \ {m} : e[i] = e[j] => i = j
      /\ \A b \in B : \E j \in B2 \ {m} : e[j] = b
  BY DEF Pairs
<1>2. /\ \A b \in B : w[b] \in H
      /\ \A i, j \in B : w[i] = w[j] => i = j
      /\ \A g \in H : \E b \in B : w[b] = g
  BY DEF Pairs
<1>3. v[m] = h /\ \A j \in B2 \ {m} : v[j] = w[e[j]]  OBVIOUS
<1>4. v \in [B2 -> H \cup {h}]  BY <1>1, <1>2
<1>5. ASSUME NEW i \in B2, NEW j \in B2, v[i] = v[j]  PROVE i = j
  BY <1>1, <1>2, <1>3, <1>5
<1>6. ASSUME NEW g \in H \cup {h}  PROVE \E j \in B2 : v[j] = g
  BY <1>1, <1>2, <1>3
<1> QED  BY <1>4, <1>5, <1>6 DEF Pairs

LEMMA PairsFreed ==
  ASSUME NEW B, NEW B2, NEW H, NEW i \in B, NEW k \in B,
         NEW e, Pairs(e, B2, B \ {i}), NEW w, Pairs(w, B, H),
         NEW v, v = [j \in B2 |-> IF e[j] = k THEN w[i] ELSE w[e[j]]]
  PROVE  Pairs(v, B2, H \ {w[k]})
<1>1. /\ \A j \in B2 : e[j] \in B /\ e[j] # i
      /\ \A p, q \in B2 : e[p] = e[q] => p = q
      /\ \A b \in B : b # i => \E j \in B2 : e[j] = b
  BY DEF Pairs
<1>2. /\ \A b \in B : w[b] \in H
      /\ \A p, q \in B : w[p] = w[q] => p = q
      /\ \A g \in H : \E b \in B : w[b] = g
  BY DEF Pairs
<1>3. \A j \in B2 : v[j] = IF e[j] = k THEN w[i] ELSE w[e[j]]  OBVIOUS
<1>4. v \in [B2 -> H \ {w[k]}]
  <2> SUFFICES ASSUME NEW j \in B2  PROVE v[j] \in H /\ v[j] # w[k]
    OBVIOUS
  <2> QED  BY <1>1, <1>2, <1>3
<1>5. ASSUME NEW p \in B2, NEW q \in B2, v[p] = v[q]  PROVE p = q
  BY <1>1, <1>2, <1>3, <1>5
<1>6. ASSUME NEW g \in H, g # w[k]  PROVE \E j \in B2 : v[j] = g
  <2>1. PICK b \in B : w[b] = g  BY <1>2
  <2>2. b # k  BY <1>6, <2>1
  <2>3. CASE b = i
    <3>1. PICK j \in B2 : e[j] = k  BY <1>1, <2>2, <2>3
    <3> QED  BY <1>3, <2>1, <2>3, <3>1
  <2>4. CASE b # i
    <3>1. PICK j \in B2 : e[j] = b  BY <1>1, <2>4
    <3> QED  BY <1>3, <2>1, <2>2, <3>1
  <2> QED  BY <2>3, <2>4
<1> QED  BY <1>4, <1>5, <1>6 DEF Pairs

\* A step makes one more block busy, n bytes at p, and keeps the other busy ones.
Joins(p, n) ==
  \E m \in Busy' : \E e :
    /\ blocks'[m].addr = p /\ blocks'[m].size = n
    /\ Pairs(e, Busy' \ {m}, Busy)
    /\ \A j \in Busy' \ {m} : blocks'[j] = blocks[e[j]]

LEMMA MatchedAfterGets ==
  ASSUME TypeOK, Matched, NEW h \in Holders, NEW r \in Requests, NEW p \in Nat,
         held[h] = Nothing, Gets(h, p, r), Joins(p, Wanted(r))
  PROVE  Matched'
<1>m. PICK m \in Busy' : \E e : /\ blocks'[m].addr = p /\ blocks'[m].size = Wanted(r)
                                /\ Pairs(e, Busy' \ {m}, Busy)
                                /\ \A j \in Busy' \ {m} : blocks'[j] = blocks[e[j]]
  BY DEF Joins
<1>0. PICK e : /\ blocks'[m].addr = p /\ blocks'[m].size = Wanted(r)
               /\ Pairs(e, Busy' \ {m}, Busy)
               /\ \A j \in Busy' \ {m} : blocks'[j] = blocks[e[j]]
  BY <1>m
<1> DEFINE mine == [block |-> p, size |-> Wanted(r), ptr |-> PtrFor(p, r), len |-> r.count]
<1>1. mine \in Allocation /\ mine # Nothing
  <2>1. mine \in Allocation  BY PtrFacts, RequestsAssumption DEF Allocation
  <2> QED  BY <2>1, NothingAssumption
<1>2. held'[h] = mine /\ \A g \in Holders : g # h => held'[g] = held[g]
  BY DEF Gets, TypeOK
<1>3. h \notin Holding /\ Holding' = Holding \cup {h}
  BY <1>1, <1>2 DEF Holding
<1>4. held'[h].block = p /\ held'[h].size = Wanted(r)  BY <1>2
<1> HIDE DEF mine
<1>5. PICK w : Pairs(w, Busy, Holding) /\ \A i \in Busy : Serves(blocks[i], held[w[i]])
  BY DEF Matched
<1>6. PICK B2 : B2 = Busy'  OBVIOUS
<1>7. PICK v : v = [j \in B2 |-> IF j = m THEN h ELSE w[e[j]]]  OBVIOUS
<1>8. Pairs(v, B2, Holding \cup {h})  BY <1>0, <1>3, <1>5, <1>6, <1>7, PairsTaken
<1>9. ASSUME NEW j \in B2  PROVE Serves(blocks'[j], held'[v[j]])
  <2>1. CASE j = m
    BY <1>0, <1>4, <1>7, <2>1 DEF Serves
  <2>2. CASE j # m
    <3>1. e[j] \in Busy /\ v[j] = w[e[j]]  BY <1>0, <1>6, <1>7, <2>2 DEF Pairs
    <3>2. w[e[j]] \in Holding  BY <1>5, <3>1 DEF Pairs
    <3>3. held'[w[e[j]]] = held[w[e[j]]]  BY <1>2, <1>3, <3>2 DEF Holding
    <3> QED  BY <1>0, <1>5, <1>6, <2>2, <3>1, <3>3
  <2> QED  BY <2>1, <2>2
<1> QED  BY <1>3, <1>6, <1>8, <1>9 DEF Matched

\* kfree(p) frees the first block at p, number i.  When its caller h is paired with
\* another, number k, the first one is of size 0, and so is the allocation it is
\* paired with, which number k can serve for.
LEMMA MatchedAfterFree ==
  ASSUME SInv, Matched, NEW h \in Holding, held' = [held EXCEPT ![h] = Nothing],
         NEW i, IsFreedBy(i, held[h].block),
         NEW e, Pairs(e, Busy', Busy \ {i}),
         \A j \in Busy' : blocks'[j] = blocks[e[j]]
  PROVE  Matched'
<1>0. i \in Busy /\ blocks[i].addr = held[h].block
  BY DEF IsFreedBy, IsBusyAt, Busy, Free
<1>1. \A g \in Holders : g # h => held'[g] = held[g]
  BY DEF Holding, SInv, TypeOK
<1>2. Holding' = Holding \ {h}
  <2>1. h \in Holders /\ held'[h] = Nothing  BY DEF Holding, SInv, TypeOK
  <2> QED  BY <1>1, <2>1 DEF Holding
<1>3. PICK w : Pairs(w, Busy, Holding) /\ \A b \in Busy : Serves(blocks[b], held[w[b]])
  BY DEF Matched
<1>4. PICK k \in Busy : w[k] = h  BY <1>3 DEF Pairs
<1>5. ASSUME k # i  PROVE held[w[i]].size = 0
  <2>1. PICK L \in Nat : L = Len(blocks)  BY ListFacts
  <2>2. DOMAIN blocks = 1 .. L /\ Typed(blocks, L) /\ Sorted(blocks, L)
    BY <2>1, ListFacts
  <2>3. i \in 1 .. L /\ k \in 1 .. L  BY <1>0, <1>4, <2>2 DEF Busy
  <2>4. blocks[k].addr = held[h].block  BY <1>3, <1>4 DEF Serves
  <2>5. blocks[k].is_busy = 1  BY <1>4, <2>2, <2>3, BlockFields DEF SInv, Busy, Free
  <2>6. ~(k < i)
    <3>1. k < i => k \in 1 .. (i - 1)  BY <2>3
    <3> QED  BY <2>4, <2>5, <3>1 DEF IsFreedBy, IsBusyAt
  <2>7. i < k  BY <1>5, <2>3, <2>6
  <2>8. blocks[i].addr + blocks[i].size <= blocks[k].addr  BY <2>2, <2>3, <2>7 DEF Sorted
  <2>9. blocks[i].addr \in Nat /\ blocks[i].size \in Nat  BY <2>2, <2>3 DEF Typed
  <2>10. blocks[i].size = 0  BY <1>0, <2>4, <2>8, <2>9
  <2> QED  BY <1>0, <1>3, <2>10 DEF Serves
<1>6. PICK B2 : B2 = Busy'  OBVIOUS
<1>7. PICK v : v = [j \in B2 |-> IF e[j] = k THEN w[i] ELSE w[e[j]]]  OBVIOUS
<1>8. Pairs(v, B2, Holding \ {h})  BY <1>0, <1>3, <1>4, <1>6, <1>7, PairsFreed
<1>9. ASSUME NEW j \in B2  PROVE Serves(blocks'[j], held'[v[j]])
  <2>1. v[j] \in Holding /\ v[j] # h  BY <1>8 DEF Pairs
  <2>2. held'[v[j]] = held[v[j]]  BY <1>1, <2>1 DEF Holding
  <2>3. e[j] \in Busy /\ e[j] # i /\ blocks'[j] = blocks[e[j]]  BY <1>6 DEF Pairs
  <2>4. CASE e[j] = k
    <3>1. v[j] = w[i]  BY <1>7, <2>4
    <3>2. held[w[i]].block = blocks[i].addr  BY <1>0, <1>3 DEF Serves
    <3>3. held[w[k]].block = blocks[k].addr  BY <1>3, <1>4 DEF Serves
    <3>4. held[w[i]].size = 0  BY <1>5, <2>3, <2>4
    <3> QED  BY <1>0, <1>4, <2>2, <2>3, <2>4, <3>1, <3>2, <3>3, <3>4 DEF Serves
  <2>5. CASE e[j] # k
    <3>1. v[j] = w[e[j]]  BY <1>7, <2>5
    <3> QED  BY <1>3, <2>2, <2>3, <3>1
  <2> QED  BY <2>4, <2>5
<1> QED  BY <1>2, <1>6, <1>8, <1>9 DEF Matched

\* Where the busy blocks of a list are.
BusyIn(t) == {j \in DOMAIN t : t[j].is_busy # 0}

LEMMA BusyIsIn ==
  ASSUME NEW t, blocks' = t
  PROVE  Busy = BusyIn(blocks) /\ Busy' = BusyIn(t)
BY DEF Busy, BusyIn, Free

\* e takes the places P of the list t to the busy places of the old list but those
\* in gone, and the block is the same there.
Places(e, t, P, gone) ==
  /\ Pairs(e, P, BusyIn(blocks) \ gone)
  /\ \A j \in P : t[j] = blocks[e[j]]

\* Splitting moves the blocks behind by one place, and growing none.
LEMMA TakenPlaces ==
  ASSUME SInv, NEW i \in DOMAIN blocks, NEW n \in Nat, Usable(i, n),
         NEW t, t = Taken(i, n)
  PROVE  /\ i \in BusyIn(t) /\ t[i].addr = blocks[i].addr /\ t[i].size = n
         /\ \E e : Places(e, t, BusyIn(t) \ {i}, {})
<1>1. PICK L \in Nat : L = Len(blocks)  BY ListFacts
<1>2. DOMAIN blocks = 1 .. L /\ i \in 1 .. L  BY <1>1, ListFacts
<1>3. i \notin BusyIn(blocks)  BY DEF Usable, Free, BusyIn
<1>4. CASE Fits(i, n) /\ t = Split(i, n)
  <2>1. /\ t \in Seq(Block) /\ Len(t) = L + 1
        /\ \A j \in 1 .. (L + 1) :
             t[j] = IF j < i THEN blocks[j]
                    ELSE IF j = i THEN [addr |-> blocks[i].addr, size |-> n, is_busy |-> 1]
                    ELSE IF j = i + 1 THEN [addr |-> blocks[i].addr + n,
                                            size |-> blocks[i].size - n, is_busy |-> 0]
                    ELSE blocks[j - 1]
    BY <1>1, <1>4, SplitShape
  <2>2. DOMAIN t = 1 .. (L + 1)  BY <2>1, LenProperties
  <2>3. i \in 1 .. (L + 1) /\ t[i].is_busy = 1 /\ t[i].addr = blocks[i].addr /\ t[i].size = n
    BY <1>2, <2>1
  <2>4. ASSUME NEW j \in 1 .. (L + 1), t[j].is_busy # 0, j # i
        PROVE  \/ j < i /\ j \in 1 .. L /\ t[j] = blocks[j]
               \/ j > i + 1 /\ j - 1 \in 1 .. L /\ t[j] = blocks[j - 1]
    <3>1. j # i + 1
      <4>1. ASSUME j = i + 1  PROVE t[j].is_busy = 0
        <5>1. ~(j < i) /\ j # i  BY <1>2, <4>1
        <5> QED  BY <2>1, <4>1, <5>1
      <4> QED  BY <2>4, <4>1
    <3>2. j < i \/ j > i + 1  BY <1>2, <2>4, <3>1
    <3>3. CASE j < i
      <4>1. j \in 1 .. L  BY <1>2, <3>3
      <4> QED  BY <2>1, <3>3, <4>1
    <3>4. CASE j > i + 1
      <4>1. j - 1 \in 1 .. L /\ ~(j < i)  BY <1>2, <3>4
      <4> QED  BY <2>1, <2>4, <3>1, <3>4, <4>1
    <3> QED  BY <3>2, <3>3, <3>4
  <2>5. ASSUME NEW k \in 1 .. L, k # i
        PROVE  \/ k < i /\ k \in 1 .. (L + 1) /\ t[k] = blocks[k]
               \/ k > i /\ k + 1 \in 1 .. (L + 1) /\ t[k + 1] = blocks[k]
    <3>1. CASE k < i
      <4>1. k \in 1 .. (L + 1)  OBVIOUS
      <4> QED  BY <2>1, <3>1, <4>1
    <3>2. CASE k > i
      <4>1. k + 1 \in 1 .. (L + 1) /\ ~(k + 1 < i) /\ k + 1 # i /\ k + 1 # i + 1 /\ (k + 1) - 1 = k
        BY <1>2, <3>2
      <4> QED  BY <2>1, <3>2, <4>1
    <3> QED  BY <1>2, <2>5, <3>1, <3>2
  <2>6. PICK P : P = BusyIn(t) \ {i}  OBVIOUS
  <2>7. PICK e : e = [j \in P |-> IF j < i THEN j ELSE j - 1]  OBVIOUS
  <2>8. ASSUME NEW j \in P
        PROVE  /\ j \in 1 .. (L + 1)
               /\ e[j] \in BusyIn(blocks)
               /\ t[j] = blocks[e[j]]
               /\ \/ j < i /\ e[j] = j
                  \/ j > i + 1 /\ e[j] = j - 1
    <3>1. j \in 1 .. (L + 1) /\ t[j].is_busy # 0 /\ j # i
      BY <2>2, <2>6 DEF BusyIn
    <3>2. CASE j < i /\ j \in 1 .. L /\ t[j] = blocks[j]
      <4>1. e[j] = j  BY <2>7, <3>2
      <4> QED  BY <1>2, <3>1, <3>2, <4>1 DEF BusyIn
    <3>3. CASE j > i + 1 /\ j - 1 \in 1 .. L /\ t[j] = blocks[j - 1]
      <4>1. ~(j < i)  BY <1>2, <3>1, <3>3
      <4>2. e[j] = j - 1  BY <2>7, <4>1
      <4> QED  BY <1>2, <3>1, <3>3, <4>2 DEF BusyIn
    <3> QED  BY <2>4, <3>1, <3>2, <3>3
  <2>9. e \in [P -> BusyIn(blocks)]  BY <2>7, <2>8
  <2>10. ASSUME NEW j \in P, NEW k \in P, e[j] = e[k]  PROVE j = k
    <3>1. j \in Int /\ k \in Int /\ i \in Int  BY <1>2, <2>8
    <3>2. (j < i /\ e[j] = j) \/ (j > i + 1 /\ e[j] = j - 1)  BY <2>8
    <3>3. (k < i /\ e[k] = k) \/ (k > i + 1 /\ e[k] = k - 1)  BY <2>8
    <3> QED  BY <2>10, <3>1, <3>2, <3>3
  <2>11. ASSUME NEW k \in BusyIn(blocks)  PROVE \E j \in P : e[j] = k
    <3>1. k \in 1 .. L /\ k # i /\ blocks[k].is_busy # 0  BY <1>2, <1>3 DEF BusyIn
    <3>2. CASE k < i /\ k \in 1 .. (L + 1) /\ t[k] = blocks[k]
      <4>1. k \in P  BY <2>2, <2>6, <3>1, <3>2 DEF BusyIn
      <4> QED  BY <2>7, <3>2, <4>1
    <3>3. CASE k > i /\ k + 1 \in 1 .. (L + 1) /\ t[k + 1] = blocks[k]
      <4>1. k + 1 # i /\ ~(k + 1 < i) /\ (k + 1) - 1 = k  BY <1>2, <3>1, <3>3
      <4>2. k + 1 \in P  BY <2>2, <2>6, <3>1, <3>3, <4>1 DEF BusyIn
      <4>3. e[k + 1] = k  BY <2>7, <4>1, <4>2
      <4> QED  BY <4>2, <4>3
    <3> QED  BY <2>5, <3>1, <3>2, <3>3
  <2>12. Places(e, t, P, {})
    BY <2>8, <2>9, <2>10, <2>11 DEF Places, Pairs
  <2>13. i \in BusyIn(t)  BY <2>2, <2>3 DEF BusyIn
  <2> QED  BY <2>3, <2>6, <2>12, <2>13
<1>5. CASE t = Grow(i, n)
  <2>1. /\ t \in Seq(Block) /\ Len(t) = L
        /\ \A j \in 1 .. L :
             t[j] = IF j = i THEN [addr |-> blocks[i].addr, size |-> n, is_busy |-> 1]
                             ELSE blocks[j]
    BY <1>1, <1>5, GrowShape
  <2>2. DOMAIN t = 1 .. L  BY <2>1, LenProperties
  <2>3. t[i].is_busy = 1 /\ t[i].addr = blocks[i].addr /\ t[i].size = n  BY <1>2, <2>1
  <2>4. BusyIn(t) \ {i} = BusyIn(blocks)  BY <1>2, <1>3, <2>1, <2>2 DEF BusyIn
  <2>5. PICK P : P = BusyIn(blocks)  OBVIOUS
  <2>6. PICK e : e = [j \in P |-> j]  OBVIOUS
  <2>7. Places(e, t, P, {})
    <3>1. Pairs(e, P, P \ {})  BY <2>6 DEF Pairs
    <3>2. \A j \in P : j \in 1 .. L /\ j # i  BY <1>2, <1>3, <2>5 DEF BusyIn
    <3>3. \A j \in P : t[j] = blocks[j] /\ e[j] = j  BY <2>1, <2>6, <3>2
    <3> QED  BY <2>5, <3>1, <3>3 DEF Places
  <2>8. i \in BusyIn(t)  BY <1>2, <2>2, <2>3 DEF BusyIn
  <2> QED  BY <2>3, <2>4, <2>5, <2>7, <2>8
<1> QED  BY <1>4, <1>5, TakenShape

LEMMA AppendPlaces ==
  ASSUME SInv, NEW n \in Nat,
         NEW t, t = Append(blocks, [addr |-> TailAddr, size |-> n, is_busy |-> 1])
  PROVE  /\ TailAddr \in Nat
         /\ \E m : /\ m \in BusyIn(t) /\ t[m].addr = TailAddr /\ t[m].size = n
                   /\ \E e : Places(e, t, BusyIn(t) \ {m}, {})
<1>1. PICK L \in Nat : L = Len(blocks)  BY ListFacts
<1>2. /\ Typed(blocks, L) /\ blocks \in Seq(Block) /\ DOMAIN blocks = 1 .. L
  BY <1>1, ListFacts DEF SInv, TypeOK
<1>3. TailAddr \in Nat
  <2>1. blocks = << >> <=> L = 0  BY <1>1, <1>2, EmptySeq
  <2>2. CASE L = 0
    BY <2>1, <2>2, ArenaAssumption DEF TailAddr
  <2>3. CASE L # 0
    <3>1. L \in 1 .. L  BY <2>3
    <3>2. blocks[L].addr \in Nat /\ blocks[L].size \in Nat  BY <1>2, <3>1 DEF Typed
    <3>3. TailAddr = blocks[L].addr + blocks[L].size
      BY <1>1, <2>1, <2>3 DEF TailAddr, EndOf
    <3> QED  BY <3>2, <3>3
  <2> QED  BY <2>2, <2>3
<1>4. [addr |-> TailAddr, size |-> n, is_busy |-> 1] \in Block
  BY <1>3 DEF Block
<1>5. /\ t \in Seq(Block) /\ Len(t) = L + 1
      /\ \A j \in 1 .. L : t[j] = blocks[j]
      /\ t[L + 1] = [addr |-> TailAddr, size |-> n, is_busy |-> 1]
  BY <1>1, <1>2, <1>4, AppendProperties
<1>6. DOMAIN t = 1 .. (L + 1)  BY <1>5, LenProperties
<1>7. PICK m : m = L + 1 /\ m \in 1 .. (L + 1) /\ m \notin 1 .. L  OBVIOUS
<1>8. m \in BusyIn(t) /\ t[m].addr = TailAddr /\ t[m].size = n  BY <1>5, <1>6, <1>7 DEF BusyIn
<1>9. BusyIn(t) \ {m} = BusyIn(blocks)
  <2>1. \A j \in 1 .. (L + 1) : j = m \/ j \in 1 .. L  BY <1>7
  <2> QED  BY <1>2, <1>5, <1>6, <1>7, <2>1 DEF BusyIn
<1>10. PICK P : P = BusyIn(blocks)  OBVIOUS
<1>11. PICK e : e = [j \in P |-> j]  OBVIOUS
<1>12. Places(e, t, P, {})
  <2>1. Pairs(e, P, P \ {})  BY <1>11 DEF Pairs
  <2>2. \A j \in P : t[j] = blocks[j] /\ e[j] = j  BY <1>2, <1>5, <1>10, <1>11 DEF BusyIn
  <2> QED  BY <1>10, <2>1, <2>2 DEF Places
<1> QED  BY <1>3, <1>8, <1>9, <1>10, <1>12

\* Merging takes the free neighbours away, and moves the blocks behind.
LEMMA FreedPlaces ==
  ASSUME SInv, NEW i \in DOMAIN blocks, NEW t, t = Freed(i)
  PROVE  \E e : Places(e, t, BusyIn(t), {i})
<1>2. PICK L \in Nat : L = Len(blocks)  BY ListFacts
<1>3. i \in 1 .. L /\ DOMAIN blocks = 1 .. L  BY <1>2, ListFacts
<1>4. PICK a \in 1 .. L, b \in 1 .. L :
         /\ a = IF LeftFree(i) THEN i - 1 ELSE i
         /\ b = IF RightFree(i) THEN i + 1 ELSE i
         /\ IsMerge(t, a, b)
  BY <1>3, FreedShape
<1>5. PICK N \in Nat, d \in Nat : b = a + d /\ L = N + d /\ d = b - a /\ N = L - d
  <2>1. b - a \in Nat /\ L - (b - a) \in Nat /\ b = a + (b - a) /\ L = (L - (b - a)) + (b - a)
    BY <1>3, <1>4
  <2> QED  BY <2>1
<1>6. /\ t \in Seq(Block) /\ Len(t) = N
      /\ \A j \in 1 .. N :
           t[j] = IF j < a THEN blocks[j]
                  ELSE IF j = a THEN [addr |-> blocks[a].addr,
                                      size |-> EndOf(blocks[b]) - blocks[a].addr,
                                      is_busy |-> 0]
                  ELSE blocks[j + d]
  BY <1>2, <1>4, <1>5 DEF IsMerge
<1>7. DOMAIN t = 1 .. N  BY <1>6, LenProperties
<1>8. ASSUME NEW k \in 1 .. L, a <= k, k <= b, k # i
      PROVE  blocks[k].is_busy = 0
  BY <1>3, <1>4, <1>8 DEF LeftFree, RightFree, Free
<1>9. a <= i /\ i <= b  BY <1>3, <1>4
<1>ab. a \in 1 .. L /\ b \in 1 .. L  BY <1>4
<1>10. PICK P : P = BusyIn(t)  OBVIOUS
<1>11. PICK e : e = [j \in P |-> IF j < a THEN j ELSE j + d]  OBVIOUS
<1>12. ASSUME NEW j \in P
       PROVE  /\ j \in 1 .. N
              /\ e[j] \in BusyIn(blocks) /\ e[j] # i
              /\ t[j] = blocks[e[j]]
              /\ \/ j < a /\ e[j] = j
                 \/ j > a /\ e[j] = j + d
  <2>1. j \in 1 .. N /\ t[j].is_busy # 0  BY <1>7, <1>10 DEF BusyIn
  <2>2. j # a
    <3>1. j = a => t[j].is_busy = 0  BY <1>6, <2>1
    <3> QED  BY <2>1, <3>1
  <2>3. CASE j < a
    <3>0. j \in 1 .. L /\ j # i  BY <1>3, <1>5, <1>9, <1>ab, <2>1, <2>3
    <3>1. e[j] = j /\ t[j] = blocks[j] /\ j \in 1 .. L /\ j # i
      BY <1>6, <1>10, <1>11, <2>1, <2>3, <3>0
    <3> QED  BY <1>3, <2>1, <2>3, <3>1 DEF BusyIn
  <2>4. CASE j > a
    <3>0. ~(j < a) /\ j + d \in 1 .. L /\ j + d # i
      BY <1>3, <1>5, <1>9, <1>ab, <2>1, <2>4
    <3>1. e[j] = j + d  BY <1>11, <3>0
    <3>2. t[j] = blocks[j + d]  BY <1>6, <2>1, <2>2, <3>0
    <3> QED  BY <1>3, <2>1, <2>4, <3>0, <3>1, <3>2 DEF BusyIn
  <2> QED  BY <1>4, <2>1, <2>2, <2>3, <2>4
<1>13. e \in [P -> BusyIn(blocks) \ {i}]  BY <1>11, <1>12
<1>14. ASSUME NEW j \in P, NEW k \in P, e[j] = e[k]  PROVE j = k
  <2>1. j \in Int /\ k \in Int /\ a \in Int /\ d \in Nat  BY <1>5, <1>12
  <2>2. (j < a /\ e[j] = j) \/ (j > a /\ e[j] = j + d)  BY <1>12
  <2>3. (k < a /\ e[k] = k) \/ (k > a /\ e[k] = k + d)  BY <1>12
  <2> QED  BY <1>14, <2>1, <2>2, <2>3
<1>15. ASSUME NEW k \in BusyIn(blocks), k # i  PROVE \E j \in P : e[j] = k
  <2>1. k \in 1 .. L /\ blocks[k].is_busy # 0  BY <1>3 DEF BusyIn
  <2>2. k < a \/ k > b  BY <1>4, <1>8, <1>15, <2>1
  <2>3. CASE k < a
    <3>1. k \in 1 .. N /\ t[k] = blocks[k]  BY <1>5, <1>6, <2>1, <2>3
    <3>2. k \in P  BY <1>7, <1>10, <2>1, <3>1 DEF BusyIn
    <3> QED  BY <1>11, <2>3, <3>2
  <2>4. CASE k > b
    <3>1. PICK j \in 1 .. N : j = k - d /\ j > a /\ j + d = k  BY <1>5, <2>1, <2>4
    <3>2. ~(j < a) /\ j # a  BY <3>1
    <3>3. t[j] = blocks[k]  BY <1>6, <3>1, <3>2
    <3>4. j \in P  BY <1>7, <1>10, <2>1, <3>3 DEF BusyIn
    <3>5. e[j] = k  BY <1>11, <3>1, <3>2, <3>4
    <3> QED  BY <3>4, <3>5
  <2> QED  BY <2>2, <2>3, <2>4
<1>16. Pairs(e, P, BusyIn(blocks) \ {i})  BY <1>13, <1>14, <1>15 DEF Pairs
<1>17. \A j \in P : t[j] = blocks[e[j]]  BY <1>12
<1> QED  BY <1>10, <1>16, <1>17 DEF Places
LEMMA MatchedStep ==
  ASSUME SInv, Matched, [Next]_vars
  PROVE  Matched'
<1>1. CASE UNCHANGED <<blocks, held>>
  BY <1>1 DEF Matched, Busy, Holding, Free
<1>2. TypeOK  BY DEF SInv
<1>3. ASSUME NEW h \in Holders, NEW r \in Requests, KmallocTakes(h, r)
      PROVE  Matched'
  <2>1. PICK i \in DOMAIN blocks :
           /\ IsFirstUsable(i, Wanted(r))
           /\ blocks' = Taken(i, Wanted(r))
           /\ Gets(h, TakenAddr(i, Wanted(r)), r)
    BY <1>3 DEF KmallocTakes
  <2>2. Wanted(r) \in Nat
    <3>1. 0 \in Nat  OBVIOUS
    <3> QED  BY <3>1, PtrFacts
  <2>3. Usable(i, Wanted(r)) /\ held[h] = Nothing
    BY <1>3, <2>1 DEF IsFirstUsable, KmallocTakes, CanCall
  <2>4. TakenAddr(i, Wanted(r)) = blocks[i].addr /\ blocks[i].addr \in Nat
    BY <1>2, <2>2, <2>3, TakenShape, BlockFields
  <2>5. PICK t : t = Taken(i, Wanted(r))  OBVIOUS
  <2>6. PICK e : /\ i \in BusyIn(t) /\ t[i].addr = blocks[i].addr /\ t[i].size = Wanted(r)
                 /\ Places(e, t, BusyIn(t) \ {i}, {})
    BY <2>2, <2>3, <2>5, TakenPlaces
  <2>7. Busy = BusyIn(blocks) /\ Busy' = BusyIn(t) /\ blocks' = t
    BY <2>1, <2>5, BusyIsIn
  <2>8. Pairs(e, Busy' \ {i}, Busy) /\ \A j \in Busy' \ {i} : blocks'[j] = blocks[e[j]]
    <3>1. BusyIn(blocks) \ {} = BusyIn(blocks)  OBVIOUS
    <3> QED  BY <2>6, <2>7, <3>1 DEF Places
  <2>9. /\ Gets(h, blocks[i].addr, r) /\ i \in Busy'
        /\ blocks'[i].addr = blocks[i].addr /\ blocks'[i].size = Wanted(r)
    BY <2>1, <2>4, <2>6, <2>7
  <2>10. Joins(blocks[i].addr, Wanted(r))  BY <2>8, <2>9, Zenon DEF Joins
  <2> QED  BY <1>2, <2>3, <2>4, <2>9, <2>10, MatchedAfterGets
<1>4. ASSUME NEW h \in Holders, NEW r \in Requests, KmallocAppends(h, r)
      PROVE  Matched'
  <2>1. Wanted(r) \in Nat
    <3>1. 0 \in Nat  OBVIOUS
    <3> QED  BY <3>1, PtrFacts
  <2>2. /\ held[h] = Nothing /\ Gets(h, TailAddr, r)
        /\ blocks' = Append(blocks, [addr |-> TailAddr, size |-> Wanted(r), is_busy |-> 1])
    BY <1>4 DEF KmallocAppends, CanCall
  <2>3. PICK t : t = Append(blocks, [addr |-> TailAddr, size |-> Wanted(r), is_busy |-> 1])
    OBVIOUS
  <2>4. PICK m : /\ TailAddr \in Nat /\ m \in BusyIn(t) /\ t[m].addr = TailAddr /\ t[m].size = Wanted(r)
                 /\ \E e : Places(e, t, BusyIn(t) \ {m}, {})
    BY <2>1, <2>3, AppendPlaces
  <2>5. PICK e : Places(e, t, BusyIn(t) \ {m}, {})  BY <2>4
  <2>6. Busy = BusyIn(blocks) /\ Busy' = BusyIn(t) /\ blocks' = t
    BY <2>2, <2>3, BusyIsIn
  <2>7. Pairs(e, Busy' \ {m}, Busy) /\ \A j \in Busy' \ {m} : blocks'[j] = blocks[e[j]]
    <3>1. BusyIn(blocks) \ {} = BusyIn(blocks)  OBVIOUS
    <3> QED  BY <2>5, <2>6, <3>1 DEF Places
  <2>8. m \in Busy' /\ blocks'[m].addr = TailAddr /\ blocks'[m].size = Wanted(r)  BY <2>4, <2>6
  <2>9. Joins(TailAddr, Wanted(r))  BY <2>7, <2>8, Zenon DEF Joins
  <2> QED  BY <1>2, <2>2, <2>4, <2>9, MatchedAfterGets
<1>5. ASSUME NEW h \in Holders, Kfree(h)
      PROVE  Matched'
  <2>1. h \in Holding /\ held' = [held EXCEPT ![h] = Nothing]
    BY <1>5 DEF Kfree, Holding
  <2>2. ~NothingAt(held[h].block)
    <3>1. PICK w : Pairs(w, Busy, Holding) /\ \A k \in Busy : held[w[k]].block = blocks[k].addr
      BY DEF Matched, Serves
    <3>2. PICK k \in Busy : w[k] = h  BY <2>1, <3>1 DEF Pairs
    <3>3. k \in DOMAIN blocks /\ blocks[k].is_busy = 1
      BY <1>2, BlockFields DEF Busy, Free
    <3> QED  BY <3>1, <3>2, <3>3 DEF NothingAt, IsBusyAt
  <2>3. PICK i \in DOMAIN blocks : IsFreedBy(i, held[h].block) /\ blocks' = Freed(i)
    BY <1>5, <2>2 DEF Kfree
  <2>4. IsFreedBy(i, held[h].block)  BY <2>3
  <2>5. PICK t : t = Freed(i)  OBVIOUS
  <2>6. PICK e : Places(e, t, BusyIn(t), {i})  BY <2>5, FreedPlaces
  <2>7. Busy = BusyIn(blocks) /\ Busy' = BusyIn(t) /\ blocks' = t
    BY <2>3, <2>5, BusyIsIn
  <2>8. Pairs(e, Busy', Busy \ {i}) /\ \A j \in Busy' : blocks'[j] = blocks[e[j]]
    BY <2>6, <2>7 DEF Places
  <2> QED  BY <2>1, <2>4, <2>8, MatchedAfterFree
<1>6. CASE \E h \in Holders, r \in Requests : KmallocFails(h, r) \/ KmallocFaults(h, r)
  BY <1>1, <1>6 DEF KmallocFails, KmallocFaults, vars
<1> QED  BY <1>1, <1>3, <1>4, <1>5, <1>6 DEF Next, vars

LEMMA WithinStep ==
  ASSUME SInv, Within, [Next]_vars
  PROVE  Within'
<1>1. CASE UNCHANGED held
  BY <1>1 DEF Within, Holding
<1>2. ASSUME NEW h \in Holders, NEW r \in Requests, NEW p \in Nat, Gets(h, p, r)
      PROVE  Within'
  <2>1. /\ held'[h] = [block |-> p, size |-> Wanted(r), ptr |-> PtrFor(p, r), len |-> r.count]
        /\ \A g \in Holders : g # h => held'[g] = held[g]
    BY <1>2 DEF Gets, SInv, TypeOK
  <2>2. held'[h].block <= held'[h].ptr /\ held'[h].ptr + held'[h].len <= held'[h].block + held'[h].size
    <3>1. p <= PtrFor(p, r) /\ PtrFor(p, r) + r.count <= p + Wanted(r)  BY PtrFacts
    <3> QED  BY <2>1, <3>1
  <2> QED  BY <2>1, <2>2 DEF Within, Holding
<1>3. ASSUME NEW h \in Holders, NEW r \in Requests, KmallocTakes(h, r)
      PROVE  Within'
  <2>1. PICK i \in DOMAIN blocks : /\ IsFirstUsable(i, Wanted(r))
                                   /\ Gets(h, TakenAddr(i, Wanted(r)), r)
    BY <1>3 DEF KmallocTakes
  <2>2. Wanted(r) \in Nat
    <3>1. 0 \in Nat  OBVIOUS
    <3> QED  BY <3>1, PtrFacts
  <2>3. TakenAddr(i, Wanted(r)) \in Nat
    BY <2>1, <2>2, TakenShape, BlockFields DEF SInv, IsFirstUsable
  <2> QED  BY <1>2, <2>1, <2>3
<1>4. ASSUME NEW h \in Holders, NEW r \in Requests, KmallocAppends(h, r)
      PROVE  Within'
  <2>1. TailAddr \in Nat
    <3>1. 0 \in Nat  OBVIOUS
    <3> QED  BY <3>1, AppendPlaces
  <2> QED  BY <1>2, <1>4, <2>1 DEF KmallocAppends
<1>5. ASSUME NEW h \in Holders, Kfree(h)
      PROVE  Within'
  BY <1>5 DEF Kfree, Within, Holding, SInv, TypeOK
<1>6. CASE \E h \in Holders, r \in Requests : KmallocFails(h, r) \/ KmallocFaults(h, r)
  BY <1>1, <1>6 DEF KmallocFails, KmallocFaults, vars
<1> QED  BY <1>1, <1>3, <1>4, <1>5, <1>6 DEF Next, vars

\* The bytes of an allocation lie between the start and the end of the block it is
\* paired with, and of two blocks one ends before the other starts.
LEMMA MatchedIsDisjoint ==
  ASSUME SInv, Matched, Within
  PROVE  Backed /\ LiveDisjoint
<1>1. PICK w : Pairs(w, Busy, Holding) /\ \A i \in Busy : Serves(blocks[i], held[w[i]])
  BY DEF Matched
<1>2. PICK L \in Nat : L = Len(blocks)  BY ListFacts
<1>3. DOMAIN blocks = 1 .. L /\ Typed(blocks, L) /\ Sorted(blocks, L)
  BY <1>2, ListFacts
<1>4. ASSUME NEW i \in Busy
      PROVE  i \in 1 .. L /\ blocks[i].is_busy = 1
  BY <1>3, BlockFields DEF SInv, Busy, Free
<1>5. Backed
  <2> SUFFICES ASSUME NEW h \in Holding, held[h].size > 0
               PROVE  \E i \in DOMAIN blocks : /\ IsBusyAt(i, held[h].block)
                                               /\ blocks[i].size = held[h].size
    BY DEF Backed
  <2>1. PICK i \in Busy : w[i] = h  BY <1>1 DEF Pairs
  <2>2. Serves(blocks[i], held[h])  BY <1>1, <2>1
  <2> QED  BY <1>3, <1>4, <2>2 DEF Serves, IsBusyAt
<1>6. ASSUME NEW i \in Busy, NEW j \in Busy, i < j
      PROVE  held[w[i]].ptr + held[w[i]].len <= held[w[j]].ptr
  <2>1. w[i] \in Holding /\ w[j] \in Holding  BY <1>1 DEF Pairs
  <2>2. held[w[i]] \in Allocation /\ held[w[j]] \in Allocation
    BY <2>1 DEF Holding, SInv, TypeOK
  <2>3. /\ held[w[i]].block \in Nat /\ held[w[i]].size \in Nat
        /\ held[w[i]].ptr \in Nat /\ held[w[i]].len \in Nat
        /\ held[w[j]].block \in Nat /\ held[w[j]].ptr \in Nat
    BY <2>2 DEF Allocation
  <2>4. /\ held[w[i]].ptr + held[w[i]].len <= held[w[i]].block + held[w[i]].size
        /\ held[w[j]].block <= held[w[j]].ptr
    BY <2>1 DEF Within
  <2>5. /\ held[w[i]].block = blocks[i].addr /\ held[w[i]].size \in {0, blocks[i].size}
        /\ held[w[j]].block = blocks[j].addr
    BY <1>1 DEF Serves
  <2>6. i \in 1 .. L /\ j \in 1 .. L  BY <1>4
  <2>7. blocks[i].size \in Nat /\ blocks[i].addr + blocks[i].size <= blocks[j].addr
    BY <1>3, <1>6, <2>6 DEF Typed, Sorted
  <2>8. held[w[i]].block + held[w[i]].size <= held[w[j]].block
    <3>1. CASE held[w[i]].size = 0
      BY <2>3, <2>5, <2>7, <3>1
    <3>2. CASE held[w[i]].size = blocks[i].size
      BY <2>5, <2>7, <3>2
    <3> QED  BY <2>5, <3>1, <3>2
  <2> QED  BY <2>3, <2>4, <2>8
<1>7. ASSUME NEW g \in Holding, NEW h \in Holding, g # h
      PROVE  \/ held[g].ptr + held[g].len <= held[h].ptr
             \/ held[h].ptr + held[h].len <= held[g].ptr
  <2>1. PICK i \in Busy, j \in Busy : w[i] = g /\ w[j] = h  BY <1>1 DEF Pairs
  <2>2. i < j \/ j < i  BY <1>4, <1>7, <2>1
  <2> QED  BY <1>6, <2>1, <2>2
<1> QED  BY <1>5, <1>7 DEF LiveDisjoint

\* Matched is an invariant for every arena, number of slots, set of callers and
\* requests: kfree always finds the block it is to free, and never frees one that
\* somebody else needs (heap.c:109-151).
THEOREM BusyIsHeld == Spec => [](Matched /\ Within)
<1>1. Init => Matched /\ Within
  <2> SUFFICES ASSUME Init PROVE Matched /\ Within
    OBVIOUS
  <2>1. Holding = {} /\ Busy = {}  BY DEF Init, Holding, Busy
  <2>2. PICK w : w = [i \in {} |-> i]  OBVIOUS
  <2>3. Pairs(w, {}, {})  BY <2>2 DEF Pairs
  <2> QED  BY <2>1, <2>3 DEF Matched, Within
<1>2. SInv /\ Matched /\ [Next]_vars => Matched'
  BY MatchedStep
<1>3. SInv /\ Within /\ [Next]_vars => Within'
  BY WithinStep
<1> QED  BY <1>1, <1>2, <1>3, ListWellFormed, PTL DEF Spec

\* For every arena, every number of slots and callers, and every request: kmalloc
\* and kmalloc_a never give two callers the same byte, and kfree and kfree_a never
\* take a block that somebody else holds.
THEOREM NoOverlap == Spec => [](Backed /\ LiveDisjoint)
<1>1. SInv /\ Matched /\ Within => Backed /\ LiveDisjoint
  BY MatchedIsDisjoint
<1> QED  BY <1>1, BusyIsHeld, ListWellFormed, PTL

----------------------------------------------------------------------------
(* The heap implements the allocator.                                      *)

\* What a step does to the regions the callers see.
LEMMA SeenStep ==
  ASSUME TypeOK, TypeOK', [Next]_vars
  PROVE  \/ Seen' = Seen
         \/ \E h \in Holders : /\ held'[h] = Nothing
                               /\ \A g \in Holders : g # h => held'[g] = held[g]
         \/ \E h \in Holders : /\ held[h] = Nothing /\ held'[h] # Nothing
                               /\ \A g \in Holders : g # h => held'[g] = held[g]
<1>1. CASE held' = held
  BY <1>1 DEF Seen
<1>2. ASSUME NEW h \in Holders, NEW r \in Requests, KmallocTakes(h, r) \/ KmallocAppends(h, r)
      PROVE  \/ held'[h] = Nothing /\ \A g \in Holders : g # h => held'[g] = held[g]
             \/ /\ held[h] = Nothing /\ held'[h] # Nothing
                /\ \A g \in Holders : g # h => held'[g] = held[g]
  <2>1. held[h] = Nothing  BY <1>2 DEF KmallocTakes, KmallocAppends, CanCall
  <2>2. PICK p : Gets(h, p, r)  BY <1>2 DEF KmallocTakes, KmallocAppends
  <2>3. \A g \in Holders : g # h => held'[g] = held[g]  BY <2>2 DEF Gets, TypeOK
  <2> QED  BY <2>1, <2>3
<1>3. ASSUME NEW h \in Holders, Kfree(h)
      PROVE  held'[h] = Nothing /\ \A g \in Holders : g # h => held'[g] = held[g]
  BY <1>3 DEF Kfree, TypeOK
<1>4. ASSUME NEW h \in Holders, NEW r \in Requests, KmallocFails(h, r) \/ KmallocFaults(h, r)
      PROVE  held' = held
  BY <1>4 DEF KmallocFails, KmallocFaults, vars
<1> QED  BY <1>1, <1>2, <1>3, <1>4 DEF Next, vars

LEMMA PromiseStep ==
  ASSUME TypeOK, TypeOK', LiveDisjoint', [Next]_vars
  PROVE  [Promise!Next]_Seen
<1> SUFFICES ASSUME Seen' # Seen  PROVE Promise!Next
  OBVIOUS
<1>1. /\ Seen = [g \in Holders |-> Seen[g]] /\ Seen' = [g \in Holders |-> Seen'[g]]
      /\ \A g \in Holders : held'[g] = held[g] => Seen'[g] = Seen[g]
      /\ \A g \in Holders : held'[g] = Nothing => Seen'[g] = Nothing
      /\ \A g \in Holders : held[g] = Nothing => Seen[g] = Nothing
  BY DEF Seen
<1>2. ASSUME NEW h \in Holders, \A g \in Holders : g # h => held'[g] = held[g]
      PROVE  Seen' = [Seen EXCEPT ![h] = Seen'[h]]
  BY <1>1, <1>2
<1>3. ASSUME NEW h \in Holders, held'[h] = Nothing,
             \A g \in Holders : g # h => held'[g] = held[g]
      PROVE  Promise!Free(h)
  BY <1>1, <1>2, <1>3 DEF Promise!Free
<1>4. ASSUME NEW h \in Holders, held[h] = Nothing, held'[h] # Nothing,
             \A g \in Holders : g # h => held'[g] = held[g]
      PROVE  Promise!Malloc(h)
  <2>1. held'[h] \in Allocation  BY <1>4 DEF TypeOK
  <2>2. /\ Seen'[h] = [ptr |-> held'[h].ptr, len |-> held'[h].len]
        /\ Seen'[h] \in [ptr : Nat, len : Nat]
    BY <1>4, <2>1 DEF Seen, Allocation
  <2>3. ASSUME NEW g \in Holders \ {h}, Seen[g] # Nothing
        PROVE  Promise!Disjoint(Seen'[h], Seen[g])
    <3>1. held[g] # Nothing /\ held'[g] = held[g]  BY <1>1, <1>4, <2>3
    <3>2. Seen[g] = [ptr |-> held[g].ptr, len |-> held[g].len]  BY <3>1 DEF Seen
    <3>3. \/ held'[h].ptr + held'[h].len <= held'[g].ptr
          \/ held'[g].ptr + held'[g].len <= held'[h].ptr
      BY <1>4, <3>1 DEF LiveDisjoint, Holding
    <3> QED  BY <2>2, <3>1, <3>2, <3>3 DEF Promise!Disjoint
  <2>4. Seen[h] = Nothing /\ Seen' = [Seen EXCEPT ![h] = Seen'[h]]
    BY <1>1, <1>2, <1>4
  <2> QED  BY <2>2, <2>3, <2>4 DEF Promise!Malloc, Promise!Region
<1> QED  BY <1>3, <1>4, SeenStep DEF Promise!Next

\* kmalloc, kmalloc_a, kfree and kfree_a are, to their callers, an allocator that
\* gives out disjoint regions: the list of blocks, its splitting, growing, merging
\* and the hidden word of kmalloc_a do not show.
THEOREM HeapImplementsAllocator == Spec => KeepsPromise
<1>1. Init => Promise!Init
  BY DEF Init, Promise!Init, Seen
<1>2. TypeOK /\ TypeOK' /\ LiveDisjoint' /\ [Next]_vars => [Promise!Next]_Seen
  BY PromiseStep
<1>3. Spec => [](TypeOK /\ Tiles /\ Coalesced)
  BY HeapListSafe
<1>4. Spec => [](Backed /\ LiveDisjoint)
  BY NoOverlap
<1> QED  BY <1>1, <1>2, <1>3, <1>4, PTL DEF Spec, KeepsPromise, Promise!Spec
----------------------------------------------------------------------------
(* The bookkeeping: as many busy blocks as allocations, and at most one    *)
(* free block more than busy ones.                                         *)

\* kmalloc faults with the table full, and nothing moves after that.
FaultsWhenFull == halted => Len(blocks) = KHEAP_SIZE

LEMMA FullStep ==
  ASSUME FaultsWhenFull, [Next]_vars
  PROVE  FaultsWhenFull'
<1>1. CASE UNCHANGED vars
  BY <1>1 DEF FaultsWhenFull, vars
<1>2. ASSUME NEW h \in Holders, NEW r \in Requests,
             KmallocTakes(h, r) \/ KmallocAppends(h, r) \/ Kfree(h)
      PROVE  ~halted'
  BY <1>2 DEF KmallocTakes, KmallocAppends, Kfree, CanCall
<1>3. ASSUME NEW h \in Holders, NEW r \in Requests, KmallocFaults(h, r)
      PROVE  Len(blocks') = KHEAP_SIZE
  BY <1>3 DEF KmallocFaults, NoSlot
<1>4. ASSUME NEW h \in Holders, Kfree(h)  PROVE ~halted'
  BY <1>4 DEF Kfree
<1>5. ASSUME NEW h \in Holders, NEW r \in Requests, KmallocFails(h, r)
      PROVE  UNCHANGED vars
  BY <1>5 DEF KmallocFails
<1> QED  BY <1>1, <1>2, <1>3, <1>4, <1>5 DEF Next, FaultsWhenFull

\* There are busy blocks for all but one of the free ones: each free block has a
\* busy right neighbour, or is the last.
LEMMA HalfBusy ==
  ASSUME SInv
  PROVE  /\ IsFiniteSet(Busy) /\ Cardinality(Busy) \in Nat
         /\ Len(blocks) <= 2 * Cardinality(Busy) + 1
<1>1. PICK L \in Nat : L = Len(blocks)  BY ListFacts
<1>2. DOMAIN blocks = 1 .. L  BY <1>1, ListFacts
<1>3. IsFiniteSet(1 .. L) /\ Cardinality(1 .. L) = L
  <2>1. 1 \in Int /\ L \in Int  OBVIOUS
  <2>2. /\ IsFiniteSet(1 .. L)
        /\ Cardinality(1 .. L) = IF 1 > L THEN 0 ELSE L - 1 + 1
    BY <2>1, FS_Interval
  <2> QED  BY <2>2
<1>4. PICK B : B = Busy  OBVIOUS
<1>5. B \in SUBSET (1 .. L)  BY <1>2, <1>4 DEF Busy
<1>6. IsFiniteSet(B) /\ Cardinality(B) \in Nat
  BY <1>3, <1>5, FS_Subset, FS_CardinalityType
<1>7. PICK F : F = {i \in 1 .. L : i # L /\ Free(i)}  OBVIOUS
<1>8. Cardinality(F) \in Nat /\ IsFiniteSet(F) /\ Cardinality(F) <= Cardinality(B)
  <2>1. PICK f : f = [i \in F |-> i + 1]  OBVIOUS
  <2>2. ASSUME NEW i \in F  PROVE f[i] \in B /\ f[i] = i + 1 /\ i \in Int
    <3>1. i \in 1 .. (L - 1) /\ Free(i) /\ i + 1 \in 1 .. L  BY <1>7
    <3>2. ~Free(i + 1)  BY <1>1, <3>1 DEF SInv, Coalesced
    <3>3. f[i] = i + 1  BY <2>1
    <3> QED  BY <1>2, <1>4, <3>1, <3>2, <3>3 DEF Busy
  <2>3. f \in [F -> B]  BY <2>1, <2>2
  <2>4. ASSUME NEW i \in F, NEW j \in F, f[i] = f[j]  PROVE i = j
    <3>1. i + 1 = j + 1  BY <2>2, <2>4, Zenon
    <3>2. i \in Int /\ j \in Int  BY <2>2
    <3> QED  BY <3>1, <3>2
  <2>5. f \in Injection(F, B)  BY <2>3, <2>4, Fun_IsInj, Zenon
  <2>6. IsFiniteSet(F) /\ Cardinality(F) <= Cardinality(B)  BY <1>6, <2>5, FS_Injection
  <2> QED  BY <2>6, FS_CardinalityType
<1>9. PICK U : U = B \cup F  OBVIOUS
<1>10. IsFiniteSet(U) /\ Cardinality(U) \in Nat /\ Cardinality(U) <= Cardinality(B) + Cardinality(F)
  <2>1. /\ IsFiniteSet(U)
        /\ Cardinality(U) = Cardinality(B) + Cardinality(F) - Cardinality(B \cap F)
    BY <1>6, <1>8, <1>9, FS_Union
  <2>2. Cardinality(B \cap F) \in Nat  BY <1>6, FS_Intersection, FS_CardinalityType
  <2>3. Cardinality(U) \in Nat  BY <2>1, FS_CardinalityType
  <2> QED  BY <1>6, <1>8, <2>1, <2>2, <2>3
<1>11. IsFiniteSet(U \cup {L}) /\ Cardinality(U \cup {L}) <= Cardinality(U) + 1
  <2>1. /\ IsFiniteSet(U \cup {L})
        /\ Cardinality(U \cup {L}) = IF L \in U THEN Cardinality(U) ELSE Cardinality(U) + 1
    BY <1>10, FS_AddElement
  <2> QED  BY <1>10, <2>1
<1>12. 1 .. L \in SUBSET (U \cup {L})
  BY <1>2, <1>4, <1>7, <1>9 DEF Busy
<1>13. L <= Cardinality(U \cup {L})  BY <1>3, <1>11, <1>12, FS_Subset
<1>14. Cardinality(U \cup {L}) \in Nat  BY <1>11, FS_CardinalityType
<1>15. L <= 2 * Cardinality(B) + 1
  BY <1>6, <1>8, <1>10, <1>11, <1>13, <1>14
<1> QED  BY <1>1, <1>4, <1>6, <1>15

LEMMA BookkeepingFollows ==
  ASSUME SInv, Matched, FaultsWhenFull
  PROVE  NoLeak /\ FaultsOnlyWhenFragmented
<1>1. PICK w : Pairs(w, Busy, Holding)  BY DEF Matched
<1>2. w \in Bijection(Busy, Holding)  BY <1>1, Fun_IsBij DEF Pairs
<1>3. ExistsBijection(Busy, Holding)  BY <1>2, Fun_ExistsBij
<1>4. Cardinality(Holding) = Cardinality(Busy)  BY <1>3, HalfBusy, FS_Bijection
<1>5. NoLeak  BY <1>4 DEF NoLeak, Busy
<1>6. ASSUME halted  PROVE 2 * Cardinality(Holding) + 1 >= KHEAP_SIZE
  <2>1. Len(blocks) = KHEAP_SIZE  BY <1>6 DEF FaultsWhenFull
  <2>2. KHEAP_SIZE <= 2 * Cardinality(Busy) + 1  BY <2>1, HalfBusy
  <2>3. KHEAP_SIZE \in Nat /\ Cardinality(Busy) \in Nat  BY HalfBusy, ArenaAssumption
  <2> QED  BY <1>4, <2>2, <2>3
<1> QED  BY <1>5, <1>6 DEF FaultsOnlyWhenFragmented

\* For every arena, number of slots, set of callers and requests: no block stays
\* busy that nobody holds, and kmalloc cannot run out of slots while fewer than half
\* of them are allocated (heap.c:26-151).
THEOREM HeapBookkeeping == Spec => [](NoLeak /\ FaultsOnlyWhenFragmented)
<1>1. Init => FaultsWhenFull
  BY DEF Init, FaultsWhenFull
<1>2. FaultsWhenFull /\ [Next]_vars => FaultsWhenFull'
  BY FullStep
<1>3. SInv /\ Matched /\ FaultsWhenFull => NoLeak /\ FaultsOnlyWhenFragmented
  BY BookkeepingFollows
<1> QED  BY <1>1, <1>2, <1>3, BusyIsHeld, ListWellFormed, PTL DEF Spec
=============================================================================
