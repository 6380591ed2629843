------------------------------ MODULE ListLemmas -----------------------------
(***************************************************************************)
(* Facts about numbers, walks, sequences and lists of blocks that the      *)
(* proofs of the lists, the heap and the file system use.                  *)
(***************************************************************************)
EXTENDS Integers, Sequences, SequencesExt, SequenceTheorems,
        WellFoundedInduction, TLAPS

\* A set of numbers that has an element has a least one: a counterexample to a
\* fact about the elements of a list can be taken at the first place.
LEMMA NatMin ==
  ASSUME NEW T, T \subseteq Nat, T # {}
  PROVE  \E x \in T : \A y \in T : x <= y
<1>1. \E R : IsWellFoundedOn(R, Nat) /\ \A x, y \in Nat : <<y, x>> \in R <=> y < x
  <2>1. IsWellFoundedOn(OpToRel(<, Nat), Nat)
    BY NatLessThanWellFounded
  <2>2. \A x, y \in Nat : <<y, x>> \in OpToRel(<, Nat) <=> y < x
    BY DEF OpToRel
  <2> QED  BY <2>1, <2>2, Zenon
<1>2. PICK R : IsWellFoundedOn(R, Nat) /\ \A x, y \in Nat : <<y, x>> \in R <=> y < x
  BY <1>1
<1>3. PICK x \in T : \A y \in T : ~ (<<y, x>> \in R)
  BY <1>2, WFMin
<1>4. \A y \in T : y \in Nat /\ x \in Nat /\ ~(y < x)
  BY <1>2, <1>3
<1> QED  BY <1>4

\* w is what follows the links f from h, numbered from a to n; nil is no entry.
IsWalk(w, a, n, h, f, nil) ==
  w = [k \in a .. n |->
         IF k = a THEN h ELSE IF w[k - 1] = nil THEN nil ELSE f[w[k - 1]]]

\* There is one such walk.
LEMMA OneWalk ==
  ASSUME NEW a \in Nat, NEW n \in Nat, NEW h, NEW f, NEW nil, NEW q,
         IsWalk(q, a, n, h, f, nil)
  PROVE  q = CHOOSE w : IsWalk(w, a, n, h, f, nil)
<1> DEFINE Is(w) == IsWalk(w, a, n, h, f, nil)
<1> USE DEF IsWalk
<1>1. Is(q)
  OBVIOUS
<1>2. ASSUME NEW w, Is(w) PROVE w = q
  <2> DEFINE T == {k \in a .. n : w[k] # q[k]}
  <2>1. ASSUME T # {} PROVE FALSE
    <3>0. T \subseteq Nat
      OBVIOUS
    <3>1. PICK x \in T : \A y \in T : x <= y
      <4> HIDE DEF T
      <4> QED BY <2>1, <3>0, NatMin
    <3>2. x \in a .. n /\ w[x] # q[x]
      OBVIOUS
    <3>3. CASE x = a
      BY <1>1, <1>2, <3>2, <3>3
    <3>4. CASE x # a
      <4>1. x - 1 \in a .. n /\ ~(x <= x - 1)
        BY <3>2, <3>4
      <4>2. w[x - 1] = q[x - 1]
        BY <3>1, <4>1
      <4>3. w[x] = (IF w[x - 1] = nil THEN nil ELSE f[w[x - 1]])
        BY <1>2, <3>2, <3>4
      <4>4. q[x] = (IF q[x - 1] = nil THEN nil ELSE f[q[x - 1]])
        BY <1>1, <3>2, <3>4
      <4> QED BY <3>2, <4>2, <4>3, <4>4
    <3> QED BY <3>3, <3>4
  <2>2. \A k \in a .. n : w[k] = q[k]
    BY <2>1
  <2>3. w = [k \in a .. n |-> w[k]] /\ q = [k \in a .. n |-> q[k]]
    BY <1>1, <1>2
  <2> QED BY <2>2, <2>3
<1> HIDE DEF Is
<1>3. (CHOOSE w : Is(w)) = q
  BY <1>1, <1>2
<1> QED BY <1>3 DEF Is

\* And there is one.
LEMMA WalkExists ==
  ASSUME NEW n \in Nat, NEW h, NEW f, NEW nil
  PROVE  \E q : IsWalk(q, 0, n, h, f, nil)
<1> USE DEF IsWalk
<1> DEFINE Is(w, m) == IsWalk(w, 0, m, h, f, nil)
           T == {m \in Nat : ~\E w : Is(w, m)}
<1>1. ASSUME T # {} PROVE FALSE
  <2>0. T \subseteq Nat
    OBVIOUS
  <2>1. PICK x \in T : \A y \in T : x <= y
    <3> HIDE DEF T
    <3> QED BY <1>1, <2>0, NatMin
  <2>2. x \in Nat /\ ~\E w : Is(w, x)
    OBVIOUS
  <2>3. CASE x = 0
    <3>1. Is([k \in 0 .. 0 |-> h], 0)
      OBVIOUS
    <3> QED BY <2>2, <2>3, <3>1
  <2>4. CASE x # 0
    <3>1. x - 1 \in Nat /\ ~(x <= x - 1)
      BY <2>2, <2>4
    <3>2. PICK w : Is(w, x - 1)
      BY <2>1, <3>1
    <3> DEFINE v == [k \in 0 .. x |->
                       IF k # x THEN w[k] ELSE IF w[x - 1] = nil THEN nil ELSE f[w[x - 1]]]
    <3>3. ASSUME NEW k \in 0 .. x
          PROVE  v[k] = IF k = 0 THEN h ELSE IF v[k - 1] = nil THEN nil ELSE f[v[k - 1]]
      <4>1. CASE k = x
        <5>1. k # 0 /\ k - 1 \in 0 .. x /\ k - 1 # x
          BY <2>4, <4>1
        <5>2. v[k - 1] = w[x - 1]
          BY <4>1, <5>1
        <5> QED BY <4>1, <5>1, <5>2
      <4>2. CASE k # x
        <5>1. k \in 0 .. (x - 1) /\ v[k] = w[k]
          BY <4>2
        <5>2. CASE k = 0
          BY <3>2, <5>1, <5>2
        <5>3. CASE k # 0
          <6>1. k - 1 \in 0 .. x /\ k - 1 # x
            BY <5>1, <5>3
          <6>2. v[k - 1] = w[k - 1]
            BY <6>1
          <6> QED BY <3>2, <5>1, <5>3, <6>2
        <5> QED BY <5>2, <5>3
      <4> QED BY <4>1, <4>2
    <3>4. v = [k \in 0 .. x |-> v[k]]
      OBVIOUS
    <3>5. Is(v, x)
      <4> HIDE DEF v
      <4> QED BY <3>3, <3>4
    <3> QED BY <2>2, <3>5
  <2> QED BY <2>3, <2>4
<1> QED BY <1>1

\* The elements of a sequence with one removed.
LEMMA RemoveAtFacts ==
  ASSUME NEW S, NEW seq \in Seq(S), NEW p \in 1 .. Len(seq)
  PROVE  /\ RemoveAt(seq, p) \in Seq(S)
         /\ Len(RemoveAt(seq, p)) = Len(seq) - 1
         /\ \A j \in 1 .. (Len(seq) - 1) :
               RemoveAt(seq, p)[j] = IF j < p THEN seq[j] ELSE seq[j + 1]
<1> DEFINE l == SubSeq(seq, 1, p - 1)
           r == SubSeq(seq, p + 1, Len(seq))
<1>1. Len(seq) \in Nat  BY LenProperties
<1>2. /\ l \in Seq(S) /\ Len(l) = p - 1
      /\ \A j \in 1 .. (p - 1) : l[j] = seq[j]
  BY <1>1, SubSeqProperties
<1>3. /\ r \in Seq(S) /\ Len(r) = Len(seq) - p
      /\ \A j \in 1 .. (Len(seq) - p) : r[j] = seq[p + j]
  BY <1>1, SubSeqProperties
<1>4. /\ l \o r \in Seq(S) /\ Len(l \o r) = Len(l) + Len(r)
      /\ \A j \in 1 .. (Len(l) + Len(r)) :
            (l \o r)[j] = IF j <= Len(l) THEN l[j] ELSE r[j - Len(l)]
  BY <1>2, <1>3, ConcatProperties
<1> HIDE DEF l, r
<1>5. RemoveAt(seq, p) = l \o r  BY DEF RemoveAt, l, r
<1>7. Len(l) + Len(r) = Len(seq) - 1  BY <1>1, <1>2, <1>3
<1>6. \A j \in 1 .. (Len(seq) - 1) :
         RemoveAt(seq, p)[j] = IF j < p THEN seq[j] ELSE seq[j + 1]
  <2> TAKE j \in 1 .. (Len(seq) - 1)
  <2>1. CASE j < p
    <3>1. j \in 1 .. (p - 1)  BY <1>1, <2>1
    <3>2. (l \o r)[j] = l[j]  BY <1>1, <1>2, <1>3, <1>4, <1>7, <3>1
    <3> QED  BY <1>2, <1>5, <2>1, <3>1, <3>2
  <2>2. CASE ~(j < p)
    <3>1. j - (p - 1) \in 1 .. (Len(seq) - p)  BY <1>1, <2>2
    <3>2. (l \o r)[j] = r[j - (p - 1)]  BY <1>1, <1>2, <1>3, <1>4, <1>7, <2>2
    <3>3. r[j - (p - 1)] = seq[j + 1]  BY <1>1, <1>3, <3>1
    <3> QED  BY <1>5, <2>2, <3>2, <3>3
  <2> QED  BY <2>1, <2>2
<1> QED  BY <1>4, <1>5, <1>6, <1>7

\* The elements of a sequence with one inserted.
LEMMA InsertAtFacts ==
  ASSUME NEW S, NEW seq \in Seq(S), NEW p \in 1 .. (Len(seq) + 1), NEW elt \in S
  PROVE  /\ InsertAt(seq, p, elt) \in Seq(S)
         /\ Len(InsertAt(seq, p, elt)) = Len(seq) + 1
         /\ \A j \in 1 .. (Len(seq) + 1) :
               InsertAt(seq, p, elt)[j] = IF j < p THEN seq[j] ELSE IF j = p THEN elt ELSE seq[j - 1]
<1> DEFINE l == SubSeq(seq, 1, p - 1)
           r == SubSeq(seq, p, Len(seq))
           m == l \o <<elt>>
<1>1. Len(seq) \in Nat  BY LenProperties
<1>2. /\ l \in Seq(S) /\ Len(l) = p - 1
      /\ \A j \in 1 .. (p - 1) : l[j] = seq[j]
  BY <1>1, SubSeqProperties
<1>3. /\ r \in Seq(S) /\ Len(r) = Len(seq) - p + 1
      /\ \A j \in 1 .. (Len(seq) - p + 1) : r[j] = seq[p + j - 1]
  BY <1>1, SubSeqProperties
<1>4. /\ m \in Seq(S) /\ Len(m) = p
      /\ \A j \in 1 .. p : m[j] = IF j < p THEN l[j] ELSE elt
  <2>1. <<elt>> \in Seq(S) /\ Len(<<elt>>) = 1 /\ <<elt>>[1] = elt  OBVIOUS
  <2> HIDE DEF l
  <2> QED  BY <1>1, <1>2, <2>1, ConcatProperties
<1> HIDE DEF m
<1>5. /\ m \o r \in Seq(S) /\ Len(m \o r) = Len(m) + Len(r)
      /\ \A j \in 1 .. (Len(m) + Len(r)) :
            (m \o r)[j] = IF j <= Len(m) THEN m[j] ELSE r[j - Len(m)]
  BY <1>3, <1>4, ConcatProperties
<1>6. InsertAt(seq, p, elt) = m \o r  BY DEF InsertAt, m
<1> HIDE DEF l, r
<1>7. \A j \in 1 .. (Len(seq) + 1) :
         InsertAt(seq, p, elt)[j] = IF j < p THEN seq[j] ELSE IF j = p THEN elt ELSE seq[j - 1]
  BY <1>1, <1>2, <1>3, <1>4, <1>5, <1>6
<1> QED  BY <1>1, <1>2, <1>3, <1>4, <1>5, <1>6, <1>7

----------------------------------------------------------------------------
(* A list s of L blocks: its fields, its first address, that each block     *)
(* begins where the one before it ends with no two free ones side by side, *)
(* and that any two are in order.  The lemmas below are arithmetic only.   *)

Adjacent(s, L) ==
  \A j, k \in 1 .. L : k = j + 1 => /\ s[k].addr = s[j].addr + s[j].size
                                   /\ ~(s[j].is_busy = 0 /\ s[k].is_busy = 0)
Sorted(s, L) == \A j, k \in 1 .. L : j < k => s[j].addr + s[j].size <= s[k].addr
Typed(s, L) == \A j \in 1 .. L : s[j].addr \in Nat /\ s[j].size \in Nat
Starts(s, L, start) == L > 0 => s[1].addr = start

\* Block i is cut after n bytes; what is left of it becomes a free block, and the
\* block after that, if any, is busy.
LEMMA SplitKeeps ==
  ASSUME NEW L \in Nat, NEW i \in 1 .. L, NEW n \in Nat, NEW s, NEW t, NEW start,
         Typed(s, L), Adjacent(s, L), Sorted(s, L), Starts(s, L, start),
         n <= s[i].size,
         \A k \in 1 .. L : k = i + 1 => s[k].is_busy # 0,
         \A j \in 1 .. L : j < i => t[j] = s[j],
         t[i].addr = s[i].addr, t[i].size = n, t[i].is_busy = 1,
         \A k \in 1 .. (L + 1) : k = i + 1 => /\ t[k].addr = s[i].addr + n
                                              /\ t[k].size = s[i].size - n,
         \A j \in 1 .. L, k \in 1 .. (L + 1) : j > i /\ k = j + 1 => t[k] = s[j]
  PROVE  Adjacent(t, L + 1) /\ Sorted(t, L + 1) /\ Starts(t, L + 1, start)
<1>1. ASSUME NEW j \in 1 .. (L + 1), NEW k \in 1 .. (L + 1), k = j + 1
      PROVE  /\ t[k].addr = t[j].addr + t[j].size
             /\ ~(t[j].is_busy = 0 /\ t[k].is_busy = 0)
  <2>1. CASE k < i
    BY <1>1, <2>1 DEF Adjacent
  <2>2. CASE k = i
    BY <1>1, <2>2 DEF Adjacent
  <2>3. CASE j = i
    BY <1>1, <2>3
  <2>4. CASE j = i + 1
    <3>1. PICK m \in 1 .. L : m = j  BY <1>1, <2>4
    <3>2. t[k] = s[m]  BY <1>1, <2>4, <3>1
    <3>3. s[m].addr = s[i].addr + s[i].size  BY <2>4, <3>1 DEF Adjacent
    <3> QED  BY <1>1, <2>4, <3>1, <3>2, <3>3 DEF Typed
  <2>5. CASE j > i + 1
    <3>1. PICK m \in 1 .. L, l \in 1 .. L : m = j /\ l = j - 1  BY <1>1, <2>5
    <3>2. t[k] = s[m] /\ t[j] = s[l] BY <1>1, <2>5, <3>1
    <3> QED  BY <3>1, <3>2 DEF Adjacent
  <2> QED  BY <1>1, <2>1, <2>2, <2>3, <2>4, <2>5
<1>2. ASSUME NEW j \in 1 .. (L + 1), NEW k \in 1 .. (L + 1), j < k
      PROVE  t[j].addr + t[j].size <= t[k].addr
  <2>1. CASE k < i
    BY <1>2, <2>1 DEF Sorted
  <2>2. CASE k = i
    BY <1>2, <2>2 DEF Sorted
  <2>3. CASE j = i /\ k = i + 1
    BY <2>3 DEF Typed
  <2>4. CASE j < i /\ k = i + 1
    <3>1. t[j] = s[j] /\ s[j].addr + s[j].size <= s[i].addr BY <1>2, <2>4 DEF Sorted
    <3> QED BY <2>4, <3>1 DEF Typed
  <2>5. CASE k > i + 1
    <3>0. PICK m \in 1 .. L : m = k - 1  BY <1>2, <2>5
    <3>1. k = m + 1 /\ m > i  BY <1>2, <2>5, <3>0
    <3>2. t[k] = s[m]  BY <3>1
    <3>3. s[i].addr + s[i].size <= s[m].addr BY <3>1 DEF Sorted
    <3>4. CASE j < i
      BY <3>1, <3>2, <3>4 DEF Sorted
    <3>5. CASE j = i 
      BY <3>2, <3>3, <3>5 DEF Typed
    <3>6. CASE j = i + 1
      BY <3>2, <3>3, <3>6 DEF Typed
    <3>7. CASE j > i + 1
      <4>1. PICK l \in 1 .. L : j = l + 1 /\ l > i  BY <1>2, <3>7
      <4> QED BY <1>2, <3>1, <3>2, <4>1 DEF Sorted
    <3> QED  BY <3>4, <3>5, <3>6, <3>7
  <2> QED  BY <1>2, <2>1, <2>2, <2>3, <2>4, <2>5
<1>3. Starts(t, L + 1, start)
  BY DEF Starts
<1> QED  BY <1>1, <1>2, <1>3 DEF Adjacent, Sorted

\* The blocks from a to b become one free block between busy ones.
MergesInto(s, L, a, b, d, t, N) ==
  /\ b = a + d /\ L = N + d
  /\ \A j \in 1 .. L : a = j + 1 => s[j].is_busy # 0
  /\ \A k \in 1 .. L : k = b + 1 => s[k].is_busy # 0
  /\ \A j \in 1 .. N : j < a => t[j] = s[j]
  /\ t[a].addr = s[a].addr
  /\ t[a].addr + t[a].size = s[b].addr + s[b].size
  /\ \A j \in 1 .. L, k \in 1 .. N : k > a /\ j = k + d => t[k] = s[j]

LEMMA MergeKeeps ==
  ASSUME NEW L \in Nat, NEW a \in 1 .. L, NEW b \in 1 .. L, NEW d \in Nat,
         NEW N \in Nat, NEW s, NEW t, NEW start,
         Typed(s, L), Adjacent(s, L), Sorted(s, L), Starts(s, L, start),
         MergesInto(s, L, a, b, d, t, N)
  PROVE  Adjacent(t, N) /\ Sorted(t, N) /\ Starts(t, N, start)
<1> USE DEF MergesInto
<1>0. /\ s[a].addr \in Int /\ s[b].addr \in Int /\ s[b].size \in Int
      /\ a \in 1 .. N
  BY DEF Typed
<1>4. ASSUME NEW k \in 1 .. N, k > a
      PROVE  \E m \in 1 .. L : m > b /\ m = k + d /\ t[k] = s[m]
  <2>1. PICK m \in 1 .. L : m = k + d  BY <1>4
  <2> QED  BY <1>4, <2>1
<1>1. ASSUME NEW j \in 1 .. N, NEW k \in 1 .. N, k = j + 1
      PROVE  /\ t[k].addr = t[j].addr + t[j].size
             /\ ~(t[j].is_busy = 0 /\ t[k].is_busy = 0)
  <2>1. CASE k < a
    BY <1>1, <2>1 DEF Adjacent
  <2>2. CASE k = a
    BY <1>1, <2>2 DEF Adjacent
  <2>3. CASE j = a
    <3>1. PICK m \in 1 .. L : m = k + d /\ t[k] = s[m]  BY <1>1, <1>4, <2>3
    <3>2. m = b + 1  BY <1>1, <2>3, <3>1
    <3> QED  BY <1>0, <2>3, <3>1, <3>2 DEF Adjacent
  <2>4. CASE j > a
    <3>1. PICK l \in 1 .. L : l = j + d /\ t[j] = s[l]  BY <1>4, <2>4
    <3>2. PICK m \in 1 .. L : m = k + d /\ t[k] = s[m]  BY <1>1, <1>4, <2>4
    <3>3. m = l + 1  BY <1>1, <3>1, <3>2
    <3> QED  BY <3>1, <3>2, <3>3 DEF Adjacent
  <2> QED  BY <1>1, <2>1, <2>2, <2>3, <2>4
<1>2. ASSUME NEW j \in 1 .. N, NEW k \in 1 .. N, j < k
      PROVE  t[j].addr + t[j].size <= t[k].addr
  <2>1. CASE k < a
    BY <1>2, <2>1 DEF Sorted
  <2>2. CASE k = a
    BY <1>2, <2>2 DEF Sorted
  <2>3. CASE k > a
    <3>1. PICK m \in 1 .. L : m > b /\ m = k + d /\ t[k] = s[m]  BY <1>4, <2>3
    <3>2. CASE j < a
      BY <3>1, <3>2 DEF Sorted
    <3>3. CASE j = a
      BY <1>0, <3>1, <3>3 DEF Sorted
    <3>4. CASE j > a
      <4>1. PICK l \in 1 .. L : l = j + d /\ t[j] = s[l]  BY <1>4, <3>4
      <4>2. l < m  BY <1>2, <3>1, <4>1
      <4> QED  BY <3>1, <4>1, <4>2 DEF Sorted
    <3> QED  BY <3>2, <3>3, <3>4
  <2> QED  BY <2>1, <2>2, <2>3
<1>3. Starts(t, N, start)
  BY DEF Starts
<1> QED  BY <1>1, <1>2, <1>3 DEF Adjacent, Sorted

\* The last block changes its size and is busy.
LEMMA GrowKeeps ==
  ASSUME NEW L \in Nat, L > 0, NEW s, NEW t, NEW start,
         Typed(s, L), Adjacent(s, L), Sorted(s, L), Starts(s, L, start),
         \A j \in 1 .. L : j < L => t[j] = s[j],
         t[L].addr = s[L].addr, t[L].is_busy = 1
  PROVE  Adjacent(t, L) /\ Sorted(t, L) /\ Starts(t, L, start)
<1>1. Adjacent(t, L)
  BY DEF Adjacent
<1>2. Sorted(t, L)
  <2> SUFFICES ASSUME NEW j \in 1 .. L, NEW k \in 1 .. L, j < k
               PROVE  t[j].addr + t[j].size <= t[k].addr
    BY DEF Sorted
  <2>1. s[j].addr + s[j].size <= s[k].addr /\ t[j] = s[j]  BY DEF Sorted
  <2>2. t[k].addr = s[k].addr  OBVIOUS
  <2> QED  BY <2>1, <2>2
<1> QED  BY <1>1, <1>2 DEF Starts

\* A busy block is added at the end.
LEMMA AppendKeeps ==
  ASSUME NEW L \in Nat, NEW s, NEW t, NEW start,
         Typed(s, L), Adjacent(s, L), Sorted(s, L), Starts(s, L, start),
         \A j \in 1 .. L : t[j] = s[j],
         t[L + 1].addr = IF L = 0 THEN start ELSE s[L].addr + s[L].size,
         t[L + 1].is_busy = 1
  PROVE  Adjacent(t, L + 1) /\ Sorted(t, L + 1) /\ Starts(t, L + 1, start)
<1>1. Adjacent(t, L + 1)
  <2> SUFFICES ASSUME NEW j \in 1 .. (L + 1), NEW k \in 1 .. (L + 1), k = j + 1
               PROVE  /\ t[k].addr = t[j].addr + t[j].size
                      /\ ~(t[j].is_busy = 0 /\ t[k].is_busy = 0)
    BY DEF Adjacent
  <2>1. CASE j = L
    BY <2>1
  <2>2. CASE j < L
    BY <2>2 DEF Adjacent
  <2> QED  BY <2>1, <2>2
<1>2. ASSUME NEW j \in 1 .. (L + 1), NEW k \in 1 .. (L + 1), j < k
      PROVE  t[j].addr + t[j].size <= t[k].addr
  <2>1. CASE k <= L
    BY <1>2, <2>1 DEF Sorted
  <2>2. CASE k = L + 1
    <3>1. j \in 1 .. L /\ t[j] = s[j] /\ t[k].addr = s[L].addr + s[L].size
      BY <1>2, <2>2
    <3>2. CASE j = L
      BY <3>1, <3>2 DEF Typed
    <3>3. CASE j < L
      <4>1. s[j].addr + s[j].size <= s[L].addr  BY <3>1, <3>3 DEF Sorted
      <4>2. /\ s[L].addr \in Nat /\ s[L].size \in Nat
            /\ s[j].addr \in Nat /\ s[j].size \in Nat
        BY <3>1 DEF Typed
      <4>3. s[j].addr + s[j].size <= s[L].addr + s[L].size
        BY <4>1, <4>2
      <4> QED  BY <3>1, <4>3
    <3> QED  BY <3>1, <3>2, <3>3
  <2> QED  BY <2>1, <2>2
<1>3. Starts(t, L + 1, start)
  BY DEF Starts
<1> QED  BY <1>1, <1>2, <1>3 DEF Adjacent, Sorted
=============================================================================
