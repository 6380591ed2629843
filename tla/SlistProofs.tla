---------------------------- MODULE SlistProofs ----------------------------
(***************************************************************************)
(* An slist is a sequence: some numbering of its valid slots follows the   *)
(* links from head to tail and back.  The links alone would not do: a ring *)
(* of slots that head does not reach agrees with itself at every entry,    *)
(* and an insertion after one of them would take it for an empty list.     *)
(***************************************************************************)
EXTENDS Slist, ListLemmas, FiniteSetTheorems, TLAPS

USE NullAssumption

\* The list is q[1] .. q[n].
Represents(q, n) ==
  /\ n \in Nat
  /\ q \in [1 .. n -> Slot]
  /\ \A i, j \in 1 .. n : q[i] = q[j] => i = j
  /\ \A s \in Slot : isValid[s] <=> \E i \in 1 .. n : q[i] = s
  /\ head = IF n = 0 THEN NULL ELSE q[1]
  /\ tail = IF n = 0 THEN NULL ELSE q[n]
  /\ \A i \in 1 .. n : next[q[i]] = IF i = n THEN NULL ELSE q[i + 1]
  /\ \A i \in 1 .. n : prev[q[i]] = IF i = 1 THEN NULL ELSE q[i - 1]

IsSequence == \E n \in Nat : \E q \in [1 .. n -> Slot] : Represents(q, n)

ListInv == SlistTypeOK /\ IsSequence

\* A represented list has links that agree.
LEMMA SequenceLinks == ListInv => LinksAgree
<1> SUFFICES ASSUME SlistTypeOK, NEW n \in Nat, NEW q \in [1 .. n -> Slot], Represents(q, n)
             PROVE  LinksAgree
  BY DEF ListInv, IsSequence
<1>1. ASSUME NEW s \in Valid PROVE LinkedAt(s)
  <2>1. PICK i \in 1 .. n : q[i] = s
    BY DEF Valid, Represents
  <2>2. \A j \in 1 .. n : q[j] \in Valid /\ q[j] # NULL
    BY DEF Valid, Represents
  <2>3. next[s] = IF i = n THEN NULL ELSE q[i + 1]
    BY <2>1 DEF Represents
  <2>4. prev[s] = IF i = 1 THEN NULL ELSE q[i - 1]
    BY <2>1 DEF Represents
  <2>5. next[s] # NULL => next[s] \in Valid /\ prev[next[s]] = s
    BY <2>1, <2>2, <2>3 DEF Represents
  <2>6. prev[s] # NULL => prev[s] \in Valid /\ next[prev[s]] = s
    BY <2>1, <2>2, <2>4 DEF Represents
  <2>7. next[s] = NULL <=> s = tail
    BY <2>1, <2>2, <2>3 DEF Represents
  <2>8. prev[s] = NULL <=> s = head
    BY <2>1, <2>2, <2>4 DEF Represents
  <2> QED BY <2>5, <2>6, <2>7, <2>8 DEF LinkedAt
<1>2. head # NULL => head \in Valid
  BY DEF Valid, Represents
<1>3. tail # NULL => tail \in Valid
  BY DEF Valid, Represents
<1>4. tail = NULL <=> head = NULL
  BY DEF Represents
<1> QED BY <1>1, <1>2, <1>3, <1>4 DEF LinksAgree

LEMMA ListInit == SlistInit => ListInv
<1> SUFFICES ASSUME SlistInit PROVE ListInv
  OBVIOUS
<1> DEFINE q == [i \in 1 .. 0 |-> 1]
<1>1. q \in [1 .. 0 -> Slot]
  OBVIOUS
<1>2. Represents(q, 0)
  BY DEF SlistInit, Represents
<1>3. SlistTypeOK
  BY DEF SlistInit, SlistTypeOK, Ends
<1> QED BY <1>1, <1>2, <1>3 DEF ListInv, IsSequence

\* Linking slot e in front of the k-th entry, or at the end.
Inserted(q, n, k, e) ==
  [i \in 1 .. (n + 1) |-> IF i < k THEN q[i] ELSE IF i = k THEN e ELSE q[i - 1]]

LEMMA LinkInserts ==
  ASSUME SlistTypeOK, NEW n \in Nat, NEW q \in [1 .. n -> Slot], Represents(q, n),
         NEW e \in Slot, ~isValid[e], NEW k \in 1 .. (n + 1), NEW p, NEW nx,
         p = IF k = 1 THEN NULL ELSE q[k - 1],
         nx = IF k = n + 1 THEN NULL ELSE q[k],
         Link(e, p, nx),
         head' = IF k = 1 THEN e ELSE head,
         tail' = IF k = n + 1 THEN e ELSE tail
  PROVE  SlistTypeOK' /\ Represents(Inserted(q, n, k, e), n + 1)'
<1> DEFINE r == Inserted(q, n, k, e)
<1> USE DEF Inserted
<1>1. SlistTypeOK'
  BY DEF SlistTypeOK, Link, Ends
<1>2. r \in [1 .. (n + 1) -> Slot]
  OBVIOUS
<1>3. \A i \in 1 .. n : q[i] # e /\ q[i] # NULL
  BY DEF Represents
<1>4. \A i, j \in 1 .. (n + 1) : r[i] = r[j] => i = j
  BY <1>3 DEF Represents
<1>5. \A s \in Slot : isValid'[s] <=> \E i \in 1 .. (n + 1) : r[i] = s
  <2> SUFFICES ASSUME NEW s \in Slot
               PROVE  isValid'[s] <=> \E i \in 1 .. (n + 1) : r[i] = s
    OBVIOUS
  <2>1. isValid'[s] <=> s = e \/ isValid[s]
    BY DEF Link, SlistTypeOK
  <2>2. r[k] = e
    OBVIOUS
  <2>3. \A i \in 1 .. n : \E j \in 1 .. (n + 1) : r[j] = q[i]
    <3> TAKE i \in 1 .. n
    <3>1. CASE i < k
      BY <3>1
    <3>2. CASE i >= k
      <4>1. i + 1 \in 1 .. (n + 1) /\ r[i + 1] = q[i]
        BY <3>2
      <4> QED BY <4>1
    <3> QED BY <3>1, <3>2
  <2>4. \A j \in 1 .. (n + 1) : r[j] = e \/ \E i \in 1 .. n : r[j] = q[i]
    <3> TAKE j \in 1 .. (n + 1)
    <3>1. CASE j < k
      BY <3>1
    <3>2. CASE j > k
      <4>1. j - 1 \in 1 .. n /\ r[j] = q[j - 1]
        BY <3>2
      <4> QED BY <4>1
    <3> QED BY <3>1, <3>2
  <2> HIDE DEF r
  <2> QED BY <2>1, <2>2, <2>3, <2>4 DEF Represents
<1>6. head' = r[1] /\ tail' = r[n + 1]
  BY DEF Represents
<1>7. \A i \in 1 .. (n + 1) : next'[r[i]] = IF i = n + 1 THEN NULL ELSE r[i + 1]
  <2> TAKE i \in 1 .. (n + 1)
  <2>1. CASE i < k - 1
    BY <1>3, <2>1 DEF Link, Represents
  <2>2. CASE i = k - 1
    BY <1>3, <2>2 DEF Link, Represents
  <2>3. CASE i = k
    BY <1>3, <2>3 DEF Link, Represents
  <2>4. CASE i > k
    BY <1>3, <2>4 DEF Link, Represents
  <2> QED BY <2>1, <2>2, <2>3, <2>4
<1>8. \A i \in 1 .. (n + 1) : prev'[r[i]] = IF i = 1 THEN NULL ELSE r[i - 1]
  <2> TAKE i \in 1 .. (n + 1)
  <2>1. CASE i < k
    <3>1. i \in 1 .. n /\ r[i] = q[i] /\ (i # 1 => r[i - 1] = q[i - 1])
      BY <2>1
    <3>2. q[i] # e /\ q[i] # nx
      BY <1>3, <2>1, <3>1 DEF Represents
    <3>3. prev'[q[i]] = prev[q[i]]
      BY <3>1, <3>2 DEF Link
    <3> QED BY <3>1, <3>3 DEF Represents
  <2>2. CASE i = k
    BY <1>3, <2>2 DEF Link, Represents
  <2>3. CASE i = k + 1
    BY <1>3, <2>3 DEF Link, Represents
  <2>4. CASE i > k + 1
    BY <1>3, <2>4 DEF Link, Represents
  <2> QED BY <2>1, <2>2, <2>3, <2>4
<1> HIDE DEF r
<1>9. Represents(r, n + 1)'
  BY <1>2, <1>4, <1>5, <1>6, <1>7, <1>8 DEF Represents
<1> QED BY <1>1, <1>9 DEF r

\* Taking the k-th entry out.
Removed(q, n, k) == [i \in 1 .. (n - 1) |-> IF i < k THEN q[i] ELSE q[i + 1]]

LEMMA DeleteRemoves ==
  ASSUME SlistTypeOK, NEW n \in Nat, NEW q \in [1 .. n -> Slot], Represents(q, n),
         NEW k \in 1 .. n, Delete(q[k])
  PROVE  SlistTypeOK' /\ Represents(Removed(q, n, k), n - 1)'
<1> DEFINE r == Removed(q, n, k)
<1> USE DEF Removed
<1>1. SlistTypeOK'
  BY DEF SlistTypeOK, Delete, Ends
<1>2. n - 1 \in Nat /\ r \in [1 .. (n - 1) -> Slot]
  OBVIOUS
<1>3. \A i \in 1 .. (n - 1) : r[i] # q[k] /\ r[i] # NULL
  BY DEF Represents
<1>4. \A i, j \in 1 .. (n - 1) : r[i] = r[j] => i = j
  BY DEF Represents
<1>5. \A s \in Slot : isValid'[s] <=> \E i \in 1 .. (n - 1) : r[i] = s
  <2> SUFFICES ASSUME NEW s \in Slot
               PROVE  isValid'[s] <=> \E i \in 1 .. (n - 1) : r[i] = s
    OBVIOUS
  <2>1. isValid'[s] <=> s # q[k] /\ isValid[s]
    BY DEF Delete, SlistTypeOK
  <2>2. \A i \in 1 .. n : q[i] # q[k] => \E j \in 1 .. (n - 1) : r[j] = q[i]
    <3> TAKE i \in 1 .. n
    <3>1. CASE i < k
      BY <3>1
    <3>2. CASE i > k
      <4>1. i - 1 \in 1 .. (n - 1) /\ r[i - 1] = q[i]
        BY <3>2
      <4> QED BY <4>1
    <3> QED BY <3>1, <3>2
  <2>3. \A j \in 1 .. (n - 1) : \E i \in 1 .. n : r[j] = q[i]
    OBVIOUS
  <2> HIDE DEF r
  <2>4. isValid[s] <=> \E i \in 1 .. n : q[i] = s
    BY DEF Represents
  <2>5. ASSUME isValid'[s] PROVE \E i \in 1 .. (n - 1) : r[i] = s
    BY <2>1, <2>2, <2>4, <2>5
  <2>6. ASSUME NEW j \in 1 .. (n - 1), r[j] = s PROVE isValid'[s]
    BY <1>3, <2>1, <2>3, <2>4, <2>6
  <2> QED BY <2>5, <2>6
<1>6. /\ next[q[k]] = IF k = n THEN NULL ELSE q[k + 1]
      /\ prev[q[k]] = IF k = 1 THEN NULL ELSE q[k - 1]
  BY DEF Represents
<1>7. /\ head' = IF n - 1 = 0 THEN NULL ELSE r[1]
      /\ tail' = IF n - 1 = 0 THEN NULL ELSE r[n - 1]
  BY <1>6 DEF Delete, Represents
<1>old. /\ \A i \in 1 .. n : q[i] \in Slot /\ q[i] # NULL
        /\ \A i, j \in 1 .. n : q[i] = q[j] => i = j
        /\ \A i \in 1 .. n : next[q[i]] = IF i = n THEN NULL ELSE q[i + 1]
        /\ \A i \in 1 .. n : prev[q[i]] = IF i = 1 THEN NULL ELSE q[i - 1]
  BY NullAssumption DEF Represents
<1>new. \A s \in Slot : s # q[k] =>
          /\ next'[s] = IF s = prev[q[k]] THEN next[q[k]] ELSE next[s]
          /\ prev'[s] = IF s = next[q[k]] THEN prev[q[k]] ELSE prev[s]
  BY DEF Delete
<1>8. \A i \in 1 .. (n - 1) : next'[r[i]] = IF i = n - 1 THEN NULL ELSE r[i + 1]
  <2> TAKE i \in 1 .. (n - 1)
  <2>1. CASE i < k - 1
    <3>1. r[i] = q[i] /\ r[i + 1] = q[i + 1] /\ i \in 1 .. n /\ i # k /\ i # n - 1
      BY <2>1
    <3>2. q[i] # q[k] /\ q[i] # prev[q[k]]
      BY <1>6, <1>old, <2>1, <3>1
    <3> QED BY <1>old, <1>new, <3>1, <3>2
  <2>2. CASE i = k - 1
    <3>1. r[i] = q[i] /\ i \in 1 .. n /\ i # k /\ k # 1
      BY <2>2
    <3>2. q[i] # q[k] /\ q[i] = prev[q[k]]
      BY <1>6, <1>old, <2>2, <3>1
    <3>3. next'[r[i]] = IF k = n THEN NULL ELSE q[k + 1]
      BY <1>6, <1>old, <1>new, <3>1, <3>2
    <3>4. k # n => r[i + 1] = q[k + 1] /\ i # n - 1
      BY <2>2
    <3>5. k = n => i = n - 1
      BY <2>2
    <3> QED BY <3>3, <3>4, <3>5
  <2>3. CASE i >= k
    <3>1. r[i] = q[i + 1] /\ i + 1 \in 1 .. n /\ i + 1 # k /\ i + 1 # k - 1
      BY <2>3
    <3>2. q[i + 1] # q[k] /\ q[i + 1] # prev[q[k]]
      BY <1>6, <1>old, <3>1
    <3>3. next'[r[i]] = IF i + 1 = n THEN NULL ELSE q[(i + 1) + 1]
      BY <1>old, <1>new, <3>1, <3>2
    <3>4. i # n - 1 => r[i + 1] = q[(i + 1) + 1] /\ i + 1 # n
      BY <2>3
    <3> QED BY <3>3, <3>4
  <2> QED BY <2>1, <2>2, <2>3
<1>9. \A i \in 1 .. (n - 1) : prev'[r[i]] = IF i = 1 THEN NULL ELSE r[i - 1]
  <2> TAKE i \in 1 .. (n - 1)
  <2>1. CASE i < k
    <3>1. r[i] = q[i] /\ i \in 1 .. n /\ i # k /\ i # k + 1
      BY <2>1
    <3>2. q[i] # q[k] /\ q[i] # next[q[k]]
      BY <1>6, <1>old, <3>1
    <3>3. prev'[r[i]] = IF i = 1 THEN NULL ELSE q[i - 1]
      BY <1>old, <1>new, <3>1, <3>2
    <3>4. i # 1 => r[i - 1] = q[i - 1]
      BY <2>1
    <3> QED BY <3>3, <3>4
  <2>2. CASE i = k
    <3>1. r[i] = q[i + 1] /\ i + 1 \in 1 .. n /\ i + 1 # k /\ k # n
      BY <2>2
    <3>2. q[i + 1] # q[k] /\ q[i + 1] = next[q[k]]
      BY <1>6, <1>old, <2>2, <3>1
    <3>3. prev'[r[i]] = IF k = 1 THEN NULL ELSE q[k - 1]
      BY <1>6, <1>old, <1>new, <3>1, <3>2
    <3>4. k # 1 => r[i - 1] = q[k - 1] /\ i # 1
      BY <2>2
    <3> QED BY <2>2, <3>3, <3>4
  <2>3. CASE i > k
    <3>1. /\ r[i] = q[i + 1] /\ i + 1 \in 1 .. n /\ i + 1 # k /\ i + 1 # k + 1
          /\ (i + 1) - 1 = i /\ i # 1 /\ r[i - 1] = q[i]
      BY <2>3
    <3>2. q[i + 1] # q[k] /\ q[i + 1] # next[q[k]]
      BY <1>6, <1>old, <3>1
    <3> HIDE DEF r
    <3>3. prev[q[i + 1]] = q[i]
      BY <1>old, <3>1
    <3>4. prev'[q[i + 1]] = prev[q[i + 1]]
      BY <1>old, <1>new, <3>1, <3>2
    <3> QED BY <3>1, <3>3, <3>4
  <2> QED BY <2>1, <2>2, <2>3
<1> HIDE DEF r
<1>10. Represents(r, n - 1)'
  BY <1>2, <1>4, <1>5, <1>7, <1>8, <1>9 DEF Represents
<1> QED BY <1>1, <1>10 DEF r

\* The places directly behind and before pos in the list q of n entries, the front
\* and the end when pos is NULL.
Behind(q, n, pos)  == {k \in 1 .. (n + 1) : pos = IF k = 1 THEN NULL ELSE q[k - 1]}
InFront(q, n, pos) == {k \in 1 .. (n + 1) : pos = IF k = n + 1 THEN NULL ELSE q[k]}

\* The two things a step can do to the list: put a free slot in one of the places K,
\* and take pos out.
PutsIn(q, n, K) ==
  \E k \in K, e \in Slot \ Valid : Represents(Inserted(q, n, k, e), n + 1)'
TakesOut(q, n, pos) ==
  \E k \in 1 .. n : q[k] = pos /\ Represents(Removed(q, n, k), n - 1)'

LEMMA Places ==
  ASSUME NEW n \in Nat, NEW q \in [1 .. n -> Slot], Represents(q, n),
         NEW pos \in Valid \cup {NULL}
  PROVE  /\ \E k \in Behind(q, n, pos) : TRUE
         /\ \E k \in InFront(q, n, pos) : TRUE
<1>1. CASE pos = NULL
  <2>1. 1 \in Behind(q, n, pos) /\ n + 1 \in InFront(q, n, pos)
    BY <1>1 DEF Behind, InFront
  <2> QED BY <2>1
<1>2. CASE pos # NULL
  <2>1. PICK i \in 1 .. n : q[i] = pos
    BY <1>2 DEF Valid, Represents
  <2>2. i + 1 \in 1 .. (n + 1) /\ q[(i + 1) - 1] = pos /\ i + 1 # 1 /\ i # n + 1
    BY <2>1
  <2>3. i + 1 \in Behind(q, n, pos) /\ i \in InFront(q, n, pos)
    BY <2>1, <2>2 DEF Behind, InFront
  <2> QED BY <2>3
<1> QED BY <1>1, <1>2

LEMMA InsertsAfter ==
  ASSUME SlistTypeOK, NEW n \in Nat, NEW q \in [1 .. n -> Slot], Represents(q, n),
         NEW pos \in Valid \cup {NULL}, InsertAfter(pos)
  PROVE  SlistTypeOK' /\ PutsIn(q, n, Behind(q, n, pos))
<1> DEFINE nx == IF pos = NULL THEN head ELSE next[pos]
<1>1. PICK e \in Slot :
        /\ ~isValid[e]
        /\ Link(e, pos, nx)
        /\ tail' = IF pos = tail THEN e ELSE tail
        /\ head' = IF head = NULL \/ pos = NULL THEN e ELSE head
  BY DEF InsertAfter, IsFirstFree
<1>2. PICK k \in Behind(q, n, pos) : TRUE
  BY Places
<1>3. k \in 1 .. (n + 1) /\ pos = IF k = 1 THEN NULL ELSE q[k - 1]
  BY <1>2 DEF Behind
<1>4. nx = IF k = n + 1 THEN NULL ELSE q[k]
  BY <1>3 DEF Represents
<1>5. head' = IF k = 1 THEN e ELSE head
  BY <1>1, <1>3 DEF Represents
<1>6. tail' = IF k = n + 1 THEN e ELSE tail
  BY <1>1, <1>3 DEF Represents
<1> HIDE DEF nx
<1>7. SlistTypeOK' /\ Represents(Inserted(q, n, k, e), n + 1)'
  BY <1>1, <1>3, <1>4, <1>5, <1>6, LinkInserts
<1> QED BY <1>1, <1>2, <1>7 DEF PutsIn, Valid

LEMMA InsertsBefore ==
  ASSUME SlistTypeOK, NEW n \in Nat, NEW q \in [1 .. n -> Slot], Represents(q, n),
         NEW pos \in Valid \cup {NULL}, InsertBefore(pos)
  PROVE  SlistTypeOK' /\ PutsIn(q, n, InFront(q, n, pos))
<1> DEFINE p == IF pos = NULL THEN tail ELSE prev[pos]
<1>1. PICK e \in Slot :
        /\ ~isValid[e]
        /\ Link(e, p, pos)
        /\ head' = IF head = pos THEN e ELSE head
        /\ tail' = IF tail = NULL \/ pos = NULL THEN e ELSE tail
  BY DEF InsertBefore, IsFirstFree
<1>2. PICK k \in InFront(q, n, pos) : TRUE
  BY Places
<1>3. k \in 1 .. (n + 1) /\ pos = IF k = n + 1 THEN NULL ELSE q[k]
  BY <1>2 DEF InFront
<1>4. p = IF k = 1 THEN NULL ELSE q[k - 1]
  BY <1>3 DEF Represents
<1>5. head' = IF k = 1 THEN e ELSE head
  BY <1>1, <1>3 DEF Represents
<1>6. tail' = IF k = n + 1 THEN e ELSE tail
  BY <1>1, <1>3 DEF Represents
<1> HIDE DEF p
<1>7. SlistTypeOK' /\ Represents(Inserted(q, n, k, e), n + 1)'
  BY <1>1, <1>3, <1>4, <1>5, <1>6, LinkInserts
<1> QED BY <1>1, <1>2, <1>7 DEF PutsIn, Valid

LEMMA Deletes ==
  ASSUME SlistTypeOK, NEW n \in Nat, NEW q \in [1 .. n -> Slot], Represents(q, n),
         NEW pos \in Valid, Delete(pos)
  PROVE  SlistTypeOK' /\ TakesOut(q, n, pos)
<1>1. PICK k \in 1 .. n : q[k] = pos
  BY DEF Valid, Represents
<1>2. SlistTypeOK' /\ Represents(Removed(q, n, k), n - 1)'
  BY <1>1, DeleteRemoves
<1> QED BY <1>1, <1>2 DEF TakesOut

LEMMA ListStep == ListInv /\ [SlistNext]_svars => ListInv'
<1> SUFFICES ASSUME ListInv, [SlistNext]_svars PROVE ListInv'
  OBVIOUS
<1>1. PICK n \in Nat : \E q \in [1 .. n -> Slot] : Represents(q, n)
  BY DEF ListInv, IsSequence
<1>2. PICK q \in [1 .. n -> Slot] : Represents(q, n)
  BY <1>1
<1>3. SlistTypeOK
  BY DEF ListInv
<1>4. CASE SlistNext
  <2>1. SlistTypeOK' /\ \E r, m : Represents(r, m)'
    <3>1. ASSUME NEW pos \in Valid \cup {NULL}, InsertAfter(pos)
          PROVE  SlistTypeOK' /\ \E r, m : Represents(r, m)'
      BY <1>2, <1>3, <3>1, InsertsAfter DEF PutsIn
    <3>2. ASSUME NEW pos \in Valid \cup {NULL}, InsertBefore(pos)
          PROVE  SlistTypeOK' /\ \E r, m : Represents(r, m)'
      BY <1>2, <1>3, <3>2, InsertsBefore DEF PutsIn
    <3>3. ASSUME NEW pos \in Valid, Delete(pos)
          PROVE  SlistTypeOK' /\ \E r, m : Represents(r, m)'
      BY <1>2, <1>3, <3>3, Deletes DEF TakesOut
    <3> QED BY <1>4, <3>1, <3>2, <3>3 DEF SlistNext
  <2>2. ASSUME NEW r, NEW m, Represents(r, m)'
        PROVE  m \in Nat /\ r \in [1 .. m -> Slot]
    BY <2>2 DEF Represents
  <2> QED BY <2>1, <2>2 DEF ListInv, IsSequence
<1>5. CASE UNCHANGED svars
  <2>1. Represents(q, n)'
    BY <1>2, <1>5 DEF svars, Represents
  <2>2. SlistTypeOK'
    BY <1>3, <1>5 DEF svars, SlistTypeOK
  <2> QED BY <2>1, <2>2 DEF ListInv, IsSequence
<1> QED BY <1>4, <1>5

\* For every number of slots and every sequence of insertions and deletions, the
\* valid slots form one sequence that next and prev follow from end to end, so the
\* links agree with each other and with head and tail (slist.c:42-192).
THEOREM LinksAlwaysAgree == SlistSpec => [](SlistTypeOK /\ IsSequence /\ LinksAgree)
<1>1. ListInv => SlistTypeOK /\ IsSequence /\ LinksAgree
  BY SequenceLinks DEF ListInv
<1> QED BY <1>1, ListInit, ListStep, PTL DEF SlistSpec

----------------------------------------------------------------------------
(* The list as its users see it.                                           *)

\* The elements of V in the order of the links f from h: what there is to see
\* of a list from its head.
Follows(q, n, h, f, V) ==
  /\ \A i, j \in 1 .. n : q[i] = q[j] => i = j
  /\ \A s : s \in V <=> \E i \in 1 .. n : q[i] = s
  /\ n # 0 => h = q[1]
  /\ \A i \in 1 .. n : i # n => f[q[i]] = q[i + 1]

\* The walk of as many steps as there are entries meets the list.
LEMMA WalkOver ==
  ASSUME NEW n \in Nat, NEW q \in [1 .. n -> Slot], NEW h, NEW f, NEW V,
         Follows(q, n, h, f, V)
  PROVE  q = CHOOSE w : IsWalk(w, 1, Cardinality(V), h, f, NULL)
<1> USE DEF Follows
<1>1. Cardinality(V) = n
  <2>1. q \in Bijection(1 .. n, V)
    BY DEF Bijection, Injection, Surjection, IsInjective
  <2>2. IsFiniteSet(1 .. n) /\ Cardinality(1 .. n) = n
    BY FS_Interval
  <2>3. ExistsBijection(1 .. n, V)
    BY <2>1 DEF ExistsBijection
  <2> QED BY <2>2, <2>3, FS_Bijection
<1>2. ASSUME NEW k \in 1 .. n
      PROVE  q[k] = IF k = 1 THEN h ELSE IF q[k - 1] = NULL THEN NULL ELSE f[q[k - 1]]
  <2>1. CASE k = 1
    BY <2>1
  <2>2. CASE k # 1
    <3>1. k - 1 \in 1 .. n /\ k - 1 # n /\ (k - 1) + 1 = k
      BY <2>2
    <3>2. q[k - 1] # NULL
      BY <3>1, NullAssumption
    <3> QED BY <2>2, <3>1, <3>2
  <2> QED BY <2>1, <2>2
<1>3. IsWalk(q, 1, n, h, f, NULL)
  BY <1>2 DEF IsWalk
<1>4. q = CHOOSE w : IsWalk(w, 1, n, h, f, NULL)
  BY <1>3, OneWalk
<1> QED BY <1>1, <1>4

LEMMA WalkIs ==
  ASSUME NEW n \in Nat, NEW q \in [1 .. n -> Slot], Represents(q, n)
  PROVE  Walk = q
<1>1. Follows(q, n, head, next, Valid)
  BY DEF Represents, Valid, Follows
<1>2. q = CHOOSE w : IsWalk(w, 1, Cardinality(Valid), head, next, NULL)
  BY <1>1, WalkOver
<1> QED BY <1>2, Zenon DEF Walk, IsWalk

LEMMA WalkWillBe ==
  ASSUME NEW n \in Nat, NEW q \in [1 .. n -> Slot], Represents(q, n)'
  PROVE  Walk' = q
<1>1. Follows(q, n, head', next', Valid')
  BY DEF Represents, Valid, Follows
<1>2. q = CHOOSE w : IsWalk(w, 1, Cardinality(Valid'), head', next', NULL)
  BY <1>1, WalkOver
<1> QED BY <1>2, Zenon DEF Walk, IsWalk

\* A list as a sequence.
LEMMA AsSequence ==
  ASSUME NEW n \in Nat, NEW q \in [1 .. n -> Slot], Represents(q, n)
  PROVE  q \in Seq(Slot) /\ Len(q) = n /\ Range(q) = Valid
<1>1. q \in Seq(Slot) /\ Len(q) = n
  OBVIOUS
<1>2. Range(q) = Valid
  BY DEF Range, Valid, Represents
<1> QED BY <1>1, <1>2

\* An entry put into one of the places K is one inserted into the sequence there.
LEMMA InsertMaps ==
  ASSUME NEW n \in Nat, NEW q \in [1 .. n -> Slot], Represents(q, n),
         NEW K \in SUBSET (1 .. (n + 1)), PutsIn(q, n, K)
  PROVE  /\ Walk = q /\ Len(q) = n
         /\ \E k \in K, e \in Slot \ Ordered!Range(q) : Walk' = Ordered!InsertAt(q, k, e)
<1>1. PICK k \in K, e \in Slot \ Valid : Represents(Inserted(q, n, k, e), n + 1)'
  BY DEF PutsIn
<1>2. q \in Seq(Slot) /\ Len(q) = n /\ Range(q) = Valid /\ Walk = q
  BY AsSequence, WalkIs
<1> DEFINE r == Inserted(q, n, k, e)
<1>3. n + 1 \in Nat /\ r \in [1 .. (n + 1) -> Slot]
  BY DEF Inserted
<1>4. Walk' = r
  BY <1>1, <1>3, WalkWillBe
<1>5. /\ InsertAt(q, k, e) \in Seq(Slot)
      /\ Len(InsertAt(q, k, e)) = n + 1
      /\ \A j \in 1 .. (n + 1) :
            InsertAt(q, k, e)[j] = IF j < k THEN q[j] ELSE IF j = k THEN e ELSE q[j - 1]
  <2>0. q \in Seq(Slot)
    BY <1>2
  <2>1. k \in 1 .. (Len(q) + 1) /\ e \in Slot
    BY <1>2
  <2>2. /\ InsertAt(q, k, e) \in Seq(Slot)
        /\ Len(InsertAt(q, k, e)) = Len(q) + 1
        /\ \A j \in 1 .. (Len(q) + 1) :
              InsertAt(q, k, e)[j] = IF j < k THEN q[j] ELSE IF j = k THEN e ELSE q[j - 1]
    BY <2>0, <2>1, InsertAtFacts
  <2>3. Len(q) = n
    BY <1>2
  <2> HIDE DEF r
  <2> QED BY <2>2, <2>3
<1>6. InsertAt(q, k, e) = r
  BY <1>5 DEF Inserted
<1>7. Ordered!InsertAt(q, k, e) = InsertAt(q, k, e) /\ Ordered!Range(q) = Range(q)
  BY DEF Ordered!InsertAt, InsertAt, Ordered!Range, Range
<1> HIDE DEF r
<1> QED BY <1>2, <1>4, <1>6, <1>7

LEMMA NextMaps ==
  ASSUME NEW n \in Nat, NEW q \in [1 .. n -> Slot], Represents(q, n),
         NEW pos \in Slot \cup {NULL}, PutsIn(q, n, Behind(q, n, pos))
  PROVE  Ordered!InsertNext(pos)
<1>1. Behind(q, n, pos) \in SUBSET (1 .. (n + 1))
  BY DEF Behind
<1>2. PICK k \in Behind(q, n, pos), e \in Slot \ Ordered!Range(q) :
        Walk' = Ordered!InsertAt(q, k, e)
  BY <1>1, InsertMaps
<1>3. Walk = q /\ Len(q) = n
  BY <1>1, InsertMaps
<1>4. k \in 1 .. (n + 1) /\ IF pos = NULL THEN k = 1 ELSE k > 1 /\ q[k - 1] = pos
  BY <1>2 DEF Behind
<1> QED BY <1>2, <1>3, <1>4 DEF Ordered!InsertNext

LEMMA PrevMaps ==
  ASSUME NEW n \in Nat, NEW q \in [1 .. n -> Slot], Represents(q, n),
         NEW pos \in Slot \cup {NULL}, PutsIn(q, n, InFront(q, n, pos))
  PROVE  Ordered!InsertPrev(pos)
<1>1. InFront(q, n, pos) \in SUBSET (1 .. (n + 1))
  BY DEF InFront
<1>2. PICK k \in InFront(q, n, pos), e \in Slot \ Ordered!Range(q) :
        Walk' = Ordered!InsertAt(q, k, e)
  BY <1>1, InsertMaps
<1>3. Walk = q /\ Len(q) = n
  BY <1>1, InsertMaps
<1>4. k \in 1 .. (n + 1) /\ IF pos = NULL THEN k = n + 1 ELSE k <= n /\ q[k] = pos
  BY <1>2 DEF InFront
<1> QED BY <1>2, <1>3, <1>4 DEF Ordered!InsertPrev

LEMMA DeleteMaps ==
  ASSUME NEW n \in Nat, NEW q \in [1 .. n -> Slot], Represents(q, n),
         NEW pos, TakesOut(q, n, pos)
  PROVE  Ordered!Take(pos)
<1>1. PICK k \in 1 .. n : q[k] = pos /\ Represents(Removed(q, n, k), n - 1)'
  BY DEF TakesOut
<1>2. q \in Seq(Slot) /\ Len(q) = n /\ Range(q) = Valid /\ Walk = q
  BY AsSequence, WalkIs
<1> DEFINE r == Removed(q, n, k)
<1>3. n - 1 \in Nat /\ r \in [1 .. (n - 1) -> Slot]
  BY DEF Removed
<1>4. Walk' = r
  BY <1>1, <1>3, WalkWillBe
<1>5. /\ RemoveAt(q, k) \in Seq(Slot)
      /\ Len(RemoveAt(q, k)) = n - 1
      /\ \A j \in 1 .. (n - 1) : RemoveAt(q, k)[j] = IF j < k THEN q[j] ELSE q[j + 1]
  BY <1>2, RemoveAtFacts
<1>6. RemoveAt(q, k) = r
  BY <1>5 DEF Removed
<1>7. k \in DOMAIN q /\ Ordered!RemoveAt(q, k) = RemoveAt(q, k)
  BY DEF Ordered!RemoveAt, RemoveAt
<1> HIDE DEF r
<1> QED BY <1>1, <1>2, <1>4, <1>6, <1>7 DEF Ordered!Take

\* Each operation does to the sequence what the abstract one does with the same pos.
WhereAsked ==
  /\ \A pos \in Valid \cup {NULL} :
        /\ InsertAfter(pos) => Ordered!InsertNext(pos)
        /\ InsertBefore(pos) => Ordered!InsertPrev(pos)
  /\ \A pos \in Valid : Delete(pos) => Ordered!Take(pos)

LEMMA OperationsMap ==
  ASSUME ListInv
  PROVE  WhereAsked
<1>1. PICK n \in Nat : \E q \in [1 .. n -> Slot] : Represents(q, n)
  BY DEF ListInv, IsSequence
<1>2. PICK q \in [1 .. n -> Slot] : Represents(q, n)
  BY <1>1
<1>3. SlistTypeOK /\ Valid \subseteq Slot
  BY DEF ListInv, Valid
<1>4. ASSUME NEW pos \in Valid \cup {NULL}, InsertAfter(pos) PROVE Ordered!InsertNext(pos)
  BY <1>2, <1>3, <1>4, InsertsAfter, NextMaps
<1>5. ASSUME NEW pos \in Valid \cup {NULL}, InsertBefore(pos) PROVE Ordered!InsertPrev(pos)
  BY <1>2, <1>3, <1>5, InsertsBefore, PrevMaps
<1>6. ASSUME NEW pos \in Valid, Delete(pos) PROVE Ordered!Take(pos)
  BY <1>2, <1>3, <1>6, Deletes, DeleteMaps
<1> QED BY <1>4, <1>5, <1>6 DEF WhereAsked

\* For every number of slots, each operation of slist.c inserts one entry into the
\* sequence a walk from the head meets, directly behind or before the entry it is
\* given, or takes that entry out, and the others keep their order: slist.c
\* implements the list its users rely on (slist.c:42-192).
THEOREM SlistIsAList == SlistSpec => ImplementsList
<1>1. SlistInit => Ordered!Init
  <2> SUFFICES ASSUME SlistInit PROVE Ordered!Init
    OBVIOUS
  <2> DEFINE q == [i \in 1 .. 0 |-> 1]
  <2>1. q \in [1 .. 0 -> Slot]
    OBVIOUS
  <2>2. Represents(q, 0)
    BY DEF SlistInit, Represents
  <2>3. Walk = q
    BY <2>1, <2>2, WalkIs
  <2>4. q = << >>
    OBVIOUS
  <2> QED BY <2>3, <2>4 DEF Ordered!Init
<1>2. ListInv /\ [SlistNext]_svars => [Ordered!Next]_Walk
  <2> SUFFICES ASSUME ListInv, [SlistNext]_svars PROVE [Ordered!Next]_Walk
    OBVIOUS
  <2>1. CASE SlistNext
    <3>1. WhereAsked /\ Valid \subseteq Slot
      BY OperationsMap DEF Valid
    <3> QED BY <2>1, <3>1 DEF WhereAsked, SlistNext, Ordered!Next
  <2>2. CASE UNCHANGED svars
    <3>1. PICK n \in Nat : \E q \in [1 .. n -> Slot] : Represents(q, n)
      BY DEF ListInv, IsSequence
    <3>2. PICK q \in [1 .. n -> Slot] : Represents(q, n)
      BY <3>1
    <3>3. Represents(q, n)'
      BY <2>2, <3>2 DEF svars, Represents
    <3>4. Walk = q /\ Walk' = q
      BY <3>2, <3>3, WalkIs, WalkWillBe
    <3> QED BY <3>4
  <2> QED BY <2>1, <2>2
<1>3. ListInv => [WhereAsked]_svars
  BY OperationsMap
<1>4. SlistSpec => Ordered!Init /\ [][Ordered!Next]_Walk /\ [][WhereAsked]_svars
  BY <1>1, <1>2, <1>3, ListInit, ListStep, PTL DEF SlistSpec
<1> QED BY <1>4 DEF ImplementsList, WhereAsked, Ordered!Spec
=============================================================================
