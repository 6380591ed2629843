--------------------------- MODULE ProgramsProofs ---------------------------
(***************************************************************************)
(* No two programs are ever given the same page frame, whatever is loaded, *)
(* exits and is deleted, and whatever the number of frames, the size of a  *)
(* word of the bitmap and the programs.  The argument: a frame is mapped   *)
(* by nobody from the moment alloc_page finds it (FrameFresh) until it is  *)
(* bound, and the only bit that is missing from the bitmap is that of the  *)
(* frame being bound (Marks), because what changes the bitmap between the  *)
(* two halves of set_page_to_bitmap only clears bits of frames of tasks    *)
(* (OldCovers).  Last, what the heap and the programs keep side by side.   *)
(***************************************************************************)
EXTENDS MCMemory, HeapProofs

\* The conjuncts of the inductive invariant.
MappedOnce ==
  \A s, t \in Space, l, m \in Linear :
     page_table[s][l] # 0 /\ page_table[t][m] = page_table[s][l] => s = t /\ l = m

Marks(g) == pages_bitmap[g] \/ (pc \in {"load", "store"} /\ g = frame)
MappedMarked == \A s \in Space, l \in Linear : page_table[s][l] # 0 => Marks(page_table[s][l])

FrameFresh ==
  /\ pc \in {"bind", "load", "store"} => frame \in TaskFrame
  /\ pc = "bind" => \A s \in Space, l \in Linear : page_table[s][l] # frame

OldCovers == pc = "store" => \A g \in TaskFrame : pages_bitmap[g] => old[g]

PagesInTable == pages \in [Space -> Seq(Linear)]

LoaderAt ==
  /\ pc # "idle" => space \in Space /\ image[space] \in Images /\ seg \in Nat \ {0}
  /\ pc \in {"alloc", "bind", "load", "store", "enter", "copy"}
       => seg \in DOMAIN image[space] /\ Segment.memsz > 0
  /\ pc \in {"bind", "load", "store"} => k < pages_count(Segment)

PInv ==
  /\ ProgTypeOK /\ MappedOnce /\ MappedMarked /\ FrameFresh /\ OldCovers
  /\ PagesInTable /\ LoaderAt

----------------------------------------------------------------------------
(* Arithmetic of pages and frames.                                         *)

LEMMA DivNat == ASSUME NEW a \in Nat, NEW b \in Nat \ {0}
                PROVE  a \div b \in Nat /\ b * (a \div b) <= a
                       /\ a < b * (a \div b) + b
OBVIOUS

LEMMA FrameSets ==
  /\ TaskFrame \subseteq Frame /\ TaskFrame \subseteq Nat \ {0}
  /\ \A e \in Extended : e \notin TaskFrame
  /\ Linear \subseteq Nat /\ 0 \in Linear
BY FrameAssumption, TableAssumption DEF TaskFrame, Frame, Extended, Linear

LEMMA EntryOfSeq == ASSUME NEW S, NEW q \in Seq(S), NEW i \in DOMAIN q PROVE q[i] \in S
OBVIOUS

LEMMA Position ==
  ASSUME NEW S, NEW q \in Seq(S), NEW i \in DOMAIN q PROVE i \in Nat \ {0} /\ i <= Len(q)
OBVIOUS

LEMMA SegmentTyped ==
  ASSUME NEW im \in Images, NEW i \in DOMAIN im
  PROVE  /\ im[i].vaddr \in Nat /\ im[i].filesz \in Nat /\ im[i].memsz \in Nat
         /\ im[i].filesz <= im[i].memsz
<1>1. im \in Seq([vaddr : Nat, filesz : Nat, memsz : Nat]) /\ im[i].filesz <= im[i].memsz
  BY ImageAssumption
<1>2. im[i] \in [vaddr : Nat, filesz : Nat, memsz : Nat]
  BY <1>1, EntryOfSeq
<1> QED BY <1>1, <1>2

\* Where the pages of a segment that is not empty lie.
LEMMA SegmentFits ==
  ASSUME NEW im \in Images, NEW i \in DOMAIN im, im[i].memsz > 0
  PROVE  /\ im[i].vaddr \in Nat /\ im[i].filesz \in Nat /\ im[i].memsz \in Nat
         /\ im[i].filesz <= im[i].memsz
         /\ FirstPage(im[i]) \in Nat /\ pages_count(im[i]) \in Nat
         /\ \A j \in Nat : j < pages_count(im[i]) => FirstPage(im[i]) + j \in Linear
<1>1. /\ im[i].filesz <= im[i].memsz
      /\ im[i].vaddr \div PAGE_SIZE + im[i].memsz \div PAGE_SIZE < TABLE_ENTRIES
  BY ImageAssumption
<1>3. im[i].vaddr \in Nat /\ im[i].filesz \in Nat /\ im[i].memsz \in Nat
  BY SegmentTyped
<1>4. im[i].vaddr \div PAGE_SIZE \in Nat /\ im[i].memsz \div PAGE_SIZE \in Nat
  BY <1>3, DivNat, KernelAssumption
<1>5. FirstPage(im[i]) \in Nat /\ pages_count(im[i]) \in Nat
  BY <1>4 DEF FirstPage, pages_count
<1>6. ASSUME NEW j \in Nat, j < pages_count(im[i])
      PROVE  FirstPage(im[i]) + j \in 0 .. (TABLE_ENTRIES - 1)
  <2>1. PICK a, b \in Nat : a = im[i].vaddr \div PAGE_SIZE /\ b = im[i].memsz \div PAGE_SIZE
    BY <1>4
  <2>2. a + b < TABLE_ENTRIES /\ FirstPage(im[i]) = a /\ j < b + 1
    BY <1>1, <1>6, <2>1 DEF FirstPage, pages_count
  <2> QED BY <2>2, TableAssumption
<1> QED BY <1>1, <1>3, <1>5, <1>6 DEF Linear

----------------------------------------------------------------------------
(* The steps.                                                              *)

LEMMA PInit == ProgInit => PInv
<1> SUFFICES ASSUME ProgInit PROVE PInv
  OBVIOUS
<1> USE FrameSets DEF ProgInit, MmuInit
<1>1. ProgTypeOK
  <2>1. MmuTypeOK
    BY DEF MmuTypeOK
  <2>2. data \in [TaskFrame -> (Space \cup {Kernel}) \X Linear]
    BY DEF Zeros
  <2>3. /\ status \in [Space -> Statuses] /\ image \in [Space -> Images \cup {<<>>}]
        /\ pages \in [Space -> Seq(Nat)] /\ \A s \in Space : Len(pages[s]) <= MAX_PAGES
        /\ old \in [Frame -> BOOLEAN]
    BY <2>1, TableAssumption DEF Statuses, MmuTypeOK, MAX_PAGES
  <2> QED BY <2>1, <2>2, <2>3 DEF ProgTypeOK, Labels
<1>2. MappedOnce /\ MappedMarked
  BY DEF MappedOnce, MappedMarked
<1>3. FrameFresh /\ OldCovers /\ LoaderAt
  BY DEF FrameFresh, OldCovers, LoaderAt
<1>4. PagesInTable
  BY DEF PagesInTable
<1> QED BY <1>1, <1>2, <1>3, <1>4 DEF PInv

\* A step that leaves tables and bitmap alone leaves what they agree on.
LEMMA MemoryKept ==
  ASSUME MappedOnce, MappedMarked, UNCHANGED <<page_table, pages_bitmap>>,
         (pc' = pc /\ frame' = frame) \/ pc \notin {"load", "store"}
  PROVE  MappedOnce' /\ MappedMarked'
BY DEF MappedOnce, MappedMarked, Marks

\* The steps of the loader that touch neither.
LoaderMoves(s, im) ==
  \/ elf_exec(s, im) \/ ProgramHeader \/ EnterSpace \/ CopySegment \/ LeaveSpace
  \/ LinkTask \/ StartTask

LEMMA LoaderMovesStep ==
  ASSUME PInv, NEW s \in Space, NEW im \in Images, LoaderMoves(s, im)
  PROVE  PInv'
<1> USE DEF PInv, At, mmuVars
<1>1. ProgTypeOK'
  <2>1. CASE elf_exec(s, im)
    BY <2>1 DEF elf_exec, ProgTypeOK, MmuTypeOK, Statuses, Labels
  <2>2. CASE ProgramHeader
    BY <2>2 DEF ProgramHeader, ProgTypeOK, MmuTypeOK, Labels
  <2>3. CASE EnterSpace
    BY <2>3 DEF EnterSpace, ProgTypeOK, MmuTypeOK, Labels, LoaderAt
  <2>4. CASE CopySegment
    <3>1. data' \in [TaskFrame -> (Space \cup {Kernel}) \X Linear]
      <4>1. CASE UNCHANGED data
        BY <4>1 DEF ProgTypeOK
      <4>2. CASE data' = [f \in TaskFrame |->
                        IF \E l \in Touched(Segment) : page_table[space][l] = f
                        THEN Written(space, Segment,
                                     CHOOSE l \in Touched(Segment) : page_table[space][l] = f)
                        ELSE data[f]]
        <5>1. Touched(Segment) \subseteq Linear /\ space \in Space
          BY <2>4 DEF Touched, PagesOf, CopySegment, LoaderAt
        <5>2. \A l \in Linear : Written(space, Segment, l) \in (Space \cup {Kernel}) \X Linear
          BY <5>1, FrameSets DEF Written, Zeros, Holds
        <5>3. \A f \in TaskFrame : (\E l \in Touched(Segment) : page_table[space][l] = f)
                => (CHOOSE l \in Touched(Segment) : page_table[space][l] = f) \in Linear
          BY <5>1
        <5> QED BY <4>2, <5>2, <5>3 DEF ProgTypeOK
      <4> QED BY <2>4, <4>1, <4>2 DEF CopySegment
    <3> QED BY <2>4, <3>1 DEF CopySegment, ProgTypeOK, MmuTypeOK, Labels
  <2>5. CASE LeaveSpace
    BY <2>5 DEF LeaveSpace, ProgTypeOK, MmuTypeOK, Labels
  <2>6. CASE LinkTask
    BY <2>6 DEF LinkTask, ProgTypeOK, MmuTypeOK, Labels, Statuses
  <2>7. CASE StartTask
    BY <2>7 DEF StartTask, ProgTypeOK, MmuTypeOK, Labels, Statuses
  <2> QED BY <2>1, <2>2, <2>3, <2>4, <2>5, <2>6, <2>7 DEF LoaderMoves
<1>2. /\ UNCHANGED <<page_table, pages_bitmap, pages>>
      /\ pc \notin {"load", "store"} /\ pc' \notin {"bind", "load", "store"}
  BY DEF LoaderMoves, elf_exec, ProgramHeader, EnterSpace, CopySegment, LeaveSpace,
         LinkTask, StartTask
<1>3. MappedOnce' /\ MappedMarked'
  BY <1>2, MemoryKept
<1>4. FrameFresh' /\ OldCovers' /\ PagesInTable'
  BY <1>2 DEF FrameFresh, OldCovers, PagesInTable
<1>5. LoaderAt'
  <2>1. CASE elf_exec(s, im)
    BY <2>1 DEF elf_exec, LoaderAt, ProgTypeOK
  <2>2. CASE ProgramHeader
    <3>1. \A n \in Nat \ {0} : n <= Len(image[space]) => n \in DOMAIN image[space]
      BY <2>2, ImageAssumption DEF ProgramHeader, LoaderAt
    <3>2. Len(image[space]) \in Nat
      BY <2>2, ImageAssumption DEF ProgramHeader, LoaderAt
    <3>3. Segment.memsz > 0 \/ pc' # "alloc"
      <4>1. CASE seg <= Len(image[space])
        <5>1. Segment.memsz \in Nat
          BY <2>2, <3>1, <4>1, SegmentTyped DEF ProgramHeader, LoaderAt, Segment
        <5> QED BY <2>2, <3>2, <4>1, <5>1 DEF ProgramHeader, LoaderAt
      <4>2. CASE ~(seg <= Len(image[space]))
        BY <2>2, <3>2, <4>2 DEF ProgramHeader, LoaderAt
      <4> QED BY <4>1, <4>2
    <3> QED BY <2>2, <3>1, <3>2, <3>3 DEF ProgramHeader, LoaderAt, Segment
  <2>3. CASE EnterSpace \/ CopySegment \/ LinkTask \/ StartTask
    BY <2>3 DEF EnterSpace, CopySegment, LinkTask, StartTask, LoaderAt, Segment
  <2>4. CASE LeaveSpace
    BY <2>4 DEF LeaveSpace, LoaderAt
  <2> QED BY <2>1, <2>2, <2>3, <2>4 DEF LoaderMoves
<1> QED BY <1>1, <1>3, <1>4, <1>5

\* A frame that is found free is mapped by nobody.
LEMMA AllocStep == ASSUME PInv, alloc_page PROVE PInv'
<1> USE DEF PInv, At, mmuVars
<1>1. /\ space \in Space /\ image[space] \in Images /\ seg \in DOMAIN image[space] /\ k \in Nat
      /\ image[space][seg].memsz > 0
  BY DEF Segment, alloc_page, LoaderAt, ProgTypeOK
<1>2. pages_count(Segment) \in Nat
  BY <1>1, SegmentFits DEF Segment
<1>3. PagesInTable'
  <2>1. CASE k < pages_count(Segment)
    <3>1. FirstPage(Segment) + k \in Linear
      BY <1>1, <2>1, SegmentFits DEF Segment
    <3>2. pages' = [pages EXCEPT ![space] = Append(@, FirstPage(Segment) + k)]
      BY <2>1 DEF alloc_page
    <3>3. pages \in [Space -> Seq(Linear)] /\ pages[space] \in Seq(Linear)
      BY <1>1 DEF PagesInTable
    <3>4. Append(pages[space], FirstPage(Segment) + k) \in Seq(Linear)
      BY <3>1, <3>3
    <3>5. pages' \in [Space -> Seq(Linear)]
      BY <3>2, <3>3, <3>4
    <3> QED BY <3>5 DEF PagesInTable
  <2>2. CASE ~(k < pages_count(Segment))
    BY <2>2 DEF alloc_page, PagesInTable
  <2> QED BY <2>1, <2>2
<1>4. pages' \in [Space -> Seq(Nat)] /\ \A s \in Space : Len(pages'[s]) <= MAX_PAGES
  <2>2. \A s \in Space : Len(pages'[s]) <= MAX_PAGES
    <3>1. pages \in [Space -> Seq(Linear)]
      BY DEF PagesInTable
    <3>2. MAX_PAGES \in Nat /\ \A s \in Space : Len(pages[s]) <= MAX_PAGES
      BY TableAssumption DEF ProgTypeOK, MAX_PAGES
    <3>3. CASE k < pages_count(Segment)
      <4>1. /\ pages' = [pages EXCEPT ![space] = Append(@, FirstPage(Segment) + k)]
            /\ Len(pages[space]) < MAX_PAGES
        BY <3>3 DEF alloc_page
      <4>2. FirstPage(Segment) + k \in Linear
        BY <1>1, <3>3, SegmentFits DEF Segment
      <4>3. PICK q \in Seq(Linear), x \in Linear :
              q = pages[space] /\ x = FirstPage(Segment) + k
        BY <1>1, <3>1, <4>2
      <4>4. Len(Append(q, x)) = Len(q) + 1 /\ Len(q) \in Nat
        OBVIOUS
      <4>5. Len(Append(q, x)) <= MAX_PAGES
        BY <3>2, <4>1, <4>3, <4>4
      <4>6. \A s \in Space : pages'[s] = IF s = space THEN Append(q, x) ELSE pages[s]
        BY <1>1, <3>1, <4>1, <4>3
      <4> QED BY <3>2, <4>5, <4>6
    <3>4. CASE ~(k < pages_count(Segment))
      BY <3>2, <3>4 DEF alloc_page
    <3> QED BY <3>3, <3>4
  <2>1. ASSUME NEW q \in Seq(Linear) PROVE q \in Seq(Nat)
    <3>1. q \in [1 .. Len(q) -> Linear] /\ Len(q) \in Nat
      OBVIOUS
    <3>2. q \in [1 .. Len(q) -> Nat]
      BY <3>1, FrameSets
    <3> QED BY <3>1, <3>2
  <2> QED BY <1>3, <2>1, <2>2 DEF PagesInTable
<1>5. frame' \in TaskFrame \cup {0}
  BY DEF alloc_page, IsFirst, FreeFrames, ProgTypeOK
<1>6. ProgTypeOK'
  <2>1. k' \in Nat
    BY <1>1 DEF alloc_page
  <2>4. pc' \in Labels
    BY DEF alloc_page, Labels
  <2>5. refused' \in BOOLEAN
    BY DEF alloc_page, ProgTypeOK
  <2>2. MmuTypeOK'
    BY DEF alloc_page, ProgTypeOK, MmuTypeOK
  <2>3. UNCHANGED <<status, image, space, seg, old, cr3, data, crashed>>
    BY DEF alloc_page
  <2> QED BY <1>4, <1>5, <2>1, <2>2, <2>3, <2>4, <2>5 DEF ProgTypeOK
<1>7. MappedOnce' /\ MappedMarked'
  <2>1. UNCHANGED <<page_table, pages_bitmap>> /\ pc \notin {"load", "store"}
    BY DEF alloc_page
  <2> QED BY <2>1, MemoryKept
<1>8. FrameFresh'
  <2>1. CASE pc' = "bind"
    <3>1. frame' \in TaskFrame /\ ~pages_bitmap[frame']
      BY <2>1 DEF alloc_page, IsFirst, FreeFrames
    <3>2. \A t \in Space, l \in Linear : page_table[t][l] # frame'
      BY <3>1, FrameSets DEF MappedMarked, Marks, alloc_page
    <3> QED BY <2>1, <3>1, <3>2 DEF FrameFresh, alloc_page
  <2>2. CASE pc' # "bind"
    BY <2>2 DEF alloc_page, FrameFresh
  <2> QED BY <2>1, <2>2
<1>9. OldCovers'
  BY DEF alloc_page, OldCovers
<1>10. LoaderAt'
  BY <1>1, <1>2 DEF alloc_page, LoaderAt, Segment
<1> QED BY <1>3, <1>6, <1>7, <1>8, <1>9, <1>10

\* The frame becomes the only one of its page.
LEMMA BindStep == ASSUME PInv, bind_page PROVE PInv'
<1> USE DEF PInv, At, mmuVars
<1> DEFINE b == FirstPage(Segment) + k
<1>1. /\ space \in Space /\ image[space] \in Images /\ seg \in DOMAIN image[space]
      /\ k \in Nat /\ k < pages_count(Segment) /\ image[space][seg].memsz > 0
  BY DEF bind_page, LoaderAt, ProgTypeOK, Segment
<1>2. b \in Linear
  BY <1>1, SegmentFits DEF Segment
<1>3. /\ page_table' = [page_table EXCEPT ![space][b] = frame]
      /\ frame \in TaskFrame /\ frame # 0
      /\ \A s \in Space, l \in Linear : page_table[s][l] # frame
  BY FrameSets DEF bind_page, FrameFresh
<1>4. /\ UNCHANGED <<pages_bitmap, pages, frame, image, space, seg, k>>
      /\ pc = "bind" /\ pc' = "load"
  BY DEF bind_page
<1>5. page_table \in [Space -> [Linear -> TaskFrame \cup {0}]]
  BY DEF ProgTypeOK, MmuTypeOK
<1>6. ProgTypeOK'
  <2> HIDE DEF b
  <2>1. page_table' \in [Space -> [Linear -> TaskFrame \cup {0}]]
    BY <1>1, <1>2, <1>3, <1>5
  <2> QED BY <2>1 DEF bind_page, ProgTypeOK, MmuTypeOK, Labels
<1>7. \A s \in Space, l \in Linear :
        page_table'[s][l] = IF s = space /\ l = b THEN frame ELSE page_table[s][l]
  <2> HIDE DEF b
  <2> QED BY <1>1, <1>2, <1>3, <1>5
<1> HIDE DEF b
<1>8. MappedOnce'
  BY <1>3, <1>7 DEF MappedOnce
<1>9. MappedMarked'
  BY <1>4, <1>7 DEF MappedMarked, Marks
<1>10. FrameFresh' /\ OldCovers' /\ PagesInTable' /\ LoaderAt'
  BY <1>1, <1>3, <1>4 DEF FrameFresh, OldCovers, PagesInTable, LoaderAt, Segment
<1> QED BY <1>6, <1>8, <1>9, <1>10

LEMMA LoadWordStep == ASSUME PInv, LoadWord PROVE PInv'
<1> USE DEF PInv, At, mmuVars
<1>1. ProgTypeOK'
  BY DEF LoadWord, ProgTypeOK, MmuTypeOK, Labels
<1>2. UNCHANGED <<page_table, pages_bitmap, pages, frame, image, space, seg, k>>
      /\ pc = "load" /\ pc' = "store" /\ old' = pages_bitmap
  BY DEF LoadWord
<1>3. MappedOnce' /\ MappedMarked'
  BY <1>2 DEF MappedOnce, MappedMarked, Marks
<1>4. FrameFresh' /\ OldCovers' /\ PagesInTable' /\ LoaderAt'
  BY <1>2 DEF FrameFresh, OldCovers, PagesInTable, LoaderAt, Segment
<1> QED BY <1>1, <1>3, <1>4

\* The bits of the frames that are mapped survive the store of an old word.
LEMMA StoreWordStep == ASSUME PInv, StoreWord PROVE PInv'
<1> USE DEF PInv, At, mmuVars
<1>1. /\ UNCHANGED <<page_table, pages, frame, image, space, seg>>
      /\ pc = "store" /\ pc' = "alloc" /\ pages_bitmap' = Marked(frame, old)
      /\ k' = k + 1 /\ k \in Nat
  BY DEF StoreWord, ProgTypeOK
<1>2. pages_bitmap' \in [Frame -> BOOLEAN]
  BY <1>1 DEF Marked, ProgTypeOK, MmuTypeOK
<1>3. ProgTypeOK'
  BY <1>1, <1>2 DEF StoreWord, ProgTypeOK, MmuTypeOK, Labels
<1>4. MappedOnce'
  BY <1>1 DEF MappedOnce
<1>5. \A g \in TaskFrame : Marks(g) => pages_bitmap'[g]
  <2>1. \A g \in TaskFrame : g = frame \/ (pages_bitmap[g] /\ old[g]) => Marked(frame, old)[g]
    BY FrameSets DEF Marked
  <2> QED BY <1>1, <2>1 DEF Marks, OldCovers
<1>6. MappedMarked'
  <2>1. \A s \in Space, l \in Linear : page_table[s][l] # 0 => page_table[s][l] \in TaskFrame
    BY DEF ProgTypeOK, MmuTypeOK
  <2> QED BY <1>1, <1>5, <2>1 DEF MappedMarked, Marks
<1>7. FrameFresh' /\ OldCovers' /\ PagesInTable' /\ LoaderAt'
  BY <1>1 DEF FrameFresh, OldCovers, PagesInTable, LoaderAt, Segment
<1> QED BY <1>3, <1>4, <1>6, <1>7

----------------------------------------------------------------------------
(* The other tasks.                                                        *)

\* The steps after which there are none.
Stops == OutOfHeap \/ NoteBeyond \/ RunUnborn

LEMMA OthersStep ==
  ASSUME PInv, SwitchAway \/ Stops \/ (\E s \in Space : Exit(s)) \/ UNCHANGED mvars
  PROVE  PInv'
<1> USE DEF PInv, At, mmuVars, loader
<1>1. /\ UNCHANGED <<mmuVars, pages, image, loader, data, refused>>
      /\ cr3' \in {cr3, Kernel} /\ crashed' \in {crashed, TRUE}
  BY DEF SwitchAway, Stops, OutOfHeap, NoteBeyond, RunUnborn, Exit, mvars, progVars
<1>2. status' \in [Space -> Statuses]
  BY DEF SwitchAway, Stops, OutOfHeap, NoteBeyond, RunUnborn, Exit, mvars, progVars, ProgTypeOK, Statuses
<1>3. ProgTypeOK'
  BY <1>1, <1>2 DEF ProgTypeOK, MmuTypeOK
<1>4. MappedOnce' /\ MappedMarked'
  BY <1>1, MemoryKept
<1>5. FrameFresh' /\ OldCovers' /\ PagesInTable' /\ LoaderAt'
  BY <1>1 DEF FrameFresh, OldCovers, PagesInTable, LoaderAt, Segment
<1> QED BY <1>3, <1>4, <1>5

\* What a deletion clears was mapped by the deleted task, so by nobody else.
LEMMA DeleteStep == ASSUME PInv, NEW s \in Space, task_delete(s) PROVE PInv'
<1> USE DEF PInv, At, mmuVars, loader
<1>1. /\ UNCHANGED <<pages, image, loader>>
      /\ pages_bitmap' = Cleared(s, pages[s]) /\ page_table' = Unbound(s, pages[s])
  BY DEF task_delete
<1>2. page_table \in [Space -> [Linear -> TaskFrame \cup {0}]]
      /\ pages_bitmap \in [Frame -> BOOLEAN]
  BY DEF ProgTypeOK, MmuTypeOK
<1>3. page_table' \in [Space -> [Linear -> TaskFrame \cup {0}]]
  BY <1>1, <1>2 DEF Unbound
<1>4. pages_bitmap' \in [Frame -> BOOLEAN]
  BY <1>1, <1>2 DEF Cleared
<1>5. ProgTypeOK'
  BY <1>1, <1>3, <1>4 DEF task_delete, ProgTypeOK, MmuTypeOK, Statuses
<1>6. ASSUME NEW t \in Space, NEW l \in Linear, page_table'[t][l] # 0
      PROVE  /\ page_table'[t][l] = page_table[t][l]
             /\ t = s => \A i \in DOMAIN pages[s] : pages[s][i] # l
  BY <1>1, <1>2, <1>6 DEF Unbound
<1>7. MappedOnce'
  BY <1>6 DEF MappedOnce
<1>8. MappedMarked'
  <2> SUFFICES ASSUME NEW t \in Space, NEW l \in Linear, page_table'[t][l] # 0
               PROVE  Marks(page_table[t][l])'
    BY <1>6 DEF MappedMarked, Marks
  <2>1. page_table'[t][l] = page_table[t][l] /\ page_table[t][l] \in TaskFrame
    BY <1>2, <1>6
  <2>2. Marks(page_table[t][l])
    BY <2>1 DEF MappedMarked
  <2>3. \A i \in DOMAIN pages[s] : page_table[s][pages[s][i]] # page_table[t][l]
    <3>1. \A i \in DOMAIN pages[s] : pages[s][i] \in Linear
      BY EntryOfSeq DEF PagesInTable
    <3> QED BY <1>6, <2>1, <3>1 DEF MappedOnce
  <2>4. pages_bitmap[page_table[t][l]] => pages_bitmap'[page_table[t][l]]
    BY <1>1, <2>1, <2>3, FrameSets DEF Cleared
  <2> QED BY <1>1, <2>1, <2>2, <2>4 DEF Marks
<1>9. FrameFresh'
  <2>1. pc' = pc /\ frame' = frame
    BY <1>1
  <2>2. ASSUME pc = "bind", NEW t \in Space, NEW l \in Linear
        PROVE  page_table'[t][l] # frame
    <3>1. frame # 0 /\ page_table[t][l] # frame
      BY <2>2, FrameSets DEF FrameFresh
    <3> QED BY <1>6, <3>1
  <2> QED BY <2>1, <2>2 DEF FrameFresh
<1>10. OldCovers'
  <2>1. \A g \in TaskFrame : pages_bitmap'[g] => pages_bitmap[g]
    BY <1>1, FrameSets DEF Cleared
  <2> QED BY <1>1, <2>1 DEF OldCovers
<1>11. PagesInTable' /\ LoaderAt'
  BY <1>1 DEF PagesInTable, LoaderAt, Segment
<1> QED BY <1>5, <1>7, <1>8, <1>9, <1>10, <1>11

\* The bit that goes to the wrong bitmap is no bit of a frame of tasks.
LEMMA PciStep == ASSUME PInv, NEW bar \in Bars, PciMap(bar) PROVE PInv'
<1> USE DEF PInv, loader, progVars
<1>1. PICK e \in Extended : /\ extended' = [extended EXCEPT ![e] = bar]
                           /\ pages_bitmap' = [pages_bitmap EXCEPT ![e] = TRUE]
                           /\ UNCHANGED <<page_table, extended_kernel_pages_bitmap, progVars>>
  BY DEF PciMap, alloc_pci_mem
<1>2. \A g \in TaskFrame : pages_bitmap'[g] = pages_bitmap[g]
  BY <1>1, FrameSets DEF ProgTypeOK, MmuTypeOK
<1>3. ProgTypeOK'
  BY <1>1 DEF ProgTypeOK, MmuTypeOK
<1>4. MappedOnce' /\ MappedMarked'
  <2>1. \A s \in Space, l \in Linear : page_table[s][l] # 0 => page_table[s][l] \in TaskFrame
    BY DEF ProgTypeOK, MmuTypeOK
  <2> QED BY <1>1, <1>2, <2>1 DEF MappedOnce, MappedMarked, Marks
<1>5. FrameFresh' /\ OldCovers' /\ PagesInTable' /\ LoaderAt'
  BY <1>1, <1>2 DEF FrameFresh, OldCovers, PagesInTable, LoaderAt, Segment
<1> QED BY <1>3, <1>4, <1>5

LEMMA PStep == PInv /\ [ProgNext]_mvars => PInv'
<1> SUFFICES ASSUME PInv, [ProgNext]_mvars PROVE PInv'
  OBVIOUS
<1>1. ASSUME NEW s \in Space, NEW im \in Images, elf_exec(s, im) PROVE PInv'
  BY <1>1, LoaderMovesStep DEF LoaderMoves
<1>2. CASE ProgramHeader \/ EnterSpace \/ CopySegment \/ LeaveSpace \/ LinkTask \/ StartTask
  <2>1. space \in Space /\ image[space] \in Images
    BY <1>2 DEF PInv, LoaderAt, ProgramHeader, EnterSpace, CopySegment, LeaveSpace,
                LinkTask, StartTask, At
  <2> QED BY <1>2, <2>1, LoaderMovesStep DEF LoaderMoves
<1> QED BY <1>1, <1>2, AllocStep, BindStep, LoadWordStep, StoreWordStep, OthersStep,
           DeleteStep, PciStep DEF ProgNext, Stops

\* For all programs and numbers of frames, and every order of loading, exits and
\* deletions: no page frame is in two page tables or twice in one, and each that is
\* mapped is marked as used, but for the moment between the binding and the bit
\* (mmu.c:133-151, task.c:86-95).
THEOREM FramesOwned == ProgSpec => []PagesOwned
<1>1. PInv => PagesOwned
  <2> SUFFICES ASSUME PInv PROVE PagesOwned
    OBVIOUS
  <2> QED BY DEF PInv, PagesOwned, MappedOnce, MappedMarked, Marks
<1> QED BY <1>1, PInit, PStep, PTL DEF ProgSpec

\* The tables hold frames of tasks, the bitmaps bits and the list of a task's pages
\* pages of its table, whatever elf_exec is given (elf.c:34-51).
THEOREM ProgramsTyped == ProgSpec => [](ProgTypeOK /\ PagesInTable)
<1>1. PInv => ProgTypeOK /\ PagesInTable
  BY DEF PInv
<1> QED BY <1>1, PInit, PStep, PTL DEF ProgSpec

----------------------------------------------------------------------------
(* The copy of a segment: which pages are bound when it is made.           *)

Filling == {"alloc", "bind", "load", "store", "enter", "copy"}
StatusAt == pc # "idle" => status[space] = IF pc = "start" THEN "linked" ELSE "loading"
SpaceAt  == cr3 # Kernel => pc \in {"copy", "leave"} /\ cr3 = space

\* The pages of the segment the loop is done with, unless one was refused.
IsDone(j) == j < k \/ (j = k /\ pc \in {"load", "store"})
BoundSoFar ==
  pc \in Filling /\ ~refused
    => \A j \in Nat : IsDone(j) => page_table[space][FirstPage(Segment) + j] # 0
AllDone == pc \in {"enter", "copy"} => k >= pages_count(Segment)

FInv == PInv /\ StatusAt /\ SpaceAt /\ BoundSoFar /\ AllDone

\* Multiples of a page, in order.
LEMMA Multiples == ASSUME NEW p \in Nat \ {0}, NEW a \in Int, NEW b \in Int, a <= b
                   PROVE  p * a <= p * b
OBVIOUS

LEMMA DivMonotone ==
  ASSUME NEW a \in Nat, NEW b \in Nat, NEW p \in Nat \ {0}, a <= b
  PROVE  a \div p <= b \div p
<1>1. PICK x, y \in Nat : x = a \div p /\ y = b \div p
  BY DivNat
<1>2. p * x <= a /\ b < p * y + p
  BY <1>1, DivNat
<1>3. SUFFICES ASSUME y + 1 <= x PROVE FALSE
  BY <1>1
<1>4. p * (y + 1) <= p * x
  BY <1>3, Multiples
<1>5. p * (y + 1) = p * y + p
  OBVIOUS
<1>6. PICK u, w \in Int : u = p * x /\ w = p * y
  OBVIOUS
<1> QED BY <1>2, <1>4, <1>5, <1>6

\* The pages elf_exec counts for a segment (elf.c:40) hold all that it copies.
LEMMA CountCovers ==
  ASSUME NEW im \in Images, NEW i \in DOMAIN im, NEW l \in Touched(im[i])
  PROVE  \E j \in Nat : j < pages_count(im[i]) /\ l = FirstPage(im[i]) + j
<1>0. im[i].memsz > 0
  <2>1. im[i].filesz \in Nat /\ im[i].memsz \in Nat /\ im[i].filesz <= im[i].memsz
    BY SegmentTyped
  <2>2. PICK n \in Nat : n = im[i].memsz
    BY <2>1
  <2>3. l \in PagesOf(im[i], IF im[i].filesz = 0 THEN im[i].memsz ELSE im[i].filesz)
    BY DEF Touched
  <2> QED BY <2>1, <2>2, <2>3 DEF PagesOf
<1>1. PICK v, n, m \in Nat :
        /\ v = im[i].vaddr /\ m = im[i].memsz /\ n <= m /\ n > 0 /\ l \in Linear
        /\ FirstPage(im[i]) <= l /\ l <= (v + n - 1) \div PAGE_SIZE
        /\ v % PAGE_SIZE = 0
  <2>1. im[i].vaddr \in Nat /\ im[i].filesz \in Nat /\ im[i].memsz \in Nat
        /\ im[i].filesz <= im[i].memsz /\ im[i].vaddr % PAGE_SIZE = 0
    BY <1>0, SegmentTyped, ImageAssumption
  <2>2. l \in PagesOf(im[i], IF im[i].filesz = 0 THEN im[i].memsz ELSE im[i].filesz)
    BY DEF Touched
  <2>3. PICK n \in Nat : n = IF im[i].filesz = 0 THEN im[i].memsz ELSE im[i].filesz
    BY <2>1
  <2>4. n <= im[i].memsz
    BY <2>1, <2>3
  <2>5. /\ n > 0 /\ l \in Linear /\ FirstPage(im[i]) <= l
        /\ l <= (im[i].vaddr + n - 1) \div PAGE_SIZE
    BY <2>2, <2>3 DEF PagesOf
  <2> QED BY <2>1, <2>4, <2>5
<1>2. PICK p \in Nat \ {0} : p = PAGE_SIZE
  BY KernelAssumption
<1>3. PICK q, d, e \in Nat : q = v \div p /\ d = m \div p /\ e = (v + n - 1) \div p
  <2>1. v + n - 1 \in Nat
    BY <1>1
  <2> QED BY <1>2, <2>1, DivNat
<1>4. l \in Nat /\ q <= l /\ l <= e /\ FirstPage(im[i]) = q /\ pages_count(im[i]) = d + 1
  BY <1>1, <1>2, <1>3, FrameSets DEF FirstPage, pages_count
<1>5. p * e <= v + n - 1 /\ m < p * d + p /\ v = p * q
  <2>1. v + n - 1 \in Nat
    BY <1>1
  <2>2. p * e <= v + n - 1
    BY <1>3, <2>1, DivNat
  <2>3. m < p * d + p
    BY <1>3, DivNat
  <2>4. v = p * q
    BY <1>1, <1>2, <1>3
  <2> QED BY <2>2, <2>3, <2>4
<1>6. e <= q + d
  <2>1. SUFFICES ASSUME q + d + 1 <= e PROVE FALSE
    BY <1>3
  <2>2. p * (q + d + 1) <= p * e
    BY <1>3, <2>1, Multiples
  <2>3. p * (q + d + 1) = p * q + p * d + p
    BY <1>3
  <2>4. PICK x, y, z \in Int : x = p * q /\ y = p * d /\ z = p * e
    BY <1>3
  <2> QED BY <1>1, <1>5, <2>2, <2>3, <2>4
<1>7. l - q \in Nat /\ l - q < d + 1 /\ l = q + (l - q)
  BY <1>3, <1>4, <1>6
<1> QED BY <1>4, <1>7

LEMMA FInit == ProgInit => FInv
<1> SUFFICES ASSUME ProgInit PROVE FInv
  OBVIOUS
<1>1. PInv
  BY PInit
<1>2. StatusAt /\ SpaceAt /\ BoundSoFar /\ AllDone
  BY DEF ProgInit, StatusAt, SpaceAt, BoundSoFar, AllDone, Filling
<1> QED BY <1>1, <1>2 DEF FInv

\* The steps that have nothing to do with binding.
LEMMA FMovesStep ==
  ASSUME FInv, NEW s \in Space, NEW im \in Images, LoaderMoves(s, im)
  PROVE  StatusAt' /\ SpaceAt' /\ BoundSoFar' /\ AllDone'
<1> USE DEF FInv, StatusAt, SpaceAt, BoundSoFar, AllDone, At, mmuVars, Filling
<1>0. status \in [Space -> Statuses] /\ k \in Nat /\ (pc # "idle" => space \in Space)
  BY DEF PInv, ProgTypeOK, LoaderAt
<1>1. CASE elf_exec(s, im)
  BY <1>0, <1>1 DEF elf_exec
<1>2. CASE ProgramHeader
  <2>1. ASSUME pc' \in Filling PROVE \A j \in Nat : ~IsDone(j)'
    BY <1>2, <2>1 DEF ProgramHeader, IsDone
  <2> QED BY <1>0, <1>2, <2>1 DEF ProgramHeader
<1>3. CASE EnterSpace
  BY <1>0, <1>3 DEF EnterSpace, IsDone, Segment
<1>4. CASE CopySegment
  BY <1>0, <1>4 DEF CopySegment, IsDone, Segment
<1>5. CASE LeaveSpace
  BY <1>0, <1>5 DEF LeaveSpace
<1>6. CASE LinkTask \/ StartTask
  BY <1>0, <1>6 DEF LinkTask, StartTask
<1> QED BY <1>1, <1>2, <1>3, <1>4, <1>5, <1>6 DEF LoaderMoves

LEMMA FBindStep ==
  ASSUME FInv, alloc_page \/ bind_page \/ LoadWord \/ StoreWord
  PROVE  StatusAt' /\ SpaceAt' /\ BoundSoFar' /\ AllDone'
<1> USE DEF FInv, At, mmuVars
<1>0. /\ k \in Nat /\ space \in Space /\ image[space] \in Images
      /\ seg \in DOMAIN image[space] /\ image[space][seg].memsz > 0
      /\ pc \in {"alloc", "bind", "load", "store"}
  BY DEF Segment, PInv, ProgTypeOK, LoaderAt, alloc_page, bind_page, LoadWord, StoreWord
<1>1. /\ UNCHANGED <<status, image, space, seg, cr3>> /\ (refused => refused')
      /\ pc' \in Filling /\ pc' \notin {"idle", "start", "copy"}
  BY DEF alloc_page, bind_page, LoadWord, StoreWord, Filling
<1>2. StatusAt' /\ SpaceAt'
  BY <1>0, <1>1 DEF StatusAt, SpaceAt
<1>3. pages_count(Segment) \in Nat
  BY <1>0, SegmentFits DEF Segment
<1>4. AllDone'
  BY <1>0, <1>1, <1>3 DEF AllDone, alloc_page, bind_page, LoadWord, StoreWord, Segment
<1>5. BoundSoFar'
  <2> SUFFICES ASSUME ~refused', NEW j \in Nat, IsDone(j)'
               PROVE  page_table'[space][FirstPage(Segment) + j] # 0
    BY <1>1 DEF BoundSoFar, Segment
  <2>1. IsDone(j) => page_table[space][FirstPage(Segment) + j] # 0
    BY <1>0, <1>1 DEF BoundSoFar, Filling
  <2>2. CASE alloc_page
    BY <1>0, <2>1, <2>2 DEF alloc_page, IsDone
  <2>3. CASE bind_page
    <3>1. j <= k /\ k < pages_count(Segment) /\ page_table \in [Space -> [Linear -> TaskFrame \cup {0}]]
      BY <2>3 DEF bind_page, IsDone, PInv, LoaderAt, ProgTypeOK, MmuTypeOK
    <3>2. FirstPage(Segment) + j \in Linear /\ FirstPage(Segment) + k \in Linear
          /\ FirstPage(Segment) \in Nat
      BY <1>0, <1>3, <3>1, SegmentFits DEF Segment
    <3>3. frame # 0
      BY <2>3, FrameSets DEF bind_page, PInv, FrameFresh
    <3>4. page_table' = [page_table EXCEPT ![space][FirstPage(Segment) + k] = frame]
      BY <2>3 DEF bind_page
    <3>5. CASE j = k
      BY <1>0, <3>1, <3>2, <3>3, <3>4, <3>5
    <3>6. CASE j # k
      <4>1. FirstPage(Segment) + j # FirstPage(Segment) + k
        BY <1>0, <3>2, <3>6
      <4>2. page_table'[space][FirstPage(Segment) + j] = page_table[space][FirstPage(Segment) + j]
        BY <1>0, <3>1, <3>2, <3>4, <4>1
      <4>3. j < k
        BY <1>0, <3>1, <3>6
      <4> QED BY <2>1, <4>2, <4>3 DEF IsDone
    <3> QED BY <3>5, <3>6
  <2>4. CASE LoadWord
    BY <2>1, <2>4 DEF LoadWord, IsDone
  <2>5. CASE StoreWord
    <3>1. j < k + 1 /\ UNCHANGED page_table /\ pc = "store"
      BY <2>5 DEF StoreWord, IsDone
    <3>2. j < k \/ j = k
      BY <1>0, <3>1
    <3> QED BY <2>1, <3>1, <3>2 DEF IsDone
  <2> QED BY <2>2, <2>3, <2>4, <2>5
<1> QED BY <1>2, <1>4, <1>5

LEMMA FOthersStep ==
  ASSUME FInv,
         \/ SwitchAway \/ Stops \/ UNCHANGED mvars
         \/ \E s \in Space : Exit(s) \/ task_delete(s)
         \/ \E bar \in Bars : PciMap(bar)
  PROVE  StatusAt' /\ SpaceAt' /\ BoundSoFar' /\ AllDone'
<1> USE DEF FInv, At, mmuVars, loader
<1>0. /\ status \in [Space -> Statuses] /\ (pc # "idle" => space \in Space)
      /\ page_table \in [Space -> [Linear -> TaskFrame \cup {0}]]
  BY DEF PInv, ProgTypeOK, LoaderAt, MmuTypeOK
<1>1. UNCHANGED <<loader, image, refused>> /\ cr3' \in {cr3, Kernel}
  BY DEF SwitchAway, Stops, OutOfHeap, NoteBeyond, RunUnborn, Exit, task_delete, PciMap, mvars, progVars
<1>2. pc # "idle" => status'[space] = status[space] /\ page_table'[space] = page_table[space]
  <2> SUFFICES ASSUME pc # "idle"
               PROVE  status'[space] = status[space] /\ page_table'[space] = page_table[space]
    OBVIOUS
  <2>0. status[space] \in {"linked", "loading"}
    BY DEF StatusAt
  <2>1. CASE SwitchAway \/ Stops \/ UNCHANGED mvars
    BY <2>1 DEF SwitchAway, Stops, OutOfHeap, NoteBeyond, RunUnborn, mvars, progVars
  <2>2. ASSUME NEW s \in Space, Exit(s)
        PROVE  status'[space] = status[space] /\ page_table'[space] = page_table[space]
    BY <1>0, <2>0, <2>2 DEF Exit
  <2>3. ASSUME NEW s \in Space, task_delete(s)
        PROVE  status'[space] = status[space] /\ page_table'[space] = page_table[space]
    <3>1. s # space
      BY <2>0, <2>3 DEF task_delete
    <3> QED BY <1>0, <2>3, <3>1 DEF task_delete, Unbound
  <2>4. ASSUME NEW bar \in Bars, PciMap(bar)
        PROVE  status'[space] = status[space] /\ page_table'[space] = page_table[space]
    BY <2>4 DEF PciMap, alloc_pci_mem, progVars
  <2> QED BY <2>1, <2>2, <2>3, <2>4
<1>3. StatusAt' /\ SpaceAt' /\ AllDone'
  BY <1>1, <1>2 DEF StatusAt, SpaceAt, AllDone, Segment
<1>4. BoundSoFar'
  BY <1>1, <1>2 DEF BoundSoFar, IsDone, Segment, Filling
<1> QED BY <1>3, <1>4

LEMMA FStep == FInv /\ [ProgNext]_mvars => FInv'
<1> SUFFICES ASSUME FInv, [ProgNext]_mvars PROVE FInv'
  OBVIOUS
<1>1. PInv'
  BY PStep DEF FInv
<1>2. ASSUME NEW s \in Space, NEW im \in Images, elf_exec(s, im)
      PROVE  StatusAt' /\ SpaceAt' /\ BoundSoFar' /\ AllDone'
  BY <1>2, FMovesStep DEF LoaderMoves
<1>3. CASE ProgramHeader \/ EnterSpace \/ CopySegment \/ LeaveSpace \/ LinkTask \/ StartTask
  <2>1. space \in Space /\ image[space] \in Images
    BY <1>3 DEF FInv, PInv, LoaderAt, ProgramHeader, EnterSpace, CopySegment, LeaveSpace,
                LinkTask, StartTask, At
  <2> QED BY <1>1, <1>3, <2>1, FMovesStep DEF LoaderMoves, FInv
<1> QED BY <1>1, <1>2, <1>3, FBindStep, FOthersStep DEF ProgNext, FInv, Stops

\* For all programs and numbers of frames: the pages elf_exec counts and binds for
\* a segment (elf.c:40-51) are all the pages its memcpy and memset write, and none
\* of them is taken by what the other tasks do meanwhile, as long as alloc_page has
\* found a frame each time.
THEOREM CopiesBoundPages == ProgSpec => []CopyIsBound
<1>1. FInv => CopyIsBound
  <2> SUFFICES ASSUME FInv, pc = "copy", ~refused, NEW l \in Touched(Segment)
               PROVE  page_table[space][l] # 0
    BY DEF CopyIsBound
  <2>1. /\ image[space] \in Images /\ seg \in DOMAIN image[space] /\ k \in Nat
        /\ k >= pages_count(Segment) /\ image[space][seg].memsz > 0
    BY DEF FInv, PInv, LoaderAt, AllDone, ProgTypeOK, Segment
  <2>2. PICK j \in Nat : j < pages_count(Segment) /\ l = FirstPage(Segment) + j
    BY <2>1, CountCovers DEF Segment
  <2>3. pages_count(Segment) \in Nat
    BY <2>1, SegmentFits DEF Segment
  <2>4. IsDone(j)
    BY <2>1, <2>2, <2>3 DEF IsDone
  <2> QED BY <2>2, <2>4 DEF FInv, BoundSoFar, Filling
<1> QED BY <1>1, FInit, FStep, PTL DEF ProgSpec

----------------------------------------------------------------------------
(* What a program finds in its pages: nothing that is bound or copied      *)
(* later reaches a page of a segment that has been copied, because later   *)
(* segments lie above it and other programs have other frames.             *)

Copied(s, i) ==
  \/ status[s] = "running"
  \/ pc # "idle" /\ s = space /\ (i < seg \/ (i = seg /\ pc = "leave"))
InPlace(s, i, l) ==
  page_table[s][l] # 0 /\ data[page_table[s][l]] = Written(s, image[s][i], l)
KeptWhole ==
  \A s \in Space : \A i \in DOMAIN image[s] :
     Copied(s, i) => \A l \in Touched(image[s][i]) : InPlace(s, i, l)
AllCopied == pc \in {"link", "start"} => \A i \in DOMAIN image[space] : i < seg

KInv == FInv /\ KeptWhole /\ AllCopied

\* A later segment begins behind what an earlier one touches.
LEMMA Above ==
  ASSUME NEW im \in Images, NEW i \in DOMAIN im, NEW j \in DOMAIN im, i < j,
         im[j].memsz > 0, NEW l \in Touched(im[i])
  PROVE  l < FirstPage(im[j])
<1>1. /\ im[i].vaddr \in Nat /\ im[i].filesz \in Nat /\ im[i].memsz \in Nat
      /\ im[i].filesz <= im[i].memsz
  BY SegmentTyped
<1>2. l \in PagesOf(im[i], IF im[i].filesz = 0 THEN im[i].memsz ELSE im[i].filesz)
  BY DEF Touched
<1>3. PICK n \in Nat : n = IF im[i].filesz = 0 THEN im[i].memsz ELSE im[i].filesz
  BY <1>1
<1>4. n > 0 /\ n <= im[i].memsz /\ l \in Nat /\ l <= (im[i].vaddr + n - 1) \div PAGE_SIZE
  BY <1>1, <1>2, <1>3, FrameSets DEF PagesOf
<1>5. (im[i].vaddr + im[i].memsz - 1) \div PAGE_SIZE < FirstPage(im[j])
  <2>1. PICK m \in Nat : m = im[i].memsz
    BY <1>1
  <2>2. im[i].memsz > 0
    BY <1>4, <2>1
  <2> QED BY <2>2, ImageAssumption DEF FirstPage
<1>6. PICK v, m \in Nat : v = im[i].vaddr /\ m = im[i].memsz
  BY <1>1
<1>7. (v + n - 1) \div PAGE_SIZE <= (v + m - 1) \div PAGE_SIZE
  <2>1. v + n - 1 \in Nat /\ v + m - 1 \in Nat /\ v + n - 1 <= v + m - 1
    BY <1>4, <1>6
  <2> QED BY <2>1, DivMonotone, KernelAssumption
<1>8. /\ (v + n - 1) \div PAGE_SIZE \in Nat /\ (v + m - 1) \div PAGE_SIZE \in Nat
      /\ FirstPage(im[j]) \in Nat
  <2>1. v + n - 1 \in Nat /\ v + m - 1 \in Nat
    BY <1>4, <1>6
  <2> QED BY <2>1, DivNat, KernelAssumption, SegmentFits
<1> QED BY <1>4, <1>5, <1>6, <1>7, <1>8

LEMMA KInit == ProgInit => KInv
<1> SUFFICES ASSUME ProgInit PROVE KInv
  OBVIOUS
<1>1. FInv
  BY FInit
<1>2. KeptWhole /\ AllCopied
  BY DEF ProgInit, KeptWhole, AllCopied, Copied
<1> QED BY <1>1, <1>2 DEF KInv

\* What neither the tables nor the frames nor the programs see.
LEMMA Untouched ==
  ASSUME KeptWhole, UNCHANGED <<page_table, data, image>>,
         \A s \in Space : \A i \in DOMAIN image[s] : Copied(s, i)' => Copied(s, i)
  PROVE  KeptWhole'
BY DEF KeptWhole, InPlace

\* What the loader has behind it, in terms of the running tasks.
LEMMA BehindLoader ==
  ASSUME KInv, pc # "idle", pc # "leave", NEW i \in DOMAIN image[space], Copied(space, i)
  PROVE  i < seg
<1>1. status[space] # "running"
  BY DEF KInv, FInv, StatusAt
<1> QED BY <1>1 DEF Copied

LEMMA KMovesStep ==
  ASSUME KInv, NEW s0 \in Space, NEW im \in Images,
         \/ elf_exec(s0, im) \/ ProgramHeader \/ alloc_page \/ LoadWord \/ StoreWord
         \/ EnterSpace \/ LeaveSpace \/ LinkTask \/ StartTask
  PROVE  KeptWhole' /\ AllCopied'
<1> USE DEF KInv, At, mmuVars
<1>0. /\ status \in [Space -> Statuses] /\ image \in [Space -> Images \cup {<<>>}]
      /\ seg \in Nat /\ (pc # "idle" => space \in Space)
  BY DEF FInv, PInv, ProgTypeOK, LoaderAt
<1>1. \A s \in Space : \A i \in DOMAIN image[s] : i \in Nat \ {0} /\ i <= Len(image[s])
  <2>1. \A s \in Space : image[s] \in Seq([vaddr : Nat, filesz : Nat, memsz : Nat])
    <3>1. \A x \in Images : x \in Seq([vaddr : Nat, filesz : Nat, memsz : Nat])
      BY ImageAssumption
    <3>2. <<>> \in Seq([vaddr : Nat, filesz : Nat, memsz : Nat])
      OBVIOUS
    <3>3. \A s \in Space : image[s] \in Images \/ image[s] = <<>>
      BY <1>0
    <3> QED BY <3>1, <3>2, <3>3
  <2> SUFFICES ASSUME NEW s \in Space, NEW i \in DOMAIN image[s]
               PROVE  i \in Nat \ {0} /\ i <= Len(image[s])
    OBVIOUS
  <2>2. PICK q \in Seq([vaddr : Nat, filesz : Nat, memsz : Nat]) : q = image[s]
    BY <2>1
  <2>3. i \in DOMAIN q
    BY <2>2
  <2>4. i \in Nat \ {0} /\ i <= Len(q)
    BY <2>2, <2>3, Position
  <2> QED BY <2>2, <2>4
<1>2. CASE elf_exec(s0, im)
  <2>1. AllCopied'
    BY <1>2 DEF elf_exec, AllCopied
  <2>2. im \in Seq([vaddr : Nat, filesz : Nat, memsz : Nat])
    BY ImageAssumption
  <2>3. \A i \in DOMAIN im : i \in Nat \ {0}
    BY <2>2
  <2>4. ASSUME NEW s \in Space, NEW i \in DOMAIN image'[s], Copied(s, i)'
        PROVE  s # s0 /\ Copied(s, i)
    <3>1. CASE s = s0
      <4>1. status'[s] = "loading" /\ image'[s] = im /\ seg' = 1 /\ pc' = "header"
        BY <1>0, <1>2, <3>1 DEF elf_exec
      <4>2. i \in Nat \ {0} /\ i < 1
        BY <2>3, <2>4, <4>1 DEF Copied
      <4> QED BY <4>2
    <3>2. CASE s # s0
      BY <1>0, <1>2, <2>4, <3>2 DEF elf_exec, Copied
    <3> QED BY <3>1, <3>2
  <2>5. \A s \in Space : s # s0 => image'[s] = image[s]
    BY <1>0, <1>2 DEF elf_exec
  <2>6. UNCHANGED <<page_table, data>>
    BY <1>2 DEF elf_exec
  <2>7. KeptWhole'
    BY <2>4, <2>5, <2>6 DEF KeptWhole, InPlace
  <2> QED BY <2>1, <2>7
<1>3. CASE ProgramHeader
  <2>0. UNCHANGED <<page_table, data, image, status, space>> /\ pc = "header"
        /\ pc' \in {"header", "link", "alloc"}
    BY <1>3 DEF ProgramHeader
  <2>1. AllCopied'
    <3> SUFFICES ASSUME pc' = "link", NEW i \in DOMAIN image[space] PROVE i < seg
      BY <1>3, <2>0 DEF ProgramHeader, AllCopied
    <3>1. seg > Len(image[space])
      BY <1>3 DEF ProgramHeader
    <3>2. space \in Space /\ image[space] \in Seq([vaddr : Nat, filesz : Nat, memsz : Nat])
      BY <1>0, <2>0, ImageAssumption
    <3>3. Len(image[space]) \in Nat
      BY <3>2
    <3> QED BY <1>0, <1>1, <3>1, <3>2, <3>3
  <2>2. ASSUME NEW s \in Space, NEW i \in DOMAIN image[s], Copied(s, i)', ~Copied(s, i)
        PROVE  s = space /\ i = seg /\ Segment.memsz = 0
    BY <1>0, <1>1, <1>3, <2>0, <2>2 DEF ProgramHeader, Copied
  <2>3. ASSUME NEW i \in DOMAIN image[space], i = seg, Segment.memsz = 0
        PROVE  Touched(image[space][i]) = {}
    <3>1. image[space] \in Images
      BY <2>0 DEF FInv, PInv, LoaderAt
    <3>2. Segment.filesz \in Nat /\ Segment.filesz <= 0
      BY <2>3, <3>1, SegmentTyped DEF Segment
    <3> QED BY <2>3, <3>2 DEF Touched, PagesOf, Segment
  <2>4. KeptWhole'
    <3> SUFFICES ASSUME NEW s \in Space, NEW i \in DOMAIN image[s], Copied(s, i)',
                        NEW l \in Touched(image[s][i])
                 PROVE  InPlace(s, i, l)
      BY <2>0 DEF KeptWhole, InPlace
    <3>1. CASE Copied(s, i)
      BY <3>1 DEF KeptWhole
    <3>2. CASE ~Copied(s, i)
      BY <2>2, <2>3, <3>2
    <3> QED BY <3>1, <3>2
  <2> QED BY <2>1, <2>4
<1>4. CASE alloc_page \/ LoadWord \/ StoreWord \/ EnterSpace \/ LinkTask
  <2>1. /\ UNCHANGED <<page_table, data, image, space, seg>>
        /\ pc # "idle" /\ pc' \notin {"idle", "leave"}
        /\ pc' \in {"link", "start"} => pc = "link"
        /\ \A s \in Space : status'[s] = "running" => status[s] = "running"
    BY <1>0, <1>4 DEF alloc_page, LoadWord, StoreWord, EnterSpace, LinkTask
  <2>2. KeptWhole'
    BY <2>1, Untouched DEF Copied
  <2> QED BY <2>1, <2>2 DEF AllCopied
<1>5. CASE LeaveSpace
  <2>1. AllCopied'
    BY <1>5 DEF LeaveSpace, AllCopied
  <2>2. ASSUME NEW s \in Space, NEW i \in DOMAIN image[s], Copied(s, i)' PROVE Copied(s, i)
    <3>1. pc = "leave" /\ seg' = seg + 1 /\ pc' = "header" /\ UNCHANGED <<status, space>>
      BY <1>5 DEF LeaveSpace
    <3>2. i < seg + 1 => i < seg \/ i = seg
      BY <1>0, <1>1
    <3> QED BY <2>2, <3>1, <3>2 DEF Copied
  <2> QED BY <1>5, <2>1, <2>2, Untouched DEF LeaveSpace
<1>6. CASE StartTask
  <2>1. AllCopied'
    BY <1>6 DEF StartTask, AllCopied
  <2>2. ASSUME NEW s \in Space, NEW i \in DOMAIN image[s], Copied(s, i)' PROVE Copied(s, i)
    <3>1. CASE s = space
      BY <1>6, <3>1 DEF StartTask, AllCopied, Copied
    <3>2. CASE s # space
      BY <1>0, <1>6, <2>2, <3>2 DEF StartTask, Copied
    <3> QED BY <3>1, <3>2
  <2> QED BY <1>6, <2>1, <2>2, Untouched DEF StartTask
<1> QED BY <1>2, <1>3, <1>4, <1>5, <1>6

LEMMA KBindStep == ASSUME KInv, bind_page PROVE KeptWhole' /\ AllCopied'
<1> USE DEF KInv, At
<1>0. /\ k \in Nat /\ space \in Space /\ image[space] \in Images /\ seg \in DOMAIN image[space]
      /\ page_table \in [Space -> [Linear -> TaskFrame \cup {0}]]
      /\ k < pages_count(Segment) /\ pc = "bind" /\ image[space][seg].memsz > 0
  BY DEF Segment, FInv, PInv, ProgTypeOK, MmuTypeOK, LoaderAt, bind_page
<1>1. PICK b : b = FirstPage(Segment) + k
  OBVIOUS
<1>2. /\ page_table' = [page_table EXCEPT ![space][b] = frame] /\ pc' = "load"
      /\ UNCHANGED <<data, image, status, space, seg>>
  BY <1>1 DEF bind_page
<1>3. FirstPage(Segment) \in Nat /\ b \in Nat /\ FirstPage(Segment) <= b
  BY <1>0, <1>1, SegmentFits DEF Segment
<1>4. ASSUME NEW s \in Space, NEW i \in DOMAIN image[s], Copied(s, i)',
             NEW l \in Touched(image[s][i])
      PROVE  InPlace(s, i, l) /\ page_table'[s][l] = page_table[s][l]
  <2>1. Copied(s, i)
    BY <1>0, <1>2, <1>4 DEF Copied
  <2>2. CASE s # space
    BY <1>0, <1>2, <1>4, <2>1, <2>2 DEF KeptWhole
  <2>3. CASE s = space
    <3>1. i < seg
      BY <1>0, <2>1, <2>3, BehindLoader
    <3>2. l \in Nat /\ l < FirstPage(Segment)
      <4>1. l \in Linear
        BY <1>4 DEF Touched, PagesOf
      <4> QED BY <1>0, <1>4, <2>3, <3>1, <4>1, Above, FrameSets DEF Segment
    <3>3. l # b
      BY <1>3, <3>2
    <3> QED BY <1>0, <1>2, <1>4, <2>1, <3>3 DEF KeptWhole
  <2> QED BY <2>2, <2>3
<1>5. KeptWhole'
  BY <1>2, <1>4 DEF KeptWhole, InPlace
<1> QED BY <1>2, <1>5 DEF AllCopied

\* The copy writes to the frames of the segment's pages, and each of those frames
\* is that of one page.
LEMMA KCopyStep == ASSUME KInv, CopySegment PROVE KeptWhole' /\ AllCopied'
<1> USE DEF KInv, At, mmuVars
<1>0. /\ space \in Space /\ image[space] \in Images /\ seg \in DOMAIN image[space] /\ seg \in Nat
      /\ page_table \in [Space -> [Linear -> TaskFrame \cup {0}]]
      /\ pc = "copy" /\ pc' \in {"copy", "leave"} /\ MappedOnce
      /\ image[space][seg].memsz > 0
      /\ UNCHANGED <<page_table, image, status, space, seg>>
  BY DEF Segment, FInv, PInv, ProgTypeOK, MmuTypeOK, LoaderAt, CopySegment
<1>1. AllCopied'
  BY <1>0 DEF AllCopied
<1>2. CASE pc' = "copy"
  <2>1. UNCHANGED data
    BY <1>2 DEF CopySegment
  <2>2. \A s \in Space : \A i \in DOMAIN image[s] : Copied(s, i)' => Copied(s, i)
    BY <1>0, <1>2 DEF Copied
  <2> QED BY <1>0, <1>1, <2>1, <2>2, Untouched
<1>3. CASE pc' = "leave"
  <2>1. /\ \A m \in Touched(Segment) : page_table[space][m] # 0
        /\ data' = [f \in TaskFrame |->
                      IF \E m \in Touched(Segment) : page_table[space][m] = f
                      THEN Written(space, Segment,
                                   CHOOSE m \in Touched(Segment) : page_table[space][m] = f)
                      ELSE data[f]]
    BY <1>0, <1>3 DEF CopySegment
  <2>2. \A sg : Touched(sg) \subseteq Linear
    BY DEF Touched, PagesOf
  <2> SUFFICES ASSUME NEW s \in Space, NEW i \in DOMAIN image[s], Copied(s, i)',
                      NEW l \in Touched(image[s][i])
               PROVE  InPlace(s, i, l)'
    BY <1>0, <1>1 DEF KeptWhole
  <2>3. CASE Copied(s, i)
    <3>1. InPlace(s, i, l) /\ l \in Linear
      BY <2>2, <2>3 DEF KeptWhole
    <3>2. page_table[s][l] \in TaskFrame
      BY <1>0, <3>1 DEF InPlace
    <3>3. ASSUME NEW m \in Touched(Segment), page_table[space][m] = page_table[s][l]
          PROVE  FALSE
      <4>1. m \in Linear
        BY <2>2
      <4>2. s = space /\ m = l
        BY <1>0, <3>1, <3>3, <4>1 DEF MappedOnce, InPlace
      <4>3. i < seg
        BY <1>0, <2>3, <4>2, BehindLoader
      <4>4. l < FirstPage(Segment)
        BY <1>0, <4>2, <4>3, Above DEF Segment
      <4>5. FirstPage(Segment) <= m /\ FirstPage(Segment) \in Nat /\ m \in Nat
        BY <1>0, <4>1, FrameSets, SegmentFits DEF Touched, PagesOf, Segment
      <4> QED BY <4>2, <4>4, <4>5
    <3>4. data'[page_table[s][l]] = data[page_table[s][l]]
      BY <2>1, <3>2, <3>3
    <3> QED BY <1>0, <3>1, <3>4 DEF InPlace
  <2>4. CASE ~Copied(s, i)
    <3>1. s = space /\ i = seg
      BY <1>0, <1>3, <2>4 DEF Copied
    <3>2. l \in Touched(Segment) /\ l \in Linear
      BY <2>2, <3>1 DEF Segment
    <3>3. page_table[space][l] # 0 /\ page_table[space][l] \in TaskFrame
      BY <1>0, <2>1, <3>2
    <3>4. \A m \in Touched(Segment) : page_table[space][m] = page_table[space][l] => m = l
      BY <1>0, <2>2, <3>2, <3>3 DEF MappedOnce
    <3>5. (CHOOSE m \in Touched(Segment) : page_table[space][m] = page_table[space][l]) = l
      BY <3>2, <3>4
    <3>6. data'[page_table[space][l]] = Written(space, Segment, l)
      BY <2>1, <3>2, <3>3, <3>5
    <3> QED BY <1>0, <3>1, <3>3, <3>6 DEF InPlace, Segment
  <2> QED BY <2>3, <2>4
<1> QED BY <1>0, <1>2, <1>3

LEMMA KOthersStep ==
  ASSUME KInv,
         \/ SwitchAway \/ Stops \/ UNCHANGED mvars
         \/ \E s \in Space : Exit(s) \/ task_delete(s)
         \/ \E bar \in Bars : PciMap(bar)
  PROVE  KeptWhole' /\ AllCopied'
<1> USE DEF KInv, mmuVars, loader
<1>0. /\ status \in [Space -> Statuses] /\ (pc # "idle" => space \in Space)
      /\ page_table \in [Space -> [Linear -> TaskFrame \cup {0}]]
  BY DEF FInv, PInv, ProgTypeOK, LoaderAt, MmuTypeOK
<1>1. UNCHANGED <<loader, image, data>>
  BY DEF SwitchAway, Stops, OutOfHeap, NoteBeyond, RunUnborn, Exit, task_delete, PciMap, mvars, progVars
<1>2. \A s \in Space : status'[s] = "running" => status[s] = "running"
  BY <1>0 DEF SwitchAway, Stops, OutOfHeap, NoteBeyond, RunUnborn, Exit, task_delete, PciMap, mvars, progVars
<1>3. \A s \in Space : \A i \in DOMAIN image[s] : Copied(s, i)' => Copied(s, i)
  BY <1>1, <1>2 DEF Copied
<1>4. CASE UNCHANGED page_table
  BY <1>1, <1>3, <1>4, Untouched DEF AllCopied
<1>5. ASSUME NEW s0 \in Space, task_delete(s0) PROVE KeptWhole'
  <2>1. \A s \in Space : s # s0 => page_table'[s] = page_table[s]
    BY <1>0, <1>5 DEF task_delete, Unbound
  <2>2. \A i : ~Copied(s0, i)'
    <3>1. status'[s0] = "deleted" /\ status[s0] = "killing"
      BY <1>0, <1>5 DEF task_delete
    <3>2. pc # "idle" => s0 # space
      BY <3>1 DEF FInv, StatusAt
    <3> QED BY <1>1, <3>1, <3>2 DEF Copied
  <2> QED BY <1>1, <1>3, <2>1, <2>2 DEF KeptWhole, InPlace
<1>6. (\E s \in Space : task_delete(s)) \/ UNCHANGED page_table
  BY DEF SwitchAway, Stops, OutOfHeap, NoteBeyond, RunUnborn, Exit, PciMap, alloc_pci_mem, mvars
<1> QED BY <1>1, <1>4, <1>5, <1>6 DEF AllCopied

LEMMA KStep == KInv /\ [ProgNext]_mvars => KInv'
<1> SUFFICES ASSUME KInv, [ProgNext]_mvars PROVE KeptWhole' /\ AllCopied'
  BY FStep DEF KInv
<1>1. ASSUME NEW s \in Space, NEW im \in Images, elf_exec(s, im)
      PROVE  KeptWhole' /\ AllCopied'
  BY <1>1, KMovesStep
<1>2. CASE \/ ProgramHeader \/ alloc_page \/ LoadWord \/ StoreWord
           \/ EnterSpace \/ LeaveSpace \/ LinkTask \/ StartTask
  <2>1. space \in Space /\ image[space] \in Images
    BY <1>2 DEF KInv, FInv, PInv, LoaderAt, ProgramHeader, alloc_page, LoadWord, StoreWord,
                EnterSpace, LeaveSpace, LinkTask, StartTask, At
  <2> QED BY <1>2, <2>1, KMovesStep
<1> QED BY <1>1, <1>2, KBindStep, KCopyStep, KOthersStep DEF ProgNext, Stops

\* For all programs and numbers of frames: a program that runs finds in its pages
\* what the loader put there, whatever was loaded, exited and was deleted since
\* (elf.c:34-69, task.c:76-97).
THEOREM ProgramsStayIntact == ProgSpec => []ProgramIntact
<1>1. KInv => ProgramIntact
  BY DEF KInv, KeptWhole, ProgramIntact, Copied, InPlace
<1> QED BY <1>1, KInit, KStep, PTL DEF ProgSpec

----------------------------------------------------------------------------
\* The heap and the programs together: kmalloc and kfree leave the page frames
\* alone and the loading of a program leaves the blocks alone, so that each keeps
\* its invariants whatever the other does (memory/heap.c, memory/mmu.c).
THEOREM MemorySafe ==
  MemorySpec => /\ [](/\ MemoryTypeOK /\ Tiles /\ Coalesced /\ Backed /\ LiveDisjoint
                       /\ NoLeak /\ FaultsOnlyWhenFragmented /\ PagesOwned /\ ProgramIntact
                       /\ CopyIsBound)
                /\ KeepsPromise
<1>1. MemoryInit => Init /\ ProgInit
  BY DEF MemoryInit
<1>2. [MemoryNext]_<<vars, mvars>> => [Next]_vars /\ [ProgNext]_mvars
  BY DEF MemoryNext
<1>3. MemorySpec => Spec /\ ProgSpec
  BY <1>1, <1>2, PTL DEF MemorySpec, Spec, ProgSpec
<1>4. TypeOK /\ ProgTypeOK => MemoryTypeOK
  BY DEF MemoryTypeOK
<1>5. Spec => /\ []TypeOK /\ []Tiles /\ []Coalesced /\ []Backed /\ []LiveDisjoint
              /\ []NoLeak /\ []FaultsOnlyWhenFragmented
              /\ KeepsPromise
  BY HeapListSafe, NoOverlap, HeapBookkeeping, HeapImplementsAllocator, PTL
<1>6. ProgSpec => /\ []ProgTypeOK /\ []PagesOwned /\ []ProgramIntact
                  /\ []CopyIsBound
  BY ProgramsTyped, FramesOwned, ProgramsStayIntact, CopiesBoundPages, PTL
<1> QED  BY <1>3, <1>4, <1>5, <1>6, PTL
=============================================================================
