---------------------------- MODULE BuddyProofs -----------------------------
(***************************************************************************)
(* Proofs about the buddy allocator, for any memory size and any orders:   *)
(* no page is ever in two free blocks, the page counter drifts by exactly  *)
(* the 2MB reservations, and the allocator keeps the promise of            *)
(* FrameAllocator.                                                         *)
(***************************************************************************)
EXTENDS Buddy, BuddyOpsProofs

----------------------------------------------------------------------------
(* The invariant *)

(* Every page is free or held, never both, and the counter is that of      *)
(* CountDrift.  Separate is what keeps a block's removal from freeing a    *)
(* page that another block still has; Aligned is what a reserved block     *)
(* inherits from the constructor.                                          *)
BuddyInv ==
    /\ Good(free_list)
    /\ held \subseteq Pages
    /\ FreePages(free_list) \cap held = {}
    /\ FreePages(free_list) \cup held = Pages
    /\ reservations \in Nat
    /\ CountDrift

\* The three things a step does to the pages.
Rearranges ==
    /\ Good(free_list') /\ FreePages(free_list') = FreePages(free_list)
    /\ UNCHANGED <<m_free_pages, held, reservations>>

HandsOut(start, k) ==
    /\ Good(free_list')
    /\ BlockPages(Block(start, k)) \subseteq FreePages(free_list)
    /\ FreePages(free_list') = FreePages(free_list) \ BlockPages(Block(start, k))
    /\ held' = held \cup BlockPages(Block(start, k))
    /\ k >= HugeOrder => AtMultiple(Block(start, k), k)
    /\ \/ m_free_pages' = m_free_pages - 2^k /\ reservations' = reservations
       \/ m_free_pages' = m_free_pages /\ reservations' = reservations + 1 /\ k = HugeOrder

TakesBack(start, size) ==
    /\ Good(free_list')
    /\ start..(start + size - 1) \subseteq held
    /\ FreePages(free_list') = FreePages(free_list) \cup (start..(start + size - 1))
    /\ held' = held \ (start..(start + size - 1))
    /\ m_free_pages' = m_free_pages + size /\ reservations' = reservations

\* Every step rearranges blocks, hands out a run or takes one back.
LEMMA StepEffect ==
    ASSUME BuddyInv, [Next]_vars
    PROVE  \/ Rearranges
           \/ \E start \in Int, k \in Orders : HandsOut(start, k)
           \/ \E start \in Pages, size \in FreeSizes : TakesBack(start, size)
<1> DEFINE Goal == \/ Rearranges
                   \/ \E start \in Int, k \in Orders : HandsOut(start, k)
                   \/ \E start \in Pages, size \in FreeSizes : TakesBack(start, size)
<1>0. Good(free_list) /\ FreePages(free_list) \cap held = {} /\ held \subseteq Pages BY DEF BuddyInv
<1>1. CASE FragmentStep
  <2> DEFINE i == Max(HugeCandidates(free_list))
  <2>1. PICK k \in FragmentOrders(frag.mode, i) : free_list' = Split(free_list, i, k)
    BY <1>1 DEF FragmentStep
  <2>2. HugeCandidates(free_list) # {} BY <1>1 DEF FragmentStep
  <2>3. i \in HugeCandidates(free_list)
    <3>1. HugeCandidates(free_list) \subseteq 0..MaxOrder /\ MaxOrder \in Nat
      BY OrderType DEF HugeCandidates
    <3> QED BY <2>2, <3>1, Greatest
  <2> HIDE DEF i
  <2>4. i \in Orders /\ i >= HugeOrder /\ i \in Nat /\ free_list[i] # <<>>
    BY <2>3, OrderType DEF HugeCandidates, Orders
  <2>5. k \in Orders /\ k < i BY <2>4, OrderType DEF FragmentOrders, Orders
  <2>6. Good(free_list') /\ FreePages(free_list') = FreePages(free_list)
    BY <1>0, <2>1, <2>4, <2>5, SplitPages
  <2> QED BY <1>1, <2>6 DEF Rearranges, FragmentStep
<1>2. CASE FragmentIdle \/ FragmentEnd \/ UNCHANGED vars
  BY <1>0, <1>2 DEF Rearranges, FragmentIdle, FragmentEnd, vars
<1>3. ASSUME NEW ind \in Orders, Allocate(ind) PROVE Goal
  <2> DEFINE page == AllocatedPage(free_list, ind)
  <2>1. /\ Good(AllocateFrom(free_list, ind)) /\ page \in Int
        /\ BlockPages(Block(page, ind)) \subseteq FreePages(free_list)
        /\ FreePages(AllocateFrom(free_list, ind)) = FreePages(free_list) \ BlockPages(Block(page, ind))
        /\ ind >= HugeOrder => AtMultiple(Block(page, ind), ind)
    BY <1>0, <1>3, AllocatePages DEF Allocate
  <2>2. HandsOut(page, ind)
    <3>1. /\ free_list' = AllocateFrom(free_list, ind) /\ m_free_pages' = m_free_pages - 2^ind
          /\ held' = held \cup BlockPages(Block(page, ind)) /\ reservations' = reservations
      BY <1>3 DEF Allocate
    <3> HIDE DEF page
    <3> QED BY <2>1, <3>1 DEF HandsOut
  <2> HIDE DEF page
  <2> QED BY <2>1, <2>2
<1>4. CASE Reserve2MB
  <2> DEFINE b == ReservedBlock(free_list)
             H == HugeOrder
  <2>1. /\ Good(ReserveFrom(free_list)) /\ b \in Blocks /\ BlockSize(b) = 2^H
        /\ AtMultiple(b, H) /\ BlockPages(b) \subseteq FreePages(free_list)
        /\ FreePages(ReserveFrom(free_list)) = FreePages(free_list) \ BlockPages(b)
    BY <1>0, <1>4, ReservePages DEF Reserve2MB
  <2>2. /\ free_list' = ReserveFrom(free_list) /\ m_free_pages' = m_free_pages
        /\ held' = held \cup BlockPages(b) /\ reservations' = reservations + 1
    BY <1>4 DEF Reserve2MB
  <2> HIDE DEF b
  <2>3. H \in Orders BY OrderType
  <2>4. b.start \in Int /\ b.end \in Int /\ 2^H \in Nat /\ b.end - b.start + 1 = 2^H
    BY <2>1, <2>3, BlockFacts, Powers
  <2>5. BlockPages(Block(b.start, H)) = BlockPages(b)
    <3>1. Block(b.start, H).start = b.start /\ Block(b.start, H).end = b.end BY <2>4 DEF Block
    <3> QED BY <3>1 DEF BlockPages
  <2>6. AtMultiple(Block(b.start, H), H)
    <3>1. Block(b.start, H).start = b.start BY DEF Block
    <3> QED BY <2>1, <3>1 DEF AtMultiple
  <2>7. HandsOut(b.start, H) BY <2>1, <2>2, <2>5, <2>6 DEF HandsOut
  <2> QED BY <2>3, <2>4, <2>7
<1>5. ASSUME NEW page \in Pages, CheckIfFree(page) PROVE Goal
  <2>1. /\ Good(TakePage(free_list, page)) /\ page \in FreePages(free_list)
        /\ FreePages(TakePage(free_list, page)) = FreePages(free_list) \ {page}
    BY <1>0, <1>5, TakePages DEF CheckIfFree
  <2>2. /\ free_list' = TakePage(free_list, page) /\ m_free_pages' = m_free_pages - 1
        /\ held' = held \cup {page} /\ reservations' = reservations
    BY <1>5 DEF CheckIfFree
  <2>3. page \in Int /\ 0 \in Orders /\ ~(0 >= HugeOrder) /\ 2^0 = 1
    BY OrderType, PowersOfTwo DEF Pages
  <2>4. BlockPages(Block(page, 0)) = {page}
    <3>1. \A p : p \in BlockPages(Block(page, 0)) <=> p \in Int /\ page <= p /\ p < page + 1
      BY <2>3, BlockOfOrder
    <3> QED BY <2>3, <3>1
  <2>5. HandsOut(page, 0) BY <2>1, <2>2, <2>3, <2>4 DEF HandsOut
  <2> QED BY <2>3, <2>5
<1>6. ASSUME NEW start \in Pages, NEW size \in FreeSizes, Free(start, start + size - 1) PROVE Goal
  <2> DEFINE end == start + size - 1
  <2>0. start \in Int BY OrderType DEF Pages
  <2>1. /\ start..end \subseteq held
        /\ free_list' = FreeTo(free_list, start, end)
        /\ m_free_pages' = m_free_pages + 2^OrderOf(end - start + 1)
        /\ held' = held \ (start..end) /\ reservations' = reservations
    BY <1>6 DEF Free
  <2>2. (start..end) \cap FreePages(free_list) = {} BY <1>0, <2>1
  <2>3. /\ Good(FreeTo(free_list, start, end))
        /\ FreePages(FreeTo(free_list, start, end)) = FreePages(free_list) \cup (start..end)
        /\ 2^OrderOf(end - start + 1) = size
    <3>1. end = start + size - 1 OBVIOUS
    <3> HIDE DEF end
    <3> QED BY <1>0, <2>0, <2>2, <3>1, FreeToPages DEF FreeSizes
  <2>4. TakesBack(start, size) BY <2>1, <2>3 DEF TakesBack
  <2> QED BY <2>4
<1> QED BY <1>1, <1>2, <1>3, <1>4, <1>5, <1>6 DEF Next

\* Sizes of sets of pages.
LEMMA PageCounts ==
    /\ IsFiniteSet(Pages) /\ Cardinality(Pages) = TotalPages /\ Cardinality({}) = 0
    /\ \A F \in SUBSET Pages : IsFiniteSet(F) /\ Cardinality(F) \in Nat
<1>1. KernelPages \in Int /\ MemoryPages - 1 \in Int /\ KernelPages <= MemoryPages BY OrderType
<1>2. /\ IsFiniteSet(Pages)
      /\ Cardinality(Pages) = IF KernelPages > MemoryPages - 1 THEN 0
                              ELSE (MemoryPages - 1) - KernelPages + 1
  BY <1>1, FS_Interval DEF Pages
<1>3. Cardinality(Pages) = TotalPages
  <2>1. CASE KernelPages > MemoryPages - 1 BY <1>1, <1>2, <2>1, OrderType DEF TotalPages
  <2>2. CASE ~(KernelPages > MemoryPages - 1)
    <3>1. Cardinality(Pages) = (MemoryPages - 1) - KernelPages + 1 BY <1>2, <2>2
    <3> QED BY <3>1, OrderType DEF TotalPages
  <2> QED BY <2>1, <2>2
<1>4. ASSUME NEW F \in SUBSET Pages PROVE IsFiniteSet(F) /\ Cardinality(F) \in Nat
  <2>1. IsFiniteSet(F) BY <1>2, FS_Subset
  <2> QED BY <2>1, FS_CardinalityType
<1>5. Cardinality({}) = 0 BY FS_EmptySet
<1> QED BY <1>2, <1>3, <1>4, <1>5

\* The number of pages of a run.
LEMMA RunCount ==
    ASSUME NEW a \in Int, NEW n \in Nat \ {0}
    PROVE  IsFiniteSet(a..(a + n - 1)) /\ Cardinality(a..(a + n - 1)) = n
<1> DEFINE b == a + n - 1
<1>1. b \in Int /\ ~(a > b) /\ b - a + 1 = n OBVIOUS
<1> HIDE DEF b
<1>2. IsFiniteSet(a..b) /\ Cardinality(a..b) = IF a > b THEN 0 ELSE b - a + 1 BY <1>1, FS_Interval
<1>3. IsFiniteSet(a..b) /\ Cardinality(a..b) = n BY <1>1, <1>2
<1> QED BY <1>3 DEF b

\* The invariant holds at the start and is kept by every step.
LEMMA BuddyInvariance ==
    /\ Init => BuddyInv
    /\ BuddyInv /\ [Next]_vars => BuddyInv'
<1>1. ASSUME Init PROVE BuddyInv
  <2>1. Good(free_list) /\ FreePages(free_list) = Pages BY <1>1, InitialPages DEF Init
  <2>2. held = {} /\ reservations = 0 /\ m_free_pages = TotalPages BY <1>1 DEF Init
  <2>3. HugePages \in Nat BY OrderType, Powers DEF HugePages
  <2>4. HugePages * 0 = 0 BY <2>3
  <2>5. m_free_pages = Cardinality(FreePages(free_list)) + HugePages * reservations
    BY <2>1, <2>2, <2>4, PageCounts, OrderType
  <2> QED BY <2>1, <2>2, <2>5 DEF BuddyInv, CountDrift
<1>2. ASSUME BuddyInv, [Next]_vars PROVE BuddyInv'
  <2> DEFINE F == FreePages(free_list)
             G == FreePages(free_list')
             d == HugePages * reservations
             m == m_free_pages
  <2>0. /\ held \subseteq Pages /\ F \cap held = {} /\ F \cup held = Pages
        /\ reservations \in Nat /\ m = Cardinality(F) + HugePages * reservations
    BY <1>2 DEF BuddyInv, CountDrift
  <2>h. HugePages \in Nat /\ HugePages = 2^HugeOrder BY OrderType, Powers DEF HugePages
  <2>f. F \in SUBSET Pages /\ IsFiniteSet(F) /\ Cardinality(F) \in Nat BY <2>0, PageCounts
  <2>d. d \in Nat /\ m = Cardinality(F) + d
    <3>1. HugePages * reservations \in Nat BY <2>0, <2>h
    <3> QED BY <2>0, <3>1
  <2>1. SUFFICES /\ Good(free_list') /\ held' \subseteq Pages
                 /\ G \cap held' = {} /\ G \cup held' = Pages
                 /\ reservations' \in Nat
                 /\ m_free_pages' = Cardinality(G) + HugePages * reservations'
    <3>1. Pages' = Pages BY DEF Pages
    <3>2. HugePages' = HugePages BY DEF HugePages
    <3>3. Good(free_list)' <=> Good(free_list')
      BY DEF Good, FreeLists, Separate, Fits, Aligned, AtMultiple, Orders, Blocks, BlockPages, BlockSize
    <3>4. FreePages(free_list)' = G
      BY DEF FreePages, ToSet, Orders, BlockPages
    <3> QED BY <3>1, <3>2, <3>3, <3>4 DEF BuddyInv, CountDrift
  <2>2. CASE Rearranges BY <1>2, <2>0, <2>2 DEF Rearranges, BuddyInv, CountDrift
  <2>3. ASSUME NEW start \in Int, NEW k \in Orders, HandsOut(start, k)
        PROVE  /\ Good(free_list') /\ held' \subseteq Pages
               /\ G \cap held' = {} /\ G \cup held' = Pages
               /\ reservations' \in Nat
               /\ m_free_pages' = Cardinality(G) + HugePages * reservations'
    <3> DEFINE run == BlockPages(Block(start, k))
    <3>1. /\ Good(free_list') /\ run \subseteq F /\ G = F \ run /\ held' = held \cup run
          /\ \/ m_free_pages' = m - 2^k /\ reservations' = reservations
             \/ m_free_pages' = m /\ reservations' = reservations + 1 /\ k = HugeOrder
      BY <2>3 DEF HandsOut
    <3>2. 2^k \in Nat \ {0} BY Powers
    <3>3. Cardinality(run) = 2^k
      <4>1. run = start..(start + 2^k - 1) BY DEF BlockPages, Block
      <4> QED BY <3>2, <4>1, RunCount
    <3> HIDE DEF run, F, G
    <3>4. F \cap run = run BY <3>1
    <3>5. Cardinality(G) = Cardinality(F) - 2^k
      <4>1. Cardinality(F \ run) = Cardinality(F) - Cardinality(F \cap run) BY <2>f, FS_Difference
      <4> QED BY <3>1, <3>3, <3>4, <4>1
    <3>6. held' \subseteq Pages /\ G \cap held' = {} /\ G \cup held' = Pages BY <2>0, <3>1
    <3>7. CASE m_free_pages' = m - 2^k /\ reservations' = reservations
      <4>1. m_free_pages' = Cardinality(G) + d BY <2>d, <2>f, <3>2, <3>5, <3>7
      <4> QED BY <2>0, <3>1, <3>6, <3>7, <4>1
    <3>8. CASE m_free_pages' = m /\ reservations' = reservations + 1 /\ k = HugeOrder
      <4>1. HugePages * (reservations + 1) = d + HugePages BY <2>0, <2>h
      <4>2. Cardinality(G) = Cardinality(F) - HugePages BY <2>h, <3>5, <3>8
      <4>3. m_free_pages' = Cardinality(G) + (d + HugePages) BY <2>d, <2>f, <2>h, <3>8, <4>2
      <4>4. reservations' \in Nat BY <2>0, <3>8
      <4> QED BY <3>1, <3>6, <3>8, <4>1, <4>3, <4>4
    <3> QED BY <3>1, <3>7, <3>8
  <2>4. ASSUME NEW start \in Pages, NEW size \in FreeSizes, TakesBack(start, size)
        PROVE  /\ Good(free_list') /\ held' \subseteq Pages
               /\ G \cap held' = {} /\ G \cup held' = Pages
               /\ reservations' \in Nat
               /\ m_free_pages' = Cardinality(G) + HugePages * reservations'
    <3> DEFINE run == start..(start + size - 1)
    <3>1. /\ Good(free_list') /\ run \subseteq held /\ G = F \cup run /\ held' = held \ run
          /\ m_free_pages' = m + size /\ reservations' = reservations
      BY <2>4 DEF TakesBack
    <3>2. IsFiniteSet(run) /\ Cardinality(run) = size /\ size \in Nat
      <4>1. size \in Nat \ {0} /\ start \in Int BY OrderType DEF FreeSizes, Pages
      <4> QED BY <4>1, RunCount
    <3> HIDE DEF run, F, G
    <3>3. F \cap run = {} BY <2>0, <3>1
    <3>4. Cardinality(G) = Cardinality(F) + size
      <4>1. Cardinality(G) = Cardinality(F) + Cardinality(run) - Cardinality(F \cap run)
        BY <2>f, <3>1, <3>2, FS_Union
      <4> QED BY <2>f, <3>2, <3>3, <4>1, PageCounts
    <3>5. held' \subseteq Pages /\ G \cap held' = {} /\ G \cup held' = Pages BY <2>0, <3>1
    <3>6. m_free_pages' = Cardinality(G) + d BY <2>d, <2>f, <3>1, <3>2, <3>4
    <3> QED BY <2>0, <3>1, <3>5, <3>6
  <2> QED BY <1>2, <2>2, <2>3, <2>4, StepEffect
<1> QED BY <1>1, <1>2

----------------------------------------------------------------------------
(* The theorems *)

\* Sized: the blocks on the list of order k have 2^k pages, after any sequence
\* of splits, reservations, single-page grabs and frees.
THEOREM BuddySized == Spec => []Sized
<1>1. BuddyInv => Sized BY DEF BuddyInv, Good, Fits, Sized, ToSet
<1> QED BY <1>1, BuddyInvariance, PTL DEF Spec

\* Disjoint: no page is in two free blocks, so none is handed out twice.
THEOREM BuddyDisjoint == Spec => []Disjoint
<1>1. ASSUME BuddyInv PROVE Disjoint
  <2>1. SUFFICES ASSUME NEW x \in Index, NEW y \in Index, NEW p,
                        p \in BlockPages(BlockAt(x)), p \in BlockPages(BlockAt(y))
                 PROVE  x = y
    BY DEF Disjoint
  <2>2. /\ x[1] \in Orders /\ x[2] \in DOMAIN free_list[x[1]] /\ x = <<x[1], x[2]>>
        /\ y[1] \in Orders /\ y[2] \in DOMAIN free_list[y[1]] /\ y = <<y[1], y[2]>>
    BY DEF Index
  <2>3. Separate(free_list) BY <1>1 DEF BuddyInv, Good
  <2> DEFINE k == x[1]
             i == x[2]
             l == y[1]
             j == y[2]
  <2>4. p \in BlockPages(free_list[k][i]) /\ p \in BlockPages(free_list[l][j]) BY <2>1 DEF BlockAt
  <2>5. /\ k \in Orders /\ i \in DOMAIN free_list[k]
        /\ l \in Orders /\ j \in DOMAIN free_list[l]
    BY <2>2
  <2>6. k = l /\ i = j
    <3> HIDE DEF k, i, l, j
    <3> QED BY <2>3, <2>4, <2>5 DEF Separate
  <2> QED BY <2>2, <2>6
<1> QED BY <1>1, BuddyInvariance, PTL DEF Spec

\* CountDrift: m_free_pages exceeds the number of free pages by exactly 2MB for
\* each block reserve_2mb_page() handed out, and by nothing else.
THEOREM BuddyCountDrift == Spec => []CountDrift
<1>1. BuddyInv => CountDrift BY DEF BuddyInv
<1> QED BY <1>1, BuddyInvariance, PTL DEF Spec

\* KeepsPromise: every behaviour of the buddy allocator is one of FrameAllocator,
\* the free pages being those of the lists: it hands out runs that nobody holds,
\* 2MB runs at multiples of their size, and loses no page.
THEOREM BuddyKeepsPromise == Spec => KeepsPromise
<1>1. Init => Promise!Init BY InitialPages DEF Init, Promise!Init
<1>2. ASSUME BuddyInv, [Next]_vars PROVE [Promise!Next]_(Promise!allocatorVars)
  <2> DEFINE F == FreePages(free_list)
             G == FreePages(free_list')
  <2>0. F \cup held = Pages /\ held \subseteq Pages BY <1>2 DEF BuddyInv
  <2>p. FreePages(free_list)' = G BY DEF FreePages, ToSet, Orders, BlockPages
  <2>1. CASE Rearranges BY <2>1, <2>p DEF Rearranges, Promise!allocatorVars
  <2>2. ASSUME NEW start \in Int, NEW k \in Orders, HandsOut(start, k) PROVE Promise!Next
    <3> DEFINE run == Promise!Run(start, k)
    <3>1. run = BlockPages(Block(start, k)) BY DEF Promise!Run, BlockPages, Block
    <3>2. /\ run \subseteq F /\ G = F \ run /\ held' = held \cup run
          /\ k >= HugeOrder => AtMultiple(Block(start, k), k)
      BY <2>2, <3>1 DEF HandsOut
    <3>3. Promise!Take(run) BY <2>p, <3>2 DEF Promise!Take
    <3>4. start \in Pages
      <4>1. start \in run
        <5>1. 2^k \in Nat /\ 2^k >= 1 BY Powers
        <5>2. start + 2^k - 1 \in Int /\ start <= start + 2^k - 1 BY <5>1
        <5> QED BY <5>2 DEF Promise!Run
      <4> HIDE DEF run
      <4> QED BY <2>0, <3>2, <4>1
    <3>5. k >= HugeOrder => (start - KernelPages) % 2^k = 0
      <4>1. SUFFICES ASSUME k >= HugeOrder PROVE (start - KernelPages) % 2^k = 0 OBVIOUS
      <4>2. Block(start, k).start = start BY DEF Block
      <4>3. PICK n \in Nat : start = KernelPages + n * 2^k BY <3>2, <4>1, <4>2 DEF AtMultiple
      <4> DEFINE P == 2^k
                 o == start - KernelPages
      <4>4. P \in Nat \ {0} /\ P \in Nat /\ P > 0 BY Powers
      <4>5. n * P \in Nat BY <4>4
      <4>6. o = n * P /\ o \in Nat BY <4>3, <4>5, OrderType
      <4> HIDE DEF P, o
      <4>7. n * P <= o /\ o < n * P + P BY <4>4, <4>5, <4>6
      <4>8. o % P = o - n * P BY <4>4, <4>6, <4>7, Quotient
      <4>9. o % P = 0 BY <4>5, <4>6, <4>8
      <4> QED BY <4>9 DEF o, P
    <3>6. k \in 0..MaxOrder BY DEF Orders
    <3> HIDE DEF run
    <3>7. Promise!TakeRun BY <3>3, <3>4, <3>5, <3>6 DEF Promise!TakeRun, run
    <3> QED BY <3>7 DEF Promise!Next
  <2>3. ASSUME NEW start \in Pages, NEW size \in FreeSizes, TakesBack(start, size) PROVE Promise!Next
    <3> DEFINE end == start + size - 1
    <3>1. /\ start..end \subseteq held /\ G = F \cup (start..end) /\ held' = held \ (start..end)
      BY <2>3 DEF TakesBack
    <3>2. end \in Pages
      <4>1. start \in Int /\ size \in Nat /\ size >= 1 BY OrderType DEF Pages, FreeSizes
      <4>2. end \in start..end BY <4>1
      <4> HIDE DEF end
      <4> QED BY <2>0, <3>1, <4>2
    <3> HIDE DEF end
    <3>3. Promise!Give BY <2>p, <3>1, <3>2 DEF Promise!Give
    <3> QED BY <3>3 DEF Promise!Next
  <2> QED BY <1>2, <2>1, <2>2, <2>3, StepEffect
<1> QED BY <1>1, <1>2, BuddyInvariance, PTL DEF Spec, KeepsPromise, Promise!Spec


\* Until pages are handed out, and so when start-up fragmentation returns, the lists are
\* well formed and hold every page: what the page fault path starts from.
THEOREM BuddyStartLists == Spec => [](held = {} => WellFormed(free_list) /\ FreePages(free_list) = Pages)
<1>1. ASSUME BuddyInv, held = {} PROVE WellFormed(free_list) /\ FreePages(free_list) = Pages
  <2>1. Good(free_list) /\ FreePages(free_list) = Pages BY <1>1 DEF BuddyInv
  <2> QED BY <2>1, GoodWellFormed
<1> QED BY <1>1, BuddyInvariance, PTL DEF Spec
=============================================================================
