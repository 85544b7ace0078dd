-------------------------------- MODULE Buddy --------------------------------
(***************************************************************************)
(* The buddy allocator as a state machine: start-up fragmentation, then    *)
(* any sequence of the calls its clients make (buddy.h).  Clients run      *)
(* under the page fault lock, so a call is one step.                       *)
(***************************************************************************)
EXTENDS BuddyOps

CONSTANT TopBlocks  \* blocks the contiguity metric averages over: 50 in the code
ASSUME TopBlocksAssumption == TopBlocks \in Nat \ {0}

VARIABLES
    free_list,     \* order -> sequence of blocks
    m_free_pages,  \* the free page counter
    frag,          \* the start-up fragmentation: its mode and target, until it returns
    held,          \* pages the clients own (handed out, not given back)
    reservations   \* how many 2MB blocks reserve_2mb_page handed out

vars == <<free_list, m_free_pages, frag, held, reservations>>

-----------------------------------------------------------------------------
\* getAverageSizeRatio() compares the mean size of the largest free blocks with
\* the target, here a number of pages.
LargestSizes(fl) ==
    LET blocks == FlattenSeq([k \in 1..(MaxOrder + 1) |-> fl[k - 1]])
        sizes == SortSeq([j \in DOMAIN blocks |-> BlockSize(blocks[j])],
                         LAMBDA a, b : a > b)
    IN  SubSeq(sizes, 1, Min({TopBlocks, Len(sizes)}))

AverageAbove(fl, target) ==
    LET sizes == LargestSizes(fl)
    IN  MapThenSumSet(LAMBDA j : sizes[j], DOMAIN sizes) > target * Len(sizes)

\* The loops' condition: the metric that frag_type selects, or the count.
AboveTarget(fl, mode, target) ==
    IF mode = "contiguity" THEN AverageAbove(fl, target)
    ELSE LargePages(fl) > target

Returned == [mode |-> "returned", target |-> 0]
Fragmented == frag = Returned

Init ==
    /\ free_list = InitialFreeList
    /\ m_free_pages = TotalPages
    /\ frag \in [mode : {"ratio", "count"}, target : 0..(TotalPages \div HugePages)]
             \cup [mode : {"contiguity"}, target : 0..2^MaxOrder]
    /\ held = {}
    /\ reservations = 0

\* One iteration of fragmentMemory / fragmentMemoryToTargetCount.
FragmentStep ==
    /\ ~Fragmented
    /\ AboveTarget(free_list, frag.mode, frag.target)
    /\ HugeCandidates(free_list) # {}
    /\ LET i == Max(HugeCandidates(free_list))
       IN  \E k \in FragmentOrders(frag.mode, i) :
              free_list' = Split(free_list, i, k)
    /\ UNCHANGED <<m_free_pages, frag, held, reservations>>

\* An iteration of fragmentMemory that finds no block to split.
FragmentIdle ==
    /\ ~Fragmented
    /\ frag.mode # "count"
    /\ AboveTarget(free_list, frag.mode, frag.target)
    /\ HugeCandidates(free_list) = {}
    /\ UNCHANGED vars

\* The loop's exit: the metric is reached, or count mode found no block.
FragmentEnd ==
    /\ ~Fragmented
    /\ \/ ~AboveTarget(free_list, frag.mode, frag.target)
       \/ frag.mode = "count" /\ HugeCandidates(free_list) = {}
    /\ frag' = Returned
    /\ UNCHANGED <<free_list, m_free_pages, held, reservations>>

\* allocate(): the -1 it returns when no list has a block changes nothing.
Allocate(ind) ==
    /\ Fragmented
    /\ Candidates(free_list, ind) # {}
    /\ free_list' = AllocateFrom(free_list, ind)
    /\ m_free_pages' = m_free_pages - 2^ind
    /\ held' = held \cup BlockPages(Block(AllocatedPage(free_list, ind), ind))
    /\ UNCHANGED <<frag, reservations>>

\* reserve_2mb_page(): m_free_pages is not adjusted.
Reserve2MB ==
    /\ Fragmented
    /\ HugeCandidates(free_list) # {}
    /\ free_list' = ReserveFrom(free_list)
    /\ held' = held \cup BlockPages(ReservedBlock(free_list))
    /\ reservations' = reservations + 1
    /\ UNCHANGED <<m_free_pages, frag>>

\* Mutation: checkIfFree() does not count the page it takes.
UncountedPage(page) ==
    /\ Fragmented
    /\ IsFree(free_list, page)
    /\ free_list' = TakePage(free_list, page)
    /\ held' = held \cup {page}
    /\ UNCHANGED <<m_free_pages, frag, reservations>>

\* checkIfFree(page, true) on a page that is free.
CheckIfFree(page) ==
    /\ Fragmented
    /\ IsFree(free_list, page)
    /\ free_list' = TakePage(free_list, page)
    /\ m_free_pages' = m_free_pages - 1
    /\ held' = held \cup {page}
    /\ UNCHANGED <<frag, reservations>>

\* free(start, end) by a client that owns the pages it returns.
Free(start, end) ==
    /\ Fragmented
    /\ start..end \subseteq held
    /\ free_list' = FreeTo(free_list, start, end)
    /\ m_free_pages' = m_free_pages + 2^OrderOf(end - start + 1)
    /\ held' = held \ (start..end)
    /\ UNCHANGED <<frag, reservations>>

\* The clients free single pages, or pairs.
FreeSizes == {1, 2}

Next ==
    \/ FragmentStep
    \/ FragmentIdle
    \/ FragmentEnd
    \/ \E ind \in Orders : Allocate(ind)
    \/ Reserve2MB
    \/ \E page \in Pages : CheckIfFree(page)
    \/ \E start \in Pages, size \in FreeSizes : Free(start, start + size - 1)

Spec == Init /\ [][Next]_vars /\ WF_vars(FragmentStep \/ FragmentEnd)
-----------------------------------------------------------------------------
\* A block on the list of order k has 2^k pages: allocate() asserts it of every
\* half it splits off, and the list a block sits on is all the code looks at.
Sized == \A k \in Orders : \A b \in ToSet(free_list[k]) : BlockSize(b) = 2^k

Index == UNION {{k} \X DOMAIN free_list[k] : k \in Orders}
BlockAt(x) == free_list[x[1]][x[2]]

\* No page is in two free blocks, whatever sequence of splits, reservations,
\* single-page grabs and frees came before; otherwise it is handed out twice.
Disjoint ==
    \A x, y \in Index :
        x # y => BlockPages(BlockAt(x)) \cap BlockPages(BlockAt(y)) = {}

\* The counter is exact but for the 2MB reservations it never sees: it exceeds
\* the number of free pages by 2MB for each of them.
CountDrift ==
    m_free_pages = Cardinality(FreePages(free_list)) + HugePages * reservations

\* Start-up fragmentation returns, but for one case: with the contiguity metric
\* and a target below the mean that is left once no 2MB block can be cut, the
\* loop has nothing more to do and no way out (the count loop has its break).
Terminates ==
    <>(\/ Fragmented
       \/ frag.mode = "contiguity" /\ HugeCandidates(free_list) = {})

\* The allocator keeps the promise of FrameAllocator: fragmentation moves no
\* page, nothing owned is handed out again, nothing is lost, and a reserved 2MB
\* block is a contiguous, aligned frame.
Promise == INSTANCE FrameAllocator WITH free <- FreePages(free_list)
KeepsPromise == Promise!Spec

\* Count mode fragments "until exactly the specified number of 2MB pages remain
\* free" (fragmentMemoryToTargetCount), if there were as many to begin with.
LeavesExactly ==
    [][frag.mode = "count" /\ Fragmented' /\ LargePages(InitialFreeList) >= frag.target
         => LargePages(free_list) = frag.target]_vars
==============================================================================
