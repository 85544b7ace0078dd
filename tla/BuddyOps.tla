------------------------------ MODULE BuddyOps -------------------------------
(***************************************************************************)
(* The buddy allocator of physical pages (buddy.h).  Every allocator of    *)
(* MimicOS owns one.  It keeps one vector of free blocks per order; a      *)
(* block is a pair of inclusive page numbers.  There is no coalescing:     *)
(* blocks are split and handed out, and free() pushes back exactly the     *)
(* range it is given.                                                      *)
(*                                                                         *)
(* The operations are operators on a free list, so that the state machine  *)
(* of the allocator itself (Buddy) and the allocators built on it          *)
(* (ReserveTHP) share them.                                                *)
(***************************************************************************)
EXTENDS Integers, Sequences, FiniteSets, SequencesExt

CONSTANTS
    MaxOrder,      \* m_max_order
    HugeOrder,     \* order of a 2MB block: the literal 9 of the code
    KernelPages,   \* first page of the managed memory (kernel_size)
    MemoryPages    \* one past its last page (memory_size)

Orders == 0..MaxOrder
TotalPages == MemoryPages - KernelPages
Pages == KernelPages..(MemoryPages - 1)
HugePages == 2^HugeOrder

ASSUME BuddyAssumption ==
    /\ MaxOrder \in Nat /\ HugeOrder \in 2..MaxOrder
    /\ KernelPages \in Nat /\ MemoryPages \in Nat
    /\ KernelPages <= MemoryPages

\* What the proofs need of powers: the provers know none of these facts.
ASSUME PowersOfTwo ==
    /\ 2^0 = 1
    /\ HugePages^1 = HugePages
    /\ \A k \in Orders : 2^k \in Nat \ {0} /\ 2^(k + 1) = 2 * 2^k
    /\ \A j, k \in Orders : j < k => 2^(j + 1) <= 2^k

Block(start, k) == [start |-> start, end |-> start + 2^k - 1]
BlockPages(b) == b.start .. b.end
BlockSize(b) == b.end - b.start + 1

FreePages(fl) ==
    UNION {BlockPages(b) : b \in UNION {ToSet(fl[k]) : k \in Orders}}

\* Lists of blocks that have the size of their order and share no page, the ones
\* of 2MB or more aligned to their size.
WellFormed(fl) ==
    /\ fl \in [Orders -> Seq([start : Pages, end : Pages])]
    /\ \A k \in Orders : \A i \in DOMAIN fl[k] :
          /\ BlockSize(fl[k][i]) = 2^k
          /\ k >= HugeOrder => (fl[k][i].start - KernelPages) % 2^k = 0
          /\ \A l \in Orders : \A j \in DOMAIN fl[l] :
                k # l \/ i # j => BlockPages(fl[k][i]) \cap BlockPages(fl[l][j]) = {}

(***************************************************************************)
(* The constructor's fill loop: as many maximal blocks as fit, then one    *)
(* block for each lower order that the remainder still has room for.       *)
(***************************************************************************)
InitialFreeList ==
    [k \in Orders |->
        IF k = MaxOrder
        THEN [j \in 1..(TotalPages \div 2^k) |->
                Block(KernelPages + (j - 1) * 2^k, k)]
        ELSE IF (TotalPages \div 2^k) % 2 = 1
        THEN <<Block(KernelPages + (TotalPages \div 2^(k + 1)) * 2^(k + 1), k)>>
        ELSE <<>>]

(***************************************************************************)
(* allocate(bytes) for a request of order ind.  The last block of the      *)
(* first non-empty list is taken; each split keeps the upper half and      *)
(* pushes the lower half one order down, so the page returned is the       *)
(* start of the topmost piece.                                             *)
(***************************************************************************)
Candidates(fl, ind) == {i \in ind..MaxOrder : fl[i] # <<>>}

AllocatedPage(fl, ind) ==
    LET i == Min(Candidates(fl, ind))
    IN  Last(fl[i]).start + 2^i - 2^ind

\* Mutation: the halves of a split share the page in the middle.
SharedMiddle(fl, ind) ==
    LET i == Min(Candidates(fl, ind))
        top == Last(fl[i]).start + 2^i
    IN  [k \in Orders |->
            IF k = i THEN Front(fl[k])
            ELSE IF k \in ind..(i - 1)
            THEN Append(fl[k], [start |-> top - 2^(k + 1), end |-> top - 2^k])
            ELSE fl[k]]

AllocateFrom(fl, ind) ==
    LET i == Min(Candidates(fl, ind))
        top == Last(fl[i]).start + 2^i
    IN  [k \in Orders |->
            IF k = i THEN Front(fl[k])
            ELSE IF k \in ind..(i - 1) THEN Append(fl[k], Block(top - 2^(k + 1), k))
            ELSE fl[k]]

(***************************************************************************)
(* reserve_2mb_page(): the last 2MB block, or else the FIRST block of the  *)
(* lowest larger order, cut into 2MB chunks of which the last is taken.    *)
(***************************************************************************)
\* Mutation: the loop over the chunks stops one short.
LastChunkLost(b, k) ==
    [j \in 1..(BlockSize(b) \div 2^k - 1) |-> Block(b.start + (j - 1) * 2^k, k)]

Chunks(b, k) ==
    [j \in 1..(BlockSize(b) \div 2^k) |-> Block(b.start + (j - 1) * 2^k, k)]

HugeCandidates(fl) == {i \in HugeOrder..MaxOrder : fl[i] # <<>>}

\* Mutation: the larger block is not erased from its list.
KeepsLargerBlock(fl) ==
    LET i == Min(HugeCandidates(fl))
    IN  IF i = HugeOrder THEN fl
        ELSE [fl EXCEPT ![HugeOrder] = @ \o Chunks(Head(fl[i]), HugeOrder)]

WithHugeBlock(fl) ==
    LET i == Min(HugeCandidates(fl))
    IN  IF i = HugeOrder THEN fl
        ELSE [fl EXCEPT ![i] = Tail(@),
                        ![HugeOrder] = @ \o Chunks(Head(fl[i]), HugeOrder)]

ReservedBlock(fl) == Last(WithHugeBlock(fl)[HugeOrder])
\* Mutation: the 2MB block is not popped.
NotPopped(fl) == WithHugeBlock(fl)
ReserveFrom(fl) == [WithHugeBlock(fl) EXCEPT ![HugeOrder] = Front(@)]

(***************************************************************************)
(* free(start, end): pushes the range onto the list of order               *)
(* ceil(log2(end - start + 1)).                                            *)
(***************************************************************************)
OrderOf(size) == Min({k \in 0..size : size <= 2^k})

FreeTo(fl, start, end) ==
    [fl EXCEPT ![OrderOf(end - start + 1)] =
        Append(@, [start |-> start, end |-> end])]

(***************************************************************************)
(* checkIfFree(page, allocate): the first block, by order and then by      *)
(* position, that contains the page.  Allocating it splits that block down *)
(* to the single page and pushes, at every order, the half without it.     *)
(***************************************************************************)
IsFree(fl, page) == page \in FreePages(fl)

Sibling(b, page, k) ==
    LET q == (page - b.start) \div 2^k
    IN  Block(b.start + (IF q % 2 = 0 THEN q + 1 ELSE q - 1) * 2^k, k)

TakePage(fl, page) ==
    LET Covers(b) == page \in BlockPages(b)
        i == Min({k \in Orders : \E b \in ToSet(fl[k]) : Covers(b)})
        j == Min({n \in DOMAIN fl[i] : Covers(fl[i][n])})
    IN  [k \in Orders |->
            IF k = i THEN RemoveAt(fl[k], j)
            ELSE IF k < i THEN Append(fl[k], Sibling(fl[i][j], page, k))
            ELSE fl[k]]

(***************************************************************************)
(* Fragmentation, run by MimicOS right after construction.  The loop takes *)
(* the FIRST block of the highest non-empty order down to 2MB and cuts it  *)
(* into blocks of a random lower order (fragmentMemory, for either metric) *)
(* or into 1MB blocks (count mode) until the metric, or the number of 2MB  *)
(* pages, is low enough.  The ratio of the configuration is represented by *)
(* the number of 2MB pages it stands for.                                  *)
(***************************************************************************)
LargePages(fl) ==
    MapThenSumSet(
        LAMBDA k : MapThenSumSet(LAMBDA j : BlockSize(fl[k][j]) \div HugePages,
                                 DOMAIN fl[k]),
        Orders)

\* Mutation: the random order may be that of the block itself.
SameOrder(mode, i) ==
    IF mode = "count" THEN {HugeOrder - 1} ELSE (HugeOrder - 1)..i

FragmentOrders(mode, i) ==
    IF mode = "count" THEN {HugeOrder - 1} ELSE (HugeOrder - 1)..(i - 1)

Split(fl, i, k) ==
    [fl EXCEPT ![i] = Tail(@), ![k] = @ \o Chunks(Head(fl[i]), k)]
==============================================================================
