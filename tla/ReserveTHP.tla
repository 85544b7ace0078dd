------------------------------ MODULE ReserveTHP -----------------------------
(***************************************************************************)
(* ReservationTHPAllocator (reserve_thp.h): on the first fault in a 2MB    *)
(* region of the virtual address space it tries to reserve a whole 2MB     *)
(* block, hands out its 4KB pages one by one, and promotes the region to a *)
(* 2MB page once enough of it is used.  Without a block it falls back to   *)
(* 4KB pages of the buddy allocator, and when those run out it demotes the *)
(* least used reserved region.                                             *)
(*                                                                         *)
(* Allocate(vpn) is one call of allocate(); the pair it returns is left in *)
(* result.  The counter of free pages is left out (Buddy models it), and   *)
(* so are the statistics but one.  The allocator is keyed by virtual       *)
(* region only, whatever the application that faults.                      *)
(***************************************************************************)
EXTENDS BuddyOps

CONSTANT PromoteAbove  \* threshold_for_promotion, as a number of 4KB pages

ASSUME PromoteAssumption == PromoteAbove \in Nat

VARIABLES
    free_list,         \* the buddy allocator's lists
    two_mb_map,        \* region -> [base, bits, promoted], a partial function
    demoted,           \* whether any region was demoted (stats.two_mb_demoted > 0)
    result,            \* the pair the last call returned: [ppn, size]
    aborted            \* which assert ended the simulation, or "no"

allocVars == <<free_list, two_mb_map, demoted, result, aborted>>

Put(f, x, y) == [z \in DOMAIN f \cup {x} |-> IF z = x THEN y ELSE f[z]]
Drop(f, S) == [z \in DOMAIN f \ S |-> f[z]]

NoPage == -1
Page(ppn, size) == [ppn |-> ppn, size |-> size]
Offsets == 0..(HugePages - 1)
Region(vpn) == vpn \div HugePages
Offset(vpn) == vpn % HugePages

Reserved == DOMAIN two_mb_map
Unpromoted == {r \in Reserved : ~two_mb_map[r].promoted}

-----------------------------------------------------------------------------
(***************************************************************************)
(* checkFor2MBAllocation.  A region is reserved on demand; its page is     *)
(* marked used, and the call that pushes the use above the threshold       *)
(* returns the base of the region with page size 21.                       *)
(***************************************************************************)
CanReserve(vpn) == Region(vpn) \in Reserved \/ HugeCandidates(free_list) # {}

WithReservation(vpn) ==
    IF Region(vpn) \in Reserved THEN two_mb_map
    ELSE Put(two_mb_map, Region(vpn),
             [base |-> ReservedBlock(free_list).start, bits |-> {}, promoted |-> FALSE])

\* Mutations: promotion returns the page within the region, not its base; the
\* pages of a region are handed out in the order of the faults.
PromotesOffset(base, bits, vpn) ==
    Page(base + Offset(vpn), IF Cardinality(bits) > PromoteAbove THEN 21 ELSE 12)
NextInRegion(base, bits, vpn) ==
    IF Cardinality(bits) > PromoteAbove THEN Page(base, 21)
    ELSE Page(base + Cardinality(bits) - 1, 12)

Handout(base, bits, vpn) ==
    IF Cardinality(bits) > PromoteAbove THEN Page(base, 21)
    ELSE Page(base + Offset(vpn), 12)

UseRegion(vpn) ==
    /\ CanReserve(vpn)
    /\ LET map == WithReservation(vpn)
           r == Region(vpn)
           bits == map[r].bits \cup {Offset(vpn)}
       IN  /\ ~map[r].promoted
           /\ two_mb_map' =
                Put(map, r, [base |-> map[r].base, bits |-> bits,
                             promoted |-> Cardinality(bits) > PromoteAbove])
           /\ result' = Handout(map[r].base, bits, vpn)
    /\ free_list' = IF Region(vpn) \in Reserved THEN free_list
                    ELSE ReserveFrom(free_list)
    /\ UNCHANGED <<demoted, aborted>>

\* Mutation: without the assertion, the 4KB page within the region.
ServesPromoted(vpn) ==
    /\ Region(vpn) \in Reserved
    /\ two_mb_map[Region(vpn)].promoted
    /\ result' = Page(two_mb_map[Region(vpn)].base + Offset(vpn), 12)
    /\ UNCHANGED <<free_list, two_mb_map, demoted, aborted>>

\* assert(false): a fault in a region that is already promoted.
FaultInPromoted(vpn) ==
    /\ Region(vpn) \in Reserved
    /\ two_mb_map[Region(vpn)].promoted
    /\ result' = Page(NoPage, 12)
    /\ aborted' = "promoted"
    /\ UNCHANGED <<free_list, two_mb_map, demoted>>

\* The 4KB fallback.
Fallback(vpn) ==
    /\ ~CanReserve(vpn)
    /\ Candidates(free_list, 0) # {}
    /\ result' = Page(AllocatedPage(free_list, 0), 12)
    /\ free_list' = AllocateFrom(free_list, 0)
    /\ UNCHANGED <<two_mb_map, demoted, aborted>>

(***************************************************************************)
(* demote_page and the retry.  Any region of least use may be first after  *)
(* the sort.  For each unused offset j the pair (j, j + 1) is freed: the   *)
(* end of free()'s range is inclusive.  The retry's result is returned     *)
(* whatever it is.                                                         *)
(***************************************************************************)
LeastUsed ==
    {r \in Unpromoted : \A q \in Unpromoted :
        Cardinality(two_mb_map[r].bits) <= Cardinality(two_mb_map[q].bits)}

\* Mutation: the region leaves the map, but its unused pages are not freed.
NothingFreed(fl, region) == fl

FreedUnused(fl, region) ==
    LET freed[j \in 0..HugePages] ==
            IF j = 0 THEN fl
            ELSE IF j - 1 \in region.bits THEN freed[j - 1]
            ELSE FreeTo(freed[j - 1], region.base + (j - 1), region.base + j)
    IN  freed[HugePages]

DemoteAndRetry(vpn) ==
    /\ ~CanReserve(vpn)
    /\ Candidates(free_list, 0) = {}
    /\ \E r \in LeastUsed :
        LET fl == FreedUnused(free_list, two_mb_map[r])
        IN  /\ two_mb_map' = Drop(two_mb_map, {r})
            /\ IF Candidates(fl, 0) = {}
               THEN result' = Page(NoPage, 12) /\ free_list' = fl
               ELSE /\ result' = Page(AllocatedPage(fl, 0), 12)
                    /\ free_list' = AllocateFrom(fl, 0)
    /\ demoted' = TRUE
    /\ UNCHANGED aborted

\* assert(false): nothing left to demote.
OutOfMemory(vpn) ==
    /\ ~CanReserve(vpn)
    /\ Candidates(free_list, 0) = {}
    /\ Unpromoted = {}
    /\ result' = Page(NoPage, 12)
    /\ aborted' = "oom"
    /\ UNCHANGED <<free_list, two_mb_map, demoted>>

Allocate(vpn) ==
    \/ UseRegion(vpn)
    \/ FaultInPromoted(vpn)
    \/ Fallback(vpn)
    \/ DemoteAndRetry(vpn)
    \/ OutOfMemory(vpn)
==============================================================================
