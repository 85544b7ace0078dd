--------------------------- MODULE FrameAllocator ----------------------------
(***************************************************************************)
(* What an allocator of physical pages promises to the memory manager:     *)
(* every page is either free or owned by a client; an allocation hands out *)
(* a contiguous run of a power of two of pages that nobody owned, aligned  *)
(* if it is large enough to back a 2MB page; and pages come back only from *)
(* the clients that own them.                                              *)
(***************************************************************************)
EXTENDS Integers

CONSTANTS Pages, MaxOrder, HugeOrder, KernelPages
VARIABLES free, held

allocatorVars == <<free, held>>

Run(start, k) == start .. (start + 2^k - 1)

Init == free = Pages /\ held = {}

Take(run) ==
    /\ run \subseteq free
    /\ free' = free \ run
    /\ held' = held \cup run

\* A run of 2MB or more starts at a multiple of its size from the first managed
\* page; smaller ones may start anywhere.
TakeRun ==
    \E start \in Pages, k \in 0..MaxOrder :
        /\ k >= HugeOrder => (start - KernelPages) % 2^k = 0
        /\ Take(Run(start, k))

Give ==
    \E start, end \in Pages :
        /\ start..end \subseteq held
        /\ free' = free \cup (start..end)
        /\ held' = held \ (start..end)

Next == TakeRun \/ Give

Spec == Init /\ [][Next]_allocatorVars
==============================================================================
