----------------------------- MODULE MCRadixWalk -----------------------------
(* Instances of the word-level page table: two entries to a frame, three   *)
(* levels.  Pages 0 and 1 share a region, pages 0 to 3 a level 2 frame.    *)
EXTENDS RadixWalk, TLC
CONSTANTS c1, c2

Together == (c1 :> {0, 2}) @@ (c2 :> {0, 1})
==============================================================================
