------------------------------- MODULE MCBuddy -------------------------------
(* Bounds the buddy allocator for model checking.                          *)
EXTENDS Buddy
CONSTANT MaxBlocks
\* Bound: once a client owns a page, states with more free blocks than this
\* are not explored further.
FewBlocks ==
    held # {} => MapThenSumSet(LAMBDA k : Len(free_list[k]), Orders) <= MaxBlocks
==============================================================================
