----------------------------- MODULE MCPageFault -----------------------------
(* Instances of the page fault path for model checking: which cores run    *)
(* which application, which pages they touch, and the free lists the       *)
(* start-up fragmentation leaves.  A 2MB page has 4 small pages here.      *)
EXTENDS PageFault, TLC
CONSTANTS c1, c2, a1

\* Memory that fragmentation left alone, or cut into blocks below 2MB (two 2MB
\* blocks, or the only one).
Whole == {InitialFreeList}
Fragmented == {Split(Split(InitialFreeList, 2, 1), 2, 1)}
WholeOrFragmented == {InitialFreeList, Split(InitialFreeList, 2, 1)}

\* One core: regions 0 and 1 can be reserved, region 2 falls back to 4KB pages
\* and then to a demotion; with both regions promoted memory is used up.
Alone == c1 :> a1
AloneVpns == c1 :> {0, 1, 2, 4, 5, 8, 9}

\* Two threads of one application: regions they share, and one of their own.
OneApp == (c1 :> a1) @@ (c2 :> a1)
SharedVpns == (c1 :> {0, 1, 2, 4}) @@ (c2 :> {0, 1, 2})
==============================================================================
