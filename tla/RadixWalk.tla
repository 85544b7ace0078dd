------------------------------ MODULE RadixWalk ------------------------------
(***************************************************************************)
(* One radix page table at the grain of memory words                       *)
(* (pagetable_radix.cc).  initializeWalk reads it without a lock while the *)
(* handler of another thread of the application runs updatePageTableFrames *)
(* under the page fault lock, so the loads of the walk fall between the    *)
(* stores of the update.                                                   *)
(*                                                                         *)
(* Neither side uses atomics.  Calls that the compiler cannot see into     *)
(* (new, the logger) separate a new frame from the entry written last; the *)
(* stores between two such calls may reach memory in any order (Reorders), *)
(* and are kept in pending until they do.                                  *)
(*                                                                         *)
(* A word of memory is the set of values a load of it may yield: one value *)
(* once it is written, several while it is what new left there.  Page v of *)
(* the virtual address space is backed by physical page v: a reserved      *)
(* region always hands out the same page for the same address.             *)
(***************************************************************************)
EXTENDS Integers, FiniteSets

CONSTANTS
    Cores,         \* threads of the application
    VpnsOf,        \* core -> the virtual pages it touches
    Levels,        \* levels of the tree
    Fan,           \* entries of a frame (512 in the code)
    Thresholds,    \* the promotion thresholds a configuration may give, in pages
    Reorders       \* whether the build reorders plain stores

ASSUME RadixAssumption ==
    /\ Levels \in Nat /\ Levels >= 2 /\ Fan \in Nat \ {0} /\ Thresholds \subseteq Nat
    /\ Reorders \in BOOLEAN
    /\ \A c \in Cores : VpnsOf[c] \subseteq 0..(Fan^Levels - 1)

\* What the proofs need of powers: the provers know none of these facts.
ASSUME PowersOfFan ==
    /\ Fan^0 = 1
    /\ \A l \in 0..Levels : Fan^l \in Nat \ {0} /\ Fan^(l + 1) = Fan * Fan^l

VARIABLES
    pc,        \* core -> "idle", a load of its walk, "fault", "update", or its end
    walk,      \* core -> the walk in progress, or the last one
    requested, \* core -> frames its last walk asked for
    heap,      \* frame -> index -> [is_pte, word, ppn]
    up,        \* the update in progress: [level, frame, parent, size, used, done]
    pending,   \* stores of the update that have not reached memory
    threshold, \* used pages above which a region becomes a 2MB page
    in_use,    \* pages the allocator has handed out (the bitsets of its regions)
    mapped     \* pages whose update has ended

vars == <<pc, walk, requested, heap, up, pending, threshold, in_use, mapped>>
tableVars == <<heap, up, pending>>
osVars == <<threshold, in_use, mapped>>

Vpns == UNION {VpnsOf[c] : c \in Cores}
NoPage == -1
Indices == 0..(Fan - 1)
Index(vpn, level) == (vpn \div Fan^(level - 1)) % Fan
RegionOf(vpn) == {v \in Vpns : v \div Fan = vpn \div Fan}

(***************************************************************************)
(* The union of a PTEntry.  Its first word is a pointer or, in its lowest  *)
(* byte, the valid flag; pointers to frames are numbers from 2.  Setting   *)
(* the flag over a pointer leaves a word that is no pointer any more.      *)
(***************************************************************************)
Null == 0
Root == 2
Pointers == Root..(Root + Cardinality(DOMAIN heap))
Flagged(word) == IF word <= 1 THEN (IF word = Null THEN 1 ELSE word) ELSE -word
\* What the lowest byte reads as: for a pointer, anything.
ReadsValid(word) == IF word = Null THEN {FALSE} ELSE IF word <= 1 THEN {TRUE} ELSE BOOLEAN

Uninitialized == [is_pte |-> {0, 1}, word |-> {Null, -1}, ppn |-> {NoPage}]
EmptyEntry == [is_pte |-> {0}, word |-> {Null}, ppn |-> {NoPage}]

\* The nth store since the last opaque call.
StoreTo(n, f, i, field, value) ==
    [nth |-> n, frame |-> f, index |-> i, field |-> field, value |-> value]

Stored(e, s) ==
    CASE s.field = "is_pte" -> [e EXCEPT !.is_pte = {s.value}]
      [] s.field = "next_level" -> [e EXCEPT !.word = {s.value}]
      [] s.field = "valid" -> [e EXCEPT !.word = {Flagged(x) : x \in @}]
      [] s.field = "ppn" -> [e EXCEPT !.ppn = {s.value}]

NoWalk == [vpn |-> NoPage, level |-> 0, frame |-> Null, is_pte |-> 0, page |-> NoPage,
           sure |-> FALSE, quiet |-> FALSE]
\* The walk w has ended with the given physical page.
Ended(w, page) == [w EXCEPT !.level = 0, !.frame = Null, !.is_pte = 0, !.page = page]
NoUpdate == [level |-> 0, frame |-> Null, parent |-> Null, size |-> 12, used |-> 0,
             done |-> FALSE]
-----------------------------------------------------------------------------
Init ==
    /\ pc = [c \in Cores |-> "idle"]
    /\ walk = [c \in Cores |-> NoWalk]
    /\ requested = [c \in Cores |-> 0]
    /\ heap = [f \in {Root} |-> [i \in Indices |-> EmptyEntry]]
    /\ up = NoUpdate
    /\ pending = {}
    /\ threshold \in Thresholds
    /\ in_use = {}
    /\ mapped = {}

Locked == \E c \in Cores : pc[c] = "update"

\* A walk starts at the root.  For the properties, sure records that the page was
\* mapped by then, and quiet that no update has run since.
FromRoot(vpn, sure, quiet) ==
    [vpn |-> vpn, level |-> Levels, frame |-> Root, is_pte |-> 0, page |-> NoPage,
     sure |-> sure, quiet |-> quiet]

StartWalk(c, vpn) ==
    /\ pc[c] = "idle"
    /\ walk' = [walk EXCEPT ![c] = FromRoot(vpn, vpn \in mapped, ~Locked)]
    /\ pc' = [pc EXCEPT ![c] = "is_pte"]
    /\ UNCHANGED <<requested, tableVars, osVars>>

EntryOf(c) == heap[walk[c].frame][Index(walk[c].vpn, walk[c].level)]

LoadIsPte(c) ==
    /\ pc[c] = "is_pte"
    /\ \E b \in EntryOf(c).is_pte : walk' = [walk EXCEPT ![c].is_pte = b]
    /\ pc' = [pc EXCEPT ![c] = "word"]
    /\ UNCHANGED <<requested, tableVars, osVars>>

\* A valid entry: its page number is loaded next.
LoadValid(c) ==
    /\ pc[c] = "word" /\ walk[c].is_pte = 1
    /\ \E x \in EntryOf(c).word : TRUE \in ReadsValid(x)
    /\ pc' = [pc EXCEPT ![c] = "ppn"]
    /\ UNCHANGED <<walk, requested, tableVars, osVars>>

\* Mutation: the frame missing first is not counted.
FramesBelowNext(level) == level - 2
\* One frame for each level below the one the walk stopped at.
FramesBelow(level) == level - 1

\* An invalid entry or a missing frame: a fault.
LoadFault(c) ==
    /\ pc[c] = "word"
    /\ \E x \in EntryOf(c).word :
          IF walk[c].is_pte = 1 THEN FALSE \in ReadsValid(x) ELSE x = Null
    /\ requested' = [requested EXCEPT ![c] = FramesBelow(walk[c].level)]
    /\ pc' = [pc EXCEPT ![c] = "fault"]
    /\ UNCHANGED <<walk, tableVars, osVars>>

\* The next level.  Below level 1 the loop ends with no page number; a word that
\* is no pointer to a frame ends the simulator.
LoadLink(c) ==
    /\ pc[c] = "word" /\ walk[c].is_pte = 0
    /\ \E x \in EntryOf(c).word \ {Null} :
        \/ /\ walk[c].level > 1 /\ x \in Pointers
           /\ walk' = [walk EXCEPT ![c].frame = x, ![c].level = @ - 1]
           /\ pc' = [pc EXCEPT ![c] = "is_pte"]
        \/ /\ walk[c].level = 1 \/ x \notin Pointers
           /\ walk' = [walk EXCEPT ![c] = Ended(@, NoPage)]
           /\ pc' = [pc EXCEPT ![c] = IF walk[c].level = 1 THEN "idle" ELSE "dead"]
    /\ UNCHANGED <<requested, tableVars, osVars>>

\* Mutation: the page size of the level above.
PhysicalPageAbove(p, w) == IF p = NoPage THEN NoPage ELSE p + (w.vpn % Fan^w.level)
\* The physical page of the address, for an entry of the walk's level.
PhysicalPage(p, w) == IF p = NoPage THEN NoPage ELSE p + (w.vpn % Fan^(w.level - 1))

LoadPpn(c) ==
    /\ pc[c] = "ppn"
    /\ \E p \in EntryOf(c).ppn :
          walk' = [walk EXCEPT ![c] = Ended(@, PhysicalPage(p, @))]
    /\ pc' = [pc EXCEPT ![c] = "idle"]
    /\ UNCHANGED <<requested, tableVars, osVars>>
-----------------------------------------------------------------------------
(***************************************************************************)
(* The handler takes the lock and the page, then descends from the root.   *)
(***************************************************************************)
UsedIn(vpn) == in_use \cap RegionOf(vpn)

HandleFault(c) ==
    LET vpn == walk[c].vpn
    IN  /\ pc[c] = "fault"
        /\ ~Locked
        /\ Cardinality(UsedIn(vpn)) <= threshold
        /\ in_use' = in_use \cup {vpn}
        /\ up' = [NoUpdate EXCEPT !.level = Levels, !.frame = Root,
                    !.size = IF Cardinality(UsedIn(vpn) \cup {vpn}) > threshold
                             THEN 21 ELSE 12]
        /\ walk' = [d \in Cores |-> IF pc[d] = "idle" THEN walk[d]
                                   ELSE [walk[d] EXCEPT !.quiet = FALSE]]
        /\ pc' = [pc EXCEPT ![c] = "update"]
        /\ UNCHANGED <<requested, heap, pending, threshold, mapped>>

\* The allocator's assertion: a fault in a region it has promoted.
PromotedFault(c) ==
    /\ pc[c] = "fault"
    /\ ~Locked
    /\ Cardinality(UsedIn(walk[c].vpn)) > threshold
    /\ pc' = [pc EXCEPT ![c] = "assert"]
    /\ UNCHANGED <<walk, requested, tableVars, osVars>>

\* Mutation: the loop over the entries stops one short.
InitAllButLast(f, level) ==
    UNION {{StoreTo(2 * i + 2, f, i, "is_pte", IF level = 1 THEN 1 ELSE 0),
            StoreTo(2 * i + 3, f, i, "next_level", Null)} : i \in 0..(Fan - 2)}
InitStores(f, level) ==
    UNION {{StoreTo(2 * i + 2, f, i, "is_pte", IF level = 1 THEN 1 ELSE 0),
            StoreTo(2 * i + 3, f, i, "next_level", Null)} : i \in Indices}

\* A frame is missing: a new one is linked into its parent and initialised.
NewFrame(c) ==
    LET f == Root + Cardinality(DOMAIN heap)
    IN  /\ pc[c] = "update" /\ pending = {} /\ up.frame = Null
        /\ up.used < requested[c]
        /\ heap' = [g \in DOMAIN heap \cup {f} |->
                      IF g = f THEN [i \in Indices |-> Uninitialized] ELSE heap[g]]
        /\ pending' = {StoreTo(1, up.parent, Index(walk[c].vpn, up.level + 1),
                               "next_level", f)} \cup InitStores(f, up.level)
        /\ up' = [up EXCEPT !.frame = f, !.used = @ + 1]
        /\ UNCHANGED <<pc, walk, requested, osVars>>

AtTarget == up.level = IF up.size = 21 THEN 2 ELSE 1

Descend(c) ==
    /\ pc[c] = "update" /\ pending = {} /\ up.frame # Null /\ ~AtTarget
    /\ \E x \in heap[up.frame][Index(walk[c].vpn, up.level)].word :
          up' = [up EXCEPT !.frame = x, !.parent = up.frame, !.level = @ - 1]
    /\ UNCHANGED <<pc, walk, requested, heap, pending, osVars>>

\* Mutation: the old entry is taken down before the new one is written.
BreaksEntry(f, i, ppn) ==
    {StoreTo(1, f, i, "next_level", Null), StoreTo(2, f, i, "valid", 1),
     StoreTo(3, f, i, "ppn", ppn), StoreTo(4, f, i, "is_pte", 1)}
EntryStores(f, i, ppn) ==
    {StoreTo(1, f, i, "valid", 1), StoreTo(2, f, i, "ppn", ppn),
     StoreTo(3, f, i, "is_pte", 1)}

SetEntry(c) ==
    LET base == walk[c].vpn - (walk[c].vpn % Fan)
    IN  /\ pc[c] = "update" /\ pending = {} /\ up.frame # Null /\ AtTarget /\ ~up.done
        /\ pending' = EntryStores(up.frame, Index(walk[c].vpn, up.level),
                                  IF up.size = 21 THEN base ELSE walk[c].vpn)
        /\ up' = [up EXCEPT !.done = TRUE]
        /\ UNCHANGED <<pc, walk, requested, heap, osVars>>

\* A store of the update reaches memory.
Store(c) ==
    /\ pc[c] = "update"
    /\ \E s \in pending :
        /\ Reorders \/ \A t \in pending : s.nth <= t.nth
        /\ heap' = [heap EXCEPT ![s.frame][s.index] = Stored(@, s)]
        /\ pending' = pending \ {s}
    /\ UNCHANGED <<pc, walk, requested, up, osVars>>

\* The lock is released and the walk is done again.
EndUpdate(c) ==
    /\ pc[c] = "update" /\ pending = {} /\ up.done
    /\ up' = NoUpdate
    /\ mapped' = mapped \cup IF up.size = 21 THEN RegionOf(walk[c].vpn) ELSE {walk[c].vpn}
    /\ walk' = [walk EXCEPT ![c] = FromRoot(@.vpn, TRUE, TRUE)]
    /\ pc' = [pc EXCEPT ![c] = "is_pte"]
    /\ UNCHANGED <<requested, heap, pending, threshold, in_use>>

Step(c) ==
    \/ \E vpn \in VpnsOf[c] : StartWalk(c, vpn)
    \/ LoadIsPte(c) \/ LoadValid(c) \/ LoadFault(c) \/ LoadLink(c) \/ LoadPpn(c)
    \/ HandleFault(c) \/ PromotedFault(c)
    \/ NewFrame(c) \/ Descend(c) \/ SetEntry(c) \/ Store(c) \/ EndUpdate(c)

Stopped == \E c \in Cores : pc[c] \in {"dead", "assert"}

Next == ~Stopped /\ \E c \in Cores : Step(c)

Spec == Init /\ [][Next]_vars
-----------------------------------------------------------------------------
\* The assertion in updatePageTableFrames: a torn walk may misread entries, but
\* never asks for fewer frames than the update needs.
RequestSuffices ==
    \A c \in Cores : pc[c] = "update" /\ pending = {} /\ up.frame = Null =>
        up.used < requested[c]

\* The frame of each level on the path to vpn, and Null below a missing one.
Path(vpn) ==
    LET F[l \in 1..Levels] ==
          IF l = Levels THEN Root
          ELSE LET e == heap[F[l + 1]][Index(vpn, l + 1)]
               IN  IF F[l + 1] # Null /\ e.is_pte = {0} /\ e.word \subseteq Pointers
                   THEN CHOOSE x \in e.word : TRUE ELSE Null
    IN  F

\* With the lock free every word a walk can read is initialised, and each page
\* whose fault was handled is found, by a 4KB or a 2MB entry.
QuietTable ==
    ~Locked =>
        /\ \A f \in DOMAIN heap, i \in Indices :
              Cardinality(heap[f][i].is_pte) = 1 /\ Cardinality(heap[f][i].word) = 1
        /\ \A v \in mapped : \E l \in {1, 2} :
              LET f == Path(v)[l]
                  e == heap[f][Index(v, l)]
              IN  /\ f # Null /\ e.is_pte = {1}
                  /\ \A x \in e.word : ReadsValid(x) = {TRUE}
                  /\ e.ppn = {v - (v % Fan^(l - 1))}

\* A page that was mapped when the walk started is found, whatever updates of
\* other pages, or of the same one again, write meanwhile, where promotion never
\* replaces a link to a level 1 frame: regions are promoted on the first touch
\* (the shipped threshold 0), or never.  With a threshold in between a walk can
\* follow a link that a promotion is overwriting.
EstablishedKeptWhileLinksStay ==
    threshold = 0 \/ threshold >= Fan =>
        \A c \in Cores : walk[c].sure =>
            /\ pc[c] # "fault"
            /\ pc[c] \in {"idle", "dead"} => walk[c].page = walk[c].vpn

\* The mmu.cc sanity check "Same VA should always map to same PA" of the walk's
\* result, for a walk during which no update ran, whatever torn walks led to the
\* updates before it.  A walk during an update may enter a frame that is linked
\* but not yet initialised.
QuietWalkReturnsMapping ==
    \A c \in Cores : walk[c].quiet /\ pc[c] \in {"idle", "dead"} =>
        walk[c].page = walk[c].vpn
==============================================================================
