------------------------------ MODULE PageFault ------------------------------
(***************************************************************************)
(* Address translation with page faults handled inside the simulator       *)
(* (sniper-space mode).  Every simulated core runs in a host thread of its *)
(* own: it looks up its TLBs, walks the radix page table of its            *)
(* application WITHOUT a lock, and on a fault calls the exception handler  *)
(* with the number of page table frames that walk found missing.  The      *)
(* handler serialises on one global spin lock, but does not walk again     *)
(* once it holds the lock.                                                 *)
(*                                                                         *)
(* A walk and an update of the tables are one step each here: the          *)
(* word-by-word race between them is not part of this module.              *)
(***************************************************************************)
EXTENDS ReserveTHP

CONSTANTS
    Cores,        \* simulated cores
    AppOf,        \* core -> the application its thread belongs to
    VpnsOf,       \* core -> the virtual pages it touches
    Levels,       \* levels of the radix tree (4 in the code)
    TlbEntries,   \* translations a core can cache, over its TLB hierarchy
    StartLists,   \* free lists the start-up fragmentation may leave
    NoCore

Apps == {AppOf[c] : c \in Cores}
Vpns == UNION {VpnsOf[c] : c \in Cores}

ASSUME PageFaultAssumption ==
    /\ Levels \in Nat /\ Levels >= 2
    /\ TlbEntries \in Nat \ {0}
    /\ NoCore \notin Cores
    /\ \A c \in Cores : VpnsOf[c] \subseteq Nat

\* Fragmentation moves blocks between lists and loses no page.
ASSUME StartAssumption == \A fl \in StartLists : WellFormed(fl) /\ FreePages(fl) = Pages

VARIABLES
    pc,           \* core -> where it is in performAddressTranslation
    access,       \* core -> the virtual page it translates, NoPage when idle
    requested,    \* core -> requested_frames of its last walk
    lock,         \* s_page_fault_lock
    nodes,        \* page table frames below the roots: node -> emulated_ppn
    pte,          \* 4KB entries: <<app, vpn>> -> ppn, a partial function
    pmd,          \* 2MB entries: <<app, region>> -> ppn, a partial function
    kernel_start, \* kernel_start_address, in pages
    tlb           \* core -> cached translations

coreVars == <<pc, access, requested>>
tableVars == <<nodes, pte, pmd, kernel_start>>
vars == <<free_list, two_mb_map, demoted, result, aborted, pc, access,
          requested, lock, nodes, pte, pmd, kernel_start, tlb>>

-----------------------------------------------------------------------------
\* The page table frame of level l on the path to vpn; level Levels is the root.
Node(app, l, vpn) == <<app, l, vpn \div HugePages^l>>
Huge(app, vpn) == <<app, Region(vpn)>> \in DOMAIN pmd

\* Levels, from the given one up, whose frame is not linked into its parent.
\* The parent of a level 1 frame may hold a 2MB entry in its place.
Missing(app, vpn, from) ==
    {l \in from..(Levels - 1) : /\ Node(app, l, vpn) \notin DOMAIN nodes
                                /\ ~(l = 1 /\ Huge(app, vpn))}

(***************************************************************************)
(* initializeWalk: a 2MB entry at level 2 or a valid 4KB entry at level 1; *)
(* otherwise a fault that asks for one frame per missing level.            *)
(***************************************************************************)
Mapped(app, vpn) == Huge(app, vpn) \/ <<app, vpn>> \in DOMAIN pte
Translation(app, vpn) ==
    IF Huge(app, vpn) THEN Page(pmd[<<app, Region(vpn)>>], 21)
    ELSE Page(pte[<<app, vpn>>], 12)
\* Mutation: a 2MB mapping is assumed.
AssumesHuge(app, vpn) == Cardinality(Missing(app, vpn, 2))
RequestedFrames(app, vpn) == Cardinality(Missing(app, vpn, 1))

\* PA = PPN * 4KB + the offset bits of the page size.
PhysicalPage(p, vpn) == IF p.size = 21 THEN p.ppn + Offset(vpn) ELSE p.ppn

\* A TLB entry is a translation with the page number it is tagged with; the
\* TLBs hold no application identifier.
Entry(p, vpn) ==
    [tag |-> IF p.size = 21 THEN Region(vpn) ELSE vpn, ppn |-> p.ppn, size |-> p.size]
\* Mutation: the lookup does not compare page sizes.
AnySizeHits(c, vpn) == {e \in tlb[c] : e.tag \in {vpn, Region(vpn)}}
Hits(c, vpn) == {e \in tlb[c] : e = Entry(e, vpn)}
-----------------------------------------------------------------------------
Init ==
    /\ free_list \in StartLists
    /\ two_mb_map = <<>>
    /\ demoted = FALSE
    /\ result = Page(NoPage, 12)
    /\ aborted = "no"
    /\ pc = [c \in Cores |-> "idle"]
    /\ access = [c \in Cores |-> NoPage]
    /\ requested = [c \in Cores |-> 0]
    /\ lock = NoCore
    /\ nodes = <<>> /\ pte = <<>> /\ pmd = <<>>
    /\ kernel_start = 1
    /\ tlb = [c \in Cores |-> {}]

\* No TLB of the hierarchy has the page.  (A hit returns what is cached and
\* changes nothing modelled here.)
TlbMiss(c, vpn) ==
    /\ pc[c] = "idle"
    /\ Hits(c, vpn) = {}
    /\ access' = [access EXCEPT ![c] = vpn]
    /\ pc' = [pc EXCEPT ![c] = "walk"]
    /\ UNCHANGED <<allocVars, requested, lock, tableVars, tlb>>

\* performPTW finds the translation; it is cached, evicting an entry if full,
\* and returned.
WalkHit(c) ==
    LET p == Translation(AppOf[c], access[c])
    IN  /\ pc[c] = "walk"
        /\ Mapped(AppOf[c], access[c])
        /\ p.ppn # NoPage
        /\ \E victims \in IF Cardinality(tlb[c]) < TlbEntries THEN {{}}
                          ELSE {{e} : e \in tlb[c]} :
              tlb' = [tlb EXCEPT ![c] = (@ \ victims) \cup {Entry(p, access[c])}]
        /\ pc' = [pc EXCEPT ![c] = "idle"]
        /\ access' = [access EXCEPT ![c] = NoPage]
        /\ requested' = [requested EXCEPT ![c] = 0]
        /\ UNCHANGED <<allocVars, lock, tableVars>>

\* LOG_ASSERT_ERROR(ppn_result != -1).
WalkInvalid(c) ==
    /\ pc[c] = "walk"
    /\ Mapped(AppOf[c], access[c])
    /\ Translation(AppOf[c], access[c]).ppn = NoPage
    /\ aborted' = "invalid_ppn"
    /\ UNCHANGED <<free_list, two_mb_map, demoted, result, coreVars, lock,
                   tableVars, tlb>>

\* performPTW reports a fault and the number of frames it needs.
WalkFault(c) ==
    /\ pc[c] = "walk"
    /\ ~Mapped(AppOf[c], access[c])
    /\ requested' = [requested EXCEPT ![c] = RequestedFrames(AppOf[c], access[c])]
    /\ pc' = [pc EXCEPT ![c] = "fault"]
    /\ UNCHANGED <<allocVars, access, lock, tableVars, tlb>>

\* handle_page_fault: the global lock.
Acquire(c) ==
    /\ pc[c] = "fault"
    /\ lock = NoCore
    /\ lock' = c
    /\ pc' = [pc EXCEPT ![c] = "allocate"]
    /\ UNCHANGED <<allocVars, access, requested, tableVars, tlb>>

\* handle_page_fault: the data page, whatever happened since the walk.
AllocateData(c) ==
    /\ pc[c] = "allocate"
    /\ Allocate(access[c])
    /\ pc' = [pc EXCEPT ![c] = "update"]
    /\ UNCHANGED <<access, requested, lock, tableVars, tlb>>

(***************************************************************************)
(* allocate_page_table_frames: requested[c] kernel frames are taken from   *)
(* the bump pointer, updatePageTableFrames uses them from the highest      *)
(* missing level down (an assertion ends the simulation if they run out),  *)
(* and the bump pointer is moved back by what was not used.  A 2MB entry   *)
(* overwrites the link to the level 1 frame it replaces.                   *)
(***************************************************************************)
Target == IF result.size = 21 THEN 2 ELSE 1
Needed(c) == Missing(AppOf[c], access[c], Target)

WithNewNodes(c) ==
    [n \in DOMAIN nodes \cup {Node(AppOf[c], l, access[c]) : l \in Needed(c)} |->
        IF n \in DOMAIN nodes THEN nodes[n]
        ELSE kernel_start + Cardinality({l \in Needed(c) : l > n[2]})]

\* Mutation: a promoted region is entered at level 1, like a 4KB page.
InstallAtLeaf(c) ==
    /\ pte' = Put(pte, <<AppOf[c], access[c]>>, result.ppn)
    /\ nodes' = WithNewNodes(c)
    /\ UNCHANGED pmd

Install2MB(c) ==
    /\ pmd' = Put(pmd, <<AppOf[c], Region(access[c])>>, result.ppn)
    /\ pte' = Drop(pte, {AppOf[c]} \X {v \in Vpns : Region(v) = Region(access[c])})
    /\ nodes' = Drop(WithNewNodes(c), {Node(AppOf[c], 1, access[c])})

Install4KB(c) ==
    /\ pte' = Put(pte, <<AppOf[c], access[c]>>, result.ppn)
    /\ nodes' = WithNewNodes(c)
    /\ UNCHANGED pmd

\* Mutation: nothing is entered when no frame was requested.
SkipsWithoutFrames(c) ==
    IF requested[c] = 0 THEN UNCHANGED <<nodes, pte, pmd>>
    ELSE IF result.size = 21 THEN Install2MB(c) ELSE Install4KB(c)

Install(c) == IF result.size = 21 THEN Install2MB(c) ELSE Install4KB(c)

\* Mutation: every requested frame is given back, used or not.
AllFrames(c) == requested[c]

UnusedFrames(c) == requested[c] - Cardinality(Needed(c))

UpdateTables(c) ==
    /\ pc[c] = "update"
    /\ Cardinality(Needed(c)) <= requested[c]
    /\ Install(c)
    /\ kernel_start' = kernel_start + requested[c] - UnusedFrames(c)
    /\ lock' = NoCore
    /\ pc' = [pc EXCEPT ![c] = "walk"]
    /\ UNCHANGED <<allocVars, access, requested, tlb>>

Translate(c) ==
    \/ WalkHit(c) \/ WalkInvalid(c) \/ WalkFault(c)
    \/ Acquire(c) \/ AllocateData(c) \/ UpdateTables(c)

Step(c) == Translate(c) \/ \E vpn \in VpnsOf[c] : TlbMiss(c, vpn)

Next == aborted = "no" /\ \E c \in Cores : Step(c)

\* A host thread is always scheduled again; the spin lock promises no more
\* than that some waiting thread gets it when it is free.
Fairness == \A c \in Cores : WF_vars(aborted = "no" /\ Translate(c))

Spec == Init /\ [][Next]_vars /\ Fairness
-----------------------------------------------------------------------------
\* A core's program counter, access and request, the lock, the tables' domains
\* and the bump pointer have the values the code's types allow.
TypeOK ==
    /\ pc \in [Cores -> {"idle", "walk", "fault", "allocate", "update"}]
    /\ access \in [Cores -> Vpns \cup {NoPage}]
    /\ requested \in [Cores -> 0..(Levels - 1)]
    /\ lock \in Cores \cup {NoCore}
    /\ DOMAIN nodes \subseteq {Node(a, l, v) : a \in Apps, l \in 1..(Levels - 1), v \in Vpns}
    /\ DOMAIN pte \subseteq Apps \X Vpns
    /\ DOMAIN pmd \subseteq Apps \X {Region(v) : v \in Vpns}
    /\ kernel_start \in Nat \ {0}

\* LOG_ASSERT_ERROR in updatePageTableFrames: the frames an unlocked walk asked
\* for are enough for the update made later under the lock, however many other
\* faults were handled in between.
FramesSuffice ==
    \A c \in Cores : pc[c] \in {"fault", "allocate", "update"} =>
        Cardinality(Missing(AppOf[c], access[c], 1)) <= requested[c]

\* An update for a 4KB page never takes a 2MB entry for a link.
NoWildLink ==
    \A c \in Cores : pc[c] = "update" /\ aborted = "no" /\ result.size = 12 =>
        ~Huge(AppOf[c], access[c])

\* Moving the bump pointer back never lets two page table frames share an
\* emulated physical page, across applications too.
FramesDistinct ==
    /\ \A m, n \in DOMAIN nodes : m # n => nodes[m] # nodes[n]
    /\ \A n \in DOMAIN nodes : nodes[n] \in 1..(kernel_start - 1)

\* The mmu.cc sanity check "Same VA should always map to same PA": a mapped page
\* keeps its physical page, through promotion too.
SameVASamePA ==
    [][\A a \in Apps, v \in Vpns : Mapped(a, v) =>
          /\ Mapped(a, v)'
          /\ PhysicalPage(Translation(a, v), v)' = PhysicalPage(Translation(a, v), v)]_vars

\* The mmu.cc sanity check "Each PA should be assigned to only one VA".
EachPAOneVA ==
    \A a, b \in Apps : \A v, w \in Vpns :
        /\ Mapped(a, v) /\ Mapped(b, w)
        /\ PhysicalPage(Translation(a, v), v) = PhysicalPage(Translation(b, w), w)
        => v = w

\* The same check, up to the first demotion of a reserved region.
EachPAOneVAUntilDemotion == demoted \/ EachPAOneVA

\* What a core has cached is what its page table says.
TlbCoherent ==
    \A c \in Cores : \A v \in VpnsOf[c] : \A e \in Hits(c, v) :
        /\ Mapped(AppOf[c], v)
        /\ PhysicalPage(Translation(AppOf[c], v), v) = PhysicalPage(e, v)

\* reserve_thp.h: "we logically shouldn't have a page fault here".
NoFaultInPromoted == aborted # "promoted"

Backed ==
    {pte[x] : x \in DOMAIN pte}
        \cup UNION {pmd[x]..(pmd[x] + HugePages - 1) : x \in DOMAIN pmd}

\* allocate() returns "( -1 , 12 ) if no memory is available", or asserts: with
\* one core, either happens only when every page of memory backs a mapping, so
\* reservations and demotions strand none.
GivesUpWhenFull == aborted \in {"oom", "invalid_ppn"} => Pages \subseteq Backed

\* Every fault is resolved: the access ends, or the simulation does.
FaultsResolved ==
    \A c \in Cores : pc[c] = "walk" ~> (pc[c] = "idle" \/ aborted # "no")
==============================================================================
