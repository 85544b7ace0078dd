--------------------------- MODULE PageFaultProofs ---------------------------
(***************************************************************************)
(* Proofs about the page fault path, for any number of cores, pages and    *)
(* levels, any threshold and any fragmentation of memory: the frames a     *)
(* stale walk asked for suffice, page table frames never share an emulated *)
(* page, an update never follows a 2MB entry as if it were a link, no      *)
(* physical page gets two virtual ones before a demotion, translations     *)
(* and TLB entries stay right as long as shared regions have their block,  *)
(* and memory is given up only when all of it is in use.                   *)
(***************************************************************************)
EXTENDS PageFault, BuddyOpsProofs

-----------------------------------------------------------------------------
(* The inductive invariant.                                                *)

\* A core that is translating has an access.
Busy == \A c \in Cores : pc[c] # "idle" => access[c] \in Vpns

\* The lock is held by exactly the core inside the handler.
Exclusive == \A c \in Cores : pc[c] \in {"allocate", "update"} <=> lock = c

\* A 2MB entry is there only for a promoted region; promotion is for ever.
Promoted(r) == r \in Reserved /\ two_mb_map[r].promoted
HugeIsPromoted == \A a \in Apps, v \in Vpns : Huge(a, v) => Promoted(Region(v))

\* What the allocator returned still fits the region when it is entered.
ResultFits ==
    \A c \in Cores : pc[c] = "update" /\ aborted = "no" =>
        (result.size = 21 <=> Promoted(Region(access[c])))

Inv ==
    /\ TypeOK
    /\ Busy
    /\ Exclusive
    /\ FramesSuffice
    /\ FramesDistinct
    /\ HugeIsPromoted
    /\ ResultFits

-----------------------------------------------------------------------------
(* Sets of levels.                                                         *)

\* A set of levels is finite and has at most Levels - 1 members.
LEMMA LevelSets ==
    ASSUME NEW S \in SUBSET (1..(Levels - 1))
    PROVE  IsFiniteSet(S) /\ Cardinality(S) \in 0..(Levels - 1)
<1>1. IsFiniteSet(1..(Levels - 1)) /\ Cardinality(1..(Levels - 1)) = Levels - 1
  BY FS_Interval, PageFaultAssumption
<1>2. IsFiniteSet(S) /\ Cardinality(S) <= Levels - 1
  BY <1>1, FS_Subset
<1>3. Cardinality(S) \in Nat
  BY <1>2, FS_CardinalityType
<1> QED
  BY <1>2, <1>3, PageFaultAssumption

\* updatePageTableFrames gives frame number |{l > i}| to level i: the numbers
\* are below the size of the set, and no two levels get the same.
LEMMA Ranks ==
    ASSUME NEW S \in SUBSET (1..(Levels - 1)), NEW i \in S
    PROVE  /\ Cardinality({l \in S : l > i}) \in Nat
           /\ Cardinality({l \in S : l > i}) < Cardinality(S)
           /\ \A j \in S : j > i =>
                 Cardinality({l \in S : l > j}) < Cardinality({l \in S : l > i})
<1> DEFINE Above(k) == {l \in S : l > k}
<1>0. S \subseteq Int
  BY PageFaultAssumption
<1>1. \A T \in SUBSET S : IsFiniteSet(T) /\ Cardinality(T) \in Nat
  BY LevelSets
<1>2. \A T \in SUBSET S : \A U \in SUBSET T : U # T => Cardinality(U) < Cardinality(T)
  <2> SUFFICES ASSUME NEW T \in SUBSET S, NEW U \in SUBSET T, U # T
               PROVE  Cardinality(U) < Cardinality(T)
    OBVIOUS
  <2>1. IsFiniteSet(T) /\ Cardinality(T) \in Nat /\ Cardinality(U) \in Nat
    BY <1>1
  <2>2. Cardinality(U) <= Cardinality(T) /\ Cardinality(T) # Cardinality(U)
    BY <2>1, FS_Subset
  <2> QED
    BY <2>1, <2>2
<1>3. Above(i) \in SUBSET S /\ i \notin Above(i)
  BY <1>0
<1>4. Cardinality(Above(i)) < Cardinality(S)
  BY <1>2, <1>3
<1>5. ASSUME NEW j \in S, j > i
      PROVE  Cardinality(Above(j)) < Cardinality(Above(i))
  <2>0. \A l \in S : l > j => l > i
    BY <1>0, <1>5
  <2>1. Above(j) \in SUBSET Above(i)
    BY <2>0
  <2>2. j \in Above(i) /\ j \notin Above(j)
    BY <1>0, <1>5
  <2> QED
    BY <1>2, <1>3, <2>1, <2>2
<1> QED
  BY <1>1, <1>3, <1>4, <1>5

\* The missing levels of a page are a set of levels.
LEMMA MissingLevels ==
    ASSUME NEW app, NEW vpn, NEW from \in {1, 2}
    PROVE  /\ Missing(app, vpn, from) \in SUBSET (1..(Levels - 1))
           /\ Missing(app, vpn, from) \subseteq Missing(app, vpn, 1)
           /\ IsFiniteSet(Missing(app, vpn, from))
           /\ Cardinality(Missing(app, vpn, from)) \in 0..(Levels - 1)
           /\ Cardinality(Missing(app, vpn, from)) <= Cardinality(Missing(app, vpn, 1))
<1>1. /\ Missing(app, vpn, from) \in SUBSET (1..(Levels - 1))
      /\ Missing(app, vpn, 1) \in SUBSET (1..(Levels - 1))
      /\ Missing(app, vpn, from) \subseteq Missing(app, vpn, 1)
  BY PageFaultAssumption DEF Missing
<1>2. IsFiniteSet(Missing(app, vpn, 1))
  BY <1>1, LevelSets
<1>3. Cardinality(Missing(app, vpn, from)) <= Cardinality(Missing(app, vpn, 1))
  BY <1>1, <1>2, FS_Subset
<1> QED
  BY <1>1, <1>3, LevelSets

-----------------------------------------------------------------------------
(* One update of the tables.                                               *)

\* The new page table frames get emulated pages of their own, the next ones at
\* the bump pointer.
LEMMA NewNodes ==
    ASSUME TypeOK, FramesDistinct, NEW c \in Cores
    PROVE  LET N == WithNewNodes(c)
           IN  /\ DOMAIN N = DOMAIN nodes
                     \cup {Node(AppOf[c], l, access[c]) : l \in Needed(c)}
               /\ \A m, n \in DOMAIN N : m # n => N[m] # N[n]
               /\ \A n \in DOMAIN N :
                     N[n] \in 1..(kernel_start + Cardinality(Needed(c)) - 1)
<1> DEFINE N == WithNewNodes(c)
           S == Needed(c)
           Rank(l) == Cardinality({k \in S : k > l})
           New(l) == Node(AppOf[c], l, access[c])
<1>1. S \in SUBSET (1..(Levels - 1)) /\ Cardinality(S) \in Nat
  <2>1. Target \in {1, 2}
    BY DEF Target
  <2> QED
    BY <2>1, MissingLevels DEF Needed
<1>2. kernel_start \in Nat \ {0}
  BY DEF TypeOK
<1>3. DOMAIN N = DOMAIN nodes \cup {New(l) : l \in S}
  BY DEF WithNewNodes
<1>4. ASSUME NEW n \in DOMAIN nodes
      PROVE  N[n] = nodes[n] /\ N[n] \in 1..(kernel_start - 1)
  BY <1>3 DEF WithNewNodes, FramesDistinct
<1>5. ASSUME NEW l \in S, New(l) \notin DOMAIN nodes
      PROVE  /\ N[New(l)] = kernel_start + Rank(l)
             /\ Rank(l) \in Nat
             /\ Rank(l) < Cardinality(S)
  <2>1. New(l)[2] = l
    BY DEF Node
  <2>2. N[New(l)] = kernel_start + Rank(l)
    BY <1>5, <2>1 DEF WithNewNodes
  <2> QED
    BY <1>1, <2>2, Ranks
<1>6. ASSUME NEW i \in S, NEW j \in S, i # j
      PROVE  Rank(i) # Rank(j)
  <2>1. i \in Int /\ j \in Int
    BY <1>1, PageFaultAssumption
  <2>2. /\ Rank(i) \in Nat /\ Rank(j) \in Nat
        /\ j > i => Rank(j) < Rank(i)
        /\ i > j => Rank(i) < Rank(j)
    BY <1>1, Ranks
  <2> QED
    BY <1>6, <2>1, <2>2
<1>7. ASSUME NEW n \in DOMAIN N
      PROVE  N[n] \in 1..(kernel_start + Cardinality(S) - 1)
  <2>1. CASE n \in DOMAIN nodes
    BY <1>1, <1>2, <1>4, <2>1
  <2>2. CASE n \notin DOMAIN nodes
    <3>1. PICK l \in S : n = New(l)
      BY <1>3, <2>2
    <3>2. /\ N[n] = kernel_start + Rank(l)
          /\ Rank(l) \in Nat
          /\ Rank(l) < Cardinality(S)
      BY <1>5, <2>2, <3>1
    <3> QED
      BY <1>1, <1>2, <3>2
  <2> QED
    BY <2>1, <2>2
<1>8. ASSUME NEW m \in DOMAIN N, NEW n \in DOMAIN N, m # n
      PROVE  N[m] # N[n]
  <2>1. CASE m \in DOMAIN nodes /\ n \in DOMAIN nodes
    BY <1>4, <1>8, <2>1 DEF FramesDistinct
  <2>2. ASSUME NEW x \in DOMAIN nodes, NEW y \in DOMAIN N, y \notin DOMAIN nodes
        PROVE  N[x] # N[y]
    <3>1. PICK l \in S : y = New(l)
      BY <1>3, <2>2
    <3>2. N[y] = kernel_start + Rank(l) /\ Rank(l) \in Nat
      BY <1>5, <2>2, <3>1
    <3>3. N[x] \in 1..(kernel_start - 1)
      BY <1>4
    <3> QED
      BY <1>2, <3>2, <3>3
  <2>3. CASE m \notin DOMAIN nodes /\ n \notin DOMAIN nodes
    <3>1. PICK i \in S : m = New(i)
      BY <1>3, <2>3
    <3>2. PICK j \in S : n = New(j)
      BY <1>3, <2>3
    <3>3. /\ N[m] = kernel_start + Rank(i) /\ Rank(i) \in Nat
          /\ N[n] = kernel_start + Rank(j) /\ Rank(j) \in Nat
      BY <1>5, <2>3, <3>1, <3>2
    <3>4. Rank(i) # Rank(j)
      BY <1>6, <1>8, <3>1, <3>2
    <3> QED
      BY <1>2, <3>3, <3>4
  <2> QED
    BY <2>1, <2>2, <2>3
<1> QED
  BY <1>3, <1>7, <1>8

\* An update links frames and may replace one by a 2MB entry: no level becomes
\* missing, for any page of any application.
LEMMA MissingShrinks ==
    ASSUME NEW c \in Cores, Install(c), NEW app, NEW vpn
    PROVE  Missing(app, vpn, 1)' \subseteq Missing(app, vpn, 1)
<1>1. SUFFICES ASSUME NEW l \in 1..(Levels - 1), l \in Missing(app, vpn, 1)'
               PROVE  l \in Missing(app, vpn, 1)
  BY DEF Missing
<1> DEFINE n == Node(app, l, vpn)
<1>2. DOMAIN nodes \subseteq DOMAIN WithNewNodes(c)
  BY DEF WithNewNodes
<1>3. CASE result.size # 21
  <2>1. nodes' = WithNewNodes(c) /\ pmd' = pmd
    BY <1>3 DEF Install, Install4KB
  <2> QED
    BY <1>1, <1>2, <2>1 DEF Missing, Huge
<1>4. CASE result.size = 21
  <2>1. /\ pmd' = Put(pmd, <<AppOf[c], Region(access[c])>>, result.ppn)
        /\ nodes' = Drop(WithNewNodes(c), {Node(AppOf[c], 1, access[c])})
    BY <1>4 DEF Install, Install2MB
  <2>2. /\ DOMAIN pmd' = DOMAIN pmd \cup {<<AppOf[c], Region(access[c])>>}
        /\ DOMAIN nodes' = DOMAIN WithNewNodes(c) \ {Node(AppOf[c], 1, access[c])}
    BY <2>1 DEF Put, Drop
  <2>3. ~(l = 1 /\ Huge(app, vpn))
    BY <1>1, <2>2 DEF Missing, Huge
  <2>4. n \notin DOMAIN nodes
    <3>1. SUFFICES ASSUME n \in DOMAIN nodes PROVE FALSE
      OBVIOUS
    <3>2. n = Node(AppOf[c], 1, access[c])
      BY <1>1, <1>2, <2>2, <3>1 DEF Missing
    <3>3. l = 1 /\ app = AppOf[c] /\ Region(vpn) = Region(access[c])
      BY <3>2, PowersOfTwo DEF Node, Region
    <3>4. Huge(app, vpn)'
      BY <2>2, <3>3 DEF Huge
    <3> QED
      BY <1>1, <3>3, <3>4 DEF Missing
  <2> QED
    BY <2>3, <2>4 DEF Missing
<1> QED
  BY <1>3, <1>4

\* allocate() never takes a promotion back, and what it returns is a 2MB page
\* exactly when the region is now promoted.
LEMMA AllocateFits ==
    ASSUME NEW vpn, Allocate(vpn)
    PROVE  /\ \A r : Promoted(r) => Promoted(r)'
           /\ aborted' = "no" => (result'.size = 21 <=> Promoted(Region(vpn))')
<1>1. CASE UseRegion(vpn)
  <2> DEFINE map == WithReservation(vpn)
             q == Region(vpn)
             bits == map[q].bits \cup {Offset(vpn)}
             promote == Cardinality(bits) > PromoteAbove
  <2>1. /\ two_mb_map' = Put(map, q, [base |-> map[q].base, bits |-> bits,
                                      promoted |-> promote])
        /\ ~map[q].promoted
        /\ result' = Handout(map[q].base, bits, vpn)
    BY <1>1 DEF UseRegion
  <2>2. /\ Reserved \subseteq DOMAIN map
        /\ \A r \in Reserved : map[r] = two_mb_map[r]
    BY DEF WithReservation, Reserved, Put
  <2>3. /\ DOMAIN two_mb_map' = DOMAIN map \cup {q}
        /\ two_mb_map'[q].promoted = promote
        /\ \A r \in DOMAIN map : r # q => two_mb_map'[r] = map[r]
    BY <2>1 DEF Put
  <2>4. ASSUME NEW r, Promoted(r) PROVE Promoted(r)'
    BY <2>1, <2>2, <2>3, <2>4 DEF Promoted, Reserved
  <2>5. result'.size = 21 <=> promote
    BY <2>1 DEF Handout, Page
  <2> QED
    BY <2>3, <2>4, <2>5 DEF Promoted, Reserved
<1>2. CASE FaultInPromoted(vpn)
  BY <1>2 DEF FaultInPromoted, Promoted, Reserved
<1>3. CASE Fallback(vpn)
  BY <1>3 DEF Fallback, CanReserve, Promoted, Reserved, Page
<1>4. CASE DemoteAndRetry(vpn)
  <2>0. PICK r \in LeastUsed :
            LET fl == FreedUnused(free_list, two_mb_map[r])
            IN  /\ two_mb_map' = Drop(two_mb_map, {r})
                /\ IF Candidates(fl, 0) = {}
                   THEN result' = Page(NoPage, 12) /\ free_list' = fl
                   ELSE /\ result' = Page(AllocatedPage(fl, 0), 12)
                        /\ free_list' = AllocateFrom(fl, 0)
    BY <1>4, Zenon DEF DemoteAndRetry
  <2>1. two_mb_map' = Drop(two_mb_map, {r}) /\ result'.size = 12
    BY <2>0 DEF Page
  <2>2. r \in Unpromoted
    BY <2>1 DEF LeastUsed
  <2>3. ASSUME NEW s, Promoted(s) PROVE Promoted(s)'
    BY <2>1, <2>2, <2>3 DEF Promoted, Reserved, Unpromoted, Drop
  <2>4. Region(vpn) \notin Reserved
    BY <1>4 DEF DemoteAndRetry, CanReserve
  <2>5. ~Promoted(Region(vpn))'
    BY <2>1, <2>4 DEF Promoted, Reserved, Drop
  <2> QED
    BY <2>1, <2>3, <2>5
<1>5. CASE OutOfMemory(vpn)
  BY <1>5 DEF OutOfMemory, Promoted, Reserved
<1> QED
  BY <1>1, <1>2, <1>3, <1>4, <1>5 DEF Allocate

-----------------------------------------------------------------------------
(* The invariant.                                                          *)

\* The empty tables of the start satisfy the invariant.
LEMMA InitInv == Init => Inv
<1> SUFFICES ASSUME Init PROVE Inv
  OBVIOUS
<1>1. DOMAIN nodes = {} /\ DOMAIN pte = {} /\ DOMAIN pmd = {}
  BY DEF Init
<1>2. TypeOK
  BY <1>1, PageFaultAssumption DEF Init, TypeOK
<1>3. Busy /\ Exclusive /\ FramesSuffice /\ ResultFits
  BY PageFaultAssumption DEF Init, Busy, Exclusive, FramesSuffice, ResultFits
<1>4. FramesDistinct /\ HugeIsPromoted
  BY <1>1 DEF FramesDistinct, HugeIsPromoted, Huge
<1> QED
  BY <1>2, <1>3, <1>4 DEF Inv

\* A step that leaves the tables and the reservations alone keeps the parts of
\* the invariant that are about them.
LEMMA TablesKept ==
    ASSUME Inv, UNCHANGED tableVars, UNCHANGED two_mb_map
    PROVE  /\ FramesDistinct'
           /\ HugeIsPromoted'
           /\ \A app, vpn : Missing(app, vpn, 1)' = Missing(app, vpn, 1)
           /\ \A r : Promoted(r)' = Promoted(r)
BY DEF Inv, tableVars, FramesDistinct, HugeIsPromoted, Huge, Promoted, Reserved, Missing

\* The steps outside the handler, and taking its lock.
LEMMA QuietSteps ==
    ASSUME Inv, NEW c \in Cores,
           \/ \E vpn \in VpnsOf[c] : TlbMiss(c, vpn)
           \/ WalkHit(c) \/ WalkInvalid(c) \/ WalkFault(c) \/ Acquire(c)
    PROVE  Inv'
<1> USE DEF Inv, allocVars, coreVars
<1>1. CASE \E vpn \in VpnsOf[c] : TlbMiss(c, vpn)
  <2>1. PICK vpn \in VpnsOf[c] : TlbMiss(c, vpn)
    BY <1>1
  <2>2. vpn \in Vpns
    BY DEF Vpns
  <2>3. UNCHANGED tableVars /\ UNCHANGED two_mb_map
    BY <2>1 DEF TlbMiss
  <2>4. TypeOK' /\ Busy' /\ Exclusive'
    BY <2>1, <2>2 DEF TlbMiss, TypeOK, Busy, Exclusive, tableVars
  <2>5. FramesSuffice' /\ ResultFits'
    BY <2>1, <2>3, TablesKept DEF TlbMiss, TypeOK, FramesSuffice, ResultFits
  <2> QED
    BY <2>3, <2>4, <2>5, TablesKept
<1>2. CASE WalkHit(c)
  <2>1. UNCHANGED tableVars /\ UNCHANGED two_mb_map
    BY <1>2 DEF WalkHit
  <2>2. TypeOK' /\ Busy' /\ Exclusive'
    BY <1>2, PageFaultAssumption DEF WalkHit, TypeOK, Busy, Exclusive, tableVars
  <2>3. FramesSuffice' /\ ResultFits'
    BY <1>2, <2>1, TablesKept DEF WalkHit, TypeOK, FramesSuffice, ResultFits
  <2> QED
    BY <2>1, <2>2, <2>3, TablesKept
<1>3. CASE WalkInvalid(c)
  <2>1. UNCHANGED tableVars /\ UNCHANGED two_mb_map
    BY <1>3 DEF WalkInvalid
  <2>2. TypeOK' /\ Busy' /\ Exclusive'
    BY <1>3 DEF WalkInvalid, TypeOK, Busy, Exclusive, tableVars
  <2>3. FramesSuffice' /\ ResultFits'
    BY <1>3, <2>1, TablesKept DEF WalkInvalid, FramesSuffice, ResultFits
  <2> QED
    BY <2>1, <2>2, <2>3, TablesKept
<1>4. CASE WalkFault(c)
  <2>1. UNCHANGED tableVars /\ UNCHANGED two_mb_map
    BY <1>4 DEF WalkFault
  <2>2. /\ requested' = [requested EXCEPT ![c] = Cardinality(Missing(AppOf[c], access[c], 1))]
        /\ Cardinality(Missing(AppOf[c], access[c], 1)) \in 0..(Levels - 1)
    BY <1>4, MissingLevels DEF WalkFault, RequestedFrames
  <2>3. TypeOK' /\ Busy' /\ Exclusive'
    BY <1>4, <2>2 DEF WalkFault, TypeOK, Busy, Exclusive, tableVars
  <2>4. FramesSuffice' /\ ResultFits'
    BY <1>4, <2>1, <2>2, TablesKept DEF WalkFault, TypeOK, FramesSuffice, ResultFits
  <2> QED
    BY <2>1, <2>3, <2>4, TablesKept
<1>5. CASE Acquire(c)
  <2>1. UNCHANGED tableVars /\ UNCHANGED two_mb_map
    BY <1>5 DEF Acquire
  <2>2. TypeOK' /\ Busy' /\ Exclusive'
    BY <1>5, PageFaultAssumption DEF Acquire, TypeOK, Busy, Exclusive, tableVars
  <2>3. FramesSuffice' /\ ResultFits'
    BY <1>5, <2>1, TablesKept DEF Acquire, TypeOK, FramesSuffice, ResultFits
  <2> QED
    BY <2>1, <2>2, <2>3, TablesKept
<1> QED
  BY <1>1, <1>2, <1>3, <1>4, <1>5

\* The allocation of the data page, under the lock.
LEMMA AllocateStep ==
    ASSUME Inv, NEW c \in Cores, AllocateData(c)
    PROVE  Inv'
<1> USE DEF Inv
<1>1. /\ \A r : Promoted(r) => Promoted(r)'
      /\ aborted' = "no" => (result'.size = 21 <=> Promoted(Region(access[c]))')
  BY AllocateFits DEF AllocateData
<1>2. TypeOK' /\ Busy' /\ Exclusive'
  BY DEF AllocateData, TypeOK, Busy, Exclusive, tableVars
<1>3. FramesSuffice' /\ FramesDistinct'
  BY DEF AllocateData, TypeOK, FramesSuffice, FramesDistinct, Missing, Huge, tableVars
<1>4. HugeIsPromoted'
  BY <1>1 DEF AllocateData, HugeIsPromoted, Huge, tableVars
<1>5. ResultFits'
  <2>1. SUFFICES ASSUME NEW d \in Cores, pc'[d] = "update", aborted' = "no"
                 PROVE  result'.size = 21 <=> Promoted(Region(access[d]))'
    BY DEF ResultFits, AllocateData
  <2>2. d = c
    BY <2>1 DEF AllocateData, TypeOK, Exclusive
  <2> QED
    BY <1>1, <2>1, <2>2
<1> QED
  BY <1>2, <1>3, <1>4, <1>5

\* The update of the tables and the release of the lock.
LEMMA UpdateStep ==
    ASSUME Inv, aborted = "no", NEW c \in Cores, UpdateTables(c)
    PROVE  Inv'
<1> USE DEF Inv
<1> DEFINE N == WithNewNodes(c)
           app == AppOf[c]
           vpn == access[c]
<1>1. /\ vpn \in Vpns /\ app \in Apps
      /\ Install(c)
      /\ requested[c] \in Nat
  BY PageFaultAssumption DEF UpdateTables, Busy, Apps, TypeOK
<1>2. Needed(c) \in SUBSET (1..(Levels - 1)) /\ Cardinality(Needed(c)) \in Nat
  <2>1. Target \in {1, 2}
    BY DEF Target
  <2> QED
    BY <2>1, MissingLevels DEF Needed
<1>3. kernel_start' = kernel_start + Cardinality(Needed(c))
  BY <1>1, <1>2 DEF UpdateTables, UnusedFrames, TypeOK
<1>4. /\ DOMAIN N = DOMAIN nodes \cup {Node(app, l, vpn) : l \in Needed(c)}
      /\ \A m, n \in DOMAIN N : m # n => N[m] # N[n]
      /\ \A n \in DOMAIN N : N[n] \in 1..(kernel_start' - 1)
  <2>1. /\ DOMAIN N = DOMAIN nodes \cup {Node(app, l, vpn) : l \in Needed(c)}
        /\ \A m, n \in DOMAIN N : m # n => N[m] # N[n]
        /\ \A n \in DOMAIN N :
              N[n] \in 1..(kernel_start + Cardinality(Needed(c)) - 1)
    BY NewNodes, Zenon
  <2>2. kernel_start + Cardinality(Needed(c)) - 1 = kernel_start' - 1
    BY <1>2, <1>3 DEF TypeOK
  <2> QED
    BY <2>1, <2>2, Zenon
<1>5. /\ DOMAIN nodes' \subseteq DOMAIN N
      /\ \A n \in DOMAIN nodes' : nodes'[n] = N[n]
  BY <1>1 DEF Install, Install2MB, Install4KB, Drop
<1>6. /\ DOMAIN pte' \subseteq DOMAIN pte \cup {<<app, vpn>>}
      /\ DOMAIN pmd' \subseteq DOMAIN pmd \cup {<<app, Region(vpn)>>}
      /\ result.size # 21 => pmd' = pmd
  BY <1>1 DEF Install, Install2MB, Install4KB, Drop, Put
<1>7. TypeOK'
  <2>1. /\ pc' \in [Cores -> {"idle", "walk", "fault", "allocate", "update"}]
        /\ access' \in [Cores -> Vpns \cup {NoPage}]
        /\ requested' \in [Cores -> 0..(Levels - 1)]
        /\ lock' \in Cores \cup {NoCore}
    BY DEF UpdateTables, TypeOK
  <2>2. kernel_start' \in Nat \ {0}
    BY <1>2, <1>3 DEF TypeOK
  <2>3. DOMAIN nodes' \subseteq
            {Node(a, l, v) : a \in Apps, l \in 1..(Levels - 1), v \in Vpns}
    BY <1>1, <1>2, <1>4, <1>5 DEF TypeOK
  <2>4. /\ DOMAIN pte' \subseteq Apps \X Vpns
        /\ DOMAIN pmd' \subseteq Apps \X {Region(v) : v \in Vpns}
    BY <1>1, <1>6 DEF TypeOK
  <2> QED
    BY <2>1, <2>2, <2>3, <2>4 DEF TypeOK, Node, Region
<1>8. Busy' /\ Exclusive'
  BY PageFaultAssumption DEF UpdateTables, TypeOK, Busy, Exclusive
<1>9. FramesSuffice'
  <2>1. SUFFICES ASSUME NEW d \in Cores, pc'[d] \in {"fault", "allocate", "update"}
                 PROVE  Cardinality(Missing(AppOf[d], access[d], 1)') <= requested[d]
    BY DEF FramesSuffice, UpdateTables
  <2>2. Cardinality(Missing(AppOf[d], access[d], 1)) <= requested[d]
    BY <2>1 DEF UpdateTables, TypeOK, FramesSuffice
  <2>3. Missing(AppOf[d], access[d], 1)' \subseteq Missing(AppOf[d], access[d], 1)
    <3>1. access' = access
      BY DEF UpdateTables
    <3>2. \A v : Missing(AppOf[d], v, 1)' \subseteq Missing(AppOf[d], v, 1)
      BY <1>1, MissingShrinks
    <3> QED
      BY <3>1, <3>2 DEF Missing, Huge
  <2>4. /\ IsFiniteSet(Missing(AppOf[d], access[d], 1))
        /\ Cardinality(Missing(AppOf[d], access[d], 1)) \in Int
        /\ Missing(AppOf[d], access[d], 1) \in SUBSET (1..(Levels - 1))
    BY MissingLevels
  <2>5. /\ Cardinality(Missing(AppOf[d], access[d], 1)')
               <= Cardinality(Missing(AppOf[d], access[d], 1))
        /\ Cardinality(Missing(AppOf[d], access[d], 1)') \in Int
    BY <2>3, <2>4, FS_Subset, LevelSets
  <2>6. requested[d] \in Int
    BY DEF TypeOK
  <2> QED
    BY <2>2, <2>4, <2>5, <2>6
<1>10. FramesDistinct'
  BY <1>4, <1>5 DEF FramesDistinct
<1>11. HugeIsPromoted'
  <2>1. \A r : Promoted(r)' <=> Promoted(r)
    BY DEF UpdateTables, allocVars, Promoted, Reserved
  <2>2. ASSUME NEW a \in Apps, NEW v \in Vpns, Huge(a, v)'
        PROVE  Promoted(Region(v))
    <3>1. CASE Huge(a, v)
      BY <3>1 DEF HugeIsPromoted
    <3>2. CASE ~Huge(a, v)
      <4>1. Region(v) = Region(vpn) /\ result.size = 21
        BY <1>6, <2>2, <3>2 DEF Huge
      <4> QED
        BY <4>1 DEF ResultFits, UpdateTables
    <3> QED
      BY <3>1, <3>2
  <2> QED
    BY <2>1, <2>2 DEF HugeIsPromoted
<1>12. ResultFits'
  BY DEF UpdateTables, allocVars, TypeOK, Exclusive, ResultFits
<1> QED
  BY <1>7, <1>8, <1>9, <1>10, <1>11, <1>12

\* Every step of the specification keeps the invariant.
THEOREM Invariance == Spec => []Inv
<1>1. Init => Inv
  BY InitInv
<1>2. Inv /\ [Next]_vars => Inv'
  <2> SUFFICES ASSUME Inv, [Next]_vars PROVE Inv'
    OBVIOUS
  <2>1. CASE Next
    <3>1. aborted = "no"
      BY <2>1 DEF Next
    <3>2. PICK c \in Cores : Step(c)
      BY <2>1 DEF Next
    <3>3. CASE AllocateData(c)
      BY <3>3, AllocateStep
    <3>4. CASE UpdateTables(c)
      BY <3>1, <3>4, UpdateStep
    <3>5. CASE \/ \E vpn \in VpnsOf[c] : TlbMiss(c, vpn)
               \/ WalkHit(c) \/ WalkInvalid(c) \/ WalkFault(c) \/ Acquire(c)
      BY <3>5, QuietSteps
    <3> QED
      BY <3>2, <3>3, <3>4, <3>5 DEF Step, Translate
  <2>2. CASE UNCHANGED vars
    BY <2>2 DEF vars, Inv, TypeOK, Busy, Exclusive, FramesSuffice, FramesDistinct,
       HugeIsPromoted, ResultFits, Missing, Huge, Promoted, Reserved
  <2> QED
    BY <2>1, <2>2
<1> QED
  BY <1>1, <1>2, PTL DEF Spec

\* The state of the cores, the lock, the tables and the bump pointer is always
\* well typed.
THEOREM TypeCorrect == Spec => []TypeOK
<1>1. Inv => TypeOK
  BY DEF Inv
<1> QED
  BY <1>1, Invariance, PTL

\* The frames requested by a walk without the lock are enough for the update
\* made under it, for any number of cores and levels: the LOG_ASSERT_ERROR of
\* updatePageTableFrames never fires.
THEOREM RequestedFramesSuffice == Spec => []FramesSuffice
<1>1. Inv => FramesSuffice
  BY DEF Inv
<1> QED
  BY <1>1, Invariance, PTL

\* Page table frames of all applications have emulated pages of their own, and
\* all lie below the bump pointer, although it is moved back after each update.
THEOREM PageTableFramesDistinct == Spec => []FramesDistinct
<1>1. Inv => FramesDistinct
  BY DEF Inv
<1> QED
  BY <1>1, Invariance, PTL

\* An update for a 4KB page never meets a 2MB entry on its way down, which it
\* would follow as a link: any core, any threshold of promotion.
THEOREM UpdateFollowsLinks == Spec => []NoWildLink
<1>1. Inv => NoWildLink
  <2> SUFFICES ASSUME Inv, NEW c \in Cores, pc[c] = "update", aborted = "no",
                      result.size = 12, Huge(AppOf[c], access[c])
               PROVE  FALSE
    BY DEF NoWildLink
  <2>1. access[c] \in Vpns /\ AppOf[c] \in Apps
    BY DEF Inv, Busy, Apps
  <2>2. Promoted(Region(access[c]))
    BY <2>1 DEF Inv, HugeIsPromoted
  <2> QED
    BY <2>2 DEF Inv, ResultFits
<1> QED
  BY <1>1, Invariance, PTL

-----------------------------------------------------------------------------
(* Where the allocator puts a page.                                        *)

BaseOf(r) == two_mb_map[r].base
InRegion(r) == BaseOf(r)..(BaseOf(r) + (HugePages - 1))

\* The page of v within the block reserved for its region.
Home(v) == BaseOf(Region(v)) + Offset(v)

\* A page that is neither free nor in a reserved block.
Loose(p) == p \notin FreePages(free_list) /\ \A r \in Reserved : p \notin InRegion(r)

\* A region and an offset make a virtual page.
LEMMA Positions ==
    /\ HugePages \in Nat \ {0}
    /\ \A v \in Nat : Region(v) \in Nat /\ Offset(v) \in Nat /\ Offset(v) < HugePages
    /\ \A v, w \in Nat : Region(v) = Region(w) /\ Offset(v) = Offset(w) => v = w
<1>1. HugePages \in Nat \ {0}
  BY OrderType, Powers DEF HugePages
<1>2. ASSUME NEW P \in Nat \ {0}, NEW v \in Nat
      PROVE  v \div P \in Nat /\ v % P \in Nat /\ v % P < P /\ v = (v \div P) * P + (v % P)
  BY Division
<1>3. ASSUME NEW P \in Nat \ {0}, NEW v \in Nat, NEW w \in Nat,
             v \div P = w \div P, v % P = w % P
      PROVE  v = w
  BY <1>2, <1>3, Zenon
<1> QED
  BY <1>1, <1>2, <1>3 DEF Region, Offset

\* A page of a reserved block, by its offset.
LEMMA RegionPages ==
    ASSUME NEW b \in Int, NEW p
    PROVE  /\ p \in b..(b + (HugePages - 1)) <=> p \in Int /\ b <= p /\ p < b + HugePages
           /\ \A v \in Nat : b + Offset(v) \in b..(b + (HugePages - 1))
BY Positions

-----------------------------------------------------------------------------
(* One call of allocate(): what it does to the reservations and the lists. *)

\* The lists and the reserved blocks.  Up to the first demotion no page is in
\* two of them; a demotion frees the page after each unused one too, so pages
\* may be listed twice from then on, but there is no 2MB block any more.
AllocatorOK ==
    /\ Tidy(free_list) /\ FreePages(free_list) \subseteq Nat
    /\ \A r \in Reserved : BaseOf(r) \in Nat /\ two_mb_map[r].bits \subseteq Offsets
    /\ demoted => HugeCandidates(free_list) = {}
    /\ ~demoted =>
         /\ Good(free_list)
         /\ \A r \in Reserved : InRegion(r) \cap FreePages(free_list) = {}
         /\ \A q, r \in Reserved : q # r => InRegion(q) \cap InRegion(r) = {}

\* checkFor2MBAllocation serves the page from the block of its region.
FromRegion(vpn) ==
    LET r == Region(vpn)
    IN  /\ Reserved' = Reserved \cup {r}
        /\ \A q \in Reserved : q # r => two_mb_map'[q] = two_mb_map[q]
        /\ ~Promoted(r)
        /\ r \in Reserved =>
             /\ two_mb_map'[r].base = BaseOf(r)
             /\ two_mb_map'[r].bits = two_mb_map[r].bits \cup {Offset(vpn)}
             /\ free_list' = free_list
        /\ r \notin Reserved =>
             /\ HugeCandidates(free_list) # {}
             /\ two_mb_map'[r].base = ReservedBlock(free_list).start
             /\ two_mb_map'[r].bits = {Offset(vpn)}
             /\ free_list' = ReserveFrom(free_list)
        /\ Promoted(r)' => result' = Page(two_mb_map'[r].base, 21)
        /\ ~Promoted(r)' => result' = Page(two_mb_map'[r].base + Offset(vpn), 12)
        /\ UNCHANGED <<demoted, aborted>>

\* A 4KB page of the buddy allocator.
FromLists(vpn) ==
    /\ Region(vpn) \notin Reserved
    /\ HugeCandidates(free_list) = {}
    /\ Candidates(free_list, 0) # {}
    /\ result' = Page(AllocatedPage(free_list, 0), 12)
    /\ free_list' = AllocateFrom(free_list, 0)
    /\ UNCHANGED <<two_mb_map, demoted, aborted>>

\* An assertion ends the simulation.
Stops(vpn) ==
    /\ \/ aborted' = "promoted" /\ Promoted(Region(vpn))
       \/ aborted' = "oom" /\ Candidates(free_list, 0) = {} /\ Unpromoted = {}
    /\ UNCHANGED <<free_list, two_mb_map, demoted>>

\* UseRegion in those terms.
LEMMA UseRegionShape ==
    ASSUME NEW vpn, UseRegion(vpn)
    PROVE  FromRegion(vpn)
<1> DEFINE map == WithReservation(vpn)
           r == Region(vpn)
           bits == map[r].bits \cup {Offset(vpn)}
           promote == Cardinality(bits) > PromoteAbove
<1>1. /\ two_mb_map' = Put(map, r, [base |-> map[r].base, bits |-> bits, promoted |-> promote])
      /\ ~map[r].promoted
      /\ result' = Handout(map[r].base, bits, vpn)
      /\ UNCHANGED <<demoted, aborted>>
  BY DEF UseRegion
<1>2. /\ r \in Reserved => map = two_mb_map
      /\ r \notin Reserved =>
            map = Put(two_mb_map, r, [base |-> ReservedBlock(free_list).start, bits |-> {},
                                      promoted |-> FALSE])
  BY DEF WithReservation
<1>3. /\ DOMAIN map = Reserved \cup {r}
      /\ \A q \in Reserved : map[q] = two_mb_map[q]
      /\ r \notin Reserved => map[r].base = ReservedBlock(free_list).start /\ map[r].bits = {}
  BY <1>2 DEF Put, Reserved
<1>4. /\ Reserved' = DOMAIN map \cup {r}
      /\ \A q \in DOMAIN map : q # r => two_mb_map'[q] = map[q]
      /\ two_mb_map'[r].base = map[r].base
      /\ two_mb_map'[r].bits = bits
      /\ two_mb_map'[r].promoted = promote
  BY <1>1, <1>3 DEF Put, Reserved
<1>5. /\ r \in Reserved => free_list' = free_list
      /\ r \notin Reserved => free_list' = ReserveFrom(free_list) /\ HugeCandidates(free_list) # {}
  BY DEF UseRegion, CanReserve
<1>6. ~Promoted(r)
  BY <1>1, <1>3 DEF Promoted
<1>7. Promoted(r)' <=> promote
  BY <1>4 DEF Promoted, Reserved
<1>8. /\ promote => result' = Page(map[r].base, 21)
      /\ ~promote => result' = Page(map[r].base + Offset(vpn), 12)
  BY <1>1 DEF Handout
<1> HIDE DEF map, bits, promote
<1> QED
  BY <1>1, <1>3, <1>4, <1>5, <1>6, <1>7, <1>8 DEF FromRegion, BaseOf, bits

\* One turn of demote_page's loop over the offsets.
FreeTurn(fl, base, bits, j) ==
    IF j - 1 \in bits THEN fl ELSE FreeTo(fl, base + (j - 1), base + j)

\* The lists after each of n turns.
Turns(g, fl, base, bits, n) ==
    g = [j \in 0..n |-> IF j = 0 THEN fl ELSE FreeTurn(g[j - 1], base, bits, j)]

\* The lists after each turn exist.
LEMMA TurnsExist ==
    ASSUME NEW fl, NEW base, NEW bits, NEW m \in Nat
    PROVE  \E g : Turns(g, fl, base, bits, m)
<1> DEFINE S == {n \in Nat : \E g : g = [j \in 0..n |-> IF j = 0 THEN fl
                                                  ELSE FreeTurn(g[j - 1], base, bits, j)]}
<1>1. 0 \in S
  <2> DEFINE g == [j \in 0..0 |-> fl]
  <2>1. g = [j \in 0..0 |-> IF j = 0 THEN fl ELSE FreeTurn(g[j - 1], base, bits, j)]
    OBVIOUS
  <2> QED
    BY <2>1
<1>2. ASSUME NEW n \in Nat, n \in S
      PROVE  n + 1 \in S
  <2>1. PICK g : g = [j \in 0..n |-> IF j = 0 THEN fl ELSE FreeTurn(g[j - 1], base, bits, j)]
    BY <1>2
  <2> DEFINE h == [j \in 0..(n + 1) |-> IF j = n + 1 THEN FreeTurn(g[n], base, bits, j) ELSE g[j]]
  <2>2. ASSUME NEW j \in 0..(n + 1)
        PROVE  h[j] = IF j = 0 THEN fl ELSE FreeTurn(h[j - 1], base, bits, j)
    <3>1. CASE j = n + 1
      <4>1. j # 0 /\ j - 1 = n /\ n \in 0..(n + 1) /\ n # n + 1
        BY <3>1
      <4>2. h[n] = g[n]
        BY <4>1
      <4>3. h[j] = FreeTurn(g[n], base, bits, j)
        BY <3>1
      <4> QED
        BY <4>1, <4>2, <4>3
    <3>2. CASE j # n + 1
      <4>1. j \in 0..n
        BY <3>2
      <4>2. h[j] = g[j]
        BY <3>2
      <4>3. g[j] = IF j = 0 THEN fl ELSE FreeTurn(g[j - 1], base, bits, j)
        BY <2>1, <4>1
      <4>4. j # 0 => j - 1 \in 0..(n + 1) /\ j - 1 # n + 1
        BY <4>1
      <4>5. j # 0 => h[j - 1] = g[j - 1]
        BY <4>4
      <4> QED
        BY <4>2, <4>3, <4>5
    <3> QED
      BY <3>1, <3>2
  <2>3. h = [j \in 0..(n + 1) |-> h[j]]
    OBVIOUS
  <2> HIDE DEF h
  <2>4. h = [j \in 0..(n + 1) |-> IF j = 0 THEN fl ELSE FreeTurn(h[j - 1], base, bits, j)]
    BY <2>2, <2>3
  <2> QED
    BY <2>4
<1> HIDE DEF S
<1>3. \A n \in Nat : n \in S
  BY <1>1, <1>2, NatSetInduction
<1> QED
  BY <1>3 DEF S, Turns

\* A turn keeps the lists tidy and makes its page free, if it was unused.
LEMMA TurnPages ==
    ASSUME NEW fl, Tidy(fl), NEW base \in Nat, NEW bits, NEW j \in Nat,
           NEW k, k = j + 1, NEW new, new = FreeTurn(fl, base, bits, k)
    PROVE  /\ Tidy(new)
           /\ FreePages(fl) \subseteq FreePages(new)
           /\ FreePages(fl) \subseteq Nat => FreePages(new) \subseteq Nat
           /\ j \notin bits => base + j \in FreePages(new)
           /\ HugeCandidates(fl) = {} => HugeCandidates(new) = {}
<1>1. CASE j \in bits
  BY <1>1 DEF FreeTurn
<1>2. CASE j \notin bits
  <2> DEFINE start == base + j
             end == base + (j + 1)
  <2>1. start \in Int /\ start \in Nat /\ end \in Nat /\ end = start + 1 /\ new = FreeTo(fl, start, end)
    BY <1>2 DEF FreeTurn
  <2> HIDE DEF start, end
  <2>2. Tidy(new) /\ FreePages(fl) \subseteq FreePages(new) /\ start \in FreePages(new)
    BY <2>1, FreePair
  <2>3. \A p \in FreePages(new) : p \in FreePages(fl) \/ p = start \/ p = end
    BY <2>1, FreePair
  <2>4. HugeCandidates(new) = HugeCandidates(fl)
    BY <2>1, FreePair
  <2> QED
    BY <2>1, <2>2, <2>3, <2>4 DEF start
<1> QED
  BY <1>1, <1>2

\* A demotion keeps the lists tidy, makes every unused page of the region free
\* and brings no 2MB block back.
Demotes(fl, base, bits, n, new) ==
    /\ Tidy(new)
    /\ FreePages(fl) \subseteq FreePages(new)
    /\ FreePages(fl) \subseteq Nat => FreePages(new) \subseteq Nat
    /\ \A i \in 0..(n - 1) : i \notin bits => base + i \in FreePages(new)
    /\ HugeCandidates(fl) = {} => HugeCandidates(new) = {}

\* What n turns of the loop do to the lists, by induction on n.
LEMMA FreedTurns ==
    ASSUME NEW fl, Tidy(fl), NEW base \in Nat, NEW bits, NEW n \in Nat,
           NEW s, Turns(s, fl, base, bits, n)
    PROVE  Demotes(fl, base, bits, n, s[n])
<1> DEFINE S == {j \in Nat : j <= n => Demotes(fl, base, bits, j, s[j])}
<1>1. ASSUME NEW j \in 0..n
      PROVE  s[j] = IF j = 0 THEN fl ELSE FreeTurn(s[j - 1], base, bits, j)
  BY DEF Turns
<1>2. 0 \in S
  <2>1. s[0] = fl
    BY <1>1
  <2> QED
    BY <2>1 DEF Demotes
<1>3. ASSUME NEW j \in Nat, j \in S
      PROVE  j + 1 \in S
  <2>1. SUFFICES ASSUME j + 1 <= n
                 PROVE  Demotes(fl, base, bits, j + 1, s[j + 1])
    OBVIOUS
  <2>2. Demotes(fl, base, bits, j, s[j])
    BY <1>3, <2>1
  <2>3. s[j + 1] = FreeTurn(s[j], base, bits, j + 1)
    <3>1. j + 1 \in 0..n /\ j + 1 # 0 /\ (j + 1) - 1 = j
      BY <2>1
    <3> QED
      BY <1>1, <3>1
  <2>4. /\ Tidy(s[j + 1])
        /\ FreePages(s[j]) \subseteq FreePages(s[j + 1])
        /\ FreePages(s[j]) \subseteq Nat => FreePages(s[j + 1]) \subseteq Nat
        /\ j \notin bits => base + j \in FreePages(s[j + 1])
        /\ HugeCandidates(s[j]) = {} => HugeCandidates(s[j + 1]) = {}
    <3> DEFINE f == s[j]
               k == j + 1
               new == s[k]
    <3>1. Tidy(f) /\ k = j + 1 /\ new = FreeTurn(f, base, bits, k)
      BY <2>2, <2>3 DEF Demotes
    <3> HIDE DEF f, new, k
    <3>2. /\ Tidy(new)
          /\ FreePages(f) \subseteq FreePages(new)
          /\ FreePages(f) \subseteq Nat => FreePages(new) \subseteq Nat
          /\ j \notin bits => base + j \in FreePages(new)
          /\ HugeCandidates(f) = {} => HugeCandidates(new) = {}
      BY <3>1, TurnPages
    <3> QED
      BY <3>2 DEF f, new, k
  <2>5. \A i \in 0..((j + 1) - 1) : i = j \/ i \in 0..(j - 1)
    OBVIOUS
  <2> QED
    BY <2>2, <2>4, <2>5 DEF Demotes
<1> HIDE DEF S
<1>4. \A j \in Nat : j \in S
  BY <1>2, <1>3, NatSetInduction
<1> QED
  BY <1>4 DEF S

\* The whole of demote_page's loop.
LEMMA FreedPages ==
    ASSUME NEW fl, Tidy(fl), NEW base \in Nat, NEW bits, NEW region,
           region.base = base, region.bits = bits, NEW new, new = FreedUnused(fl, region)
    PROVE  Demotes(fl, base, bits, HugePages, new)
<1> DEFINE s[j \in 0..HugePages] == IF j = 0 THEN fl ELSE FreeTurn(s[j - 1], base, bits, j)
<1>1. new = s[HugePages]
  BY DEF FreedUnused, FreeTurn
<1>2. HugePages \in Nat
  BY Positions
<1>3. \E g : Turns(g, fl, base, bits, HugePages)
  <2> HIDE DEF s
  <2> QED
    BY <1>2, TurnsExist
<1>4. Turns(s, fl, base, bits, HugePages)
  BY <1>3 DEF Turns
<1> HIDE DEF s
<1> QED
  BY <1>1, <1>2, <1>4, FreedTurns

\* A 4KB page, or none, after the least used region is given back.
FromDemotion(vpn) ==
    /\ Region(vpn) \notin Reserved
    /\ HugeCandidates(free_list) = {}
    /\ Candidates(free_list, 0) = {}
    /\ \E r \in LeastUsed : \E fl :
          /\ Reserved' = Reserved \ {r}
          /\ \A q \in Reserved' : two_mb_map'[q] = two_mb_map[q]
          /\ Demotes(free_list, BaseOf(r), two_mb_map[r].bits, HugePages, fl)
          /\ \/ /\ Candidates(fl, 0) = {}
                /\ result' = Page(NoPage, 12)
                /\ free_list' = fl
             \/ /\ Candidates(fl, 0) # {}
                /\ result' = Page(AllocatedPage(fl, 0), 12)
                /\ free_list' = AllocateFrom(fl, 0)
    /\ demoted'
    /\ UNCHANGED aborted

\* Every way allocate() may end, with what a demotion does to the lists.
LEMMA AllocateShape ==
    ASSUME AllocatorOK, NEW vpn, Allocate(vpn)
    PROVE  FromRegion(vpn) \/ FromLists(vpn) \/ FromDemotion(vpn) \/ Stops(vpn)
<1>1. CASE UseRegion(vpn)
  BY <1>1, UseRegionShape
<1>2. CASE FaultInPromoted(vpn)
  BY <1>2 DEF FaultInPromoted, Stops, Promoted
<1>3. CASE Fallback(vpn)
  BY <1>3 DEF Fallback, CanReserve, FromLists
<1>4. CASE DemoteAndRetry(vpn)
  <2>1. PICK r \in LeastUsed :
            LET fl == FreedUnused(free_list, two_mb_map[r])
            IN  /\ two_mb_map' = Drop(two_mb_map, {r})
                /\ IF Candidates(fl, 0) = {}
                   THEN result' = Page(NoPage, 12) /\ free_list' = fl
                   ELSE /\ result' = Page(AllocatedPage(fl, 0), 12)
                        /\ free_list' = AllocateFrom(fl, 0)
    BY <1>4, Zenon DEF DemoteAndRetry
  <2> DEFINE fl == FreedUnused(free_list, two_mb_map[r])
  <2>2. r \in Reserved
    BY DEF LeastUsed, Unpromoted
  <2>3. /\ Reserved' = Reserved \ {r}
        /\ \A q \in Reserved' : two_mb_map'[q] = two_mb_map[q]
    BY <2>1 DEF Drop, Reserved
  <2>4. Demotes(free_list, BaseOf(r), two_mb_map[r].bits, HugePages, fl)
    <3> DEFINE base == BaseOf(r)
               bits == two_mb_map[r].bits
               region == two_mb_map[r]
    <3>1. base \in Nat /\ region.base = base /\ region.bits = bits /\ Tidy(free_list)
      BY <2>2 DEF AllocatorOK, BaseOf
    <3>2. fl = FreedUnused(free_list, region)
      OBVIOUS
    <3> HIDE DEF base, bits, region, fl
    <3>3. Demotes(free_list, base, bits, HugePages, fl)
      BY <3>1, <3>2, FreedPages
    <3> QED
      BY <3>3 DEF base, bits
  <2>5. \/ /\ Candidates(fl, 0) = {}
           /\ result' = Page(NoPage, 12)
           /\ free_list' = fl
        \/ /\ Candidates(fl, 0) # {}
           /\ result' = Page(AllocatedPage(fl, 0), 12)
           /\ free_list' = AllocateFrom(fl, 0)
    BY <2>1
  <2>6. /\ Region(vpn) \notin Reserved /\ HugeCandidates(free_list) = {}
        /\ Candidates(free_list, 0) = {}
        /\ demoted' /\ UNCHANGED aborted
    BY <1>4 DEF DemoteAndRetry, CanReserve
  <2> HIDE DEF fl
  <2> QED
    BY <2>2, <2>3, <2>4, <2>5, <2>6 DEF FromDemotion
<1>5. CASE OutOfMemory(vpn)
  BY <1>5 DEF OutOfMemory, Stops
<1> QED
  BY <1>1, <1>2, <1>3, <1>4, <1>5 DEF Allocate

\* The block of a new reservation is free, and is taken out of the lists.
LEMMA NewRegion ==
    ASSUME NEW fl, Good(fl), HugeCandidates(fl) # {}, NEW base, base = ReservedBlock(fl).start
    PROVE  /\ base \in Int
           /\ Good(ReserveFrom(fl))
           /\ \A p \in base..(base + (HugePages - 1)) :
                 p \in FreePages(fl) /\ p \notin FreePages(ReserveFrom(fl))
           /\ FreePages(ReserveFrom(fl)) \subseteq FreePages(fl)
           /\ \A p \in FreePages(fl) :
                 p \in FreePages(ReserveFrom(fl)) \/ p \in base..(base + (HugePages - 1))
<1>1. PICK b : b = ReservedBlock(fl)
  OBVIOUS
<1>2. /\ Good(ReserveFrom(fl)) /\ b \in Blocks /\ BlockSize(b) = 2^HugeOrder
      /\ BlockPages(b) \subseteq FreePages(fl)
      /\ FreePages(ReserveFrom(fl)) = FreePages(fl) \ BlockPages(b)
  BY <1>1, ReservePages
<1>3. base \in Int /\ base = b.start /\ b.end \in Int /\ b.end = base + (HugePages - 1)
  BY <1>1, <1>2, BlockFacts, Positions DEF HugePages
<1>4. BlockPages(b) = base..(base + (HugePages - 1))
  BY <1>3 DEF BlockPages
<1> QED
  BY <1>2, <1>3, <1>4

\* A page from the block of its region: no block moves, a new one was free.
LEMMA RegionServed ==
    ASSUME AllocatorOK, NEW vpn \in Nat, FromRegion(vpn)
    PROVE  /\ AllocatorOK'
           /\ \A q \in Reserved : BaseOf(q)' = BaseOf(q)
           /\ \A p : Loose(p) => Loose(p)'
           /\ HugeCandidates(free_list) = {} => UNCHANGED <<Reserved, free_list>>
           /\ \A p \in FreePages(free_list) :
                 p \in FreePages(free_list') \/ p \in InRegion(Region(vpn))'
<1> DEFINE r == Region(vpn)
           base == two_mb_map'[r].base
<1>1. /\ Reserved' = Reserved \cup {r}
      /\ \A q \in Reserved : q # r => two_mb_map'[q] = two_mb_map[q]
      /\ r \in Reserved =>
           /\ base = BaseOf(r)
           /\ two_mb_map'[r].bits = two_mb_map[r].bits \cup {Offset(vpn)}
           /\ free_list' = free_list
      /\ r \notin Reserved =>
           /\ HugeCandidates(free_list) # {}
           /\ base = ReservedBlock(free_list).start
           /\ two_mb_map'[r].bits = {Offset(vpn)}
           /\ free_list' = ReserveFrom(free_list)
      /\ demoted' = demoted
  BY DEF FromRegion
<1>2. \A q \in Reserved : BaseOf(q)' = BaseOf(q)
  BY <1>1 DEF BaseOf
<1>3. Offset(vpn) \in Offsets
  BY Positions DEF Offsets
<1>4. HugeCandidates(free_list) = {} => Reserved' = Reserved /\ free_list' = free_list
  BY <1>1
<1>5. ASSUME r \notin Reserved
      PROVE  /\ base \in Int
             /\ Good(free_list')
             /\ \A p \in base..(base + (HugePages - 1)) :
                   p \in FreePages(free_list) /\ p \notin FreePages(free_list')
             /\ FreePages(free_list') \subseteq FreePages(free_list)
             /\ base \in Nat /\ ~demoted
             /\ \A p \in FreePages(free_list) :
                   p \in FreePages(free_list') \/ p \in base..(base + (HugePages - 1))
  <2>1. ~demoted /\ Good(free_list)
    BY <1>1, <1>5 DEF AllocatorOK
  <2>2. HugeCandidates(free_list) # {} /\ base = ReservedBlock(free_list).start
        /\ free_list' = ReserveFrom(free_list)
    BY <1>1, <1>5
  <2> HIDE DEF base, r
  <2>3. /\ base \in Int
        /\ Good(free_list')
        /\ \A p \in base..(base + (HugePages - 1)) :
              p \in FreePages(free_list) /\ p \notin FreePages(free_list')
        /\ FreePages(free_list') \subseteq FreePages(free_list)
        /\ \A p \in FreePages(free_list) :
              p \in FreePages(free_list') \/ p \in base..(base + (HugePages - 1))
    BY <2>1, <2>2, NewRegion
  <2>4. base \in base..(base + (HugePages - 1))
    BY <2>3, Positions
  <2> QED
    BY <2>1, <2>3, <2>4 DEF AllocatorOK
<1>6. \A q \in Reserved' : BaseOf(q)' \in Nat /\ two_mb_map'[q].bits \subseteq Offsets
  BY <1>1, <1>2, <1>3, <1>5 DEF AllocatorOK, BaseOf
<1>7. Tidy(free_list') /\ FreePages(free_list') \subseteq Nat /\ (~demoted => Good(free_list'))
  BY <1>1, <1>5 DEF AllocatorOK, Good, Tidy
<1>8. demoted => HugeCandidates(free_list') = {}
  BY <1>1, <1>5 DEF AllocatorOK
<1>9. ASSUME NEW q \in Reserved
      PROVE  InRegion(q)' = InRegion(q)
  BY <1>2 DEF InRegion
<1>10. InRegion(r)' = base..(base + (HugePages - 1))
  BY DEF InRegion, BaseOf
<1>11. ASSUME ~demoted, NEW q \in Reserved'
       PROVE  InRegion(q)' \cap FreePages(free_list') = {}
  <2>1. CASE q \in Reserved
    BY <1>1, <1>5, <1>9, <1>11, <2>1 DEF AllocatorOK
  <2>2. CASE q \notin Reserved
    BY <1>1, <1>5, <1>10, <2>2
  <2> QED
    BY <2>1, <2>2
<1>12. ASSUME ~demoted, NEW q \in Reserved', NEW t \in Reserved', q # t
       PROVE  InRegion(q)' \cap InRegion(t)' = {}
  <2>1. CASE q \in Reserved /\ t \in Reserved
    BY <1>9, <1>12, <2>1 DEF AllocatorOK
  <2>2. ASSUME NEW x \in Reserved, r \notin Reserved
        PROVE  InRegion(x)' \cap InRegion(r)' = {}
    BY <1>5, <1>9, <1>10, <1>12, <2>2 DEF AllocatorOK
  <2> QED
    BY <1>1, <1>12, <2>1, <2>2
<1>13. ASSUME NEW p, Loose(p)
       PROVE  Loose(p)'
  <2>1. p \notin FreePages(free_list')
    BY <1>1, <1>5, <1>13 DEF Loose
  <2>2. ASSUME NEW q \in Reserved' PROVE p \notin InRegion(q)'
    BY <1>1, <1>5, <1>9, <1>10, <1>13 DEF Loose
  <2> QED
    BY <2>1, <2>2 DEF Loose
<1>14. ASSUME NEW p \in FreePages(free_list)
       PROVE  p \in FreePages(free_list') \/ p \in InRegion(r)'
  BY <1>1, <1>5, <1>10
<1> QED
  BY <1>1, <1>2, <1>4, <1>6, <1>7, <1>8, <1>11, <1>12, <1>13, <1>14 DEF AllocatorOK

\* A page of the lists: it was free, and is in no list and no block any more
\* if nothing was demoted.
LEMMA ListServed ==
    ASSUME AllocatorOK, NEW vpn \in Nat, FromLists(vpn)
    PROVE  /\ AllocatorOK'
           /\ HugeCandidates(free_list') = {}
           /\ result'.ppn \in FreePages(free_list)
           /\ FreePages(free_list) \subseteq FreePages(free_list') \cup {result'.ppn}
           /\ ~demoted => Loose(result.ppn)'
           /\ ~demoted => \A p : Loose(p) => Loose(p)'
<1> DEFINE page == result'.ppn
<1>1. /\ HugeCandidates(free_list) = {} /\ Candidates(free_list, 0) # {}
      /\ page = AllocatedPage(free_list, 0)
      /\ free_list' = AllocateFrom(free_list, 0)
      /\ two_mb_map' = two_mb_map /\ demoted' = demoted
  BY DEF FromLists, Page
<1>2. Tidy(free_list)
  BY DEF AllocatorOK
<1> HIDE DEF page
<1>3. /\ Tidy(free_list') /\ page \in FreePages(free_list)
      /\ FreePages(free_list) \subseteq FreePages(free_list') \cup {page}
      /\ FreePages(free_list') \subseteq FreePages(free_list)
      /\ HugeCandidates(free_list') = {}
  BY <1>1, <1>2, AllocateOne
<1>4. ASSUME ~demoted
      PROVE  /\ Good(free_list')
             /\ FreePages(free_list') \subseteq FreePages(free_list)
             /\ page \notin FreePages(free_list')
  <2>1. Good(free_list) /\ 0 \in Orders
    BY <1>4, OrderType DEF AllocatorOK
  <2>2. /\ Good(AllocateFrom(free_list, 0)) /\ page \in Int
        /\ FreePages(AllocateFrom(free_list, 0)) = FreePages(free_list) \ BlockPages(Block(page, 0))
    BY <1>1, <2>1, AllocatePages
  <2>3. page \in BlockPages(Block(page, 0))
    BY <2>1, <2>2, BlockOfOrder, PowersOfTwo
  <2> QED
    BY <1>1, <2>2, <2>3
<1>5. /\ Reserved' = Reserved
      /\ \A q \in Reserved : InRegion(q)' = InRegion(q) /\ BaseOf(q)' = BaseOf(q)
  BY <1>1 DEF Reserved, InRegion, BaseOf
<1>6. AllocatorOK'
  <2>1. \A q \in Reserved' : BaseOf(q)' \in Nat /\ two_mb_map'[q].bits \subseteq Offsets
    BY <1>1, <1>5 DEF AllocatorOK
  <2>2. ASSUME ~demoted
        PROVE  /\ \A q \in Reserved' : InRegion(q)' \cap FreePages(free_list') = {}
               /\ \A q, t \in Reserved' : q # t => InRegion(q)' \cap InRegion(t)' = {}
    BY <1>4, <1>5, <2>2 DEF AllocatorOK
  <2> QED
    BY <1>1, <1>3, <1>4, <2>1, <2>2 DEF AllocatorOK
<1>7. ASSUME ~demoted
      PROVE  Loose(result.ppn)' /\ \A p : Loose(p) => Loose(p)'
  <2>1. \A q \in Reserved : page \notin InRegion(q)
    BY <1>3, <1>7 DEF AllocatorOK
  <2> QED
    BY <1>4, <1>5, <1>7, <2>1 DEF Loose, page
<1> QED
  BY <1>3, <1>6, <1>7 DEF page

\* A page after a demotion: the region is gone from the map, its unused pages are
\* free but for the one returned, and no 2MB block is left.
LEMMA DemotionServed ==
    ASSUME AllocatorOK, NEW vpn \in Nat, FromDemotion(vpn)
    PROVE  /\ AllocatorOK'
           /\ HugeCandidates(free_list') = {}
           /\ Reserved' \subseteq Reserved
           /\ \A q \in Reserved' : two_mb_map'[q] = two_mb_map[q]
           /\ \A q \in Reserved : Promoted(q) => Promoted(q)'
           /\ demoted' /\ result'.size = 12
<1>1. PICK r \in LeastUsed : \E fl :
          /\ Reserved' = Reserved \ {r}
          /\ \A q \in Reserved' : two_mb_map'[q] = two_mb_map[q]
          /\ Demotes(free_list, BaseOf(r), two_mb_map[r].bits, HugePages, fl)
          /\ \/ /\ Candidates(fl, 0) = {}
                /\ result' = Page(NoPage, 12)
                /\ free_list' = fl
             \/ /\ Candidates(fl, 0) # {}
                /\ result' = Page(AllocatedPage(fl, 0), 12)
                /\ free_list' = AllocateFrom(fl, 0)
  BY DEF FromDemotion
<1>2. PICK fl :
          /\ Reserved' = Reserved \ {r}
          /\ \A q \in Reserved' : two_mb_map'[q] = two_mb_map[q]
          /\ Demotes(free_list, BaseOf(r), two_mb_map[r].bits, HugePages, fl)
          /\ \/ /\ Candidates(fl, 0) = {}
                /\ result' = Page(NoPage, 12)
                /\ free_list' = fl
             \/ /\ Candidates(fl, 0) # {}
                /\ result' = Page(AllocatedPage(fl, 0), 12)
                /\ free_list' = AllocateFrom(fl, 0)
  BY <1>1
<1>3. /\ Tidy(fl) /\ FreePages(fl) \subseteq Nat
      /\ HugeCandidates(fl) = {}
  BY <1>2 DEF Demotes, AllocatorOK, FromDemotion
<1>4. /\ Tidy(free_list') /\ FreePages(free_list') \subseteq Nat
      /\ HugeCandidates(free_list') = {}
  <2>1. CASE free_list' = fl
    BY <1>3, <2>1
  <2>2. CASE Candidates(fl, 0) # {} /\ free_list' = AllocateFrom(fl, 0)
    BY <1>3, <2>2, AllocateOne
  <2> QED
    BY <1>2, <2>1, <2>2
<1>5. result'.size = 12
  BY <1>2 DEF Page
<1>6. demoted'
  BY DEF FromDemotion
<1>7. \A q \in Reserved' : BaseOf(q)' \in Nat /\ two_mb_map'[q].bits \subseteq Offsets
  BY <1>2 DEF AllocatorOK, BaseOf
<1>8. \A q \in Reserved : Promoted(q) => Promoted(q)'
  BY <1>2 DEF Promoted, LeastUsed, Unpromoted
<1> QED
  BY <1>2, <1>4, <1>5, <1>6, <1>7, <1>8 DEF AllocatorOK

-----------------------------------------------------------------------------
(* Where the entries of the tables point.                                  *)

\* A core translates its own pages only.
OwnAccess == \A c \in Cores : pc[c] # "idle" => access[c] \in VpnsOf[c]

\* A 4KB entry points to the home of its page.  Only when there is no 2MB block
\* left may it have been entered for, or kept from, a region without one.
EntriesHome ==
    \A x \in DOMAIN pte :
        /\ Region(x[2]) \in Reserved => pte[x] = Home(x[2])
        /\ Region(x[2]) \notin Reserved => HugeCandidates(free_list) = {}

\* A 2MB entry points to the block of its region.
EntriesHuge == \A x \in DOMAIN pmd : Promoted(x[2]) /\ pmd[x] = BaseOf(x[2])

\* So does the pair the allocator returned, until it is entered.
ResultHome ==
    \A c \in Cores : pc[c] = "update" /\ aborted = "no" =>
        /\ Region(access[c]) \in Reserved =>
             \/ result = Page(BaseOf(Region(access[c])), 21)
             \/ result = Page(Home(access[c]), 12)
        /\ Region(access[c]) \notin Reserved =>
             result.size = 12 /\ HugeCandidates(free_list) = {}

\* Before the first demotion, a page outside the blocks is free, or it backs one
\* virtual page, or it is about to.
Apart ==
    ~demoted =>
      /\ \A x \in DOMAIN pte : Region(x[2]) \notin Reserved =>
            /\ Loose(pte[x])
            /\ \A y \in DOMAIN pte : pte[y] = pte[x] => y[2] = x[2]
      /\ \A c \in Cores : pc[c] = "update" /\ aborted = "no" /\ Region(access[c]) \notin Reserved =>
               /\ Loose(result.ppn)
               /\ \A x \in DOMAIN pte : pte[x] # result.ppn

Placement ==
    OwnAccess /\ AllocatorOK /\ EntriesHome /\ EntriesHuge /\ ResultHome /\ Apart

\* The pages of the tables' entries are virtual pages.
LEMMA EntryPages ==
    ASSUME TypeOK
    PROVE  /\ Vpns \subseteq Nat
           /\ \A x \in DOMAIN pte : x = <<x[1], x[2]>> /\ x[1] \in Apps /\ x[2] \in Vpns /\ x[2] \in Nat
           /\ \A x \in DOMAIN pmd : x = <<x[1], x[2]>> /\ x[1] \in Apps
BY PageFaultAssumption DEF TypeOK, Vpns

\* The fragmented lists of the start satisfy the invariant.
LEMMA PlacementInit == Init => Placement
<1> SUFFICES ASSUME Init PROVE Placement
  OBVIOUS
<1>1. DOMAIN pte = {} /\ DOMAIN pmd = {} /\ Reserved = {} /\ ~demoted
  BY DEF Init, Reserved
<1>2. WellFormed(free_list) /\ FreePages(free_list) = Pages
  BY StartAssumption DEF Init
<1>3. Good(free_list)
  BY <1>2, WellFormedGood
<1>4. Pages \subseteq Nat
  BY OrderType DEF Pages
<1>5. AllocatorOK
  BY <1>1, <1>2, <1>3, <1>4 DEF AllocatorOK, Good, Tidy
<1>6. OwnAccess /\ ResultHome /\ Apart
  BY <1>1 DEF OwnAccess, ResultHome, Apart, Init
<1> QED
  BY <1>1, <1>5, <1>6 DEF Placement, EntriesHome, EntriesHuge

\* A step outside the handler.
LEMMA PlacementQuiet ==
    ASSUME Placement, UNCHANGED <<free_list, two_mb_map, demoted, result, pte, pmd>>,
           aborted' = "no" => aborted = "no", OwnAccess',
           \A c \in Cores : pc'[c] = "update" => pc[c] = "update" /\ access'[c] = access[c]
    PROVE  Placement'
<1>1. AllocatorOK'
  BY DEF Placement, AllocatorOK, InRegion, BaseOf, Reserved
<1>2. EntriesHome' /\ EntriesHuge'
  BY DEF Placement, EntriesHome, EntriesHuge, Home, BaseOf, Reserved, Promoted
<1>3. ResultHome'
  BY DEF Placement, ResultHome, Home, BaseOf, Reserved
<1>4. \A p : Loose(p)' = Loose(p)
  BY DEF Loose, InRegion, BaseOf, Reserved
<1>5. Apart'
  BY <1>4 DEF Placement, Apart, Reserved
<1> QED
  BY <1>1, <1>2, <1>3, <1>5 DEF Placement

\* The page of a 4KB entry lies in the block of its region, if it has one.
LEMMA HomeInRegion ==
    ASSUME AllocatorOK, NEW v \in Nat, Region(v) \in Reserved
    PROVE  Home(v) \in InRegion(Region(v)) /\ Home(v) \in Nat
<1> DEFINE b == BaseOf(Region(v))
<1>1. b \in Nat
  BY DEF AllocatorOK
<1>2. Offset(v) \in Nat /\ Offset(v) < HugePages /\ HugePages \in Nat
  BY Positions
<1> HIDE DEF b
<1>3. b + Offset(v) \in b..(b + (HugePages - 1)) /\ b + Offset(v) \in Nat
  BY <1>1, <1>2
<1> QED
  BY <1>3 DEF Home, InRegion, b

\* The allocation of the data page.
LEMMA PlacementAllocate ==
    ASSUME Inv, aborted = "no", Placement, NEW c \in Cores, AllocateData(c)
    PROVE  Placement'
<1>0. PICK v : v = access[c]
  OBVIOUS
<1> DEFINE r == Region(v)
<1>1. /\ pc[c] = "allocate" /\ pc' = [pc EXCEPT ![c] = "update"]
      /\ Allocate(v)
      /\ UNCHANGED <<access, pte, pmd>>
  BY <1>0 DEF AllocateData, tableVars
<1>2. TypeOK /\ Exclusive /\ AllocatorOK /\ EntriesHome /\ EntriesHuge /\ Apart /\ OwnAccess
  BY DEF Inv, Placement
<1>3. v \in VpnsOf[c] /\ v \in Nat
  BY <1>0, <1>1, <1>2, PageFaultAssumption DEF OwnAccess
<1>4. OwnAccess'
  BY <1>1, <1>2 DEF OwnAccess, TypeOK
<1>5. \A d \in Cores : pc'[d] = "update" <=> d = c
  BY <1>1, <1>2 DEF TypeOK, Exclusive
<1>6. \A x \in DOMAIN pte : x[2] \in Nat
  BY <1>2, EntryPages
<1> HIDE DEF r
<1>7. CASE FromRegion(v)
  <2>1. /\ AllocatorOK'
        /\ \A q \in Reserved : BaseOf(q)' = BaseOf(q)
        /\ \A p : Loose(p) => Loose(p)'
        /\ HugeCandidates(free_list) = {} => Reserved' = Reserved /\ free_list' = free_list
    BY <1>2, <1>3, <1>7, RegionServed
  <2>2. /\ Reserved \subseteq Reserved' /\ r \in Reserved' /\ demoted' = demoted
        /\ \/ result' = Page(BaseOf(r)', 21)
           \/ result' = Page(BaseOf(r)' + Offset(v), 12)
    BY <1>7 DEF FromRegion, BaseOf, r
  <2>0. \A q : Promoted(q) => Promoted(q)'
    BY <1>7 DEF FromRegion, Promoted
  <2>3. EntriesHome'
    BY <1>1, <1>2, <2>1, <2>2 DEF EntriesHome, Home
  <2>4. EntriesHuge'
    BY <1>1, <1>2, <2>0, <2>1, <2>2 DEF EntriesHuge, Promoted
  <2>5. ResultHome'
    <3>1. Region(access'[c]) = r /\ Home(access[c])' = BaseOf(r)' + Offset(v)
      BY <1>0, <1>1 DEF Home, r
    <3> QED
      BY <1>5, <2>2, <3>1 DEF ResultHome
  <2>6. Apart'
    <3>1. Region(access'[c]) \in Reserved'
      BY <1>0, <1>1, <2>2 DEF r
    <3>2. ASSUME ~demoted, NEW x \in DOMAIN pte, Region(x[2]) \notin Reserved'
          PROVE  Loose(pte[x])' /\ \A y \in DOMAIN pte : pte[y] = pte[x] => y[2] = x[2]
      <4>1. Region(x[2]) \notin Reserved
        BY <2>2, <3>2
      <4>2. Loose(pte[x]) /\ \A y \in DOMAIN pte : pte[y] = pte[x] => y[2] = x[2]
        BY <1>2, <3>2, <4>1 DEF Apart
      <4>3. PICK p : p = pte[x]
        OBVIOUS
      <4>4. Loose(p)'
        BY <2>1, <4>2, <4>3
      <4> QED
        BY <1>1, <4>2, <4>3, <4>4 DEF Loose
    <3> QED
      BY <1>1, <1>5, <2>2, <3>1, <3>2 DEF Apart
  <2> QED
    BY <1>4, <2>1, <2>3, <2>4, <2>5, <2>6 DEF Placement
<1>8. CASE FromLists(v)
  <2>1. /\ AllocatorOK'
        /\ HugeCandidates(free_list') = {}
        /\ result'.ppn \in FreePages(free_list)
        /\ ~demoted => Loose(result.ppn)'
        /\ ~demoted => \A p : Loose(p) => Loose(p)'
    BY <1>2, <1>3, <1>8, ListServed
  <2>2. /\ r \notin Reserved /\ two_mb_map' = two_mb_map /\ demoted' = demoted
        /\ HugeCandidates(free_list) = {} /\ result'.size = 12
    BY <1>8 DEF FromLists, r, Page
  <2>3. /\ Reserved' = Reserved
        /\ \A q : BaseOf(q)' = BaseOf(q) /\ (Promoted(q)' <=> Promoted(q))
    BY <2>2 DEF Reserved, BaseOf, Promoted
  <2>4. EntriesHome'
    BY <1>1, <1>2, <2>1, <2>3 DEF EntriesHome, Home
  <2>5. EntriesHuge'
    BY <1>1, <1>2, <2>3 DEF EntriesHuge
  <2>6. ResultHome'
    <3>1. Region(access'[c]) = r
      BY <1>0, <1>1 DEF r
    <3> QED
      BY <1>5, <2>1, <2>2, <2>3, <3>1 DEF ResultHome
  <2>7. Apart'
    <3>1. ASSUME ~demoted, NEW x \in DOMAIN pte, Region(x[2]) \notin Reserved
          PROVE  Loose(pte[x])' /\ \A y \in DOMAIN pte : pte[y] = pte[x] => y[2] = x[2]
      <4>1. Loose(pte[x]) /\ \A y \in DOMAIN pte : pte[y] = pte[x] => y[2] = x[2]
        BY <1>2, <3>1 DEF Apart
      <4>2. PICK p : p = pte[x]
        OBVIOUS
      <4>3. Loose(p)'
        BY <2>1, <3>1, <4>1, <4>2
      <4> QED
        BY <1>1, <4>1, <4>2, <4>3 DEF Loose
    <3>2. ASSUME ~demoted, NEW x \in DOMAIN pte
          PROVE  pte[x] # result'.ppn
      <4>1. CASE Region(x[2]) \in Reserved
        <5>1. pte[x] = Home(x[2]) /\ Home(x[2]) \in InRegion(Region(x[2]))
          BY <1>2, <1>6, <4>1, HomeInRegion DEF EntriesHome
        <5> QED
          BY <1>2, <2>1, <3>2, <4>1, <5>1 DEF AllocatorOK
      <4>2. CASE Region(x[2]) \notin Reserved
        BY <1>2, <2>1, <3>2, <4>2 DEF Apart, Loose
      <4> QED
        BY <4>1, <4>2
    <3> QED
      BY <1>1, <1>5, <2>1, <2>2, <2>3, <3>1, <3>2 DEF Apart
  <2> QED
    BY <1>4, <2>1, <2>4, <2>5, <2>6, <2>7 DEF Placement
<1>9. CASE FromDemotion(v)
  <2>1. /\ AllocatorOK'
        /\ HugeCandidates(free_list') = {}
        /\ Reserved' \subseteq Reserved
        /\ \A q \in Reserved' : two_mb_map'[q] = two_mb_map[q]
        /\ \A q \in Reserved : Promoted(q) => Promoted(q)'
        /\ demoted' /\ result'.size = 12
    BY <1>2, <1>3, <1>9, DemotionServed
  <2>2. r \notin Reserved
    BY <1>9 DEF FromDemotion, r
  <2>3. EntriesHome'
    BY <1>1, <1>2, <2>1 DEF EntriesHome, Home, BaseOf
  <2>4. EntriesHuge'
    BY <1>1, <1>2, <2>1 DEF EntriesHuge, Promoted, BaseOf
  <2>5. ResultHome'
    <3>1. Region(access'[c]) = r
      BY <1>0, <1>1 DEF r
    <3> QED
      BY <1>5, <2>1, <2>2, <3>1 DEF ResultHome
  <2> QED
    BY <1>4, <2>1, <2>3, <2>4, <2>5 DEF Placement, Apart
<1>10. CASE Stops(v)
  <2>1. UNCHANGED <<free_list, two_mb_map, demoted>> /\ aborted' # "no"
    BY <1>10 DEF Stops
  <2>2. AllocatorOK'
    BY <1>2, <2>1 DEF AllocatorOK, InRegion, BaseOf, Reserved
  <2>3. EntriesHome' /\ EntriesHuge'
    BY <1>1, <1>2, <2>1 DEF EntriesHome, EntriesHuge, Home, BaseOf, Reserved, Promoted
  <2>4. ResultHome'
    BY <2>1 DEF ResultHome
  <2>5. Apart'
    BY <1>1, <1>2, <2>1 DEF Apart, Loose, InRegion, BaseOf, Reserved
  <2> QED
    BY <1>4, <2>2, <2>3, <2>4, <2>5 DEF Placement
<1> QED
  BY <1>1, <1>2, <1>7, <1>8, <1>9, <1>10, AllocateShape

\* What an update does to the entries.
Enters4KB(app, v) ==
    /\ result.size # 21
    /\ pmd' = pmd
    /\ DOMAIN pte' = DOMAIN pte \cup {<<app, v>>}
    /\ pte'[<<app, v>>] = result.ppn
    /\ \A x \in DOMAIN pte : x # <<app, v>> => pte'[x] = pte[x]

Enters2MB(app, v) ==
    /\ result.size = 21
    /\ DOMAIN pmd' = DOMAIN pmd \cup {<<app, Region(v)>>}
    /\ pmd'[<<app, Region(v)>>] = result.ppn
    /\ \A x \in DOMAIN pmd : x # <<app, Region(v)>> => pmd'[x] = pmd[x]
    /\ DOMAIN pte' = DOMAIN pte \ ({app} \X {w \in Vpns : Region(w) = Region(v)})
    /\ \A x \in DOMAIN pte' : pte'[x] = pte[x]

\* An update enters one page, of 4KB or of 2MB.
LEMMA UpdateEntries ==
    ASSUME NEW c \in Cores, UpdateTables(c)
    PROVE  Enters4KB(AppOf[c], access[c]) \/ Enters2MB(AppOf[c], access[c])
<1> DEFINE app == AppOf[c]
           v == access[c]
<1>1. Install(c)
  BY DEF UpdateTables
<1>2. CASE result.size # 21
  <2>1. pte' = Put(pte, <<app, v>>, result.ppn) /\ pmd' = pmd
    BY <1>1, <1>2 DEF Install, Install4KB
  <2> QED
    BY <1>2, <2>1 DEF Put, Enters4KB
<1>3. CASE result.size = 21
  <2>1. /\ pmd' = Put(pmd, <<app, Region(v)>>, result.ppn)
        /\ pte' = Drop(pte, {app} \X {w \in Vpns : Region(w) = Region(v)})
    BY <1>1, <1>3 DEF Install, Install2MB
  <2> QED
    BY <1>3, <2>1 DEF Put, Drop, Enters2MB
<1> QED
  BY <1>2, <1>3

\* The update of the tables.
LEMMA PlacementUpdate ==
    ASSUME Inv, aborted = "no", Placement, NEW c \in Cores, UpdateTables(c)
    PROVE  Placement'
<1>0. PICK v : v = access[c]
  OBVIOUS
<1> DEFINE r == Region(v)
           app == AppOf[c]
<1>1. /\ pc[c] = "update" /\ pc' = [pc EXCEPT ![c] = "walk"]
      /\ UNCHANGED <<access, free_list, two_mb_map, demoted, result, aborted>>
  BY DEF UpdateTables, allocVars
<1>2. /\ TypeOK /\ Exclusive /\ ResultFits /\ AllocatorOK /\ EntriesHome /\ EntriesHuge
      /\ ResultHome /\ Apart /\ OwnAccess
  BY DEF Inv, Placement
<1>3. \A d \in Cores : pc'[d] # "update"
  BY <1>1, <1>2 DEF TypeOK, Exclusive
<1>4. /\ Reserved' = Reserved
      /\ \A q : BaseOf(q)' = BaseOf(q) /\ InRegion(q)' = InRegion(q)
      /\ \A q : Promoted(q)' <=> Promoted(q)
      /\ \A p : Loose(p)' <=> Loose(p)
      /\ \A w : Home(w)' = Home(w)
  BY <1>1 DEF Reserved, BaseOf, InRegion, Promoted, Loose, Home
<1>5. /\ r \in Reserved => result = Page(BaseOf(r), 21) \/ result = Page(Home(v), 12)
      /\ r \notin Reserved =>
           /\ result.size = 12 /\ HugeCandidates(free_list) = {}
           /\ ~demoted => Loose(result.ppn) /\ \A x \in DOMAIN pte : pte[x] # result.ppn
      /\ result.size = 21 => Promoted(r)
  BY <1>0, <1>1, <1>2 DEF ResultHome, Apart, ResultFits
<1>6. v \in Nat /\ \A x \in DOMAIN pte : x[2] \in Nat
  BY <1>0, <1>1, <1>2, EntryPages, PageFaultAssumption DEF OwnAccess
<1>7. OwnAccess'
  BY <1>1, <1>2 DEF OwnAccess, TypeOK
<1>8. AllocatorOK'
  BY <1>1, <1>2, <1>4 DEF AllocatorOK
<1>9. ResultHome'
  BY <1>3 DEF ResultHome
<1> HIDE DEF r, app
<1>10. CASE Enters4KB(app, v)
  <2>1. /\ pmd' = pmd
        /\ DOMAIN pte' = DOMAIN pte \cup {<<app, v>>}
        /\ pte'[<<app, v>>] = result.ppn
        /\ \A x \in DOMAIN pte : x # <<app, v>> => pte'[x] = pte[x]
    BY <1>10 DEF Enters4KB
  <2>2. /\ <<app, v>>[2] = v
        /\ r \in Reserved => result.ppn = Home(v)
    BY <1>5, <1>10 DEF Page, Enters4KB
  <2>3. EntriesHome'
    <3>1. ASSUME NEW x \in DOMAIN pte'
          PROVE  /\ Region(x[2]) \in Reserved => pte'[x] = Home(x[2])
                 /\ Region(x[2]) \notin Reserved => HugeCandidates(free_list) = {}
      <4>1. CASE x = <<app, v>>
        BY <1>5, <2>1, <2>2, <4>1 DEF r
      <4>2. CASE x # <<app, v>>
        BY <1>2, <2>1, <4>2 DEF EntriesHome
      <4> QED
        BY <4>1, <4>2
    <3> QED
      BY <1>1, <1>4, <3>1 DEF EntriesHome
  <2>4. EntriesHuge'
    BY <1>2, <1>4, <2>1 DEF EntriesHuge
  <2>5. Apart'
    <3>1. SUFFICES ASSUME ~demoted, NEW x \in DOMAIN pte', Region(x[2]) \notin Reserved
                   PROVE  /\ Loose(pte'[x])
                          /\ \A y \in DOMAIN pte' : pte'[y] = pte'[x] => y[2] = x[2]
      BY <1>1, <1>3, <1>4 DEF Apart, Loose
    <3>2. CASE x = <<app, v>>
      BY <1>5, <2>1, <2>2, <3>1, <3>2 DEF r
    <3>3. CASE x # <<app, v>>
      <4>1. x \in DOMAIN pte /\ pte'[x] = pte[x]
        BY <2>1, <3>3
      <4>2. Loose(pte[x]) /\ \A y \in DOMAIN pte : pte[y] = pte[x] => y[2] = x[2]
        BY <1>2, <3>1, <4>1 DEF Apart
      <4>3. pte'[<<app, v>>] # pte[x]
        <5>1. CASE r \in Reserved
          <6>1. Home(v) \in InRegion(r)
            BY <1>2, <1>6, <5>1, HomeInRegion DEF r
          <6> QED
            BY <2>1, <2>2, <4>2, <5>1, <6>1 DEF Loose
        <5>2. CASE r \notin Reserved
          BY <1>5, <2>1, <3>1, <4>1, <5>2
        <5> QED
          BY <5>1, <5>2
      <4> QED
        BY <2>1, <4>1, <4>2, <4>3
    <3> QED
      BY <3>2, <3>3
  <2> QED
    BY <1>7, <1>8, <1>9, <2>3, <2>4, <2>5 DEF Placement
<1>11. CASE Enters2MB(app, v)
  <2>1. /\ DOMAIN pmd' = DOMAIN pmd \cup {<<app, r>>}
        /\ pmd'[<<app, r>>] = result.ppn
        /\ \A x \in DOMAIN pmd : x # <<app, r>> => pmd'[x] = pmd[x]
        /\ DOMAIN pte' \subseteq DOMAIN pte
        /\ \A x \in DOMAIN pte' : pte'[x] = pte[x]
    BY <1>11 DEF Enters2MB, r
  <2>2. Promoted(r) /\ result.ppn = BaseOf(r) /\ <<app, r>>[2] = r
    BY <1>5, <1>11 DEF Page, Promoted, Enters2MB
  <2>3. EntriesHome'
    BY <1>1, <1>2, <1>4, <2>1 DEF EntriesHome
  <2>4. EntriesHuge'
    BY <1>2, <1>4, <2>1, <2>2 DEF EntriesHuge
  <2>5. Apart'
    <3>1. ASSUME ~demoted, NEW x \in DOMAIN pte', Region(x[2]) \notin Reserved
          PROVE  /\ Loose(pte'[x])
                 /\ \A y \in DOMAIN pte' : pte'[y] = pte'[x] => y[2] = x[2]
      BY <1>2, <2>1, <3>1 DEF Apart
    <3> QED
      BY <1>1, <1>3, <1>4, <3>1 DEF Apart, Loose
  <2> QED
    BY <1>7, <1>8, <1>9, <2>3, <2>4, <2>5 DEF Placement
<1> QED
  BY <1>0, <1>10, <1>11, UpdateEntries DEF app

\* The invariant that says where every entry points.
THEOREM PlacementInvariance == Spec => []Placement
<1>1. Init => Placement
  BY PlacementInit
<1>2. Inv /\ Placement /\ [Next]_vars => Placement'
  <2> SUFFICES ASSUME Inv, Placement, [Next]_vars PROVE Placement'
    OBVIOUS
  <2>0. TypeOK /\ OwnAccess
    BY DEF Inv, Placement
  <2>1. CASE Next
    <3>1. aborted = "no"
      BY <2>1 DEF Next
    <3>2. PICK c \in Cores : Step(c)
      BY <2>1 DEF Next
    <3>3. CASE AllocateData(c)
      BY <3>1, <3>3, PlacementAllocate
    <3>4. CASE UpdateTables(c)
      BY <3>1, <3>4, PlacementUpdate
    <3>5. CASE \/ \E vpn \in VpnsOf[c] : TlbMiss(c, vpn)
               \/ WalkHit(c) \/ WalkInvalid(c) \/ WalkFault(c) \/ Acquire(c)
      <4>1. UNCHANGED <<free_list, two_mb_map, demoted, result, pte, pmd>>
        BY <3>5 DEF TlbMiss, WalkHit, WalkInvalid, WalkFault, Acquire, allocVars, tableVars
      <4>2. OwnAccess'
        BY <2>0, <3>5 DEF TlbMiss, WalkHit, WalkInvalid, WalkFault, Acquire, coreVars, OwnAccess, TypeOK
      <4>3. \A d \in Cores : pc'[d] = "update" => pc[d] = "update" /\ access'[d] = access[d]
        BY <2>0, <3>5 DEF TlbMiss, WalkHit, WalkInvalid, WalkFault, Acquire, coreVars, TypeOK
      <4> QED
        BY <3>1, <4>1, <4>2, <4>3, PlacementQuiet
    <3> QED
      BY <3>2, <3>3, <3>4, <3>5 DEF Step, Translate
  <2>2. CASE UNCHANGED vars
    <3>1. OwnAccess'
      BY <2>0, <2>2 DEF vars, OwnAccess
    <3> QED
      BY <2>2, <3>1, PlacementQuiet DEF vars
  <2> QED
    BY <2>1, <2>2
<1> QED
  BY <1>1, <1>2, Invariance, PTL DEF Spec

\* The physical page behind a mapped virtual page: its home if the region has a
\* block, whatever the size of the mapping, and what the 4KB entry says if not.
LEMMA PhysicalOf ==
    ASSUME Placement, NEW a, NEW v, Mapped(a, v),
           NEW p, p = PhysicalPage(Translation(a, v), v)
    PROVE  /\ Region(v) \in Reserved => p = Home(v)
           /\ Region(v) \notin Reserved =>
                 <<a, v>> \in DOMAIN pte /\ p = pte[<<a, v>>] /\ ~Huge(a, v)
<1>1. EntriesHome /\ EntriesHuge
  BY DEF Placement
<1>2. CASE Huge(a, v)
  <2>1. <<a, Region(v)>> \in DOMAIN pmd /\ p = pmd[<<a, Region(v)>>] + Offset(v)
    BY <1>2 DEF Huge, Translation, PhysicalPage, Page
  <2>2. <<a, Region(v)>>[2] = Region(v)
    OBVIOUS
  <2>3. Promoted(Region(v)) /\ pmd[<<a, Region(v)>>] = BaseOf(Region(v))
    BY <1>1, <2>1, <2>2 DEF EntriesHuge
  <2> QED
    BY <2>1, <2>3 DEF Home, Promoted
<1>3. CASE ~Huge(a, v)
  <2>1. <<a, v>> \in DOMAIN pte /\ p = pte[<<a, v>>]
    BY <1>3 DEF Mapped, Translation, PhysicalPage, Page
  <2>2. <<a, v>>[2] = v
    OBVIOUS
  <2>3. Region(v) \in Reserved => pte[<<a, v>>] = Home(v)
    BY <1>1, <2>1, <2>2 DEF EntriesHome
  <2> QED
    BY <1>3, <2>1, <2>3
<1> QED
  BY <1>2, <1>3

\* "Each PA should be assigned to only one VA", up to the first demotion: any
\* number of cores and applications, any threshold, any fragmented start.
THEOREM OneVirtualPagePerFrame == Spec => []EachPAOneVAUntilDemotion
<1>1. Inv /\ Placement => EachPAOneVAUntilDemotion
  <2> SUFFICES ASSUME Inv, Placement, ~demoted, NEW a \in Apps, NEW b \in Apps,
                      NEW v \in Vpns, NEW w \in Vpns, Mapped(a, v), Mapped(b, w),
                      PhysicalPage(Translation(a, v), v) = PhysicalPage(Translation(b, w), w)
               PROVE  v = w
    BY DEF EachPAOneVAUntilDemotion, EachPAOneVA
  <2>1. PICK p : p = PhysicalPage(Translation(a, v), v)
    OBVIOUS
  <2>2. p = PhysicalPage(Translation(b, w), w)
    BY <2>1
  <2>3. v \in Nat /\ w \in Nat
    BY PageFaultAssumption DEF Vpns
  <2>4. AllocatorOK /\ Apart
    BY DEF Placement
  <2>5. /\ Region(v) \in Reserved => p = Home(v) /\ p \in InRegion(Region(v))
        /\ Region(v) \notin Reserved =>
              <<a, v>> \in DOMAIN pte /\ p = pte[<<a, v>>] /\ <<a, v>>[2] = v
    BY <2>1, <2>3, <2>4, PhysicalOf, HomeInRegion
  <2>6. /\ Region(w) \in Reserved => p = Home(w) /\ p \in InRegion(Region(w))
        /\ Region(w) \notin Reserved =>
              <<b, w>> \in DOMAIN pte /\ p = pte[<<b, w>>] /\ <<b, w>>[2] = w
    BY <2>2, <2>3, <2>4, PhysicalOf, HomeInRegion
  <2>7. CASE Region(v) \in Reserved /\ Region(w) \in Reserved
    <3>1. Region(v) = Region(w)
      BY <2>4, <2>5, <2>6, <2>7 DEF AllocatorOK
    <3>2. BaseOf(Region(v)) \in Nat
      BY <2>4, <2>7 DEF AllocatorOK
    <3>3. Offset(v) = Offset(w)
      <4>1. BaseOf(Region(v)) + Offset(v) = BaseOf(Region(v)) + Offset(w)
        BY <2>5, <2>6, <2>7, <3>1 DEF Home
      <4>2. Offset(v) \in Nat /\ Offset(w) \in Nat
        BY <2>3, Positions
      <4> QED
        BY <3>2, <4>1, <4>2
    <3> QED
      BY <2>3, <3>1, <3>3, Positions
  <2>8. CASE Region(v) \notin Reserved
    <3>1. Loose(p) /\ \A y \in DOMAIN pte : pte[y] = p => y[2] = v
      BY <2>4, <2>5, <2>8 DEF Apart
    <3>2. Region(w) \notin Reserved
      BY <2>6, <3>1 DEF Loose
    <3> QED
      BY <2>6, <3>1, <3>2
  <2>9. CASE Region(w) \notin Reserved
    <3>1. Loose(p) /\ \A y \in DOMAIN pte : pte[y] = p => y[2] = w
      BY <2>4, <2>6, <2>9 DEF Apart
    <3>2. Region(v) \notin Reserved
      BY <2>5, <3>1 DEF Loose
    <3> QED
      BY <2>5, <3>1, <3>2
  <2> QED
    BY <2>7, <2>8, <2>9
<1> QED
  BY <1>1, Invariance, PlacementInvariance, PTL

-----------------------------------------------------------------------------
(* Regions that one core uses alone.                                       *)

\* No other core touches the region of v, whatever its application.
Private(c, v) == \A d \in Cores : \A w \in VpnsOf[d] : Region(w) = Region(v) => d = c
PrivateRegions == \A c \in Cores : \A v \in VpnsOf[c] : Private(c, v)

\* A region that several cores touch has its block, or can still get one.
SharedServed ==
    \A c \in Cores : \A v \in VpnsOf[c] :
        Private(c, v) \/ Region(v) \in Reserved \/ HugeCandidates(free_list) # {}

\* Nobody maps the page of a private region while its core handles the fault.
FaultUnmapped ==
    \A c \in Cores : pc[c] \in {"fault", "allocate", "update"} /\ Private(c, access[c]) =>
        ~Mapped(AppOf[c], access[c])

\* A private region that is promoted has its 2MB entry, or is about to.
PromotedEntered ==
    aborted = "no" => \A c \in Cores : \A v \in VpnsOf[c] :
        Private(c, v) /\ Promoted(Region(v)) =>
            \/ Huge(AppOf[c], v)
            \/ pc[c] = "update" /\ result.size = 21 /\ Region(access[c]) = Region(v)

\* A region was reserved by a core that touches it.
ReservedTouched == \A r \in Reserved : \E c \in Cores : \E v \in VpnsOf[c] : Region(v) = r

Faults == FaultUnmapped /\ PromotedEntered /\ ReservedTouched

\* An update maps pages of one region for one application, and unmaps none.
LEMMA UpdateMaps ==
    ASSUME NEW c \in Cores, UpdateTables(c), NEW a, NEW w \in Vpns
    PROVE  /\ Mapped(a, w) => Mapped(a, w)'
           /\ Huge(a, w) => Huge(a, w)'
           /\ Mapped(a, w)' => Mapped(a, w) \/ (a = AppOf[c] /\ Region(w) = Region(access[c]))
           /\ result.size = 21 /\ a = AppOf[c] /\ Region(w) = Region(access[c]) => Huge(a, w)'
<1>0. PICK v, app : v = access[c] /\ app = AppOf[c]
  OBVIOUS
<1>1. CASE Enters4KB(app, v)
  <2>1. pmd' = pmd /\ DOMAIN pte' = DOMAIN pte \cup {<<app, v>>} /\ result.size # 21
    BY <1>1 DEF Enters4KB
  <2> QED
    BY <1>0, <2>1 DEF Mapped, Huge
<1>2. CASE Enters2MB(app, v)
  <2>1. /\ DOMAIN pmd' = DOMAIN pmd \cup {<<app, Region(v)>>}
        /\ DOMAIN pte' = DOMAIN pte \ ({app} \X {u \in Vpns : Region(u) = Region(v)})
    BY <1>2 DEF Enters2MB
  <2>2. \A u : Huge(a, u)' <=> Huge(a, u) \/ (a = app /\ Region(u) = Region(v))
    BY <2>1 DEF Huge
  <2>3. <<a, w>> \in DOMAIN pte => <<a, w>> \in DOMAIN pte' \/ (a = app /\ Region(w) = Region(v))
    BY <2>1
  <2>4. DOMAIN pte' \subseteq DOMAIN pte
    BY <2>1
  <2> QED
    BY <1>0, <2>2, <2>3, <2>4 DEF Mapped
<1> QED
  BY <1>0, <1>1, <1>2, UpdateEntries

\* No region, no fault at the start.
LEMMA FaultsInit == Init => Faults
BY DEF Init, Faults, FaultUnmapped, PromotedEntered, ReservedTouched, Promoted, Reserved

\* The steps outside the handler, and taking its lock.
LEMMA FaultsQuiet ==
    ASSUME Inv, Placement, Faults, aborted = "no", NEW c \in Cores,
           \/ \E vpn \in VpnsOf[c] : TlbMiss(c, vpn)
           \/ WalkHit(c) \/ WalkInvalid(c) \/ WalkFault(c) \/ Acquire(c)
    PROVE  Faults'
<1>1. UNCHANGED <<free_list, two_mb_map, demoted, result, pte, pmd>>
  BY DEF TlbMiss, WalkHit, WalkInvalid, WalkFault, Acquire, allocVars, tableVars
<1>2. TypeOK /\ FaultUnmapped /\ PromotedEntered /\ ReservedTouched
  BY DEF Inv, Faults
<1>3. /\ Reserved' = Reserved
      /\ \A r : Promoted(r)' <=> Promoted(r)
      /\ \A a, v : Huge(a, v)' <=> Huge(a, v)
      /\ \A a, v : Mapped(a, v)' <=> Mapped(a, v)
  BY <1>1 DEF Reserved, Promoted, Huge, Mapped
<1>4. ASSUME NEW d \in Cores, pc'[d] \in {"fault", "allocate", "update"}
      PROVE  /\ access'[d] = access[d]
             /\ \/ pc[d] \in {"fault", "allocate", "update"}
                \/ ~Mapped(AppOf[d], access[d])
  BY <1>2, <1>4 DEF TlbMiss, WalkHit, WalkInvalid, WalkFault, Acquire, coreVars, TypeOK
<1>5. FaultUnmapped'
  <2>1. SUFFICES ASSUME NEW d \in Cores, pc'[d] \in {"fault", "allocate", "update"},
                        Private(d, access'[d])
                 PROVE  ~Mapped(AppOf[d], access[d])'
    BY DEF FaultUnmapped, Private
  <2>2. PICK v : v = access[d]
    OBVIOUS
  <2>3. access'[d] = v /\ ~Mapped(AppOf[d], v)
    BY <1>2, <1>4, <2>1, <2>2 DEF FaultUnmapped
  <2>4. ~Mapped(AppOf[d], v)'
    BY <1>3, <2>3
  <2> QED
    BY <2>3, <2>4 DEF Mapped, Huge
<1>6. \A d \in Cores : pc[d] = "update" => pc'[d] = "update" /\ access'[d] = access[d]
  BY <1>2 DEF TlbMiss, WalkHit, WalkInvalid, WalkFault, Acquire, coreVars, TypeOK
<1>7. PromotedEntered'
  BY <1>1, <1>2, <1>3, <1>6 DEF PromotedEntered, Private
<1> QED
  BY <1>2, <1>3, <1>5, <1>7 DEF Faults, ReservedTouched

\* The allocation of the data page.
LEMMA FaultsAllocate ==
    ASSUME Inv, Placement, Faults, aborted = "no", NEW c \in Cores, AllocateData(c)
    PROVE  Faults'
<1>0. PICK v : v = access[c]
  OBVIOUS
<1>1. /\ pc[c] = "allocate" /\ pc' = [pc EXCEPT ![c] = "update"]
      /\ Allocate(v)
      /\ UNCHANGED <<access, pte, pmd>>
  BY <1>0 DEF AllocateData, tableVars
<1>2. /\ TypeOK /\ Exclusive /\ AllocatorOK /\ OwnAccess
      /\ FaultUnmapped /\ PromotedEntered /\ ReservedTouched
  BY DEF Inv, Placement, Faults
<1>3. v \in VpnsOf[c] /\ v \in Nat
  BY <1>0, <1>1, <1>2, PageFaultAssumption DEF OwnAccess
<1>4. \A d \in Cores : pc[d] # "update" /\ (pc'[d] = "update" <=> d = c)
  BY <1>1, <1>2 DEF TypeOK, Exclusive
<1>5. \A a, w : (Huge(a, w)' <=> Huge(a, w)) /\ (Mapped(a, w)' <=> Mapped(a, w))
  BY <1>1 DEF Huge, Mapped
<1>6. FaultUnmapped'
  <2>1. SUFFICES ASSUME NEW d \in Cores, pc'[d] \in {"fault", "allocate", "update"},
                        Private(d, access[d])
                 PROVE  ~Mapped(AppOf[d], access[d])'
    BY <1>1 DEF FaultUnmapped, Private
  <2>2. PICK w : w = access[d]
    OBVIOUS
  <2>3. pc[d] \in {"fault", "allocate", "update"}
    BY <1>1, <1>2, <2>1 DEF TypeOK
  <2>4. ~Mapped(AppOf[d], w)
    BY <1>2, <2>1, <2>2, <2>3 DEF FaultUnmapped
  <2> QED
    BY <1>1, <2>2, <2>4 DEF Mapped, Huge
<1>7. /\ Reserved' \subseteq Reserved \cup {Region(v)}
      /\ \A r : Promoted(r)' /\ aborted' = "no" =>
            Promoted(r) \/ (r = Region(v) /\ result'.size = 21)
  <2>1. CASE FromRegion(v)
    <3>1. /\ Reserved' = Reserved \cup {Region(v)}
          /\ \A q \in Reserved : q # Region(v) => two_mb_map'[q] = two_mb_map[q]
          /\ Promoted(Region(v))' => result'.size = 21
      BY <2>1 DEF FromRegion, Page
    <3> QED
      BY <3>1 DEF Promoted
  <2>2. CASE FromLists(v) \/ Stops(v)
    BY <2>2 DEF FromLists, Stops, Promoted, Reserved
  <2>3. CASE FromDemotion(v)
    <3>1. Reserved' \subseteq Reserved /\ \A q \in Reserved' : two_mb_map'[q] = two_mb_map[q]
      BY <1>2, <1>3, <2>3, DemotionServed
    <3> QED
      BY <3>1 DEF Promoted
  <2> QED
    BY <1>1, <1>2, <2>1, <2>2, <2>3, AllocateShape
<1>8. ReservedTouched'
  BY <1>2, <1>3, <1>7 DEF ReservedTouched
<1>9. PromotedEntered'
  <2>1. SUFFICES ASSUME aborted' = "no", NEW d \in Cores, NEW w \in VpnsOf[d],
                        Private(d, w), Promoted(Region(w))'
                 PROVE  \/ Huge(AppOf[d], w)'
                        \/ pc'[d] = "update" /\ result'.size = 21 /\ Region(access'[d]) = Region(w)
    BY DEF PromotedEntered
  <2>2. CASE Promoted(Region(w))
    BY <1>2, <1>4, <1>5, <2>1, <2>2 DEF PromotedEntered
  <2>3. CASE Region(w) = Region(v) /\ result'.size = 21
    <3>1. d = c
      BY <1>3, <2>1, <2>3 DEF Private
    <3> QED
      BY <1>0, <1>1, <1>4, <2>3, <3>1
  <2> QED
    BY <1>7, <2>1, <2>2, <2>3
<1> QED
  BY <1>6, <1>8, <1>9 DEF Faults

\* The update of the tables.
LEMMA FaultsUpdate ==
    ASSUME Inv, Placement, Faults, aborted = "no", NEW c \in Cores, UpdateTables(c)
    PROVE  Faults'
<1>0. PICK v : v = access[c]
  OBVIOUS
<1>1. /\ pc[c] = "update" /\ pc' = [pc EXCEPT ![c] = "walk"]
      /\ UNCHANGED <<access, free_list, two_mb_map, result, aborted>>
  BY DEF UpdateTables, allocVars
<1>2. /\ TypeOK /\ Exclusive /\ Busy /\ OwnAccess
      /\ FaultUnmapped /\ PromotedEntered /\ ReservedTouched
  BY DEF Inv, Placement, Faults
<1>3. v \in VpnsOf[c]
  BY <1>0, <1>1, <1>2 DEF OwnAccess
<1>4. \A d \in Cores : pc[d] = "update" => d = c
  BY <1>1, <1>2 DEF TypeOK, Exclusive
<1>5. Reserved' = Reserved /\ \A r : Promoted(r)' <=> Promoted(r)
  BY <1>1 DEF Reserved, Promoted
<1>6. FaultUnmapped'
  <2>1. SUFFICES ASSUME NEW d \in Cores, pc'[d] \in {"fault", "allocate", "update"},
                        Private(d, access[d]), Mapped(AppOf[d], access[d])'
                 PROVE  FALSE
    BY <1>1 DEF FaultUnmapped, Private
  <2>2. PICK w : w = access[d]
    OBVIOUS
  <2>3. d # c /\ pc[d] = pc'[d]
    BY <1>1, <1>2, <2>1 DEF TypeOK
  <2>4. w \in Vpns /\ ~Mapped(AppOf[d], w)
    BY <1>2, <2>1, <2>2, <2>3 DEF FaultUnmapped, Busy
  <2>5. Mapped(AppOf[d], w)'
    BY <1>1, <2>1, <2>2 DEF Mapped, Huge
  <2>6. Region(w) = Region(v)
    BY <1>0, <2>4, <2>5, UpdateMaps
  <2> QED
    BY <1>3, <2>1, <2>2, <2>3, <2>6 DEF Private
<1>7. PromotedEntered'
  <2>1. SUFFICES ASSUME NEW d \in Cores, NEW w \in VpnsOf[d], Private(d, w), Promoted(Region(w))
                 PROVE  Huge(AppOf[d], w)'
    BY <1>5 DEF PromotedEntered
  <2>2. w \in Vpns
    BY DEF Vpns
  <2>3. \/ Huge(AppOf[d], w)
        \/ pc[d] = "update" /\ result.size = 21 /\ Region(access[d]) = Region(w)
    BY <1>2, <2>1 DEF PromotedEntered
  <2> QED
    BY <1>4, <2>2, <2>3, UpdateMaps
<1> QED
  BY <1>2, <1>5, <1>6, <1>7 DEF Faults, ReservedTouched

\* A fault in a private region stays its core's own affair, in every state.
THEOREM FaultsInvariance == Spec => []Faults
<1>1. Init => Faults
  BY FaultsInit
<1>2. Inv /\ Placement /\ Faults /\ [Next]_vars => Faults'
  <2> SUFFICES ASSUME Inv, Placement, Faults, [Next]_vars PROVE Faults'
    OBVIOUS
  <2>1. CASE Next
    <3>1. aborted = "no"
      BY <2>1 DEF Next
    <3>2. PICK c \in Cores : Step(c)
      BY <2>1 DEF Next
    <3>3. CASE AllocateData(c)
      BY <3>1, <3>3, FaultsAllocate
    <3>4. CASE UpdateTables(c)
      BY <3>1, <3>4, FaultsUpdate
    <3>5. CASE \/ \E vpn \in VpnsOf[c] : TlbMiss(c, vpn)
               \/ WalkHit(c) \/ WalkInvalid(c) \/ WalkFault(c) \/ Acquire(c)
      BY <3>1, <3>5, FaultsQuiet
    <3> QED
      BY <3>2, <3>3, <3>4, <3>5 DEF Step, Translate
  <2>2. CASE UNCHANGED vars
    BY <2>2 DEF vars, Faults, FaultUnmapped, PromotedEntered, ReservedTouched, Private,
       Mapped, Huge, Promoted, Reserved
  <2> QED
    BY <2>1, <2>2
<1> QED
  BY <1>1, <1>2, Invariance, PlacementInvariance, PTL DEF Spec

-----------------------------------------------------------------------------
(* Translations are kept, and so are the TLBs coherent.                    *)

\* Where it is mapped, a page stays mapped, and to the same physical page.
LEMMA TranslationKept ==
    ASSUME Inv, Placement, Faults, SharedServed, [Next]_vars,
           NEW a \in Apps, NEW v \in Vpns, Mapped(a, v)
    PROVE  /\ Mapped(a, v)'
           /\ PhysicalPage(Translation(a, v), v)' = PhysicalPage(Translation(a, v), v)
<1>1. CASE UNCHANGED <<pte, pmd>>
  BY <1>1 DEF Mapped, Huge, Translation, PhysicalPage, Page
<1>2. ASSUME aborted = "no", NEW c \in Cores, UpdateTables(c)
      PROVE  /\ Mapped(a, v)'
             /\ PhysicalPage(Translation(a, v), v)' = PhysicalPage(Translation(a, v), v)
  <2>0. PICK u, app : u = access[c] /\ app = AppOf[c]
    OBVIOUS
  <2>1. /\ TypeOK /\ Busy /\ ResultFits /\ HugeIsPromoted
        /\ OwnAccess /\ EntriesHome /\ EntriesHuge /\ ResultHome /\ FaultUnmapped
    BY DEF Inv, Placement, Faults
  <2>2. pc[c] = "update"
    BY <1>2 DEF UpdateTables
  <2>3. u \in VpnsOf[c] /\ u \in Vpns /\ app \in Apps
    BY <2>0, <2>1, <2>2 DEF OwnAccess, Vpns, Apps
  <2>4. PICK p : p = PhysicalPage(Translation(a, v), v)
    OBVIOUS
  <2>5. /\ Region(v) \in Reserved => p = Home(v)
        /\ Region(v) \notin Reserved => <<a, v>> \in DOMAIN pte /\ p = pte[<<a, v>>] /\ ~Huge(a, v)
    BY <2>4, PhysicalOf
  <2>6. Mapped(a, v)'
    BY <1>2, UpdateMaps
  <2>7. CASE Enters4KB(app, u)
    <3>1. /\ pmd' = pmd /\ result.size # 21
          /\ pte'[<<app, u>>] = result.ppn
          /\ \A x \in DOMAIN pte : x # <<app, u>> => pte'[x] = pte[x]
      BY <2>7 DEF Enters4KB
    <3>2. CASE <<a, v>> = <<app, u>>
      <4>1. a = app /\ v = u
        BY <3>2
      <4>2. ~Promoted(Region(u)) /\ ~Huge(app, u)
        BY <1>2, <2>0, <2>1, <2>2, <2>3, <3>1 DEF ResultFits, HugeIsPromoted
      <4>3. <<app, u>> \in DOMAIN pte
        BY <4>1, <4>2 DEF Mapped
      <4>4. Region(u) \in Reserved
        <5>1. SUFFICES ASSUME Region(u) \notin Reserved PROVE FALSE
          OBVIOUS
        <5>2. HugeCandidates(free_list) = {}
          BY <1>2, <2>0, <2>1, <2>2, <5>1 DEF ResultHome
        <5>3. Private(c, u)
          BY <2>3, <5>1, <5>2 DEF SharedServed
        <5>4. ~Mapped(app, u)
          BY <2>0, <2>1, <2>2, <5>3 DEF FaultUnmapped
        <5> QED
          BY <4>1, <5>4
      <4>5. result.ppn = Home(u)
        BY <1>2, <2>0, <2>1, <2>2, <3>1, <4>4 DEF ResultHome, Page
      <4>6. Translation(a, v)' = Page(result.ppn, 12)
        BY <3>1, <4>1, <4>2 DEF Translation, Huge
      <4>7. PhysicalPage(Translation(a, v), v)' = result.ppn
        BY <4>6 DEF PhysicalPage, Page
      <4> QED
        BY <2>4, <2>5, <2>6, <4>1, <4>4, <4>5, <4>7
    <3>3. CASE <<a, v>> # <<app, u>>
      <4>1. Huge(a, v)' <=> Huge(a, v)
        BY <3>1 DEF Huge
      <4>2. ~Huge(a, v) => <<a, v>> \in DOMAIN pte /\ pte'[<<a, v>>] = pte[<<a, v>>]
        BY <3>1, <3>3 DEF Mapped
      <4>3. Translation(a, v)' = Translation(a, v)
        BY <3>1, <4>1, <4>2 DEF Translation
      <4> QED
        BY <2>6, <4>3 DEF PhysicalPage
    <3> QED
      BY <3>2, <3>3
  <2>8. CASE Enters2MB(app, u)
    <3>1. /\ result.size = 21
          /\ DOMAIN pmd' = DOMAIN pmd \cup {<<app, Region(u)>>}
          /\ pmd'[<<app, Region(u)>>] = result.ppn
          /\ \A x \in DOMAIN pmd : x # <<app, Region(u)>> => pmd'[x] = pmd[x]
          /\ \A x \in DOMAIN pte' : pte'[x] = pte[x]
      BY <2>8 DEF Enters2MB
    <3>2. CASE <<a, Region(v)>> = <<app, Region(u)>>
      <4>1. a = app /\ Region(v) = Region(u)
        BY <3>2
      <4>2. Region(u) \in Reserved /\ result.ppn = BaseOf(Region(u))
        BY <1>2, <2>0, <2>1, <2>2, <3>1 DEF ResultHome, ResultFits, Promoted, Page
      <4>3. Translation(a, v)' = Page(result.ppn, 21)
        BY <3>1, <4>1 DEF Translation, Huge
      <4>4. PhysicalPage(Translation(a, v), v)' = result.ppn + Offset(v)
        BY <4>3 DEF PhysicalPage, Page
      <4> QED
        BY <2>4, <2>5, <2>6, <4>1, <4>2, <4>4 DEF Home
    <3>3. CASE <<a, Region(v)>> # <<app, Region(u)>>
      <4>1. /\ Huge(a, v)' <=> Huge(a, v)
            /\ Huge(a, v) => pmd'[<<a, Region(v)>>] = pmd[<<a, Region(v)>>]
        BY <3>1, <3>3 DEF Huge
      <4>2. ~Huge(a, v) => <<a, v>> \in DOMAIN pte' /\ pte'[<<a, v>>] = pte[<<a, v>>]
        BY <2>6, <3>1, <4>1 DEF Mapped
      <4>3. Translation(a, v)' = Translation(a, v)
        BY <4>1, <4>2 DEF Translation
      <4> QED
        BY <2>6, <4>3 DEF PhysicalPage
    <3> QED
      BY <3>2, <3>3
  <2> QED
    BY <1>2, <2>0, <2>7, <2>8, UpdateEntries
<1>3. ASSUME aborted = "no", NEW c \in Cores, Step(c), ~UpdateTables(c)
      PROVE  UNCHANGED <<pte, pmd>>
  BY <1>3 DEF Step, Translate, TlbMiss, WalkHit, WalkInvalid, WalkFault, Acquire, AllocateData, tableVars
<1>4. CASE UNCHANGED vars
  BY <1>1, <1>4 DEF vars
<1>5. CASE Next
  BY <1>1, <1>2, <1>3, <1>5 DEF Next
<1> QED
  BY <1>4, <1>5

\* The mmu.cc check "Same VA should always map to same PA" holds as long as every
\* region that several cores touch has its 2MB block or can get one: promotion,
\* demotion and the races of stale walks included.
THEOREM SameVirtualSamePhysical == Spec /\ []SharedServed => SameVASamePA
<1>1. Inv /\ Placement /\ Faults /\ SharedServed /\ [Next]_vars =>
         [\A a \in Apps, v \in Vpns : Mapped(a, v) =>
             /\ Mapped(a, v)'
             /\ PhysicalPage(Translation(a, v), v)' = PhysicalPage(Translation(a, v), v)]_vars
  BY TranslationKept
<1> QED
  BY <1>1, Invariance, PlacementInvariance, FaultsInvariance, PTL DEF Spec, SameVASamePA

\* The TLBs of a core hold what its page table says, though nothing ever
\* invalidates an entry, under the same condition.
THEOREM TlbsCoherent == Spec /\ []SharedServed => []TlbCoherent
<1>1. Init => TlbCoherent
  BY DEF Init, TlbCoherent, Hits
<1>2. Inv /\ Placement /\ Faults /\ SharedServed /\ TlbCoherent /\ [Next]_vars => TlbCoherent'
  <2> SUFFICES ASSUME Inv, Placement, Faults, SharedServed, TlbCoherent, [Next]_vars,
                      NEW c \in Cores, NEW v \in VpnsOf[c], NEW e \in Hits(c, v)'
               PROVE  /\ Mapped(AppOf[c], v)'
                      /\ PhysicalPage(Translation(AppOf[c], v), v)' = PhysicalPage(e, v)
    BY DEF TlbCoherent, PhysicalPage
  <2>1. v \in Vpns /\ AppOf[c] \in Apps
    BY DEF Vpns, Apps
  <2>2. e \in tlb'[c] /\ e = Entry(e, v)
    BY DEF Hits, Entry
  <2>3. CASE e \in tlb[c]
    <3>1. e \in Hits(c, v)
      BY <2>2, <2>3 DEF Hits
    <3>2. /\ Mapped(AppOf[c], v)
          /\ PhysicalPage(Translation(AppOf[c], v), v) = PhysicalPage(e, v)
      BY <3>1 DEF TlbCoherent
    <3> QED
      BY <2>1, <3>2, TranslationKept
  <2>4. CASE e \notin tlb[c]
    <3>1. Next
      BY <2>2, <2>4 DEF vars
    <3>2. PICK d \in Cores : Step(d)
      BY <3>1 DEF Next
    <3>3. WalkHit(d)
      BY <2>2, <2>4, <3>2 DEF Step, Translate, TlbMiss, WalkInvalid, WalkFault, Acquire,
         AllocateData, UpdateTables
    <3>4. PICK w : w = access[d]
      OBVIOUS
    <3>5. /\ Mapped(AppOf[d], w) /\ UNCHANGED <<pte, pmd>>
          /\ \E victims : tlb' = [tlb EXCEPT ![d] = (@ \ victims) \cup
                                        {Entry(Translation(AppOf[d], w), w)}]
      BY <3>3, <3>4 DEF WalkHit, tableVars
    <3>6. d = c /\ e = Entry(Translation(AppOf[c], w), w)
      BY <2>2, <2>4, <3>5
    <3>7. /\ Mapped(AppOf[c], v)
          /\ PhysicalPage(Translation(AppOf[c], v), v) = PhysicalPage(e, v)
      <4>1. CASE Huge(AppOf[c], w)
        <5>1. Translation(AppOf[c], w) = Page(pmd[<<AppOf[c], Region(w)>>], 21)
          BY <4>1 DEF Translation
        <5>2. e.tag = Region(w) /\ e.size = 21 /\ e.ppn = pmd[<<AppOf[c], Region(w)>>]
          BY <3>6, <5>1 DEF Entry, Page
        <5>3. Region(v) = Region(w)
          BY <2>2, <5>2 DEF Entry
        <5>4. Huge(AppOf[c], v) /\ Translation(AppOf[c], v) = Translation(AppOf[c], w)
          BY <4>1, <5>3 DEF Huge, Translation
        <5> QED
          BY <5>1, <5>2, <5>4 DEF Mapped, PhysicalPage, Page
      <4>2. CASE ~Huge(AppOf[c], w)
        <5>1. Translation(AppOf[c], w) = Page(pte[<<AppOf[c], w>>], 12)
          BY <4>2 DEF Translation
        <5>2. e.tag = w /\ e.size = 12 /\ e.ppn = pte[<<AppOf[c], w>>]
          BY <3>6, <5>1 DEF Entry, Page
        <5>3. v = w
          BY <2>2, <5>2 DEF Entry
        <5> QED
          BY <3>5, <3>6, <5>1, <5>2, <5>3 DEF PhysicalPage, Page
      <4> QED
        BY <4>1, <4>2
    <3> QED
      BY <2>1, <3>7, TranslationKept
  <2> QED
    BY <2>3, <2>4
<1> QED
  BY <1>1, <1>2, Invariance, PlacementInvariance, FaultsInvariance, PTL DEF Spec

\* Cores that share no 2MB region, a single core above all, keep every
\* translation and coherent TLBs, whatever the memory and its fragmentation.
THEOREM PrivateRegionsKept ==
    ASSUME PrivateRegions
    PROVE  Spec => SameVASamePA /\ []TlbCoherent
<1>1. SharedServed
  BY DEF PrivateRegions, SharedServed
<1> QED
  BY <1>1, SameVirtualSamePhysical, TlbsCoherent, PTL

-----------------------------------------------------------------------------
(* The assertions of the allocator.                                        *)

\* A core faults in a promoted region only when another core shares it: the
\* assertion of checkFor2MBAllocation never fires for private regions.
THEOREM PromotedRegionsNeverFault ==
    ASSUME PrivateRegions
    PROVE  Spec => []NoFaultInPromoted
<1>1. Init => NoFaultInPromoted
  BY DEF Init, NoFaultInPromoted
<1>2. Inv /\ Placement /\ Faults /\ NoFaultInPromoted /\ [Next]_vars => NoFaultInPromoted'
  <2> SUFFICES ASSUME Inv, Placement, Faults, NoFaultInPromoted, [Next]_vars,
                      aborted' = "promoted"
               PROVE  FALSE
    BY DEF NoFaultInPromoted
  <2>1. Next
    BY DEF vars, NoFaultInPromoted
  <2>2. PICK c \in Cores : aborted = "no" /\ Step(c)
    BY <2>1 DEF Next
  <2>3. AllocateData(c)
    BY <2>2 DEF Step, Translate, TlbMiss, WalkHit, WalkInvalid, WalkFault, Acquire, UpdateTables, allocVars
  <2>4. PICK v : v = access[c]
    OBVIOUS
  <2>5. pc[c] = "allocate" /\ Allocate(v)
    BY <2>3, <2>4 DEF AllocateData
  <2>6. AllocatorOK /\ OwnAccess /\ FaultUnmapped /\ PromotedEntered
    BY DEF Placement, Faults
  <2>7. v \in VpnsOf[c] /\ Private(c, v)
    BY <2>4, <2>5, <2>6 DEF OwnAccess, PrivateRegions
  <2>8. Promoted(Region(v))
    BY <2>2, <2>5, <2>6, AllocateShape DEF FromRegion, FromLists, FromDemotion, Stops
  <2>9. Huge(AppOf[c], v)
    BY <2>2, <2>5, <2>6, <2>7, <2>8 DEF PromotedEntered
  <2>10. ~Mapped(AppOf[c], v)
    BY <2>4, <2>5, <2>6, <2>7 DEF FaultUnmapped
  <2> QED
    BY <2>9, <2>10 DEF Mapped
<1> QED
  BY <1>1, <1>2, Invariance, PlacementInvariance, FaultsInvariance, PTL DEF Spec

-----------------------------------------------------------------------------
(* No page is stranded.                                                    *)

\* A page of a reserved block that no fault has used.
Spare(r, p) == p \in InRegion(r) /\ p - BaseOf(r) \notin two_mb_map[r].bits

\* A page the allocator returned that is not entered yet.
InFlight(p) ==
    \E c \in Cores : pc[c] = "update" /\
        \/ result.size = 21 /\ p \in result.ppn..(result.ppn + (HugePages - 1))
        \/ result.size # 21 /\ p = result.ppn

\* Every page of memory is free, spare, mapped or about to be.
Covered ==
    aborted = "no" => \A p \in Pages :
        \/ p \in FreePages(free_list)
        \/ p \in Backed
        \/ InFlight(p)
        \/ \E r \in Reserved : Spare(r, p)

\* The allocator has returned no page only if all back a mapping.
NoneOnlyWhenFull ==
    (/\ aborted = "no"
     /\ \/ \E x \in DOMAIN pte : pte[x] = NoPage
        \/ \E c \in Cores : pc[c] = "update" /\ result.ppn = NoPage)
    => Pages \subseteq Backed

Supply == Covered /\ NoneOnlyWhenFull /\ GivesUpWhenFull

\* Empty lists hold no page.
LEMMA EmptyLists ==
    ASSUME NEW fl, Tidy(fl), Candidates(fl, 0) = {}
    PROVE  FreePages(fl) = {}
<1>1. \A k \in Orders : fl[k] = <<>>
  BY OrderType DEF Candidates, Orders
<1>2. \A k \in Orders : DOMAIN fl[k] = {}
  BY <1>1
<1> QED
  BY <1>2, PageFree

\* Membership in Backed.
LEMMA BackedBy ==
    ASSUME NEW p
    PROVE  p \in Backed <=> \/ \E x \in DOMAIN pte : p = pte[x]
                            \/ \E x \in DOMAIN pmd : p \in pmd[x]..(pmd[x] + (HugePages - 1))
BY DEF Backed

\* With nothing free and nothing spare, every page backs a mapping.
LEMMA AllBacked ==
    ASSUME PrivateRegions, Inv, Placement, Faults, Covered, aborted = "no",
           NEW c \in Cores, pc[c] = "allocate", FreePages(free_list) = {},
           \A r \in Unpromoted : \A p : ~Spare(r, p)
    PROVE  Pages \subseteq Backed
<1>1. TypeOK /\ Exclusive /\ EntriesHuge /\ PromotedEntered /\ ReservedTouched
  BY DEF Inv, Placement, Faults
<1>2. \A d \in Cores : pc[d] # "update"
  BY <1>1 DEF TypeOK, Exclusive
<1>3. SUFFICES ASSUME NEW p \in Pages PROVE p \in Backed
  OBVIOUS
<1>4. ASSUME NEW r \in Reserved, Spare(r, p)
      PROVE  p \in Backed
  <2>1. Promoted(r)
    BY <1>4 DEF Unpromoted, Promoted
  <2>2. PICK d \in Cores : \E v \in VpnsOf[d] : Region(v) = r
    BY <1>1 DEF ReservedTouched
  <2>3. PICK v \in VpnsOf[d] : Region(v) = r
    BY <2>2
  <2>4. Private(d, v)
    BY DEF PrivateRegions
  <2>5. Huge(AppOf[d], v)
    BY <1>1, <1>2, <2>1, <2>3, <2>4 DEF PromotedEntered
  <2>6. PICK x \in DOMAIN pmd : x = <<AppOf[d], r>>
    BY <2>3, <2>5 DEF Huge
  <2>7. pmd[x] = BaseOf(r)
    BY <1>1, <2>6 DEF EntriesHuge
  <2> QED
    BY <1>4, <2>6, <2>7, BackedBy DEF Spare, InRegion
<1> QED
  BY <1>2, <1>4 DEF Covered, InFlight

\* A least used region without a spare page: no other has one.
LEMMA NoSpareLeft ==
    ASSUME AllocatorOK, NEW r \in LeastUsed, Offsets \subseteq two_mb_map[r].bits
    PROVE  \A q \in Unpromoted : \A p : ~Spare(q, p)
<1>1. r \in Unpromoted /\ r \in Reserved
  BY DEF LeastUsed, Unpromoted
<1>2. SUFFICES ASSUME NEW q \in Unpromoted PROVE \A p : ~Spare(q, p)
  OBVIOUS
<1> DEFINE mine == two_mb_map[r].bits
           bits == two_mb_map[q].bits
<1>3. q \in Reserved
  BY DEF Unpromoted
<1>4. mine = Offsets /\ bits \subseteq Offsets /\ BaseOf(q) \in Nat
  BY <1>1, <1>3 DEF AllocatorOK
<1>5. Cardinality(mine) <= Cardinality(bits)
  BY DEF LeastUsed
<1> HIDE DEF mine, bits
<1>6. IsFiniteSet(Offsets)
  <2> DEFINE lo == 0
             hi == HugePages - 1
  <2>1. lo \in Int /\ hi \in Int
    BY Positions
  <2> HIDE DEF lo, hi
  <2>2. IsFiniteSet(lo..hi)
    BY <2>1, FS_Interval
  <2> QED
    BY <2>2 DEF Offsets, lo, hi
<1>7. /\ IsFiniteSet(bits) /\ Cardinality(bits) <= Cardinality(Offsets)
      /\ Cardinality(bits) = Cardinality(Offsets) => bits = Offsets
  BY <1>4, <1>6, FS_Subset
<1>8. Cardinality(bits) \in Nat /\ Cardinality(Offsets) \in Nat
  BY <1>6, <1>7, FS_CardinalityType
<1>9. bits = Offsets
  BY <1>4, <1>5, <1>7, <1>8
<1>10. ASSUME NEW p \in InRegion(q) PROVE p - BaseOf(q) \in Offsets
  <2>1. p \in Int /\ BaseOf(q) <= p /\ p < BaseOf(q) + HugePages
    BY <1>4, <1>10, RegionPages DEF InRegion
  <2>2. PICK b \in Nat : b = BaseOf(q)
    BY <1>4
  <2>3. p - b \in 0..(HugePages - 1)
    BY <2>1, <2>2, Positions
  <2> QED
    BY <2>2, <2>3 DEF Offsets
<1> QED
  BY <1>9, <1>10 DEF Spare, bits

\* A page of a block is in use, or spare.
LEMMA RegionPage ==
    ASSUME NEW base \in Nat, NEW o \in Nat, NEW p \in base..(base + (HugePages - 1)),
           p - base = o
    PROVE  p = base + o
BY Positions

\* The allocation of the data page.
LEMMA SupplyAllocate ==
    ASSUME PrivateRegions, Inv, Placement, Faults, Supply, aborted = "no",
           NEW c \in Cores, AllocateData(c)
    PROVE  Supply'
<1>0. PICK v : v = access[c]
  OBVIOUS
<1>1. /\ pc[c] = "allocate" /\ pc' = [pc EXCEPT ![c] = "update"]
      /\ Allocate(v)
      /\ UNCHANGED <<pte, pmd>>
  BY <1>0 DEF AllocateData, tableVars
<1>2. TypeOK /\ Exclusive /\ AllocatorOK /\ OwnAccess /\ Covered /\ NoneOnlyWhenFull
  BY DEF Inv, Placement, Supply
<1>3. v \in Nat
  BY <1>0, <1>1, <1>2, PageFaultAssumption DEF OwnAccess
<1>4. \A d \in Cores : pc[d] # "update" /\ (pc'[d] = "update" <=> d = c)
  BY <1>1, <1>2 DEF TypeOK, Exclusive
<1>5. Backed' = Backed
  BY <1>1 DEF Backed
<1>6. \A p \in Pages : \/ p \in FreePages(free_list)
                       \/ p \in Backed
                       \/ \E r \in Reserved : Spare(r, p)
  BY <1>2, <1>4 DEF Covered, InFlight
<1>7. \A p : InFlight(p)' <=> \/ result'.size = 21 /\ p \in result'.ppn..(result'.ppn + (HugePages - 1))
                              \/ result'.size # 21 /\ p = result'.ppn
  BY <1>4 DEF InFlight
<1>8. (\E x \in DOMAIN pte : pte[x] = NoPage) => Pages \subseteq Backed
  BY <1>2 DEF NoneOnlyWhenFull
<1>9. ASSUME result'.ppn \in Nat
      PROVE  NoneOnlyWhenFull'
  BY <1>1, <1>5, <1>8, <1>9 DEF NoneOnlyWhenFull, NoPage
<1>10. CASE FromRegion(v)
  <2> DEFINE r == Region(v)
  <2>1. /\ AllocatorOK'
        /\ \A q \in Reserved : BaseOf(q)' = BaseOf(q)
        /\ \A p \in FreePages(free_list) : p \in FreePages(free_list') \/ p \in InRegion(r)'
    BY <1>2, <1>3, <1>10, RegionServed
  <2>2. /\ Reserved' = Reserved \cup {r}
        /\ \A q \in Reserved : q # r => two_mb_map'[q] = two_mb_map[q]
        /\ r \in Reserved => two_mb_map'[r].bits = two_mb_map[r].bits \cup {Offset(v)}
        /\ r \notin Reserved => two_mb_map'[r].bits = {Offset(v)}
        /\ \/ result'.size = 21 /\ result'.ppn = BaseOf(r)'
           \/ result'.size = 12 /\ result'.ppn = BaseOf(r)' + Offset(v)
        /\ aborted' = aborted
    BY <1>10 DEF FromRegion, Page, BaseOf
  <2>3. BaseOf(r)' \in Nat /\ Offset(v) \in Nat
    BY <1>3, <2>1, <2>2, Positions DEF AllocatorOK
  <2>4. ASSUME NEW p \in InRegion(r)',
               p - BaseOf(r)' \notin two_mb_map'[r].bits \/ p - BaseOf(r)' = Offset(v)
        PROVE  InFlight(p)' \/ Spare(r, p)'
    <3>1. CASE result'.size = 21
      BY <1>7, <2>2, <2>4, <3>1 DEF InRegion
    <3>2. CASE result'.size = 12 /\ p - BaseOf(r)' = Offset(v)
      <4>1. PICK base \in Nat : base = BaseOf(r)'
        BY <2>3
      <4>2. p = base + Offset(v)
        BY <2>3, <2>4, <3>2, <4>1, RegionPage DEF InRegion
      <4> QED
        BY <1>7, <2>2, <3>2, <4>1, <4>2
    <3>3. CASE p - BaseOf(r)' \notin two_mb_map'[r].bits
      BY <2>4, <3>3 DEF Spare
    <3> QED
      BY <2>2, <2>4, <3>1, <3>2, <3>3
  <2>5. ASSUME NEW p \in Pages
        PROVE  \/ p \in FreePages(free_list') \/ p \in Backed \/ InFlight(p)'
               \/ \E q \in Reserved' : Spare(q, p)'
    <3>1. CASE p \in FreePages(free_list)
      <4>1. CASE r \in Reserved
        BY <1>10, <3>1, <4>1 DEF FromRegion
      <4>2. CASE r \notin Reserved /\ p \in InRegion(r)'
        BY <2>2, <2>4, <4>2
      <4> QED
        BY <2>1, <3>1, <4>1, <4>2
    <3>2. ASSUME NEW q \in Reserved, Spare(q, p)
          PROVE  InFlight(p)' \/ Spare(q, p)'
      <4>1. CASE q # r
        BY <2>2, <3>2, <4>1 DEF Spare, InRegion, BaseOf
      <4>2. CASE q = r
        <5>1. p \in InRegion(r)' /\ BaseOf(r)' = BaseOf(r)
          BY <2>1, <3>2, <4>2 DEF Spare, InRegion
        <5> QED
          BY <2>2, <2>4, <3>2, <4>2, <5>1 DEF Spare
      <4> QED
        BY <4>1, <4>2
    <3> QED
      BY <1>6, <2>2, <3>1, <3>2
  <2>6. result'.ppn \in Nat
    BY <2>2, <2>3
  <2> QED
    BY <1>5, <1>9, <2>2, <2>5, <2>6 DEF Supply, Covered, GivesUpWhenFull
<1>11. CASE FromLists(v)
  <2>1. /\ result'.ppn \in FreePages(free_list)
        /\ FreePages(free_list) \subseteq FreePages(free_list') \cup {result'.ppn}
    BY <1>2, <1>3, <1>11, ListServed
  <2>2. two_mb_map' = two_mb_map /\ aborted' = aborted /\ result'.size # 21
    BY <1>11 DEF FromLists, Page
  <2>3. result'.ppn \in Nat
    BY <1>2, <2>1 DEF AllocatorOK
  <2>4. \A q, p : Spare(q, p)' <=> Spare(q, p)
    BY <2>2 DEF Spare, InRegion, BaseOf
  <2>5. Reserved' = Reserved
    BY <2>2 DEF Reserved
  <2>6. Covered'
    BY <1>5, <1>6, <1>7, <2>1, <2>2, <2>4, <2>5 DEF Covered
  <2> QED
    BY <1>9, <2>2, <2>3, <2>6 DEF Supply, GivesUpWhenFull
<1>12. CASE FromDemotion(v)
  <2>0. PICK r \in LeastUsed : \E fl :
            /\ Reserved' = Reserved \ {r}
            /\ \A q \in Reserved' : two_mb_map'[q] = two_mb_map[q]
            /\ Demotes(free_list, BaseOf(r), two_mb_map[r].bits, HugePages, fl)
            /\ \/ /\ Candidates(fl, 0) = {}
                  /\ result' = Page(NoPage, 12)
                  /\ free_list' = fl
               \/ /\ Candidates(fl, 0) # {}
                  /\ result' = Page(AllocatedPage(fl, 0), 12)
                  /\ free_list' = AllocateFrom(fl, 0)
    BY <1>12 DEF FromDemotion
  <2>1. PICK fl :
            /\ Reserved' = Reserved \ {r}
            /\ \A q \in Reserved' : two_mb_map'[q] = two_mb_map[q]
            /\ Demotes(free_list, BaseOf(r), two_mb_map[r].bits, HugePages, fl)
            /\ \/ /\ Candidates(fl, 0) = {}
                  /\ result' = Page(NoPage, 12)
                  /\ free_list' = fl
               \/ /\ Candidates(fl, 0) # {}
                  /\ result' = Page(AllocatedPage(fl, 0), 12)
                  /\ free_list' = AllocateFrom(fl, 0)
    BY <2>0
  <2>2. /\ Tidy(fl) /\ FreePages(fl) \subseteq Nat
        /\ FreePages(free_list) \subseteq FreePages(fl)
        /\ \A i \in Offsets : i \notin two_mb_map[r].bits => BaseOf(r) + i \in FreePages(fl)
    BY <1>2, <2>1 DEF Demotes, AllocatorOK, Offsets
  <2>3. /\ aborted' = aborted /\ result'.size # 21
        /\ Candidates(free_list, 0) = {}
    BY <1>12, <2>1 DEF FromDemotion, Page
  <2>4. r \in Reserved /\ BaseOf(r) \in Nat
    BY <1>2 DEF LeastUsed, Unpromoted, AllocatorOK
  <2>5. ASSUME NEW p, Spare(r, p)
        PROVE  p \in FreePages(fl)
    <3>1. PICK b \in Nat : b = BaseOf(r)
      BY <2>4
    <3>2. p \in Int /\ b <= p /\ p < b + HugePages /\ p - b \notin two_mb_map[r].bits
      BY <2>5, <3>1, RegionPages DEF Spare, InRegion
    <3>3. p - b \in 0..(HugePages - 1) /\ b + (p - b) = p
      BY <3>2, Positions
    <3> QED
      BY <2>2, <3>1, <3>2, <3>3 DEF Offsets
  <2>6. \A p \in Pages : \/ p \in FreePages(fl)
                         \/ p \in Backed
                         \/ \E q \in Reserved' : Spare(q, p)'
    <3>1. ASSUME NEW q \in Reserved, NEW p, Spare(q, p), q # r
          PROVE  q \in Reserved' /\ Spare(q, p)'
      BY <2>1, <3>1 DEF Spare, InRegion, BaseOf
    <3> QED
      BY <1>6, <2>2, <2>5, <3>1
  <2>7. CASE Candidates(fl, 0) # {} /\ result' = Page(AllocatedPage(fl, 0), 12)
             /\ free_list' = AllocateFrom(fl, 0)
    <3>1. PICK page : page = AllocatedPage(fl, 0)
      OBVIOUS
    <3>2. /\ page \in FreePages(fl)
          /\ FreePages(fl) \subseteq FreePages(AllocateFrom(fl, 0)) \cup {page}
      BY <2>2, <2>7, <3>1, AllocateOne
    <3>3. result'.ppn = page /\ page \in Nat
      BY <2>2, <2>7, <3>1, <3>2 DEF Page
    <3>4. Covered'
      BY <1>5, <1>7, <2>3, <2>6, <2>7, <3>2, <3>3 DEF Covered
    <3> QED
      BY <1>9, <2>3, <3>3, <3>4 DEF Supply, GivesUpWhenFull
  <2>8. CASE Candidates(fl, 0) = {} /\ free_list' = fl
    <3>1. FreePages(fl) = {} /\ FreePages(free_list) = {}
      BY <1>2, <2>2, <2>3, <2>8, EmptyLists DEF AllocatorOK
    <3>2. Offsets \subseteq two_mb_map[r].bits
      BY <2>2, <3>1
    <3>3. \A q \in Unpromoted : \A p : ~Spare(q, p)
      BY <1>2, <3>2, NoSpareLeft
    <3>4. Pages \subseteq Backed
      BY <1>1, <1>2, <3>1, <3>3, AllBacked
    <3> QED
      BY <1>5, <3>4 DEF Supply, Covered, NoneOnlyWhenFull, GivesUpWhenFull
  <2> QED
    BY <2>1, <2>7, <2>8
<1>13. CASE Stops(v)
  <2>1. \/ aborted' = "promoted"
        \/ aborted' = "oom" /\ Candidates(free_list, 0) = {} /\ Unpromoted = {}
    BY <1>13 DEF Stops
  <2>2. CASE aborted' = "promoted"
    BY <2>2 DEF Supply, Covered, NoneOnlyWhenFull, GivesUpWhenFull
  <2>3. CASE aborted' = "oom" /\ Candidates(free_list, 0) = {} /\ Unpromoted = {}
    <3>1. FreePages(free_list) = {}
      BY <1>2, <2>3, EmptyLists DEF AllocatorOK
    <3>2. Pages \subseteq Backed
      BY <1>1, <1>2, <2>3, <3>1, AllBacked
    <3> QED
      BY <1>5, <2>3, <3>2 DEF Supply, Covered, NoneOnlyWhenFull, GivesUpWhenFull
  <2> QED
    BY <2>1, <2>2, <2>3
<1> QED
  BY <1>1, <1>2, <1>10, <1>11, <1>12, <1>13, AllocateShape

\* The update of the tables takes no page out of use: a 4KB entry is new, and a
\* 2MB entry covers the 4KB entries it replaces.
LEMMA BackedGrows ==
    ASSUME PrivateRegions, Inv, Placement, Faults, aborted = "no", NEW c \in Cores, UpdateTables(c)
    PROVE  /\ Backed \subseteq Backed'
           /\ \A p : InFlight(p) => p \in Backed'
           /\ \A x \in DOMAIN pte' : x \notin DOMAIN pte => pte'[x] = result.ppn
           /\ \A x \in DOMAIN pte' : x \in DOMAIN pte => pte'[x] = pte[x]
<1>0. PICK u, app : u = access[c] /\ app = AppOf[c]
  OBVIOUS
<1>1. /\ TypeOK /\ Exclusive /\ ResultFits /\ AllocatorOK /\ OwnAccess
      /\ EntriesHome /\ ResultHome /\ FaultUnmapped
  BY DEF Inv, Placement, Faults
<1>2. pc[c] = "update" /\ \A d \in Cores : pc[d] = "update" => d = c
  BY <1>1 DEF UpdateTables, TypeOK, Exclusive
<1>3. u \in VpnsOf[c] /\ Private(c, u)
  BY <1>0, <1>1, <1>2 DEF OwnAccess, PrivateRegions
<1>4. <<app, u>> \notin DOMAIN pte /\ <<app, Region(u)>> \notin DOMAIN pmd
  BY <1>0, <1>1, <1>2, <1>3 DEF FaultUnmapped, Mapped, Huge
<1>5. \A p : p \in Backed' <=> \/ \E x \in DOMAIN pte' : p = pte'[x]
                               \/ \E x \in DOMAIN pmd' : p \in pmd'[x]..(pmd'[x] + (HugePages - 1))
  BY DEF Backed
<1>6. CASE Enters4KB(app, u)
  <2>1. /\ pmd' = pmd /\ result.size # 21
        /\ DOMAIN pte' = DOMAIN pte \cup {<<app, u>>}
        /\ pte'[<<app, u>>] = result.ppn
        /\ \A x \in DOMAIN pte : pte'[x] = pte[x]
    BY <1>4, <1>6 DEF Enters4KB
  <2>2. ASSUME NEW p \in Backed PROVE p \in Backed'
    BY <1>5, <2>1, BackedBy
  <2>3. ASSUME NEW p, InFlight(p) PROVE p \in Backed'
    BY <1>5, <2>1, <2>3 DEF InFlight
  <2> QED
    BY <2>1, <2>2, <2>3
<1>7. CASE Enters2MB(app, u)
  <2> DEFINE r == Region(u)
  <2>1. /\ result.size = 21
        /\ DOMAIN pmd' = DOMAIN pmd \cup {<<app, r>>}
        /\ pmd'[<<app, r>>] = result.ppn
        /\ \A x \in DOMAIN pmd : pmd'[x] = pmd[x]
        /\ DOMAIN pte' = DOMAIN pte \ ({app} \X {w \in Vpns : Region(w) = r})
        /\ \A x \in DOMAIN pte' : pte'[x] = pte[x]
    BY <1>4, <1>7 DEF Enters2MB
  <2>2. r \in Reserved /\ result.ppn = BaseOf(r)
    BY <1>0, <1>1, <1>2, <2>1 DEF ResultHome, ResultFits, Promoted, Page
  <2>3. ASSUME NEW p \in InRegion(r) PROVE p \in Backed'
    BY <1>5, <2>1, <2>2, <2>3 DEF InRegion
  <2>4. ASSUME NEW x \in DOMAIN pte, x \notin DOMAIN pte' PROVE pte[x] \in Backed'
    <3>1. Region(x[2]) = r /\ x[2] \in Nat
      <4>1. x \in {app} \X {w \in Vpns : Region(w) = r}
        BY <2>1, <2>4
      <4> QED
        BY <1>1, <4>1, EntryPages
    <3>2. pte[x] = Home(x[2])
      BY <1>1, <2>2, <3>1 DEF EntriesHome
    <3>3. Home(x[2]) \in InRegion(r)
      BY <1>1, <2>2, <3>1, HomeInRegion
    <3> QED
      BY <2>3, <3>2, <3>3
  <2>5. ASSUME NEW p \in Backed PROVE p \in Backed'
    <3>1. CASE \E x \in DOMAIN pmd : p \in pmd[x]..(pmd[x] + (HugePages - 1))
      BY <1>5, <2>1, <3>1
    <3>2. CASE \E x \in DOMAIN pte : p = pte[x]
      <4>1. PICK x \in DOMAIN pte : p = pte[x]
        BY <3>2
      <4>2. CASE x \in DOMAIN pte'
        BY <1>5, <2>1, <4>1, <4>2
      <4> QED
        BY <2>4, <4>1, <4>2
    <3> QED
      BY <3>1, <3>2, BackedBy
  <2>6. ASSUME NEW p, InFlight(p) PROVE p \in Backed'
    BY <2>1, <2>2, <2>3, <2>6 DEF InFlight, InRegion
  <2> QED
    BY <2>1, <2>5, <2>6
<1> QED
  BY <1>0, <1>6, <1>7, UpdateEntries

\* The update of the tables.
LEMMA SupplyUpdate ==
    ASSUME PrivateRegions, Inv, Placement, Faults, Supply, aborted = "no",
           NEW c \in Cores, UpdateTables(c)
    PROVE  Supply'
<1>1. /\ pc[c] = "update"
      /\ UNCHANGED <<free_list, two_mb_map, result, aborted>>
  BY DEF UpdateTables, allocVars
<1>2. \A d \in Cores : pc'[d] # "update"
  BY DEF UpdateTables, Inv, TypeOK, Exclusive
<1>3. /\ Backed \subseteq Backed'
      /\ \A p : InFlight(p) => p \in Backed'
      /\ \A x \in DOMAIN pte' : x \notin DOMAIN pte => pte'[x] = result.ppn
      /\ \A x \in DOMAIN pte' : x \in DOMAIN pte => pte'[x] = pte[x]
  BY BackedGrows
<1>4. Reserved' = Reserved /\ \A r, p : Spare(r, p)' <=> Spare(r, p)
  BY <1>1 DEF Reserved, Spare, InRegion, BaseOf
<1>5. Covered'
  BY <1>1, <1>3, <1>4 DEF Supply, Covered
<1>6. NoneOnlyWhenFull'
  <2>1. SUFFICES ASSUME NEW x \in DOMAIN pte', pte'[x] = NoPage
                 PROVE  Pages \subseteq Backed'
    BY <1>2 DEF NoneOnlyWhenFull
  <2>2. (pte[x] = NoPage /\ x \in DOMAIN pte) \/ result.ppn = NoPage
    BY <1>3, <2>1
  <2>3. Pages \subseteq Backed
    BY <1>1, <2>2 DEF Supply, NoneOnlyWhenFull
  <2> QED
    BY <1>3, <2>3
<1> QED
  BY <1>1, <1>5, <1>6 DEF Supply, GivesUpWhenFull

\* The steps outside the handler; a walk that meets an entry without a page.
LEMMA SupplyQuiet ==
    ASSUME Inv, Placement, Supply, aborted = "no", NEW c \in Cores,
           \/ \E vpn \in VpnsOf[c] : TlbMiss(c, vpn)
           \/ WalkHit(c) \/ WalkInvalid(c) \/ WalkFault(c) \/ Acquire(c)
    PROVE  Supply'
<1>1. UNCHANGED <<free_list, two_mb_map, demoted, result, pte, pmd>>
  BY DEF TlbMiss, WalkHit, WalkInvalid, WalkFault, Acquire, allocVars, tableVars
<1>2. \A d \in Cores : pc'[d] = "update" <=> pc[d] = "update"
  BY DEF TlbMiss, WalkHit, WalkInvalid, WalkFault, Acquire, coreVars, Inv, TypeOK
<1>3. /\ Backed' = Backed /\ Reserved' = Reserved
      /\ \A r, p : Spare(r, p)' <=> Spare(r, p)
      /\ \A p : InFlight(p)' <=> InFlight(p)
  BY <1>1, <1>2 DEF Backed, Reserved, Spare, InRegion, BaseOf, InFlight
<1>4. Covered' /\ NoneOnlyWhenFull'
  BY <1>1, <1>2, <1>3 DEF Supply, Covered, NoneOnlyWhenFull
<1>5. CASE aborted' = "no"
  BY <1>4, <1>5 DEF Supply, GivesUpWhenFull
<1>6. CASE aborted' # "no"
  <2>1. WalkInvalid(c)
    BY <1>6 DEF TlbMiss, WalkHit, WalkFault, Acquire, allocVars
  <2>2. PICK v, a : v = access[c] /\ a = AppOf[c]
    OBVIOUS
  <2>3. Mapped(a, v) /\ Translation(a, v).ppn = NoPage /\ pc[c] = "walk"
    BY <2>1, <2>2 DEF WalkInvalid
  <2>4. ~Huge(a, v)
    <3>1. SUFFICES ASSUME Huge(a, v) PROVE FALSE
      OBVIOUS
    <3>2. PICK x \in DOMAIN pmd : x = <<a, Region(v)>>
      BY <3>1 DEF Huge
    <3>3. Promoted(x[2]) /\ pmd[x] = BaseOf(x[2])
      BY DEF Placement, EntriesHuge
    <3>4. pmd[x] \in Nat
      BY <3>3 DEF Placement, AllocatorOK, Promoted
    <3>5. Translation(a, v).ppn = pmd[x]
      BY <3>1, <3>2 DEF Translation, Page
    <3> QED
      BY <2>3, <3>4, <3>5 DEF NoPage
  <2>5. <<a, v>> \in DOMAIN pte /\ pte[<<a, v>>] = NoPage
    BY <2>3, <2>4 DEF Mapped, Translation, Page
  <2>6. Pages \subseteq Backed
    BY <2>5 DEF Supply, NoneOnlyWhenFull
  <2> QED
    BY <1>3, <1>4, <2>6 DEF Supply, GivesUpWhenFull
<1> QED
  BY <1>5, <1>6

\* Reservations and demotions strand no page: for private regions the allocator
\* runs out of memory, or returns no page, only when every page backs a mapping.
THEOREM MemoryUsedUp ==
    ASSUME PrivateRegions
    PROVE  Spec => []GivesUpWhenFull
<1>1. Init => Supply
  <2> SUFFICES ASSUME Init PROVE Supply
    OBVIOUS
  <2>1. FreePages(free_list) = Pages /\ DOMAIN pte = {}
    BY StartAssumption DEF Init
  <2> QED
    BY <2>1 DEF Init, Supply, Covered, NoneOnlyWhenFull, GivesUpWhenFull
<1>2. Inv /\ Placement /\ Faults /\ Supply /\ [Next]_vars => Supply'
  <2> SUFFICES ASSUME Inv, Placement, Faults, Supply, [Next]_vars PROVE Supply'
    OBVIOUS
  <2>1. CASE Next
    <3>1. aborted = "no"
      BY <2>1 DEF Next
    <3>2. PICK c \in Cores : Step(c)
      BY <2>1 DEF Next
    <3>3. CASE AllocateData(c)
      BY <3>1, <3>3, SupplyAllocate
    <3>4. CASE UpdateTables(c)
      BY <3>1, <3>4, SupplyUpdate
    <3>5. CASE \/ \E vpn \in VpnsOf[c] : TlbMiss(c, vpn)
               \/ WalkHit(c) \/ WalkInvalid(c) \/ WalkFault(c) \/ Acquire(c)
      BY <3>1, <3>5, SupplyQuiet
    <3> QED
      BY <3>2, <3>3, <3>4, <3>5 DEF Step, Translate
  <2>2. CASE UNCHANGED vars
    BY <2>2 DEF vars, Supply, Covered, NoneOnlyWhenFull, GivesUpWhenFull, Backed, InFlight,
       Spare, InRegion, BaseOf, Reserved
  <2> QED
    BY <2>1, <2>2
<1>3. Supply => GivesUpWhenFull
  BY DEF Supply
<1> QED
  BY <1>1, <1>2, <1>3, Invariance, PlacementInvariance, FaultsInvariance, PTL DEF Spec
==============================================================================
