--------------------------- MODULE RadixWalkProofs ---------------------------
(***************************************************************************)
(* Proofs about the word-level page table, for any number of threads,      *)
(* pages, levels and entries to a frame, any threshold, and any order in   *)
(* which stores reach memory.                                              *)
(***************************************************************************)
EXTENDS RadixWalk, FiniteSetTheorems, WellFoundedInduction, TLAPS

-----------------------------------------------------------------------------
(* Induction over the naturals in a form that needs no operator parameter:  *)
(* what is to be shown of every n is that n belongs to a set.               *)

\* A non-empty set of naturals has a least element.
LEMMA LeastNatural ==
    ASSUME NEW T, T \subseteq Nat, T # {}
    PROVE  \E x \in T : \A y \in T : x <= y
<1>1. PICK x \in T : \A y \in T : ~(<<y, x>> \in OpToRel(<, Nat))
  BY NatLessThanWellFounded, WFMin
<1>2. ASSUME NEW y \in T PROVE x <= y
  <2>1. x \in Nat /\ y \in Nat OBVIOUS
  <2>2. y < x => <<y, x>> \in OpToRel(<, Nat) BY <2>1 DEF OpToRel
  <2>3. ~(y < x) BY <1>1, <2>2
  <2> QED BY <2>1, <2>3
<1> QED BY <1>2

\* A set that holds 0 and with each natural its successor holds them all.
LEMMA NatSetInduction ==
    ASSUME NEW S, 0 \in S, \A n \in Nat : n \in S => n + 1 \in S
    PROVE  \A n \in Nat : n \in S
<1> DEFINE T == Nat \ S
<1>1. SUFFICES ASSUME T # {} PROVE FALSE OBVIOUS
<1>2. PICK x \in T : \A y \in T : x <= y
  <2>1. T \subseteq Nat OBVIOUS
  <2> HIDE DEF T
  <2> QED BY <1>1, <2>1, LeastNatural
<1>3. x # 0 /\ x \in Nat OBVIOUS
<1>4. x - 1 \in Nat /\ ~(x <= x - 1) /\ x - 1 + 1 = x BY <1>3
<1>5. x - 1 \in S BY <1>2, <1>4
<1> QED BY <1>4, <1>5

-----------------------------------------------------------------------------
(* The inductive invariant.  lv and px say of every frame which level it   *)
(* is of and which part of the address space it covers.                    *)

\* What is left of a page's number above the indices of the levels up to l.
Prefix(v, l) == v \div Fan^l

\* Frame f is one of level l on the way to page v.
At(lv, px, f, l, v) == f \in DOMAIN heap /\ lv[f] = l /\ px[f] = Prefix(v, l)
Has(lv, px, l, v) == \E f \in DOMAIN heap : At(lv, px, f, l, v)

\* Entry i of f is the one for page v.
EntryFor(lv, px, f, i, v) == v \in Vpns /\ px[f] = Prefix(v, lv[f]) /\ i = Index(v, lv[f])

\* Frame g belongs below entry i of f.
Child(lv, px, f, i, g) ==
    /\ g \in DOMAIN heap /\ lv[f] > 1 /\ lv[g] = lv[f] - 1
    /\ \E v \in Vpns : EntryFor(lv, px, f, i, v) /\ px[g] = Prefix(v, lv[g])

\* The region of v has become a 2MB page for the allocator.
Promoted(v) == Cardinality(UsedIn(v)) > threshold

Base(v) == v - (v % Fan)

\* The forms of an entry.
Empty(e) == e.is_pte = {0} /\ e.word = {Null}
Link(e, g) == e.is_pte = {0} /\ e.word = {g}
ValidWord(word) == \E x \in word : x \in Int /\ x <= 1 /\ x # Null /\ word = {x}
Entry2MB(e, v) == e.is_pte = {1} /\ ValidWord(e.word) /\ e.ppn = {Base(v)}
Entry4KB(e, v) == e.is_pte = {1} /\ e.word = {1} /\ e.ppn = {v}
Unset4KB(e) == e.is_pte = {1} /\ e.word = {Null}

Settled(lv, px, f, i) ==
    IF lv[f] = 1
    THEN \/ Unset4KB(heap[f][i])
         \/ \E v \in Vpns : EntryFor(lv, px, f, i, v) /\ Entry4KB(heap[f][i], v)
    ELSE \/ Empty(heap[f][i])
         \/ \E g \in DOMAIN heap : Link(heap[f][i], g) /\ Child(lv, px, f, i, g)
         \/ /\ lv[f] = 2
            /\ \E v \in Vpns : /\ EntryFor(lv, px, f, i, v) /\ Promoted(v)
                               /\ Entry2MB(heap[f][i], v)

Touched(f, i) == \E s \in pending : s.frame = f /\ s.index = i
Entries(lv, px) ==
    \A f \in DOMAIN heap, i \in Indices : ~Touched(f, i) => Settled(lv, px, f, i)

LinkPending(f, i, g) == StoreTo(1, f, i, "next_level", g) \in pending

Linked(lv, px, g) ==
    \E f \in DOMAIN heap, i \in Indices :
        /\ Child(lv, px, f, i, g)
        /\ \/ Link(heap[f][i], g)
           \/ LinkPending(f, i, g)
           \/ \E v \in Vpns : lv[g] = 1 /\ px[g] = Prefix(v, 1) /\ Promoted(v)

\* The shapes of the records.
WalkRecord(w) ==
    w = [vpn |-> w.vpn, level |-> w.level, frame |-> w.frame, is_pte |-> w.is_pte,
         page |-> w.page, sure |-> w.sure, quiet |-> w.quiet]
EntryRecord(e) == e = [is_pte |-> e.is_pte, word |-> e.word, ppn |-> e.ppn]

Frames(lv, px) ==
    /\ \E n \in DOMAIN heap : n \in Nat /\ DOMAIN heap = Root..n
    /\ \A f \in DOMAIN heap : lv[f] \in 1..Levels /\ px[f] \in Nat
    /\ lv[Root] = Levels /\ px[Root] = 0
    /\ \A f, g \in DOMAIN heap : lv[f] = lv[g] /\ px[f] = px[g] => f = g
    /\ \A f \in DOMAIN heap, v \in Vpns : px[f] = Prefix(v, lv[f]) =>
          \A l \in lv[f]..Levels : Has(lv, px, l, v)
    /\ \A g \in DOMAIN heap \ {Root} : Linked(lv, px, g)
    /\ \A f \in DOMAIN heap : /\ heap[f] = [i \in Indices |-> heap[f][i]]
                               /\ \A i \in Indices : EntryRecord(heap[f][i])

TargetLevel == IF up.size = 21 THEN 2 ELSE 1
TargetPage(v) == IF up.size = 21 THEN Base(v) ELSE v

\* The stores that make a new frame, and what they have done so far.
NewStores(v) ==
    {StoreTo(1, up.parent, Index(v, up.level + 1), "next_level", up.frame)}
        \cup InitStores(up.frame, up.level)
NewOK(lv, px, v) ==
    /\ At(lv, px, up.parent, up.level + 1, v)
    /\ pending \subseteq NewStores(v)
    /\ LinkPending(up.parent, Index(v, up.level + 1), up.frame) =>
          Empty(heap[up.parent][Index(v, up.level + 1)])
    /\ \A i \in Indices :
          LET e == heap[up.frame][i]
              bit == IF up.level = 1 THEN 1 ELSE 0
          IN  /\ e.is_pte = IF StoreTo(2 * i + 2, up.frame, i, "is_pte", bit) \in pending
                            THEN {0, 1} ELSE {bit}
              /\ e.word = IF StoreTo(2 * i + 3, up.frame, i, "next_level", Null) \in pending
                          THEN {Null, -1} ELSE {Null}

\* The stores that set an entry.
SetOK(lv, px, v) ==
    LET i == Index(v, up.level)
        e == heap[up.frame][i]
        ppn == TargetPage(v)
    IN  /\ up.frame # Null /\ up.level = TargetLevel
        /\ pending \subseteq EntryStores(up.frame, i, ppn)
        /\ e.is_pte = IF StoreTo(3, up.frame, i, "is_pte", 1) \in pending /\ up.level = 2
                      THEN {0} ELSE {1}
        /\ IF StoreTo(1, up.frame, i, "valid", 1) \in pending
           THEN \/ e.word = {Null}
                \/ up.level = 1 /\ e.word = {1} /\ e.ppn = {v}
                \/ /\ up.level = 2
                   /\ \E g \in DOMAIN heap : e.word = {g} /\ Child(lv, px, up.frame, i, g)
           ELSE ValidWord(e.word) /\ (up.level = 1 => e.word = {1})
        /\ StoreTo(2, up.frame, i, "ppn", ppn) \notin pending => e.ppn = {ppn}

\* The update for page v, whose walk asked for r frames: what is to be written,
Sized(v) ==
    /\ v \in in_use /\ up.size \in {12, 21} /\ (up.size = 21 <=> Promoted(v))
    /\ up.level \in TargetLevel..Levels /\ up.used \in Nat /\ up.done \in BOOLEAN
\* how far it has descended,
InFrame(lv, px, v, r) ==
    up.frame # Null => /\ At(lv, px, up.frame, up.level, v)
                       /\ up.used > 0 => up.used + up.level <= r + 1
\* the frame that is missing,
Missing(lv, px, v, r) ==
    up.frame = Null => /\ ~up.done /\ pending = {} /\ up.level < Levels
                       /\ At(lv, px, up.parent, up.level + 1, v)
                       /\ Empty(heap[up.parent][Index(v, up.level + 1)])
                       /\ up.used + up.level <= r
\* the stores on their way,
Storing(lv, px, v) ==
    /\ up.done => SetOK(lv, px, v)
    /\ ~up.done /\ pending # {} => NewOK(lv, px, v)
\* and that the region was no 2MB page, nor mapped where the first touch promotes.
Unpromoted(lv, px, v) ==
    ~up.done => \A f \in DOMAIN heap :
        At(lv, px, f, 2, v) /\ ~Touched(f, Index(v, 2)) => heap[f][Index(v, 2)].is_pte = {0}
Unmapped(v) == threshold = 0 => mapped \cap RegionOf(v) = {}

Updating(lv, px, v, r) ==
    /\ Sized(v) /\ InFrame(lv, px, v, r) /\ Missing(lv, px, v, r)
    /\ Storing(lv, px, v) /\ Unpromoted(lv, px, v) /\ Unmapped(v)
UpdateOK(lv, px, c) ==
    /\ requested[c] = walk[c].level - 1
    /\ Updating(lv, px, walk[c].vpn, requested[c])

Updates(lv, px) ==
    /\ \A c \in Cores : pc[c] = "update" => UpdateOK(lv, px, c)
    /\ \A c, d \in Cores : pc[c] = "update" /\ pc[d] = "update" => c = d
    /\ ~Locked => pending = {}

Walking == {"is_pte", "word", "ppn", "fault", "update"}
WalkOK(lv, px, c) ==
    pc[c] \in Walking =>
        /\ walk[c].vpn \in VpnsOf[c] /\ walk[c].level \in 1..Levels
        /\ At(lv, px, walk[c].frame, walk[c].level, walk[c].vpn)
        /\ pc[c] = "fault" => requested[c] = walk[c].level - 1
Walks(lv, px) == \A c \in Cores : WalkOK(lv, px, c)

\* The page is being promoted, or mapped again.
Busy(v) == \E c \in Cores : pc[c] = "update" /\ v \in RegionOf(walk[c].vpn)
Found4KB(lv, px, v) ==
    \E f \in DOMAIN heap : At(lv, px, f, 1, v) /\ Entry4KB(heap[f][Index(v, 1)], v)
Found2MB(lv, px, v) ==
    \E f \in DOMAIN heap : At(lv, px, f, 2, v) /\ Entry2MB(heap[f][Index(v, 2)], v)
Handled(lv, px) ==
    /\ IsFiniteSet(in_use) /\ in_use \subseteq Vpns /\ threshold \in Nat
    /\ \A v \in mapped :
        /\ v \in Vpns /\ UsedIn(v) # {}
        /\ ~Promoted(v) => Found4KB(lv, px, v)
        /\ Promoted(v) /\ ~Busy(v) => Found2MB(lv, px, v)

\* Walks that no update has disturbed.
QuietFor(c) ==
    walk[c].quiet =>
        /\ pc[c] \in {"is_pte", "word", "ppn"} => ~Locked
        /\ pc[c] = "word" => EntryOf(c).is_pte = {walk[c].is_pte}
        /\ pc[c] = "ppn" => EntryOf(c).is_pte = {1} /\ ValidWord(EntryOf(c).word)
        /\ pc[c] \in {"idle", "dead"} => walk[c].page = walk[c].vpn
QuietOK == \A c \in Cores : QuietFor(c)

\* Walks of pages that were mapped before, when no link is ever replaced.
LeafLevel == IF threshold = 0 THEN 2 ELSE 1
LinksStay == threshold = 0 \/ threshold >= Fan
SureFor(c) ==
    walk[c].sure =>
        /\ walk[c].vpn \in mapped
        /\ pc[c] \in {"idle", "is_pte", "word", "ppn"}
        /\ pc[c] # "idle" => walk[c].level >= LeafLevel
        /\ pc[c] = "word" => walk[c].is_pte = IF walk[c].level = LeafLevel THEN 1 ELSE 0
        /\ pc[c] = "ppn" => walk[c].level = LeafLevel
        /\ pc[c] = "idle" => walk[c].page = walk[c].vpn
SureOK == LinksStay => \A c \in Cores : SureFor(c)

TypeOK ==
    /\ pc \in [Cores -> {"idle", "is_pte", "word", "ppn", "fault", "update", "dead", "assert"}]
    /\ walk = [c \in Cores |-> walk[c]] /\ \A c \in Cores : WalkRecord(walk[c])
    /\ requested = [c \in Cores |-> requested[c]]
    /\ up = [level |-> up.level, frame |-> up.frame, parent |-> up.parent, size |-> up.size,
             used |-> up.used, done |-> up.done]

Good(lv, px) ==
    /\ TypeOK
    /\ Frames(lv, px)
    /\ Entries(lv, px)
    /\ Updates(lv, px)
    /\ Walks(lv, px)
    /\ Handled(lv, px)
    /\ QuietOK
    /\ SureOK

Inv == \E lv, px : Good(lv, px)

-----------------------------------------------------------------------------
(* Page numbers and indices.                                               *)

\* Division with remainder.
LEMMA DivMod ==
    ASSUME NEW o \in Nat, NEW P \in Nat \ {0}
    PROVE  /\ o \div P \in Nat /\ o % P \in Nat /\ o % P < P
           /\ o = P * (o \div P) + (o % P)
<1>1. o = P * (o \div P) + (o % P) /\ o % P \in 0..(P - 1) /\ o \div P \in Nat OBVIOUS
<1> QED BY <1>1

\* Quotient and remainder are unique.
LEMMA DivModUnique ==
    ASSUME NEW P \in Nat \ {0}, NEW q \in Nat, NEW r \in Nat, r < P, NEW o, o = P * q + r
    PROVE  o \div P = q /\ o % P = r
<1>1. o \in Nat OBVIOUS
<1>2. o \div P = q BY <1>1
<1>3. o % P = r BY <1>1
<1> QED BY <1>2, <1>3

\* Dividing twice is dividing by the product.
LEMMA DivTwice ==
    ASSUME NEW o \in Nat, NEW a \in Nat \ {0}, NEW b \in Nat \ {0}
    PROVE  o \div (b * a) = (o \div a) \div b
<1> DEFINE q == o \div a
           r == o % a
           p == q \div b
           s == q % b
<1>1. q \in Nat /\ r \in Nat /\ r < a /\ o = a * q + r BY DivMod
<1>2. p \in Nat /\ s \in Nat /\ s < b /\ q = b * p + s BY <1>1, DivMod
<1> HIDE DEF q, r, p, s
<1>3. a * s \in Nat /\ a * s + a <= a * b
  <2>1. s + 1 <= b BY <1>2
  <2>2. a * (s + 1) <= a * b BY <1>2, <2>1
  <2>3. a * (s + 1) = a * s + a BY <1>2
  <2>4. a * s \in Nat BY <1>2
  <2> QED BY <2>2, <2>3, <2>4
<1> DEFINE t == a * s + r
           c == b * a
<1>4. t \in Nat /\ t < c /\ c \in Nat \ {0}
  <2>1. a * b = b * a /\ b * a \in Nat /\ b * a # 0 OBVIOUS
  <2> QED BY <1>1, <1>3, <2>1
<1>5. o = c * p + t
  <2>1. a * (b * p + s) = (b * a) * p + a * s BY <1>2
  <2> QED BY <1>1, <1>2, <2>1
<1> HIDE DEF t, c
<1>6. o \div c = p BY <1>2, <1>4, <1>5, DivModUnique
<1> QED BY <1>6 DEF c, p, q

\* The constants.
LEMMA Constants ==
    /\ Levels \in Nat /\ Levels >= 2 /\ Fan \in Nat \ {0}
    /\ Vpns \subseteq Nat /\ \A v \in Vpns : v < Fan^Levels
    /\ \A c \in Cores : VpnsOf[c] \subseteq Vpns
    /\ Fan^0 = 1 /\ Fan^1 = Fan
    /\ \A l \in 0..Levels : Fan^l \in Nat \ {0} /\ Fan^(l + 1) = Fan * Fan^l
<1>1. Levels \in Nat /\ Levels >= 2 /\ Fan \in Nat \ {0} BY RadixAssumption
<1>2. /\ Fan^0 = 1
      /\ \A l \in 0..Levels : Fan^l \in Nat \ {0} /\ Fan^(l + 1) = Fan * Fan^l
  BY PowersOfFan
<1>3. Fan^1 = Fan
  <2>1. Fan^(0 + 1) = Fan * Fan^0 BY <1>1, <1>2
  <2>2. 0 + 1 = 1 OBVIOUS
  <2> QED BY <1>1, <1>2, <2>1, <2>2
<1>4. Fan^Levels \in Nat BY <1>1, <1>2
<1>5. ASSUME NEW v \in Vpns PROVE v \in Nat /\ v < Fan^Levels
  <2>1. PICK c \in Cores : v \in VpnsOf[c] BY <1>5 DEF Vpns
  <2>2. v \in 0..(Fan^Levels - 1) BY <2>1, RadixAssumption
  <2> DEFINE n == Fan^Levels
  <2>3. n \in Nat /\ v \in 0..(n - 1) BY <1>4, <2>2
  <2> HIDE DEF n
  <2>4. v \in Nat /\ v < n BY <2>3
  <2> QED BY <2>4 DEF n
<1>6. \A c \in Cores : VpnsOf[c] \subseteq Vpns BY DEF Vpns
<1> QED BY <1>1, <1>2, <1>3, <1>5, <1>6

\* A page's number level by level.
LEMMA Digits ==
    ASSUME NEW v \in Vpns, NEW l \in 1..Levels
    PROVE  /\ Index(v, l) \in Indices /\ Prefix(v, l) \in Nat /\ Prefix(v, l - 1) \in Nat
           /\ Prefix(v, l - 1) = Fan * Prefix(v, l) + Index(v, l)
<1> DEFINE P == Fan^(l - 1)
           q == v \div P
<1>0. v \in Nat /\ l \in Nat /\ l - 1 \in 0..Levels /\ l - 1 + 1 = l /\ Fan \in Nat \ {0}
  BY Constants
<1>1. P \in Nat \ {0} /\ Fan^l = Fan * P BY <1>0, Constants
<1> HIDE DEF P
<1>2. q \in Nat BY <1>0, <1>1, DivMod
<1>3. v \div (Fan * P) = q \div Fan BY <1>0, <1>1, DivTwice
<1>4. q \div Fan \in Nat /\ q % Fan \in Nat /\ q % Fan < Fan /\ q = Fan * (q \div Fan) + (q % Fan)
  BY <1>0, <1>2, DivMod
<1>5. Prefix(v, l - 1) = q /\ Index(v, l) = q % Fan /\ Prefix(v, l) = q \div Fan
  BY <1>1, <1>3 DEF Prefix, Index, P
<1> HIDE DEF q
<1>6. q % Fan \in 0..(Fan - 1) BY <1>0, <1>4
<1> QED BY <1>2, <1>4, <1>5, <1>6 DEF Indices

\* Pages share the part of a level if they share that of the level above and
\* have the same entry in it.
LEMMA SamePrefix ==
    ASSUME NEW v \in Vpns, NEW w \in Vpns, NEW l \in 1..Levels
    PROVE  Prefix(v, l - 1) = Prefix(w, l - 1) <=>
               Prefix(v, l) = Prefix(w, l) /\ Index(v, l) = Index(w, l)
<1> DEFINE a == Prefix(v, l)
           b == Prefix(w, l)
           i == Index(v, l)
           j == Index(w, l)
           x == Prefix(v, l - 1)
           y == Prefix(w, l - 1)
<1>1. Fan \in Nat \ {0} BY Constants
<1>2. a \in Nat /\ i \in Nat /\ i < Fan /\ x = Fan * a + i BY <1>1, Digits DEF Indices
<1>3. b \in Nat /\ j \in Nat /\ j < Fan /\ y = Fan * b + j BY <1>1, Digits DEF Indices
<1> HIDE DEF a, b, i, j, x, y
<1>4. x \div Fan = a /\ x % Fan = i BY <1>1, <1>2, DivModUnique
<1>5. y \div Fan = b /\ y % Fan = j BY <1>1, <1>3, DivModUnique
<1>6. x = y <=> a = b /\ i = j BY <1>2, <1>3, <1>4, <1>5
<1> QED BY <1>6 DEF a, b, i, j, x, y

\* All pages share the root.
LEMMA TopPrefix == ASSUME NEW v \in Vpns PROVE Prefix(v, Levels) = 0
<1> DEFINE P == Fan^Levels
<1>1. v \in Nat /\ v < P /\ P \in Nat \ {0} BY Constants
<1> HIDE DEF P
<1>2. v = P * 0 + v BY <1>1
<1>3. v \div P = 0 BY <1>1, <1>2, DivModUnique
<1> QED BY <1>3 DEF Prefix, P

\* Regions, and the pages in them.
LEMMA Regions ==
    ASSUME NEW v \in Vpns
    PROVE  /\ RegionOf(v) \subseteq Vpns /\ v \in RegionOf(v)
           /\ Base(v) \in Nat /\ Base(v) + (v % Fan^1) = v /\ v + (v % Fan^0) = v
           /\ \A w \in Vpns : w \in RegionOf(v) <=> Prefix(w, 1) = Prefix(v, 1)
           /\ \A w \in RegionOf(v) : RegionOf(w) = RegionOf(v) /\ Base(w) = Base(v)
<1>1. v \in Nat /\ Fan \in Nat \ {0} /\ Fan^1 = Fan /\ Fan^0 = 1 BY Constants
<1>2. \A w : Prefix(w, 1) = w \div Fan BY <1>1 DEF Prefix
<1>3. \A w \in Vpns : w \in RegionOf(v) <=> Prefix(w, 1) = Prefix(v, 1)
  BY <1>2 DEF RegionOf
<1>4. RegionOf(v) \subseteq Vpns /\ v \in RegionOf(v) BY DEF RegionOf
<1>5. v % Fan \in Nat BY <1>1, DivMod
<1>6. v % 1 = 0
  <2>1. v = 1 * v + 0 BY <1>1
  <2> QED BY <1>1, <2>1, DivModUnique
<1>7. Base(v) \in Nat /\ Base(v) + (v % Fan^1) = v /\ v + (v % Fan^0) = v
  <2> DEFINE m == v % Fan
             q == v \div Fan
  <2>1. m \in Nat /\ q \in Nat /\ v = Fan * q + m BY <1>1, DivMod
  <2>3. Fan * q \in Nat BY <1>1, <2>1
  <2> HIDE DEF m, q
  <2>2. v - m \in Nat /\ (v - m) + m = v /\ v + 0 = v BY <1>1, <2>1, <2>3
  <2> QED BY <1>1, <1>6, <2>2 DEF Base, m
<1>8. ASSUME NEW w \in RegionOf(v) PROVE RegionOf(w) = RegionOf(v) /\ Base(w) = Base(v)
  <2>1. w \in Vpns /\ w \div Fan = v \div Fan BY DEF RegionOf
  <2>2. w \in Nat BY <2>1, Constants
  <2>3. RegionOf(w) = RegionOf(v) BY <2>1 DEF RegionOf
  <2> DEFINE q == v \div Fan
             m == v % Fan
             n == w % Fan
  <2>4. q \in Nat /\ m \in Nat /\ n \in Nat /\ v = Fan * q + m /\ w = Fan * q + n
    BY <1>1, <2>1, <2>2, DivMod
  <2> HIDE DEF q, m, n
  <2>5. Fan * q \in Nat BY <1>1, <2>4
  <2>6. w - n = v - m BY <1>1, <2>2, <2>4, <2>5
  <2> QED BY <2>3, <2>6 DEF Base, m, n
<1> QED BY <1>3, <1>4, <1>7, <1>8

\* A region has at most Fan pages.
LEMMA RegionSize ==
    ASSUME NEW v \in Vpns
    PROVE  /\ IsFiniteSet(RegionOf(v))
           /\ \A S \in SUBSET RegionOf(v) : IsFiniteSet(S) /\ Cardinality(S) \in Nat
                                             /\ Cardinality(S) <= Fan
<1> DEFINE q == v \div Fan
           lo == Fan * q
           hi == lo + (Fan - 1)
<1>1. v \in Nat /\ Fan \in Nat \ {0} BY Constants
<1>2. q \in Nat BY <1>1, DivMod
<1>3. lo \in Nat /\ hi \in Nat /\ hi - lo + 1 = Fan /\ lo <= hi BY <1>1, <1>2
<1>4. ASSUME NEW w \in RegionOf(v) PROVE w \in lo..hi
  <2>1. w \in Nat /\ w \div Fan = q BY Constants DEF RegionOf
  <2> DEFINE n == w % Fan
  <2>2. n \in Nat /\ n < Fan /\ w = Fan * q + n BY <1>1, <2>1, DivMod
  <2>3. w = lo + n BY <2>2
  <2> HIDE DEF n, q, lo
  <2> QED BY <1>1, <1>3, <2>1, <2>2, <2>3
<1> HIDE DEF lo, hi
<1>5. IsFiniteSet(lo..hi) /\ Cardinality(lo..hi) = Fan
  <2>1. IsFiniteSet(lo..hi) /\ Cardinality(lo..hi) = IF lo > hi THEN 0 ELSE hi - lo + 1
    BY <1>3, FS_Interval
  <2> QED BY <1>3, <2>1
<1>6. ASSUME NEW S \in SUBSET RegionOf(v)
      PROVE  IsFiniteSet(S) /\ Cardinality(S) \in Nat /\ Cardinality(S) <= Fan
  <2>1. S \subseteq lo..hi BY <1>4
  <2>2. IsFiniteSet(S) /\ Cardinality(S) <= Cardinality(lo..hi) BY <1>5, <2>1, FS_Subset
  <2> QED BY <1>5, <2>2, FS_CardinalityType
<1>7. RegionOf(v) \in SUBSET RegionOf(v) OBVIOUS
<1> QED BY <1>6, <1>7

-----------------------------------------------------------------------------
(* What the invariant says of the words a walk or an update reads.         *)

\* The kinds of frame and page the arguments below speak of.
LEMMA FrameFacts ==
    ASSUME NEW lv, NEW px, Frames(lv, px), NEW f \in DOMAIN heap
    PROVE  /\ f \in Nat /\ f >= 2 /\ f # Null
           /\ lv[f] \in 1..Levels /\ px[f] \in Nat /\ heap[f] = [i \in Indices |-> heap[f][i]]
           /\ f \in Pointers
<1>1. PICK n \in DOMAIN heap : n \in Nat /\ DOMAIN heap = Root..n BY DEF Frames
<1>2. f \in Nat /\ f >= 2 /\ f <= n /\ n >= 2 BY <1>1 DEF Root
<1>3. IsFiniteSet(2..n) /\ Cardinality(2..n) = n - 1
  <2>1. PICK a : a = 2 OBVIOUS
  <2>2. a \in Int /\ n \in Int BY <1>1, <2>1
  <2>3. IsFiniteSet(a..n) /\ Cardinality(a..n) = IF a > n THEN 0 ELSE n - a + 1
    BY <2>2, FS_Interval
  <2> QED BY <1>1, <1>2, <2>1, <2>3
<1>4. f \in Pointers
  <2>1. Cardinality(DOMAIN heap) = n - 1 BY <1>1, <1>3 DEF Root
  <2>2. f \in 2..(2 + (n - 1)) BY <1>1, <1>2
  <2> QED BY <2>1, <2>2 DEF Pointers, Root
<1> QED BY <1>2, <1>4 DEF Frames, Null

\* A frame of a given level on the way to a page is the only one.
LEMMA OneFrame ==
    ASSUME NEW lv, NEW px, Frames(lv, px), NEW f, NEW g, NEW l, NEW v,
           At(lv, px, f, l, v), At(lv, px, g, l, v)
    PROVE  f = g
BY DEF Frames, At

\* The child of an entry on the way to a page is on the way to it.
LEMMA ChildAt ==
    ASSUME NEW lv, NEW px, Frames(lv, px), NEW f, NEW g, NEW l, NEW v \in Vpns,
           At(lv, px, f, l, v), Child(lv, px, f, Index(v, l), g)
    PROVE  At(lv, px, g, l - 1, v) /\ l > 1
<1>1. PICK w \in Vpns : EntryFor(lv, px, f, Index(v, l), w) /\ px[g] = Prefix(w, lv[g])
  BY DEF Child
<1>2. lv[f] = l /\ px[f] = Prefix(v, l) /\ l \in 1..Levels /\ l > 1 BY DEF At, Frames, Child
<1>3. Prefix(w, l) = Prefix(v, l) /\ Index(w, l) = Index(v, l) BY <1>1, <1>2 DEF EntryFor
<1>4. Prefix(w, l - 1) = Prefix(v, l - 1) BY <1>2, <1>3, SamePrefix
<1>5. g \in DOMAIN heap /\ lv[g] = l - 1 BY <1>2 DEF Child
<1> QED BY <1>1, <1>2, <1>4, <1>5 DEF At

\* The converse.
LEMMA AtChild ==
    ASSUME NEW lv, NEW px, Frames(lv, px), NEW f, NEW g, NEW l, NEW v \in Vpns,
           At(lv, px, f, l, v), At(lv, px, g, l - 1, v), l > 1
    PROVE  Child(lv, px, f, Index(v, l), g)
<1>1. EntryFor(lv, px, f, Index(v, l), v) BY DEF EntryFor, At
<1> QED BY <1>1 DEF Child, At

\* The entry a frame hangs from, seen from a page.
LEMMA ParentOf ==
    ASSUME NEW lv, NEW px, Frames(lv, px), NEW f, NEW g, NEW h, NEW i, NEW l, NEW v \in Vpns,
           At(lv, px, f, l, v), At(lv, px, g, l - 1, v),
           h \in DOMAIN heap, Child(lv, px, h, i, g)
    PROVE  h = f /\ i = Index(v, l)
<1>1. PICK w \in Vpns : EntryFor(lv, px, h, i, w) /\ px[g] = Prefix(w, lv[g])
  BY DEF Child
<1>2. lv[f] = l /\ px[f] = Prefix(v, l) /\ f \in DOMAIN heap /\ lv[g] = l - 1
      /\ px[g] = Prefix(v, l - 1)
  BY DEF At
<1>3. l \in 1..Levels /\ lv[h] \in 1..Levels /\ lv[g] = lv[h] - 1 BY <1>2 DEF Frames, Child
<1>4. lv[h] = l BY <1>2, <1>3
<1>5. Prefix(w, l - 1) = Prefix(v, l - 1) BY <1>1, <1>2
<1>6. Prefix(w, l) = Prefix(v, l) /\ Index(w, l) = Index(v, l) BY <1>3, <1>5, SamePrefix
<1>7. px[h] = Prefix(v, l) /\ i = Index(v, l) BY <1>1, <1>4, <1>6 DEF EntryFor
<1> QED BY <1>2, <1>4, <1>7 DEF Frames

\* Pages of one entry of level 2 are of one region.
LEMMA SameRegion ==
    ASSUME NEW v \in Vpns, NEW w \in Vpns
    PROVE  /\ Prefix(v, 2) = Prefix(w, 2) /\ Index(v, 2) = Index(w, 2) <=> w \in RegionOf(v)
           /\ Prefix(v, 1) = Prefix(w, 1) <=> w \in RegionOf(v)
           /\ w \in RegionOf(v) => Base(w) = Base(v) /\ (Promoted(w) <=> Promoted(v))
           /\ v \in RegionOf(w) <=> w \in RegionOf(v)
<1>1. 2 \in 1..Levels /\ 2 - 1 = 1 BY Constants
<1>2. Prefix(v, 1) = Prefix(w, 1) <=> Prefix(v, 2) = Prefix(w, 2) /\ Index(v, 2) = Index(w, 2)
  BY <1>1, SamePrefix
<1>3. /\ w \in RegionOf(v) <=> Prefix(w, 1) = Prefix(v, 1)
      /\ v \in RegionOf(w) <=> Prefix(w, 1) = Prefix(v, 1)
      /\ w \in RegionOf(v) => RegionOf(w) = RegionOf(v) /\ Base(w) = Base(v)
  BY Regions
<1>4. w \in RegionOf(v) => (Promoted(w) <=> Promoted(v)) BY <1>3 DEF Promoted, UsedIn
<1> QED BY <1>2, <1>3, <1>4

\* Pages of one entry of level 1 are the same.
LEMMA SamePage ==
    ASSUME NEW v \in Vpns, NEW w \in Vpns, Prefix(v, 1) = Prefix(w, 1), Index(v, 1) = Index(w, 1)
    PROVE  v = w
<1>1. 1 \in 1..Levels /\ 1 - 1 = 0 BY Constants
<1>2. Prefix(v, 0) = Prefix(w, 0) BY <1>1, SamePrefix
<1>3. ASSUME NEW u \in Vpns PROVE Prefix(u, 0) = u
  <2>1. u \in Nat /\ Fan^0 = 1 BY Constants
  <2>2. u = 1 * u + 0 BY <2>1
  <2>3. u \div 1 = u BY <2>1, <2>2, DivModUnique
  <2> QED BY <2>1, <2>3 DEF Prefix
<1> QED BY <1>2, <1>3

\* A frame on the way to a page below the root hangs from the frame above it,
\* unless its link is on its way to memory or its region has been promoted.
LEMMA ParentLink ==
    ASSUME NEW lv, NEW px, Frames(lv, px), NEW f, NEW g, NEW l, NEW v \in Vpns,
           At(lv, px, f, l, v), At(lv, px, g, l - 1, v)
    PROVE  \/ Link(heap[f][Index(v, l)], g)
           \/ LinkPending(f, Index(v, l), g)
           \/ l = 2 /\ Promoted(v)
<1>1. l \in 1..Levels /\ g \in DOMAIN heap /\ lv[g] = l - 1 /\ px[g] = Prefix(v, l - 1)
  BY DEF At, Frames
<1>2. g # Root BY <1>1, Constants DEF Frames
<1>3. Linked(lv, px, g) BY <1>1, <1>2 DEF Frames
<1>4. PICK h \in DOMAIN heap, i \in Indices :
        /\ Child(lv, px, h, i, g)
        /\ \/ Link(heap[h][i], g)
           \/ LinkPending(h, i, g)
           \/ \E w \in Vpns : lv[g] = 1 /\ px[g] = Prefix(w, 1) /\ Promoted(w)
  BY <1>3 DEF Linked
<1>5. h = f /\ i = Index(v, l) BY <1>4, ParentOf
<1>6. CASE \E w \in Vpns : lv[g] = 1 /\ px[g] = Prefix(w, 1) /\ Promoted(w)
  <2>1. PICK w \in Vpns : lv[g] = 1 /\ px[g] = Prefix(w, 1) /\ Promoted(w) BY <1>6
  <2>2. l = 2 /\ Prefix(w, 1) = Prefix(v, 1) BY <1>1, <2>1
  <2>3. w \in RegionOf(v) BY <2>2, SameRegion
  <2> QED BY <2>1, <2>2, <2>3, SameRegion
<1> QED BY <1>4, <1>5, <1>6

\* The update in progress, when there are stores on their way.
LEMMA PendingUpdate ==
    ASSUME NEW lv, NEW px, Updates(lv, px), pending # {}
    PROVE  \E c \in Cores : pc[c] = "update" /\ UpdateOK(lv, px, c)
BY DEF Updates, Locked

\* The entries that stores are on their way to.
LEMMA TouchedEntries ==
    ASSUME NEW lv, NEW px, NEW c \in Cores, UpdateOK(lv, px, c), NEW f, NEW i, Touched(f, i)
    PROVE  \/ /\ up.done /\ SetOK(lv, px, walk[c].vpn)
              /\ f = up.frame /\ i = Index(walk[c].vpn, up.level)
           \/ /\ ~up.done /\ NewOK(lv, px, walk[c].vpn)
              /\ f = up.parent /\ i = Index(walk[c].vpn, up.level + 1)
              /\ LinkPending(f, i, up.frame)
           \/ /\ ~up.done /\ NewOK(lv, px, walk[c].vpn)
              /\ f = up.frame /\ i \in Indices
<1>1. PICK s \in pending : s.frame = f /\ s.index = i BY DEF Touched
<1>2. CASE up.done
  <2>1. SetOK(lv, px, walk[c].vpn) BY <1>2 DEF UpdateOK, Updating, Storing
  <2>2. pending \subseteq EntryStores(up.frame, Index(walk[c].vpn, up.level), TargetPage(walk[c].vpn))
    BY <2>1 DEF SetOK
  <2>3. s.frame = up.frame /\ s.index = Index(walk[c].vpn, up.level)
    BY <1>1, <2>2 DEF EntryStores, StoreTo
  <2> QED BY <1>1, <1>2, <2>1, <2>3
<1>3. CASE ~up.done
  <2>1. NewOK(lv, px, walk[c].vpn) BY <1>1, <1>3 DEF UpdateOK, Updating, Storing
  <2>2. s \in NewStores(walk[c].vpn) BY <1>1, <2>1 DEF NewOK
  <2>3. CASE s \in InitStores(up.frame, up.level)
    <3>1. s.frame = up.frame /\ s.index \in Indices BY <2>3 DEF InitStores, StoreTo
    <3> QED BY <1>1, <1>3, <2>1, <3>1
  <2>4. CASE s = StoreTo(1, up.parent, Index(walk[c].vpn, up.level + 1), "next_level", up.frame)
    <3>1. s.frame = up.parent /\ s.index = Index(walk[c].vpn, up.level + 1) BY <2>4 DEF StoreTo
    <3>2. LinkPending(f, i, up.frame) BY <1>1, <2>4, <3>1 DEF LinkPending
    <3> QED BY <1>1, <1>3, <2>1, <3>1, <3>2
  <2> QED BY <2>2, <2>3, <2>4 DEF NewStores
<1> QED BY <1>2, <1>3 DEF UpdateOK, Updating, Sized

\* What any load may yield: a pointer only to the frame that belongs there.
LEMMA WordSafe ==
    ASSUME NEW lv, NEW px, Frames(lv, px), Entries(lv, px), Updates(lv, px),
           NEW f \in DOMAIN heap, NEW i \in Indices
    PROVE  /\ heap[f][i].is_pte \subseteq {0, 1}
           /\ \A x \in heap[f][i].word : x \in Int /\ (x > 1 => Child(lv, px, f, i, x))
<1>1. CASE ~Touched(f, i)
  <2>1. Settled(lv, px, f, i) BY <1>1 DEF Entries
  <2>2. CASE Empty(heap[f][i]) \/ Unset4KB(heap[f][i]) \/ \E v : Entry4KB(heap[f][i], v)
    BY <2>2 DEF Empty, Unset4KB, Entry4KB, Null
  <2>3. CASE \E g \in DOMAIN heap : Link(heap[f][i], g) /\ Child(lv, px, f, i, g)
    BY <2>3, FrameFacts DEF Link
  <2>4. CASE \E v : Entry2MB(heap[f][i], v)
    BY <2>4 DEF Entry2MB, ValidWord
  <2> QED BY <2>1, <2>2, <2>3, <2>4 DEF Settled
<1>2. CASE Touched(f, i)
  <2>1. PICK c \in Cores : pc[c] = "update" /\ UpdateOK(lv, px, c)
    BY <1>2, PendingUpdate DEF Touched
  <2>2. CASE SetOK(lv, px, walk[c].vpn) /\ f = up.frame /\ i = Index(walk[c].vpn, up.level)
    <3> DEFINE e == heap[f][i]
    <3>1. e.is_pte \subseteq {0, 1} BY <2>2 DEF SetOK
    <3>2. \/ e.word = {Null} \/ e.word = {1} \/ ValidWord(e.word)
          \/ \E g \in DOMAIN heap : e.word = {g} /\ Child(lv, px, f, i, g)
      BY <2>2 DEF SetOK
    <3> QED BY <3>1, <3>2, FrameFacts DEF ValidWord, Null
  <2>3. CASE /\ NewOK(lv, px, walk[c].vpn) /\ f = up.parent
             /\ i = Index(walk[c].vpn, up.level + 1) /\ LinkPending(f, i, up.frame)
    <3>1. Empty(heap[f][i]) BY <2>3 DEF NewOK
    <3> QED BY <3>1 DEF Empty, Null
  <2>4. CASE NewOK(lv, px, walk[c].vpn) /\ f = up.frame
    <3> DEFINE e == heap[f][i]
    <3>1. e.is_pte \subseteq {0, 1} BY <2>4 DEF NewOK
    <3>2. e.word \subseteq {Null, -1} BY <2>4 DEF NewOK
    <3> QED BY <3>1, <3>2 DEF Null
  <2> QED BY <1>2, <2>1, <2>2, <2>3, <2>4, TouchedEntries
<1> QED BY <1>1, <1>2

\* Entry e of level l holds the mapping of page v.
Maps(e, l, v) == (l = 1 /\ Entry4KB(e, v)) \/ (l = 2 /\ Entry2MB(e, v))

\* A settled entry on the way to a page, seen from the page.
LEMMA SettledEntry ==
    ASSUME NEW lv, NEW px, Frames(lv, px), NEW f, NEW l, NEW v \in Vpns, At(lv, px, f, l, v),
           Settled(lv, px, f, Index(v, l))
    PROVE  \/ l = 1 /\ (Unset4KB(heap[f][Index(v, l)]) \/ Entry4KB(heap[f][Index(v, l)], v))
           \/ l > 1 /\ Empty(heap[f][Index(v, l)])
           \/ /\ l > 1
              /\ \E g : Link(heap[f][Index(v, l)], g) /\ At(lv, px, g, l - 1, v)
           \/ l = 2 /\ Promoted(v) /\ Entry2MB(heap[f][Index(v, l)], v)
<1> DEFINE i == Index(v, l)
           e == heap[f][i]
<1>1. f \in DOMAIN heap /\ lv[f] = l /\ px[f] = Prefix(v, l) /\ l \in 1..Levels
  BY DEF At, Frames
<1>2. CASE l = 1
  <2>1. CASE \E w \in Vpns : EntryFor(lv, px, f, i, w) /\ Entry4KB(e, w)
    <3>1. PICK w \in Vpns : EntryFor(lv, px, f, i, w) /\ Entry4KB(e, w) BY <2>1
    <3>2. Prefix(v, 1) = Prefix(w, 1) /\ Index(v, 1) = Index(w, 1)
      BY <1>1, <1>2, <3>1 DEF EntryFor
    <3>3. v = w BY <3>2, SamePage
    <3> QED BY <1>2, <3>1, <3>3
  <2>2. CASE Unset4KB(e) BY <1>2, <2>2
  <2> QED BY <1>1, <1>2, <2>1, <2>2 DEF Settled
<1>3. CASE l # 1
  <2>0. l > 1 BY <1>1, <1>3
  <2>1. CASE \E g \in DOMAIN heap : Link(e, g) /\ Child(lv, px, f, i, g)
    <3>1. PICK g \in DOMAIN heap : Link(e, g) /\ Child(lv, px, f, i, g) BY <2>1
    <3>2. At(lv, px, g, l - 1, v) BY <3>1, ChildAt
    <3> QED BY <2>0, <3>1, <3>2
  <2>2. CASE lv[f] = 2 /\ \E w \in Vpns : EntryFor(lv, px, f, i, w) /\ Promoted(w) /\ Entry2MB(e, w)
    <3>1. PICK w \in Vpns : EntryFor(lv, px, f, i, w) /\ Promoted(w) /\ Entry2MB(e, w) BY <2>2
    <3>2. l = 2 BY <1>1, <2>2
    <3>3. Prefix(v, 2) = Prefix(w, 2) /\ Index(v, 2) = Index(w, 2)
      BY <1>1, <3>1, <3>2 DEF EntryFor
    <3>4. w \in RegionOf(v) BY <3>3, SameRegion
    <3>5. Base(w) = Base(v) /\ Promoted(v) BY <3>1, <3>4, SameRegion
    <3> QED BY <3>1, <3>2, <3>5 DEF Entry2MB
  <2>3. CASE Empty(e) BY <2>0, <2>3
  <2> QED BY <1>1, <1>3, <2>1, <2>2, <2>3 DEF Settled
<1> QED BY <1>2, <1>3

\* What a word with a mapping reads as.
LEMMA ReadsMapping ==
    ASSUME NEW e, NEW l, NEW v \in Vpns, Maps(e, l, v)
    PROVE  /\ e.is_pte = {1} /\ ValidWord(e.word)
           /\ \A x \in e.word : ReadsValid(x) = {TRUE} /\ x # Null
<1>1. e.is_pte = {1} /\ ValidWord(e.word)
  BY DEF Maps, Entry4KB, Entry2MB, ValidWord, Null
<1>2. \A x \in e.word : ReadsValid(x) = {TRUE} /\ x # Null
  BY <1>1 DEF ValidWord, ReadsValid, Null
<1> QED BY <1>1, <1>2

\* The page a walk that ends at a mapping returns.
LEMMA MappedPage ==
    ASSUME NEW e, NEW l, NEW v \in Vpns, Maps(e, l, v), NEW p, p \in e.ppn,
           NEW w, w.vpn = v, w.level = l
    PROVE  PhysicalPage(p, w) = v
<1>1. v \in Nat /\ 2 - 1 = 1 /\ 1 - 1 = 0 BY Constants
<1>2. Base(v) \in Nat /\ Base(v) + (v % Fan^1) = v /\ v + (v % Fan^0) = v BY Regions
<1>3. CASE l = 1
  <2>1. p = v BY <1>3 DEF Maps, Entry4KB
  <2>2. p # NoPage BY <1>1, <2>1 DEF NoPage
  <2> QED BY <1>1, <1>2, <1>3, <2>1, <2>2 DEF PhysicalPage
<1>4. CASE l = 2
  <2>1. p = Base(v) BY <1>4 DEF Maps, Entry2MB
  <2>2. p # NoPage BY <1>2, <2>1 DEF NoPage
  <2> QED BY <1>1, <1>2, <1>4, <2>1, <2>2 DEF PhysicalPage
<1> QED BY <1>3, <1>4 DEF Maps

\* A page that was handled, where no link is ever replaced.
LEMMA Established ==
    ASSUME NEW lv, NEW px, Frames(lv, px), Updates(lv, px), Handled(lv, px), LinksStay,
           NEW v \in mapped
    PROVE  /\ v \in Vpns
           /\ LeafLevel \in 1..2 /\ (Promoted(v) => LeafLevel = 2)
           /\ \E f \in DOMAIN heap : At(lv, px, f, LeafLevel, v)
                                     /\ Maps(heap[f][Index(v, LeafLevel)], LeafLevel, v)
<1>1. v \in Vpns /\ UsedIn(v) # {} BY DEF Handled
<1>2. IsFiniteSet(UsedIn(v)) /\ Cardinality(UsedIn(v)) \in Nat /\ Cardinality(UsedIn(v)) <= Fan
  BY <1>1, RegionSize DEF UsedIn
<1>3. threshold \in Nat /\ Fan \in Nat BY Constants DEF Handled
<1>4. CASE threshold = 0
  <2>1. Cardinality(UsedIn(v)) # 0 BY <1>1, <1>2, FS_EmptySet
  <2>2. Promoted(v) BY <1>2, <1>4, <2>1 DEF Promoted
  <2>3. ~Busy(v)
    <3>1. SUFFICES ASSUME NEW c \in Cores, pc[c] = "update", v \in RegionOf(walk[c].vpn)
                   PROVE  FALSE
      BY DEF Busy
    <3>2. UpdateOK(lv, px, c) BY <3>1 DEF Updates
    <3> QED BY <1>4, <3>1, <3>2 DEF UpdateOK, Updating, Unmapped
  <2>4. Found2MB(lv, px, v) BY <2>2, <2>3 DEF Handled
  <2>5. LeafLevel = 2 BY <1>4 DEF LeafLevel
  <2> QED BY <1>1, <2>4, <2>5 DEF Found2MB, Maps
<1>5. CASE threshold # 0
  <2>1. threshold >= Fan BY <1>5 DEF LinksStay
  <2>2. ~Promoted(v) BY <1>2, <1>3, <2>1 DEF Promoted
  <2>3. Found4KB(lv, px, v) BY <2>2 DEF Handled
  <2>4. LeafLevel = 1 BY <1>5 DEF LeafLevel
  <2> QED BY <1>1, <2>2, <2>3, <2>4 DEF Found4KB, Maps
<1> QED BY <1>4, <1>5

\* The only link on its way to memory is that of the new frame.
LEMMA PendingLink ==
    ASSUME NEW lv, NEW px, NEW c \in Cores, UpdateOK(lv, px, c), NEW f, NEW i, NEW g,
           LinkPending(f, i, g), g # Null
    PROVE  /\ ~up.done /\ NewOK(lv, px, walk[c].vpn)
           /\ f = up.parent /\ i = Index(walk[c].vpn, up.level + 1) /\ g = up.frame
<1> DEFINE s == StoreTo(1, f, i, "next_level", g)
           v == walk[c].vpn
<1>1. s \in pending BY DEF LinkPending
<1>2. s.nth = 1 /\ s.frame = f /\ s.index = i /\ s.field = "next_level" /\ s.value = g
  BY DEF StoreTo
<1>3. ~up.done
  <2>1. SUFFICES ASSUME up.done PROVE FALSE OBVIOUS
  <2>2. s \in EntryStores(up.frame, Index(v, up.level), TargetPage(v))
    BY <1>1, <2>1 DEF UpdateOK, Updating, Storing, SetOK
  <2>3. s.field \in {"valid", "ppn", "is_pte"} BY <2>2 DEF EntryStores, StoreTo
  <2> QED BY <1>2, <2>3
<1>4. NewOK(lv, px, v) BY <1>1, <1>3 DEF UpdateOK, Updating, Storing
<1>5. s \in NewStores(v) BY <1>1, <1>4 DEF NewOK
<1>6. s \notin InitStores(up.frame, up.level)
  <2>1. SUFFICES ASSUME s \in InitStores(up.frame, up.level) PROVE FALSE OBVIOUS
  <2>2. PICK j \in Indices :
          s \in {StoreTo(2 * j + 2, up.frame, j, "is_pte", IF up.level = 1 THEN 1 ELSE 0),
                StoreTo(2 * j + 3, up.frame, j, "next_level", Null)}
    BY <2>1 DEF InitStores
  <2>3. s.field = "is_pte" \/ s.value = Null BY <2>2 DEF StoreTo
  <2> QED BY <1>2, <2>3
<1>7. s = StoreTo(1, up.parent, Index(v, up.level + 1), "next_level", up.frame)
  BY <1>5, <1>6 DEF NewStores
<1>8. s.frame = up.parent /\ s.index = Index(v, up.level + 1) /\ s.value = up.frame
  BY <1>7 DEF StoreTo
<1> QED BY <1>2, <1>3, <1>4, <1>8

\* The words of a new frame hold no pointer and no valid flag.
LEMMA NewWords ==
    ASSUME NEW lv, NEW px, NEW v, NewOK(lv, px, v), NEW i \in Indices
    PROVE  /\ heap[up.frame][i].word = {Null, -1} \/ heap[up.frame][i].word = {Null}
           /\ ~ValidWord(heap[up.frame][i].word)
           /\ \A g : heap[up.frame][i].word = {g} => g = Null
<1>1. heap[up.frame][i].word = {Null, -1} \/ heap[up.frame][i].word = {Null}
  BY DEF NewOK
<1> QED BY <1>1 DEF ValidWord, Null

\* On the way to a page that was handled, every entry leads on or holds the
\* mapping, where no link is ever replaced.
LEMMA SureEntry ==
    ASSUME NEW lv, NEW px, Frames(lv, px), Updates(lv, px), Handled(lv, px), LinksStay,
           NEW v \in mapped, NEW f, NEW l, At(lv, px, f, l, v), l >= LeafLevel
    PROVE  /\ l = LeafLevel => Maps(heap[f][Index(v, l)], l, v)
           /\ l > LeafLevel =>
                 \E g : Link(heap[f][Index(v, l)], g) /\ At(lv, px, g, l - 1, v)
<1>1. /\ v \in Vpns
      /\ LeafLevel \in 1..2 /\ (Promoted(v) => LeafLevel = 2)
      /\ \E h \in DOMAIN heap : At(lv, px, h, LeafLevel, v)
                                /\ Maps(heap[h][Index(v, LeafLevel)], LeafLevel, v)
  BY Established
<1> DEFINE L == LeafLevel
<1>2. PICK h \in DOMAIN heap : At(lv, px, h, L, v) /\ Maps(heap[h][Index(v, L)], L, v)
  BY <1>1
<1>3. L \in 1..2 /\ (Promoted(v) => L = 2) /\ l >= L BY <1>1
<1> HIDE DEF L
<1>4. l \in 1..Levels /\ Levels \in Nat BY Constants DEF At, Frames
<1>5. \A m \in L..Levels : Has(lv, px, m, v) BY <1>1, <1>2 DEF Frames, At
<1>6. CASE l = L
  <2>1. f = h BY <1>2, <1>6, OneFrame
  <2>2. Maps(heap[f][Index(v, l)], l, v) BY <1>2, <1>6, <2>1
  <2>3. ~(l > L) BY <1>3, <1>6
  <2> QED BY <2>2, <2>3 DEF L
<1>7. CASE l > L
  <2>1. l - 1 \in L..Levels BY <1>3, <1>4, <1>7
  <2>2. PICK g : At(lv, px, g, l - 1, v) BY <1>5, <2>1 DEF Has
  <2>3. ~(l = 2 /\ Promoted(v)) BY <1>3, <1>7
  <2>4. ~LinkPending(f, Index(v, l), g)
    <3>1. SUFFICES ASSUME LinkPending(f, Index(v, l), g) PROVE FALSE OBVIOUS
    <3>2. PICK c \in Cores : pc[c] = "update" /\ UpdateOK(lv, px, c)
      BY <3>1, PendingUpdate DEF LinkPending
    <3>3. g # Null /\ g \in DOMAIN heap BY <2>2, FrameFacts DEF At
    <3>4. ~up.done /\ NewOK(lv, px, walk[c].vpn) /\ f = up.parent /\ g = up.frame
      BY <3>1, <3>2, <3>3, PendingLink
    <3>5. lv[g] = l - 1 /\ lv[g] = up.level
      BY <2>2, <3>2, <3>3, <3>4 DEF At, UpdateOK, Updating, InFrame
    <3>6. l - 1 \in 1..Levels BY <2>1, <1>3
    <3>7. Index(v, l - 1) \in Indices BY <1>1, <3>6, Digits
    <3>8. CASE l - 1 = L
      <4>1. g = h BY <1>2, <2>2, <3>8, OneFrame
      <4>2. ValidWord(heap[g][Index(v, l - 1)].word)
        BY <1>1, <1>2, <3>8, <4>1, ReadsMapping
      <4> QED BY <3>4, <3>7, <4>2, NewWords
    <3>9. CASE l - 1 > L
      <4> DEFINE m == l - 1
      <4>0. m \in 1..Levels /\ m > L /\ m - 1 \in L..Levels BY <1>3, <1>4, <3>6, <3>9
      <4>1. PICK k : At(lv, px, k, m - 1, v) BY <1>5, <4>0 DEF Has
      <4>2. At(lv, px, g, m, v) /\ Index(v, m) \in Indices BY <2>2, <3>7
      <4>7. lv[g] = m /\ up.level = m BY <3>5
      <4> HIDE DEF m
      <4>3. k # Null BY <4>1, FrameFacts DEF At
      <4>4. ~Link(heap[g][Index(v, m)], k) BY <3>4, <4>2, <4>3, NewWords DEF Link
      <4>5. ~LinkPending(g, Index(v, m), k)
        <5>1. SUFFICES ASSUME LinkPending(g, Index(v, m), k) PROVE FALSE OBVIOUS
        <5>2. g = up.parent BY <3>2, <4>3, <5>1, PendingLink
        <5>3. lv[g] = up.level + 1 BY <3>4, <5>2 DEF NewOK, At
        <5> QED BY <4>0, <4>7, <5>3
      <4>6. ~(m = 2 /\ Promoted(v)) BY <1>3, <4>0
      <4> QED BY <1>1, <4>1, <4>2, <4>4, <4>5, <4>6, ParentLink
    <3> QED BY <1>3, <1>4, <1>7, <3>8, <3>9
  <2>5. Link(heap[f][Index(v, l)], g) BY <1>1, <2>2, <2>3, <2>4, ParentLink
  <2>6. l # L BY <1>3, <1>4, <1>7
  <2> QED BY <2>2, <2>5, <2>6 DEF L
<1> QED BY <1>3, <1>4, <1>6, <1>7 DEF L

-----------------------------------------------------------------------------
(* Steps that leave parts of the state alone.                              *)

\* Which frame is where does not change while there are the same frames.
LEMMA SameFrames ==
    ASSUME NEW lv, NEW px, DOMAIN heap' = DOMAIN heap
    PROVE  /\ \A f, l, v : At(lv, px, f, l, v)' <=> At(lv, px, f, l, v)
           /\ \A l, v : Has(lv, px, l, v)' <=> Has(lv, px, l, v)
           /\ \A f, i, g : Child(lv, px, f, i, g)' <=> Child(lv, px, f, i, g)
<1>1. \A f, l, v : At(lv, px, f, l, v)' <=> At(lv, px, f, l, v) BY DEF At
<1>2. \A l, v : Has(lv, px, l, v)' <=> Has(lv, px, l, v) BY <1>1 DEF Has
<1>3. \A f, i, g : Child(lv, px, f, i, g)' <=> Child(lv, px, f, i, g) BY DEF Child
<1> QED BY <1>1, <1>2, <1>3

\* Promotion as the allocator sees it.
LEMMA SamePromotion ==
    ASSUME in_use' = in_use, threshold' = threshold
    PROVE  \A v : Promoted(v)' <=> Promoted(v)
BY DEF Promoted, UsedIn

\* The frames and their entries, when nothing reaches memory.
LEMMA KeepTable ==
    ASSUME NEW lv, NEW px, Frames(lv, px), Entries(lv, px), heap' = heap,
           pending \subseteq pending', \A v \in Vpns : Promoted(v) => Promoted(v)'
    PROVE  Frames(lv, px)' /\ Entries(lv, px)'
<1>1. /\ \A f, l, v : At(lv, px, f, l, v)' <=> At(lv, px, f, l, v)
      /\ \A l, v : Has(lv, px, l, v)' <=> Has(lv, px, l, v)
      /\ \A f, i, g : Child(lv, px, f, i, g)' <=> Child(lv, px, f, i, g)
  BY SameFrames
<1>2. \A g : Linked(lv, px, g) => Linked(lv, px, g)'
  BY <1>1 DEF Linked, LinkPending, Link
<1>3. Frames(lv, px)'
  <2>1. \A f \in DOMAIN heap, v \in Vpns : px[f] = Prefix(v, lv[f]) =>
          \A l \in lv[f]..Levels : Has(lv, px, l, v)'
    BY <1>1 DEF Frames
  <2>2. \A g \in DOMAIN heap \ {Root} : Linked(lv, px, g)' BY <1>2 DEF Frames
  <2> QED BY <2>1, <2>2 DEF Frames
<1>4. \A f, i : Settled(lv, px, f, i) => Settled(lv, px, f, i)'
  BY <1>1 DEF Settled
<1>5. \A f, i : Touched(f, i) => Touched(f, i)' BY DEF Touched
<1>6. Entries(lv, px)' BY <1>4, <1>5 DEF Entries
<1> QED BY <1>3, <1>6

\* An update that a step leaves alone.
LEMMA KeepUpdate ==
    ASSUME NEW lv, NEW px, NEW c \in Cores, UpdateOK(lv, px, c),
           UNCHANGED <<tableVars, osVars>>, walk'[c] = walk[c], requested'[c] = requested[c]
    PROVE  UpdateOK(lv, px, c)'
<1>0. heap' = heap /\ up' = up /\ pending' = pending /\ threshold' = threshold
      /\ in_use' = in_use /\ mapped' = mapped
  BY DEF tableVars, osVars
<1>1. /\ \A f, l, v : At(lv, px, f, l, v)' <=> At(lv, px, f, l, v)
      /\ \A f, i, g : Child(lv, px, f, i, g)' <=> Child(lv, px, f, i, g)
  BY <1>0, SameFrames
<1>2. \A v : Promoted(v)' <=> Promoted(v) BY <1>0, SamePromotion
<1>3. \A v : SetOK(lv, px, v)' <=> SetOK(lv, px, v) 
  BY <1>0, <1>1 DEF SetOK, TargetLevel, TargetPage
<1>4. \A v : NewOK(lv, px, v)' <=> NewOK(lv, px, v)
  BY <1>0, <1>1 DEF NewOK, NewStores, LinkPending
<1>5. \A f, i : Touched(f, i)' <=> Touched(f, i) BY <1>0 DEF Touched
<1>6. \A v, r : Updating(lv, px, v, r) => Updating(lv, px, v, r)'
  <2>1. SUFFICES ASSUME NEW v, NEW r, Updating(lv, px, v, r) PROVE Updating(lv, px, v, r)'
    OBVIOUS
  <2>2. Sized(v)' BY <1>0, <1>2, <2>1 DEF Updating, Sized, TargetLevel
  <2>3. InFrame(lv, px, v, r)' BY <1>0, <1>1, <2>1 DEF Updating, InFrame
  <2>4. Missing(lv, px, v, r)' BY <1>0, <1>1, <2>1 DEF Updating, Missing
  <2>5. Storing(lv, px, v)' BY <1>0, <1>3, <1>4, <2>1 DEF Updating, Storing
  <2>6. Unpromoted(lv, px, v)' BY <1>0, <1>1, <1>5, <2>1 DEF Updating, Unpromoted
  <2>7. Unmapped(v)' BY <1>0, <2>1 DEF Updating, Unmapped
  <2> QED BY <2>2, <2>3, <2>4, <2>5, <2>6, <2>7 DEF Updating
<1> QED BY <1>6 DEF UpdateOK

\* What was handled, when nothing reaches memory and nothing is handed out.
LEMMA KeepHandled ==
    ASSUME NEW lv, NEW px, Handled(lv, px), heap' = heap, threshold' = threshold,
           in_use' = in_use, mapped' = mapped, \A v : Busy(v) => Busy(v)'
    PROVE  Handled(lv, px)'
<1>1. \A f, l, v : At(lv, px, f, l, v)' <=> At(lv, px, f, l, v) BY SameFrames
<1>2. \A v : Promoted(v)' <=> Promoted(v) BY SamePromotion
<1>3. \A v : Found4KB(lv, px, v)' <=> Found4KB(lv, px, v) BY <1>1 DEF Found4KB
<1>4. \A v : Found2MB(lv, px, v)' <=> Found2MB(lv, px, v) BY <1>1 DEF Found2MB
<1> QED BY <1>2, <1>3, <1>4 DEF Handled, UsedIn

-----------------------------------------------------------------------------
(* The loads of a walk.                                                    *)

\* Only core c moves, it neither starts nor ends an update, and it writes nothing.
Walker(c) ==
    /\ UNCHANGED <<tableVars, osVars>>
    /\ pc[c] # "update" /\ pc'[c] # "update"
    /\ \A d \in Cores \ {c} : pc'[d] = pc[d] /\ walk'[d] = walk[d] /\ requested'[d] = requested[d]

\* A step of a walker alone, which moves no page table and no lock, keeps
\* everything but the walks.
LEMMA WalkerKeeps ==
    ASSUME NEW lv, NEW px, Good(lv, px), NEW c \in Cores, Walker(c), TypeOK',
           WalkOK(lv, px, c)', QuietFor(c)', LinksStay => SureFor(c)'
    PROVE  Good(lv, px)'
<1>0. /\ heap' = heap /\ up' = up /\ pending' = pending
      /\ threshold' = threshold /\ in_use' = in_use /\ mapped' = mapped
  BY DEF Walker, tableVars, osVars
<1>1. /\ TypeOK /\ Frames(lv, px) /\ Entries(lv, px) /\ Updates(lv, px) /\ Walks(lv, px)
      /\ Handled(lv, px) /\ QuietOK /\ SureOK
  BY DEF Good
<1>2. Frames(lv, px)' /\ Entries(lv, px)'
  <2>1. \A v \in Vpns : Promoted(v) => Promoted(v)' BY <1>0, SamePromotion
  <2>2. pending \subseteq pending' BY <1>0
  <2> QED BY <1>0, <1>1, <2>1, <2>2, KeepTable
<1>3. Locked' <=> Locked BY DEF Locked, Walker
<1>4. Updates(lv, px)'
  <2>1. ASSUME NEW d \in Cores, pc'[d] = "update"
        PROVE  pc[d] = "update" /\ UpdateOK(lv, px, d)'
    <3>1. d # c BY <2>1 DEF Walker
    <3>2. pc[d] = "update" /\ walk'[d] = walk[d] /\ requested'[d] = requested[d]
      BY <2>1, <3>1 DEF Walker
    <3>3. UpdateOK(lv, px, d) BY <1>1, <3>2 DEF Updates
    <3> QED BY <3>2, <3>3, KeepUpdate DEF Walker
  <2> QED BY <1>0, <1>1, <1>3, <2>1 DEF Updates
<1>5. \A f, l, v : At(lv, px, f, l, v)' <=> At(lv, px, f, l, v) BY <1>0, SameFrames
<1>6. Walks(lv, px)'
  <2>1. ASSUME NEW d \in Cores, d # c PROVE WalkOK(lv, px, d)'
    <3>1. WalkOK(lv, px, d) BY <1>1 DEF Walks
    <3>2. pc'[d] = pc[d] /\ walk'[d] = walk[d] /\ requested'[d] = requested[d]
      BY <2>1 DEF Walker
    <3> QED BY <1>5, <3>1, <3>2 DEF WalkOK
  <2> QED BY <2>1 DEF Walks
<1>7. Handled(lv, px)'
  <2>1. \A v : Busy(v) => Busy(v)' BY DEF Busy, Walker, RegionOf
  <2> QED BY <1>0, <1>1, <2>1, KeepHandled
<1>8. QuietOK'
  <2>1. ASSUME NEW d \in Cores, d # c PROVE QuietFor(d)'
    <3>1. QuietFor(d) BY <1>1 DEF QuietOK
    <3>2. pc'[d] = pc[d] /\ walk'[d] = walk[d] BY <2>1 DEF Walker
    <3>3. EntryOf(d)' = EntryOf(d) BY <1>0, <3>2 DEF EntryOf
    <3> QED BY <1>3, <3>1, <3>2, <3>3 DEF QuietFor
  <2> QED BY <2>1 DEF QuietOK
<1>9. SureOK'
  <2>1. LinksStay' <=> LinksStay BY <1>0 DEF LinksStay
  <2>2. ASSUME LinksStay, NEW d \in Cores, d # c PROVE SureFor(d)'
    <3>1. SureFor(d) BY <1>1, <2>2 DEF SureOK
    <3>2. pc'[d] = pc[d] /\ walk'[d] = walk[d] BY <2>2 DEF Walker
    <3> QED BY <1>0, <3>1, <3>2 DEF SureFor, LeafLevel
  <2> QED BY <2>1, <2>2 DEF SureOK
<1> QED BY <1>2, <1>4, <1>6, <1>7, <1>8, <1>9 DEF Good

\* The frame a walk is in.
LEMMA AtRoot ==
    ASSUME NEW lv, NEW px, Frames(lv, px), NEW v \in Vpns
    PROVE  At(lv, px, Root, Levels, v)
<1>1. Root \in DOMAIN heap
  <2>1. PICK n \in DOMAIN heap : n \in Nat /\ DOMAIN heap = Root..n BY DEF Frames
  <2>2. n \in 2..n BY <2>1 DEF Root
  <2>3. 2 \in 2..n BY <2>1, <2>2
  <2> QED BY <2>1, <2>3 DEF Root
<1> QED BY <1>1, TopPrefix DEF At, Frames

\* Starting a walk keeps the invariant: the walk stands at the root, and notes
\* whether its page is handled and whether the lock is free.
LEMMA StartWalkStep ==
    ASSUME NEW lv, NEW px, Good(lv, px), NEW c \in Cores, NEW vpn \in VpnsOf[c], StartWalk(c, vpn)
    PROVE  Good(lv, px)'
<1>1. /\ pc' = [pc EXCEPT ![c] = "is_pte"] /\ pc[c] = "idle"
      /\ walk' = [walk EXCEPT ![c] = FromRoot(vpn, vpn \in mapped, ~Locked)]
      /\ requested' = requested /\ UNCHANGED <<tableVars, osVars>>
  BY DEF StartWalk
<1>2. TypeOK /\ Frames(lv, px) BY DEF Good
<1>3. TypeOK' BY <1>1, <1>2 DEF TypeOK, tableVars, WalkRecord, FromRoot
<1>4. Walker(c) BY <1>1, <1>2 DEF Walker, TypeOK
<1>5. /\ pc'[c] = "is_pte" /\ walk'[c] = FromRoot(vpn, vpn \in mapped, ~Locked)
      /\ heap' = heap /\ mapped' = mapped /\ threshold' = threshold
  BY <1>1, <1>2 DEF TypeOK, tableVars, osVars
<1>6. /\ walk'[c].vpn = vpn /\ walk'[c].level = Levels /\ walk'[c].frame = Root
      /\ walk'[c].sure = (vpn \in mapped) /\ walk'[c].quiet = ~Locked
  BY <1>5 DEF FromRoot
<1>7. vpn \in Vpns /\ Levels \in Nat /\ Levels >= 2 BY Constants
<1>8. WalkOK(lv, px, c)'
  <2>1. At(lv, px, Root, Levels, vpn)' BY <1>2, <1>5, <1>7, AtRoot, SameFrames
  <2> QED BY <1>5, <1>6, <1>7, <2>1 DEF WalkOK
<1>9. QuietFor(c)'
  <2>1. Locked' <=> Locked BY <1>4 DEF Locked, Walker
  <2> QED BY <1>5, <1>6, <2>1 DEF QuietFor
<1>10. SureFor(c)'
  <2>1. walk'[c].sure => vpn \in mapped BY <1>6
  <2>2. LeafLevel' \in {1, 2} BY DEF LeafLevel
  <2>3. Levels >= LeafLevel' BY <1>7, <2>2
  <2> QED BY <1>5, <1>6, <2>1, <2>3 DEF SureFor
<1> QED BY <1>3, <1>4, <1>8, <1>9, <1>10, WalkerKeeps

\* A walk at the entry it reads.
LEMMA WalkerAt ==
    ASSUME NEW lv, NEW px, Good(lv, px), NEW c \in Cores, pc[c] \in Walking
    PROVE  /\ walk[c].vpn \in VpnsOf[c] /\ walk[c].vpn \in Vpns /\ walk[c].level \in 1..Levels
           /\ walk[c].frame \in DOMAIN heap
           /\ At(lv, px, walk[c].frame, walk[c].level, walk[c].vpn)
           /\ Index(walk[c].vpn, walk[c].level) \in Indices
<1>1. WalkOK(lv, px, c) BY DEF Good, Walks
<1>2. /\ walk[c].vpn \in VpnsOf[c] /\ walk[c].level \in 1..Levels
      /\ At(lv, px, walk[c].frame, walk[c].level, walk[c].vpn)
  BY <1>1 DEF WalkOK
<1>3. walk[c].vpn \in Vpns BY <1>2, Constants
<1> QED BY <1>2, <1>3, Digits DEF At

\* With the lock free, the entry a walk reads.
LEMMA QuietEntry ==
    ASSUME NEW lv, NEW px, Good(lv, px), NEW c \in Cores, pc[c] \in Walking, ~Locked,
           NEW v, v = walk[c].vpn, NEW l, l = walk[c].level
    PROVE  \/ l = 1 /\ Unset4KB(EntryOf(c))
           \/ Maps(EntryOf(c), l, v)
           \/ l > 1 /\ Empty(EntryOf(c))
           \/ l > 1 /\ \E g : Link(EntryOf(c), g) /\ At(lv, px, g, l - 1, v)
<1>1. /\ v \in Vpns /\ At(lv, px, walk[c].frame, l, v) /\ Index(v, l) \in Indices
      /\ walk[c].frame \in DOMAIN heap
  BY WalkerAt
<1>2. pending = {} /\ Frames(lv, px) /\ Entries(lv, px) BY DEF Good, Updates
<1>3. Settled(lv, px, walk[c].frame, Index(v, l)) BY <1>1, <1>2 DEF Entries, Touched
<1> QED BY <1>1, <1>2, <1>3, SettledEntry DEF EntryOf, Maps

\* The entry that the walk of an established page reads.
LEMMA SureWalker ==
    ASSUME NEW lv, NEW px, Good(lv, px), NEW c \in Cores, pc[c] \in {"is_pte", "word", "ppn"},
           LinksStay, walk[c].sure, NEW v, v = walk[c].vpn, NEW l, l = walk[c].level
    PROVE  /\ v \in mapped /\ l >= LeafLevel
           /\ l = LeafLevel => Maps(EntryOf(c), l, v)
           /\ l > LeafLevel => \E g : Link(EntryOf(c), g) /\ At(lv, px, g, l - 1, v)
<1>1. At(lv, px, walk[c].frame, l, v) BY WalkerAt DEF Walking
<1>2. SureFor(c) BY DEF Good, SureOK
<1>3. v \in mapped /\ l >= LeafLevel BY <1>2 DEF SureFor
<1>4. Frames(lv, px) /\ Updates(lv, px) /\ Handled(lv, px) BY DEF Good
<1> QED BY <1>1, <1>3, <1>4, SureEntry DEF EntryOf

\* The walk of core c has read the flag b and has not moved.
WalkerSame(c, b) ==
    /\ walk'[c].vpn = walk[c].vpn /\ walk'[c].level = walk[c].level
    /\ walk'[c].frame = walk[c].frame /\ walk'[c].is_pte = b
    /\ walk'[c].sure = walk[c].sure /\ walk'[c].quiet = walk[c].quiet
    /\ EntryOf(c)' = EntryOf(c)

\* Loading is_pte keeps the invariant: the value is one the entry may yield.
LEMMA LoadIsPteStep ==
    ASSUME NEW lv, NEW px, Good(lv, px), NEW c \in Cores, LoadIsPte(c)
    PROVE  Good(lv, px)'
<1>1. PICK b \in EntryOf(c).is_pte : walk' = [walk EXCEPT ![c].is_pte = b]
  BY DEF LoadIsPte
<1>2. /\ pc[c] = "is_pte" /\ pc' = [pc EXCEPT ![c] = "word"]
      /\ requested' = requested /\ UNCHANGED <<tableVars, osVars>>
  BY DEF LoadIsPte
<1>3. TypeOK BY DEF Good
<1>4. TypeOK' BY <1>1, <1>2, <1>3 DEF TypeOK, tableVars, WalkRecord
<1>5. Walker(c) BY <1>1, <1>2, <1>3 DEF Walker, TypeOK
<1>6. /\ pc'[c] = "word" /\ walk'[c] = [walk[c] EXCEPT !.is_pte = b] /\ heap' = heap
      /\ threshold' = threshold /\ mapped' = mapped
  BY <1>1, <1>2, <1>3 DEF TypeOK, tableVars, osVars
<1>7. WalkerSame(c, b) BY <1>3, <1>6 DEF WalkerSame, TypeOK, WalkRecord, EntryOf
<1>8. PICK v, l : v = walk[c].vpn /\ l = walk[c].level OBVIOUS
<1>9. WalkOK(lv, px, c)'
  <2>1. WalkOK(lv, px, c) BY DEF Good, Walks
  <2>2. \A f, m, u : At(lv, px, f, m, u)' <=> At(lv, px, f, m, u) BY <1>6, SameFrames
  <2> QED BY <1>2, <1>6, <1>7, <2>1, <2>2 DEF WalkOK, Walking, WalkerSame
<1>10. QuietFor(c)'
  <2>1. SUFFICES ASSUME walk[c].quiet PROVE ~Locked' /\ EntryOf(c).is_pte = {b}
    BY <1>6, <1>7 DEF QuietFor, WalkerSame
  <2>2. ~Locked BY <1>2, <2>1 DEF Good, QuietOK, QuietFor
  <2>4. ~Locked' BY <1>5, <2>2 DEF Locked, Walker
  <2>3. EntryOf(c).is_pte = {0} \/ EntryOf(c).is_pte = {1}
    BY <1>2, <2>2, QuietEntry DEF Maps, Unset4KB, Empty, Link, Entry4KB, Entry2MB, Walking
  <2> QED BY <1>1, <2>3, <2>4
<1>11. ASSUME LinksStay PROVE SureFor(c)'
  <2>1. SUFFICES ASSUME walk[c].sure
                 PROVE  v \in mapped /\ l >= LeafLevel /\ b = IF l = LeafLevel THEN 1 ELSE 0
    BY <1>6, <1>7, <1>8 DEF SureFor, WalkerSame, LeafLevel
  <2>2. /\ v \in mapped /\ l >= LeafLevel
        /\ l = LeafLevel => Maps(EntryOf(c), l, v)
        /\ l > LeafLevel => \E g : Link(EntryOf(c), g) /\ At(lv, px, g, l - 1, v)
    BY <1>2, <1>8, <1>11, <2>1, SureWalker
  <2>3. l \in Int /\ LeafLevel \in Int BY <1>2, <1>8, WalkerAt DEF Walking, LeafLevel
  <2>4. CASE l = LeafLevel BY <1>1, <2>2, <2>4 DEF Maps, Entry4KB, Entry2MB
  <2>5. CASE l > LeafLevel BY <1>1, <2>2, <2>3, <2>5 DEF Link
  <2> QED BY <2>2, <2>3, <2>4, <2>5
<1> QED BY <1>4, <1>5, <1>9, <1>10, <1>11, WalkerKeeps

\* Loading the valid bit of an entry read as a PTE keeps the invariant.
LEMMA LoadValidStep ==
    ASSUME NEW lv, NEW px, Good(lv, px), NEW c \in Cores, LoadValid(c)
    PROVE  Good(lv, px)'
<1>1. PICK x \in EntryOf(c).word : TRUE \in ReadsValid(x) BY DEF LoadValid
<1>2. /\ pc[c] = "word" /\ walk[c].is_pte = 1 /\ pc' = [pc EXCEPT ![c] = "ppn"]
      /\ walk' = walk /\ requested' = requested /\ UNCHANGED <<tableVars, osVars>>
  BY DEF LoadValid
<1>3. TypeOK BY DEF Good
<1>4. TypeOK' BY <1>2, <1>3 DEF TypeOK, tableVars
<1>5. Walker(c) BY <1>2, <1>3 DEF Walker, TypeOK
<1>6. /\ pc'[c] = "ppn" /\ walk'[c] = walk[c] /\ heap' = heap
      /\ threshold' = threshold /\ mapped' = mapped
  BY <1>2, <1>3 DEF TypeOK, tableVars, osVars
<1>7. EntryOf(c)' = EntryOf(c) BY <1>6 DEF EntryOf
<1>8. PICK v, l : v = walk[c].vpn /\ l = walk[c].level OBVIOUS
<1>9. WalkOK(lv, px, c)'
  <2>1. WalkOK(lv, px, c) BY DEF Good, Walks
  <2>2. \A f, m, u : At(lv, px, f, m, u)' <=> At(lv, px, f, m, u) BY <1>6, SameFrames
  <2> QED BY <1>2, <1>6, <2>1, <2>2 DEF WalkOK, Walking
<1>10. QuietFor(c)'
  <2>1. SUFFICES ASSUME walk[c].quiet
                 PROVE  ~Locked' /\ EntryOf(c).is_pte = {1} /\ ValidWord(EntryOf(c).word)
    BY <1>6, <1>7 DEF QuietFor
  <2>2. ~Locked /\ EntryOf(c).is_pte = {1} BY <1>2, <2>1 DEF Good, QuietOK, QuietFor
  <2>3. x # Null BY <1>1 DEF ReadsValid
  <2>7. \/ (l = 1 /\ Unset4KB(EntryOf(c))) \/ Maps(EntryOf(c), l, v)
        \/ l > 1 /\ Empty(EntryOf(c))
        \/ l > 1 /\ \E g : Link(EntryOf(c), g) /\ At(lv, px, g, l - 1, v)
    BY <1>2, <1>8, <2>2, QuietEntry DEF Walking
  <2>4. Maps(EntryOf(c), l, v) BY <1>1, <2>2, <2>3, <2>7 DEF Unset4KB, Empty, Link
  <2>5. v \in Vpns BY <1>2, <1>8, WalkerAt DEF Walking
  <2>6. ~Locked' BY <1>5, <2>2 DEF Locked, Walker
  <2> QED BY <2>2, <2>4, <2>5, <2>6, ReadsMapping
<1>11. ASSUME LinksStay PROVE SureFor(c)'
  <2>1. SureFor(c) BY <1>11 DEF Good, SureOK
  <2> QED BY <1>2, <1>6, <2>1 DEF SureFor, LeafLevel
<1> QED BY <1>4, <1>5, <1>9, <1>10, <1>11, WalkerKeeps

\* Loading a word that reads invalid or a null link, the walk that faults,
\* keeps the invariant: it asks for the levels it has left.
LEMMA LoadFaultStep ==
    ASSUME NEW lv, NEW px, Good(lv, px), NEW c \in Cores, LoadFault(c)
    PROVE  Good(lv, px)'
<1>1. PICK x \in EntryOf(c).word :
        IF walk[c].is_pte = 1 THEN FALSE \in ReadsValid(x) ELSE x = Null
  BY DEF LoadFault
<1>2. /\ pc[c] = "word" /\ pc' = [pc EXCEPT ![c] = "fault"]
      /\ requested' = [requested EXCEPT ![c] = FramesBelow(walk[c].level)]
      /\ walk' = walk /\ UNCHANGED <<tableVars, osVars>>
  BY DEF LoadFault
<1>3. TypeOK BY DEF Good
<1>4. TypeOK' BY <1>2, <1>3 DEF TypeOK, tableVars
<1>5. Walker(c) BY <1>2, <1>3 DEF Walker, TypeOK
<1>6. /\ pc'[c] = "fault" /\ walk'[c] = walk[c] /\ heap' = heap
      /\ requested'[c] = walk[c].level - 1
  BY <1>2, <1>3 DEF TypeOK, tableVars, FramesBelow
<1>8. PICK v, l : v = walk[c].vpn /\ l = walk[c].level OBVIOUS
<1>9. WalkOK(lv, px, c)'
  <2>1. WalkOK(lv, px, c) BY DEF Good, Walks
  <2>2. \A f, m, u : At(lv, px, f, m, u)' <=> At(lv, px, f, m, u) BY <1>6, SameFrames
  <2> QED BY <1>2, <1>6, <2>1, <2>2 DEF WalkOK, Walking
<1>10. QuietFor(c)' BY <1>6 DEF QuietFor
<1>11. ASSUME LinksStay PROVE SureFor(c)'
  <2>1. SUFFICES ASSUME walk[c].sure PROVE FALSE BY <1>6 DEF SureFor
  <2>2. /\ l >= LeafLevel
        /\ l = LeafLevel => Maps(EntryOf(c), l, v)
        /\ l > LeafLevel => \E g : Link(EntryOf(c), g) /\ At(lv, px, g, l - 1, v)
    BY <1>2, <1>8, <1>11, <2>1, SureWalker
  <2>3. walk[c].is_pte = IF l = LeafLevel THEN 1 ELSE 0
    BY <1>2, <1>8, <1>11, <2>1 DEF Good, SureOK, SureFor
  <2>4. l \in Int /\ LeafLevel \in Int /\ v \in Vpns
    BY <1>2, <1>8, WalkerAt DEF Walking, LeafLevel
  <2>5. CASE l = LeafLevel
    <3>1. ReadsValid(x) = {TRUE} BY <1>1, <2>2, <2>4, <2>5, ReadsMapping
    <3> QED BY <1>1, <2>3, <2>5, <3>1
  <2>6. CASE l > LeafLevel
    <3>1. PICK g : Link(EntryOf(c), g) /\ At(lv, px, g, l - 1, v) BY <2>2, <2>6
    <3>2. g # Null BY <3>1, FrameFacts DEF Good, At
    <3>3. x = g BY <1>1, <3>1 DEF Link
    <3>4. l # LeafLevel BY <2>4, <2>6
    <3> QED BY <1>1, <2>3, <3>2, <3>3, <3>4
  <2> QED BY <2>2, <2>4, <2>5, <2>6
<1> QED BY <1>4, <1>5, <1>9, <1>10, <1>11, WalkerKeeps

\* The fields of a walk that has gone down a level, or ended.
LEMMA WalkFields ==
    ASSUME NEW w, WalkRecord(w), NEW x, NEW y, NEW p
    PROVE  /\ [w EXCEPT !.frame = x, !.level = y].vpn = w.vpn
           /\ [w EXCEPT !.frame = x, !.level = y].level = y
           /\ [w EXCEPT !.frame = x, !.level = y].frame = x
           /\ [w EXCEPT !.frame = x, !.level = y].sure = w.sure
           /\ [w EXCEPT !.frame = x, !.level = y].quiet = w.quiet
           /\ Ended(w, p).vpn = w.vpn /\ Ended(w, p).page = p
           /\ Ended(w, p).sure = w.sure /\ Ended(w, p).quiet = w.quiet
BY DEF WalkRecord, Ended

\* Following a link keeps the invariant: the walk stands on the frame of its
\* page one level further down.
LEMMA LoadLinkStep ==
    ASSUME NEW lv, NEW px, Good(lv, px), NEW c \in Cores, LoadLink(c)
    PROVE  Good(lv, px)'
<1>0. /\ pc[c] = "word" /\ walk[c].is_pte = 0
      /\ requested' = requested /\ UNCHANGED <<tableVars, osVars>>
      /\ heap' = heap /\ threshold' = threshold /\ mapped' = mapped /\ up' = up
  BY DEF LoadLink, tableVars, osVars
<1>1. TypeOK /\ Frames(lv, px) /\ Entries(lv, px) /\ Updates(lv, px) BY DEF Good
<1>2. PICK v, l : v = walk[c].vpn /\ l = walk[c].level OBVIOUS
<1>3. /\ v \in VpnsOf[c] /\ v \in Vpns /\ l \in 1..Levels /\ walk[c].frame \in DOMAIN heap
      /\ At(lv, px, walk[c].frame, l, v) /\ Index(v, l) \in Indices
  BY <1>0, <1>2, WalkerAt DEF Walking
<1>4. EntryOf(c) = heap[walk[c].frame][Index(v, l)] BY <1>2 DEF EntryOf
<1>5. PICK x \in EntryOf(c).word \ {Null} :
        \/ /\ l > 1 /\ x \in Pointers
           /\ walk' = [walk EXCEPT ![c].frame = x, ![c].level = @ - 1]
           /\ pc' = [pc EXCEPT ![c] = "is_pte"]
        \/ /\ l = 1 \/ x \notin Pointers
           /\ walk' = [walk EXCEPT ![c] = Ended(@, NoPage)]
           /\ pc' = [pc EXCEPT ![c] = IF l = 1 THEN "idle" ELSE "dead"]
  BY <1>2 DEF LoadLink
<1>6. LeafLevel' = LeafLevel /\ LeafLevel \in {1, 2} BY <1>0 DEF LeafLevel
\* A quiet or an established walk follows a link to a frame.
<1>7. ASSUME walk[c].quiet \/ (walk[c].sure /\ LinksStay) PROVE l > 1 /\ x \in Pointers
  <2>1. CASE walk[c].quiet
    <3>1. ~Locked /\ EntryOf(c).is_pte = {0} BY <1>0, <2>1 DEF Good, QuietOK, QuietFor
    <3>2. \/ (l = 1 /\ Unset4KB(EntryOf(c))) \/ Maps(EntryOf(c), l, v)
          \/ l > 1 /\ Empty(EntryOf(c))
          \/ l > 1 /\ \E g : Link(EntryOf(c), g) /\ At(lv, px, g, l - 1, v)
      BY <1>0, <1>2, <3>1, QuietEntry DEF Walking
    <3>3. PICK g : l > 1 /\ Link(EntryOf(c), g) /\ At(lv, px, g, l - 1, v)
      BY <1>5, <3>1, <3>2 DEF Unset4KB, Maps, Entry4KB, Entry2MB, Empty
    <3>4. x = g /\ g \in DOMAIN heap BY <1>5, <3>3 DEF Link, At
    <3> QED BY <1>1, <3>3, <3>4, FrameFacts
  <2>2. CASE walk[c].sure /\ LinksStay
    <3>1. /\ l >= LeafLevel
          /\ l > LeafLevel => \E g : Link(EntryOf(c), g) /\ At(lv, px, g, l - 1, v)
      BY <1>0, <1>2, <2>2, SureWalker
    <3>2. walk[c].is_pte = IF l = LeafLevel THEN 1 ELSE 0
      BY <1>0, <1>2, <2>2 DEF Good, SureOK, SureFor
    <3>3. l > LeafLevel /\ l > 1 BY <1>0, <1>3, <1>6, <3>1, <3>2
    <3>4. PICK g : Link(EntryOf(c), g) /\ At(lv, px, g, l - 1, v) BY <3>1, <3>3
    <3>5. x = g /\ g \in DOMAIN heap BY <1>5, <3>4 DEF Link, At
    <3> QED BY <1>1, <3>3, <3>5, FrameFacts
  <2> QED BY <1>7, <2>1, <2>2
<1>8. CASE /\ l > 1 /\ x \in Pointers
           /\ walk' = [walk EXCEPT ![c].frame = x, ![c].level = @ - 1]
           /\ pc' = [pc EXCEPT ![c] = "is_pte"]
  <2>1. TypeOK' BY <1>0, <1>1, <1>8 DEF TypeOK, WalkRecord
  <2>2. Walker(c) BY <1>0, <1>1, <1>8 DEF Walker, TypeOK
  <2>3. /\ pc'[c] = "is_pte" /\ walk'[c].vpn = v /\ walk'[c].level = l - 1
        /\ walk'[c].frame = x /\ walk'[c].sure = walk[c].sure /\ walk'[c].quiet = walk[c].quiet
    <3>1. pc'[c] = "is_pte" /\ WalkRecord(walk[c]) BY <1>1, <1>8 DEF TypeOK
    <3>2. walk'[c] = [walk[c] EXCEPT !.frame = x, !.level = walk[c].level - 1]
      BY <1>1, <1>8 DEF TypeOK
    <3> QED BY <1>2, <3>1, <3>2, WalkFields
  <2>4. At(lv, px, x, l - 1, v)
    <3>1. x > 1 BY <1>8 DEF Pointers, Root
    <3>2. x \in heap[walk[c].frame][Index(v, l)].word BY <1>4, <1>5
    <3>3. Child(lv, px, walk[c].frame, Index(v, l), x) BY <1>1, <1>3, <3>1, <3>2, WordSafe
    <3> QED BY <1>1, <1>3, <3>3, ChildAt
  <2>5. WalkOK(lv, px, c)'
    <3>1. At(lv, px, x, l - 1, v)' BY <1>0, <2>4, SameFrames
    <3>2. l - 1 \in 1..Levels BY <1>3, <1>8, Constants
    <3> QED BY <1>3, <2>3, <3>1, <3>2 DEF WalkOK
  <2>6. QuietFor(c)'
    <3>1. SUFFICES ASSUME walk[c].quiet PROVE ~Locked' BY <2>3 DEF QuietFor
    <3>2. ~Locked BY <1>0, <3>1 DEF Good, QuietOK, QuietFor
    <3> QED BY <2>2, <3>2 DEF Locked, Walker
  <2>7. ASSUME LinksStay PROVE SureFor(c)'
    <3>1. SUFFICES ASSUME walk[c].sure PROVE v \in mapped /\ l - 1 >= LeafLevel
      BY <1>0, <1>6, <2>3 DEF SureFor
    <3>2. v \in mapped /\ l >= LeafLevel BY <1>0, <1>2, <2>7, <3>1, SureWalker
    <3>3. walk[c].is_pte = IF l = LeafLevel THEN 1 ELSE 0
      BY <1>0, <1>2, <2>7, <3>1 DEF Good, SureOK, SureFor
    <3> QED BY <1>0, <1>3, <1>6, <3>2, <3>3
  <2> QED BY <2>1, <2>2, <2>5, <2>6, <2>7, WalkerKeeps
<1>9. CASE /\ l = 1 \/ x \notin Pointers
           /\ walk' = [walk EXCEPT ![c] = Ended(@, NoPage)]
           /\ pc' = [pc EXCEPT ![c] = IF l = 1 THEN "idle" ELSE "dead"]
  <2>1. TypeOK' BY <1>0, <1>1, <1>9 DEF TypeOK, WalkRecord, Ended
  <2>2. Walker(c) BY <1>0, <1>1, <1>9 DEF Walker, TypeOK
  <2>3. /\ pc'[c] \in {"idle", "dead"}
        /\ walk'[c].sure = walk[c].sure /\ walk'[c].quiet = walk[c].quiet
    <3>1. pc'[c] \in {"idle", "dead"} /\ WalkRecord(walk[c]) BY <1>1, <1>9 DEF TypeOK
    <3>2. walk'[c] = Ended(walk[c], NoPage) BY <1>1, <1>9 DEF TypeOK
    <3> QED BY <3>1, <3>2, WalkFields
  <2>4. ~walk[c].quiet /\ (LinksStay => ~walk[c].sure) BY <1>3, <1>7, <1>9
  <2>5. WalkOK(lv, px, c)' BY <2>3 DEF WalkOK, Walking
  <2> QED BY <2>1, <2>2, <2>3, <2>4, <2>5, WalkerKeeps DEF QuietFor, SureFor
<1> QED BY <1>5, <1>8, <1>9

\* Loading the frame number, the end of a walk that found its page, keeps the
\* invariant.
LEMMA LoadPpnStep ==
    ASSUME NEW lv, NEW px, Good(lv, px), NEW c \in Cores, LoadPpn(c)
    PROVE  Good(lv, px)'
<1>0. /\ pc[c] = "ppn" /\ requested' = requested /\ UNCHANGED <<tableVars, osVars>>
      /\ heap' = heap /\ threshold' = threshold /\ mapped' = mapped /\ up' = up
      /\ pc' = [pc EXCEPT ![c] = "idle"]
  BY DEF LoadPpn, tableVars, osVars
<1>1. TypeOK BY DEF Good
<1>2. PICK v, l : v = walk[c].vpn /\ l = walk[c].level OBVIOUS
<1>3. v \in Vpns BY <1>0, <1>2, WalkerAt DEF Walking
<1>5. PICK p \in EntryOf(c).ppn : walk' = [walk EXCEPT ![c] = Ended(@, PhysicalPage(p, @))]
  BY DEF LoadPpn
<1>7. ASSUME walk[c].quiet \/ (walk[c].sure /\ LinksStay) PROVE PhysicalPage(p, walk[c]) = v
  <2>1. CASE walk[c].quiet
    <3>1. ~Locked /\ EntryOf(c).is_pte = {1} /\ ValidWord(EntryOf(c).word)
      BY <1>0, <2>1 DEF Good, QuietOK, QuietFor
    <3>2. \/ (l = 1 /\ Unset4KB(EntryOf(c))) \/ Maps(EntryOf(c), l, v)
          \/ l > 1 /\ Empty(EntryOf(c))
          \/ l > 1 /\ \E g : Link(EntryOf(c), g) /\ At(lv, px, g, l - 1, v)
      BY <1>0, <1>2, <3>1, QuietEntry DEF Walking
    <3>3. Maps(EntryOf(c), l, v) BY <3>1, <3>2 DEF Unset4KB, Empty, Link, ValidWord
    <3> QED BY <1>2, <1>3, <1>5, <3>3, MappedPage
  <2>2. CASE walk[c].sure /\ LinksStay
    <3>1. l = LeafLevel => Maps(EntryOf(c), l, v) BY <1>0, <1>2, <2>2, SureWalker
    <3>2. l = LeafLevel BY <1>0, <1>2, <2>2 DEF Good, SureOK, SureFor
    <3>3. Maps(EntryOf(c), l, v) BY <3>1, <3>2
    <3> QED BY <1>2, <1>3, <1>5, <3>3, MappedPage
  <2> QED BY <1>7, <2>1, <2>2
<1>8. TypeOK' BY <1>0, <1>1, <1>5 DEF TypeOK, WalkRecord, Ended
<1>9. Walker(c) BY <1>0, <1>1, <1>5 DEF Walker, TypeOK
<1>10. /\ pc'[c] = "idle" /\ walk'[c].vpn = v /\ walk'[c].page = PhysicalPage(p, walk[c])
       /\ walk'[c].sure = walk[c].sure /\ walk'[c].quiet = walk[c].quiet
  <2>1. pc'[c] = "idle" /\ WalkRecord(walk[c]) BY <1>0, <1>1 DEF TypeOK
  <2>2. walk'[c] = Ended(walk[c], PhysicalPage(p, walk[c])) BY <1>1, <1>5 DEF TypeOK
  <2> QED BY <1>2, <2>1, <2>2, WalkFields
<1>11. WalkOK(lv, px, c)' BY <1>10 DEF WalkOK, Walking
<1>12. QuietFor(c)' BY <1>7, <1>10 DEF QuietFor
<1>13. ASSUME LinksStay PROVE SureFor(c)'
  <2>1. walk[c].sure => v \in mapped BY <1>2, <1>13 DEF Good, SureOK, SureFor
  <2> QED BY <1>0, <1>7, <1>10, <1>13, <2>1 DEF SureFor
<1> QED BY <1>8, <1>9, <1>11, <1>12, <1>13, WalkerKeeps

\* The fault of a page of a promoted region keeps the invariant.
LEMMA PromotedFaultStep ==
    ASSUME NEW lv, NEW px, Good(lv, px), NEW c \in Cores, PromotedFault(c)
    PROVE  Good(lv, px)'
<1>1. /\ pc[c] = "fault" /\ pc' = [pc EXCEPT ![c] = "assert"] /\ walk' = walk
      /\ requested' = requested /\ UNCHANGED <<tableVars, osVars>>
  BY DEF PromotedFault
<1>2. TypeOK BY DEF Good
<1>3. TypeOK' BY <1>1, <1>2 DEF TypeOK, tableVars
<1>4. Walker(c) BY <1>1, <1>2 DEF Walker, TypeOK
<1>5. pc'[c] = "assert" /\ walk'[c] = walk[c] BY <1>1, <1>2 DEF TypeOK
<1>6. LinksStay => ~walk[c].sure BY <1>1 DEF Good, SureOK, SureFor
<1> QED BY <1>3, <1>4, <1>5, <1>6, WalkerKeeps DEF WalkOK, Walking, QuietFor, SureFor

-----------------------------------------------------------------------------
(* The steps of an update.                                                 *)

\* The fault is handed to the allocator.
LEMMA HandleFaultStep ==
    ASSUME NEW lv, NEW px, Good(lv, px), NEW c \in Cores, HandleFault(c)
    PROVE  Good(lv, px)'
<1>0. PICK v, l : v = walk[c].vpn /\ l = walk[c].level OBVIOUS
<1>1. /\ pc[c] = "fault" /\ ~Locked /\ Cardinality(UsedIn(v)) <= threshold
      /\ in_use' = in_use \cup {v}
      /\ up' = [NoUpdate EXCEPT !.level = Levels, !.frame = Root,
                  !.size = IF Cardinality(UsedIn(v) \cup {v}) > threshold THEN 21 ELSE 12]
      /\ walk' = [d \in Cores |-> IF pc[d] = "idle" THEN walk[d]
                                 ELSE [walk[d] EXCEPT !.quiet = FALSE]]
      /\ pc' = [pc EXCEPT ![c] = "update"]
      /\ requested' = requested /\ heap' = heap /\ pending' = pending
      /\ threshold' = threshold /\ mapped' = mapped
  BY <1>0 DEF HandleFault
<1>2. /\ TypeOK /\ Frames(lv, px) /\ Entries(lv, px) /\ Updates(lv, px) /\ Walks(lv, px)
      /\ Handled(lv, px) /\ QuietOK /\ SureOK
  BY DEF Good
<1>3. /\ v \in VpnsOf[c] /\ v \in Vpns /\ l \in 1..Levels
      /\ At(lv, px, walk[c].frame, l, v)
  BY <1>0, <1>1, WalkerAt DEF Walking
<1>4. requested[c] = l - 1 BY <1>0, <1>1, <1>2 DEF Walks, WalkOK, Walking
<1>5. pending = {} /\ threshold \in Nat /\ IsFiniteSet(in_use) /\ in_use \subseteq Vpns
  BY <1>1, <1>2 DEF Updates, Handled
<1>6. UsedIn(v)' = UsedIn(v) \cup {v}
  <2>1. v \in RegionOf(v) BY <1>3, Regions
  <2> QED BY <1>1, <2>1 DEF UsedIn
<1>7. /\ up'.level = Levels /\ up'.frame = Root /\ up'.used = 0 /\ up'.done = FALSE
      /\ up'.size = IF Promoted(v)' THEN 21 ELSE 12
  <2>1. Promoted(v)' <=> Cardinality(UsedIn(v) \cup {v}) > threshold
    BY <1>1, <1>6 DEF Promoted
  <2> QED BY <1>1, <2>1 DEF NoUpdate
<1>8. ASSUME NEW w \in Vpns PROVE Promoted(w) => Promoted(w)'
  <2>1. UsedIn(w)' \subseteq RegionOf(w) /\ UsedIn(w) \subseteq UsedIn(w)' BY <1>1 DEF UsedIn
  <2>2. PICK S, T : S = UsedIn(w) /\ T = UsedIn(w)' OBVIOUS
  <2>3. IsFiniteSet(T) /\ Cardinality(T) \in Nat /\ Cardinality(S) \in Nat
    BY <2>1, <2>2, RegionSize
  <2>4. Cardinality(S) <= Cardinality(T) BY <2>1, <2>2, <2>3, FS_Subset
  <2> QED BY <1>1, <1>5, <2>2, <2>3, <2>4 DEF Promoted
<1>9. ~Promoted(v)
  <2>1. Cardinality(UsedIn(v)) \in Nat BY <1>3, RegionSize DEF UsedIn
  <2> QED BY <1>1, <1>5, <2>1 DEF Promoted
<1>10. Frames(lv, px)' /\ Entries(lv, px)'
  <2>1. pending \subseteq pending' BY <1>1
  <2> QED BY <1>1, <1>2, <1>8, <2>1, KeepTable
<1>11. \A f, m, u : At(lv, px, f, m, u)' <=> At(lv, px, f, m, u) BY <1>1, SameFrames
<1>12. WalkRecord(walk[c]) /\ walk'[c] = [walk[c] EXCEPT !.quiet = FALSE] /\ pc'[c] = "update"
  BY <1>1, <1>2 DEF TypeOK
<1>13. walk'[c].vpn = v /\ walk'[c].level = l /\ walk'[c].frame = walk[c].frame
       /\ walk'[c].quiet = FALSE /\ walk'[c].sure = walk[c].sure
  BY <1>0, <1>12 DEF WalkRecord
<1>14. TypeOK'
  <2>1. \A d \in Cores : WalkRecord(walk'[d]) BY <1>1, <1>2 DEF TypeOK, WalkRecord
  <2> QED BY <1>1, <1>2, <2>1 DEF TypeOK, NoUpdate, WalkRecord
<1>15. UpdateOK(lv, px, c)'
  <2>1. \A f : At(lv, px, f, 2, v) => heap[f][Index(v, 2)].is_pte = {0}
    <3>1. SUFFICES ASSUME NEW f, At(lv, px, f, 2, v) PROVE heap[f][Index(v, 2)].is_pte = {0}
      OBVIOUS
    <3>2. Index(v, 2) \in Indices BY <1>3, Digits, Constants
    <3>3. Settled(lv, px, f, Index(v, 2)) BY <1>2, <1>5, <3>1, <3>2 DEF Entries, Touched, At
    <3>4. Empty(heap[f][Index(v, 2)]) \/ \E g : Link(heap[f][Index(v, 2)], g)
      BY <1>2, <1>3, <1>9, <3>1, <3>3, SettledEntry
    <3> QED BY <3>4 DEF Empty, Link
  <2>2. threshold = 0 => mapped \cap RegionOf(v) = {}
    <3>1. SUFFICES ASSUME threshold = 0, NEW w \in mapped, w \in RegionOf(v) PROVE FALSE
      OBVIOUS
    <3>2. w \in Vpns /\ UsedIn(w) # {} BY <1>2, <3>1 DEF Handled
    <3>3. RegionOf(w) = RegionOf(v) BY <1>3, <3>1, Regions
    <3>4. UsedIn(v) # {} BY <3>2, <3>3 DEF UsedIn
    <3>5. IsFiniteSet(UsedIn(v)) /\ Cardinality(UsedIn(v)) \in Nat
      BY <1>3, RegionSize DEF UsedIn
    <3>6. Cardinality(UsedIn(v)) # 0 BY <3>4, <3>5, FS_EmptySet
    <3> QED BY <1>1, <3>1, <3>5, <3>6
  <2>3. At(lv, px, Root, Levels, v)' BY <1>2, <1>3, <1>11, AtRoot
  <2>4. Root # Null BY DEF Root, Null
  <2>5. TargetLevel' \in {1, 2} /\ Levels \in TargetLevel'..Levels
    BY Constants DEF TargetLevel
  <2>6. v \in in_use' /\ requested'[c] = l - 1 BY <1>1, <1>4
  <2>7. up'.size \in {12, 21} /\ (up'.size = 21 <=> Promoted(v)') BY <1>7
  <2>8. \A f \in DOMAIN heap' :
          At(lv, px, f, 2, v)' => heap'[f][Index(v, 2)].is_pte = {0}
    BY <1>1, <1>11, <2>1
  <2>9. threshold' = 0 => mapped' \cap RegionOf(v) = {} BY <1>1, <2>2
  <2>10. pending' = {} BY <1>1, <1>5
  <2>11. Sized(v)'
    <3>1. up'.level \in TargetLevel'..Levels /\ up'.used \in Nat BY <1>7, <2>5
    <3>2. up'.done \in BOOLEAN BY <1>7
    <3> QED BY <2>6, <2>7, <3>1, <3>2 DEF Sized
  <2>12. InFrame(lv, px, v, l - 1)' BY <1>7, <2>3 DEF InFrame
  <2>13. Missing(lv, px, v, l - 1)' BY <1>7, <2>4 DEF Missing
  <2>14. Storing(lv, px, v)' BY <1>7, <2>10 DEF Storing
  <2>15. Unpromoted(lv, px, v)' BY <2>8 DEF Unpromoted
  <2>16. Unmapped(v)' BY <2>9 DEF Unmapped
  <2>17. Updating(lv, px, v, l - 1)' BY <2>11, <2>12, <2>13, <2>14, <2>15, <2>16 DEF Updating
  <2> QED BY <1>13, <2>6, <2>17 DEF UpdateOK
<1>16. Updates(lv, px)'
  <2>1. \A d \in Cores : pc'[d] = "update" => d = c BY <1>1, <1>2 DEF TypeOK, Locked
  <2>2. Locked' BY <1>12 DEF Locked
  <2> QED BY <1>15, <2>1, <2>2 DEF Updates
<1>17. Walks(lv, px)'
  <2>1. SUFFICES ASSUME NEW d \in Cores PROVE WalkOK(lv, px, d)' BY DEF Walks
  <2>2. WalkOK(lv, px, d) /\ WalkRecord(walk[d]) BY <1>2 DEF Walks, TypeOK
  <2>3. walk'[d] = walk[d] \/ walk'[d] = [walk[d] EXCEPT !.quiet = FALSE] BY <1>1
  <2>4. walk'[d].vpn = walk[d].vpn /\ walk'[d].level = walk[d].level
        /\ walk'[d].frame = walk[d].frame
    BY <2>2, <2>3 DEF WalkRecord
  <2>5. pc'[d] \in Walking => pc[d] \in Walking BY <1>1, <1>2 DEF TypeOK, Walking
  <2>6. pc'[d] = "fault" => pc[d] = "fault" BY <1>1, <1>2 DEF TypeOK
  <2> QED BY <1>1, <1>11, <2>2, <2>4, <2>5, <2>6 DEF WalkOK
<1>18. Handled(lv, px)'
  <2>1. IsFiniteSet(in_use') BY <1>1, <1>5, FS_AddElement
  <2>2. in_use' \subseteq Vpns /\ threshold' \in Nat BY <1>1, <1>3, <1>5
  <2>3. ASSUME NEW w \in mapped
        PROVE  /\ w \in Vpns /\ UsedIn(w)' # {}
               /\ ~Promoted(w)' => Found4KB(lv, px, w)'
               /\ Promoted(w)' /\ ~Busy(w)' => Found2MB(lv, px, w)'
    <3>1. /\ w \in Vpns /\ UsedIn(w) # {} /\ (~Promoted(w) => Found4KB(lv, px, w))
          /\ Promoted(w) /\ ~Busy(w) => Found2MB(lv, px, w)
      BY <1>2 DEF Handled
    <3>2. UsedIn(w)' # {} BY <1>1, <3>1 DEF UsedIn
    <3>3. ~Promoted(w)' => Found4KB(lv, px, w)' BY <1>1, <1>8, <1>11, <3>1 DEF Found4KB
    <3>4. ASSUME Promoted(w)', ~Busy(w)' PROVE Found2MB(lv, px, w)'
      <4>1. w \notin RegionOf(v)
        <5>1. w \in RegionOf(walk[c].vpn)' => Busy(w)' BY <1>12 DEF Busy
        <5> QED BY <1>13, <3>4, <5>1 DEF RegionOf
      <4>2. v \notin RegionOf(w) BY <1>3, <3>1, <4>1, SameRegion
      <4>3. UsedIn(w)' = UsedIn(w) BY <1>1, <4>2 DEF UsedIn
      <4>4. Promoted(w) BY <1>1, <3>4, <4>3 DEF Promoted
      <4>5. ~Busy(w) BY <1>1 DEF Busy, Locked
      <4>6. Found2MB(lv, px, w) BY <3>1, <4>4, <4>5
      <4> QED BY <1>1, <1>11, <4>6 DEF Found2MB
    <3> QED BY <3>1, <3>2, <3>3, <3>4
  <2> QED BY <1>1, <2>1, <2>2, <2>3 DEF Handled
<1>19. QuietOK'
  <2>1. SUFFICES ASSUME NEW d \in Cores, walk'[d].quiet PROVE QuietFor(d)' BY DEF QuietOK, QuietFor
  <2>2. pc[d] = "idle" /\ walk'[d] = walk[d] /\ pc'[d] = "idle"
    <3>1. pc[d] = "idle" BY <1>1, <1>2, <2>1 DEF TypeOK, WalkRecord
    <3> QED BY <1>1, <1>2, <3>1 DEF TypeOK
  <2> QED BY <1>2, <2>2 DEF QuietOK, QuietFor
<1>20. SureOK'
  <2>1. SUFFICES ASSUME LinksStay, NEW d \in Cores PROVE SureFor(d)' BY <1>1 DEF SureOK, LinksStay
  <2>2. SureFor(d) /\ WalkRecord(walk[d]) BY <1>2, <2>1 DEF SureOK, TypeOK
  <2>3. walk'[d] = walk[d] \/ walk'[d] = [walk[d] EXCEPT !.quiet = FALSE] BY <1>1
  <2>4. walk'[d].vpn = walk[d].vpn /\ walk'[d].level = walk[d].level /\ walk'[d].sure = walk[d].sure
        /\ walk'[d].is_pte = walk[d].is_pte /\ walk'[d].page = walk[d].page
    BY <2>2, <2>3 DEF WalkRecord
  <2>5. d # c => pc'[d] = pc[d] BY <1>1, <1>2 DEF TypeOK
  <2> QED BY <1>1, <2>2, <2>4, <2>5 DEF SureFor, LeafLevel
<1> QED BY <1>10, <1>14, <1>16, <1>17, <1>18, <1>19, <1>20 DEF Good

\* The parts of the invariant an update starts from.
LEMMA UpdaterFacts ==
    ASSUME NEW lv, NEW px, Good(lv, px), NEW c \in Cores, pc[c] = "update",
           NEW v, v = walk[c].vpn, NEW r, r = requested[c], NEW w, w = walk[c].level
    PROVE  /\ TypeOK /\ Frames(lv, px) /\ Entries(lv, px) /\ Updates(lv, px)
           /\ Handled(lv, px)
           /\ v \in Vpns /\ w \in 1..Levels /\ r = w - 1
           /\ At(lv, px, walk[c].frame, w, v)
           /\ Sized(v) /\ InFrame(lv, px, v, r) /\ Missing(lv, px, v, r)
           /\ Storing(lv, px, v) /\ Unpromoted(lv, px, v) /\ Unmapped(v)
<1>1. UpdateOK(lv, px, c) BY DEF Good, Updates
<1>2. Updating(lv, px, v, r) /\ r = w - 1 BY <1>1 DEF UpdateOK
<1>3. v \in Vpns /\ w \in 1..Levels /\ At(lv, px, walk[c].frame, w, v)
  BY WalkerAt DEF Walking
<1> QED BY <1>2, <1>3 DEF Updating, Good

\* A step of the update in progress, which may have added a frame.
LEMMA UpdaterKeeps ==
    ASSUME NEW lv, NEW px, Good(lv, px), NEW c \in Cores, pc[c] = "update",
           UNCHANGED <<pc, walk, requested, osVars>>, TypeOK',
           NEW lw, NEW py, \A f, l, v : At(lv, px, f, l, v) => At(lw, py, f, l, v)',
           Frames(lw, py)', Entries(lw, py)', Handled(lw, py)',
           NEW v, v = walk[c].vpn, NEW r, r = requested[c], Updating(lw, py, v, r)'
    PROVE  Good(lw, py)'
<1>0. pc' = pc /\ walk' = walk /\ requested' = requested
      /\ threshold' = threshold /\ in_use' = in_use /\ mapped' = mapped
  BY DEF osVars
<1>1. /\ TypeOK /\ Updates(lv, px) /\ Walks(lv, px) /\ QuietOK /\ SureOK BY DEF Good
<1>2. UpdateOK(lw, py, c)'
  <2>1. requested[c] = walk[c].level - 1 BY <1>1 DEF Updates, UpdateOK
  <2> QED BY <1>0, <2>1 DEF UpdateOK
<1>3. Locked /\ Locked' BY <1>0 DEF Locked
<1>4. Updates(lw, py)'
  <2>1. \A d \in Cores : pc'[d] = "update" => d = c BY <1>0, <1>1 DEF Updates
  <2> QED BY <1>2, <1>3, <2>1 DEF Updates
<1>5. Walks(lw, py)' BY <1>0, <1>1 DEF Walks, WalkOK
<1>6. QuietOK'
  <2>1. SUFFICES ASSUME NEW d \in Cores PROVE QuietFor(d)' BY DEF QuietOK
  <2>2. QuietFor(d) BY <1>1 DEF QuietOK
  <2> QED BY <1>0, <1>3, <2>2 DEF QuietFor
<1>7. SureOK'
  <2>1. SUFFICES ASSUME LinksStay, NEW d \in Cores PROVE SureFor(d)'
    BY <1>0 DEF SureOK, LinksStay
  <2>2. SureFor(d) BY <1>1, <2>1 DEF SureOK
  <2> QED BY <1>0, <2>2 DEF SureFor, LeafLevel
<1> QED BY <1>4, <1>5, <1>6, <1>7 DEF Good

\* The loop goes down to the next level.
LEMMA DescendStep ==
    ASSUME NEW lv, NEW px, Good(lv, px), NEW c \in Cores, Descend(c)
    PROVE  Good(lv, px)'
<1>0. PICK v, r, w, k, f : v = walk[c].vpn /\ r = requested[c] /\ w = walk[c].level
                           /\ k = up.level /\ f = up.frame
  OBVIOUS
<1>1. /\ pc[c] = "update" /\ pending = {} /\ up.frame # Null /\ ~AtTarget
      /\ UNCHANGED <<pc, walk, requested, osVars>> /\ heap' = heap /\ pending' = pending
      /\ threshold' = threshold /\ in_use' = in_use /\ mapped' = mapped
      /\ pc' = pc /\ walk' = walk
  BY DEF Descend, osVars
<1>2. PICK x \in heap[f][Index(v, k)].word :
        up' = [up EXCEPT !.frame = x, !.parent = f, !.level = k - 1]
  BY <1>0 DEF Descend
<1>3. /\ TypeOK /\ Frames(lv, px) /\ Entries(lv, px) /\ Updates(lv, px) /\ Handled(lv, px)
      /\ v \in Vpns /\ w \in 1..Levels /\ r = w - 1 /\ At(lv, px, walk[c].frame, w, v)
      /\ Sized(v) /\ InFrame(lv, px, v, r) /\ Missing(lv, px, v, r)
      /\ Storing(lv, px, v) /\ Unpromoted(lv, px, v) /\ Unmapped(v)
  BY <1>0, <1>1, UpdaterFacts
<1>4. /\ up'.frame = x /\ up'.parent = f /\ up'.level = k - 1 /\ up'.size = up.size
      /\ up'.used = up.used /\ up'.done = up.done
  BY <1>2, <1>3 DEF TypeOK
<1>5. TypeOK' BY <1>1, <1>2, <1>3 DEF TypeOK
<1>6. TargetLevel' = TargetLevel /\ TargetLevel \in {1, 2} BY <1>4 DEF TargetLevel
<1>7. k \in TargetLevel..Levels /\ k > TargetLevel /\ k > 1 /\ k \in Nat /\ Levels \in Nat
  <2>1. k \in TargetLevel..Levels /\ k # TargetLevel
    BY <1>0, <1>1, <1>3 DEF Sized, AtTarget, TargetLevel
  <2> QED BY <1>6, <2>1, Constants
<1>8. ~up.done BY <1>0, <1>3, <1>7 DEF Storing, SetOK
<1>9. At(lv, px, f, k, v) /\ f \in DOMAIN heap BY <1>0, <1>1, <1>3 DEF InFrame, At
<1>10. \A i, g : ~Touched(g, i) /\ ~LinkPending(g, i, x) BY <1>1 DEF Touched, LinkPending
<1>11. \/ Empty(heap[f][Index(v, k)])
       \/ \E g : Link(heap[f][Index(v, k)], g) /\ At(lv, px, g, k - 1, v)
  <2>1. Index(v, k) \in Indices BY <1>3, <1>6, <1>7, Digits
  <2>2. Settled(lv, px, f, Index(v, k)) BY <1>3, <1>9, <1>10, <2>1 DEF Entries
  <2>3. ~(k = 2 /\ Entry2MB(heap[f][Index(v, k)], v))
    <3>1. k = 2 => heap[f][Index(v, k)].is_pte = {0}
      BY <1>3, <1>8, <1>9, <1>10 DEF Unpromoted
    <3> QED BY <3>1 DEF Entry2MB
  <2> QED BY <1>3, <1>7, <1>9, <2>2, <2>3, SettledEntry
<1>12. \A g, l, u : At(lv, px, g, l, u)' <=> At(lv, px, g, l, u) BY <1>1, SameFrames
<1>13. \A u : Promoted(u)' <=> Promoted(u) BY <1>1, SamePromotion
<1>14. Frames(lv, px)' /\ Entries(lv, px)'
  <2>1. pending \subseteq pending' BY <1>1
  <2> QED BY <1>1, <1>3, <1>13, <2>1, KeepTable
<1>15. Handled(lv, px)'
  <2>1. \A u : Busy(u) => Busy(u)' BY <1>1 DEF Busy, RegionOf
  <2> QED BY <1>1, <1>3, <2>1, KeepHandled
<1>16. Sized(v)'
  <2>1. k - 1 \in TargetLevel..Levels BY <1>6, <1>7
  <2> QED BY <1>1, <1>3, <1>4, <1>6, <1>13, <2>1 DEF Sized
<1>17. up.used > 0 => up.used + k <= r + 1 BY <1>0, <1>1, <1>3 DEF InFrame
<1>18. up.used \in Nat /\ r \in Int BY <1>3 DEF Sized
<1>19. InFrame(lv, px, v, r)' /\ Missing(lv, px, v, r)'
  <2>1. CASE Empty(heap[f][Index(v, k)])
    <3>1. x = Null BY <1>2, <2>1 DEF Empty
    <3>2. up.used = 0 => k <= w
      <4>1. SUFFICES ASSUME up.used = 0, k > w PROVE FALSE BY <1>3, <1>7
      <4>2. k - 1 \in w..Levels BY <1>3, <1>7, <4>1
      <4>3. Has(lv, px, k - 1, v) BY <1>3, <4>2 DEF Frames, At
      <4>4. PICK g \in DOMAIN heap : At(lv, px, g, k - 1, v) BY <4>3 DEF Has
      <4>5. g # Null BY <1>3, <4>4, FrameFacts
      <4>6. ~Link(heap[f][Index(v, k)], g) BY <2>1, <4>5 DEF Link, Empty
      <4>7. ~LinkPending(f, Index(v, k), g) BY <1>1 DEF LinkPending
      <4>8. ~(k = 2 /\ Promoted(v)) BY <1>3, <1>7 DEF Sized, TargetLevel
      <4> QED BY <1>3, <1>9, <4>4, <4>6, <4>7, <4>8, ParentLink
    <3>3. up.used + (k - 1) <= r BY <1>3, <1>7, <1>17, <1>18, <3>2
    <3>4. k - 1 < Levels /\ (k - 1) + 1 = k BY <1>7
    <3>5. Missing(lv, px, v, r)'
      BY <1>1, <1>4, <1>8, <1>9, <1>12, <2>1, <3>3, <3>4 DEF Missing
    <3> QED BY <1>4, <3>1, <3>5 DEF InFrame
  <2>2. CASE \E g : Link(heap[f][Index(v, k)], g) /\ At(lv, px, g, k - 1, v)
    <3>1. PICK g : Link(heap[f][Index(v, k)], g) /\ At(lv, px, g, k - 1, v) BY <2>2
    <3>2. x = g BY <1>2, <3>1 DEF Link
    <3>3. x # Null BY <1>3, <3>1, <3>2, FrameFacts DEF At
    <3>4. up.used > 0 => up.used + (k - 1) <= r + 1 BY <1>7, <1>17, <1>18
    <3> QED BY <1>4, <1>12, <3>1, <3>2, <3>3, <3>4 DEF InFrame, Missing
  <2> QED BY <1>11, <2>1, <2>2
<1>20. Storing(lv, px, v)' BY <1>1, <1>4, <1>8 DEF Storing
<1>21. Unpromoted(lv, px, v)'
  BY <1>1, <1>3, <1>4, <1>12 DEF Unpromoted, Touched
<1>22. Unmapped(v)' BY <1>1, <1>3 DEF Unmapped
<1>23. Updating(lv, px, v, r)' BY <1>16, <1>19, <1>20, <1>21, <1>22 DEF Updating
<1>24. \A g, l, u : At(lv, px, g, l, u) => At(lv, px, g, l, u)' BY <1>12
<1> QED BY <1>0, <1>1, <1>5, <1>14, <1>15, <1>23, <1>24, UpdaterKeeps

\* The entry is about to be written.
LEMMA SetEntryStep ==
    ASSUME NEW lv, NEW px, Good(lv, px), NEW c \in Cores, SetEntry(c)
    PROVE  Good(lv, px)'
<1>0. PICK v, r, w, k, f, p :
        /\ v = walk[c].vpn /\ r = requested[c] /\ w = walk[c].level
        /\ k = up.level /\ f = up.frame /\ p = TargetPage(v)
  OBVIOUS
<1>1. /\ pc[c] = "update" /\ pending = {} /\ up.frame # Null /\ AtTarget /\ ~up.done
      /\ UNCHANGED <<pc, walk, requested, osVars>> /\ heap' = heap
      /\ threshold' = threshold /\ in_use' = in_use /\ mapped' = mapped
      /\ pc' = pc /\ walk' = walk
      /\ up' = [up EXCEPT !.done = TRUE]
  BY DEF SetEntry, osVars
<1>2. pending' = EntryStores(f, Index(v, k), p)
  BY <1>0 DEF SetEntry, TargetPage, Base
<1>3. /\ TypeOK /\ Frames(lv, px) /\ Entries(lv, px) /\ Updates(lv, px) /\ Handled(lv, px)
      /\ v \in Vpns /\ Sized(v) /\ InFrame(lv, px, v, r) /\ Unpromoted(lv, px, v) /\ Unmapped(v)
  BY <1>0, <1>1, UpdaterFacts
<1>4. /\ up'.frame = f /\ up'.parent = up.parent /\ up'.level = k /\ up'.size = up.size
      /\ up'.used = up.used /\ up'.done = TRUE
  BY <1>0, <1>1, <1>3 DEF TypeOK
<1>5. TypeOK' BY <1>1, <1>3 DEF TypeOK
<1>6. TargetLevel' = TargetLevel /\ TargetPage(v)' = p /\ k = TargetLevel /\ k \in {1, 2}
  BY <1>0, <1>1, <1>4 DEF TargetLevel, TargetPage, AtTarget
<1>7. At(lv, px, f, k, v) /\ f \in DOMAIN heap BY <1>0, <1>1, <1>3 DEF InFrame, At
<1>8. \A g, l, u : At(lv, px, g, l, u)' <=> At(lv, px, g, l, u) BY <1>1, SameFrames
<1>9. \A u : Promoted(u)' <=> Promoted(u) BY <1>1, SamePromotion
<1>10. Frames(lv, px)' /\ Entries(lv, px)'
  <2>1. pending \subseteq pending' BY <1>1
  <2> QED BY <1>1, <1>3, <1>9, <2>1, KeepTable
<1>11. Handled(lv, px)'
  <2>1. \A u : Busy(u) => Busy(u)' BY <1>1 DEF Busy, RegionOf
  <2> QED BY <1>1, <1>3, <2>1, KeepHandled
<1>12. SetOK(lv, px, v)'
  <2> DEFINE e == heap[f][Index(v, k)]
  <2>1. Index(v, k) \in Indices BY <1>3, <1>6, Digits, Constants
  <2>2. ~Touched(f, Index(v, k)) BY <1>1 DEF Touched
  <2>3. Settled(lv, px, f, Index(v, k)) BY <1>3, <1>7, <2>1, <2>2 DEF Entries
  <2>4. k = 1 => e.is_pte = {1} /\ (e.word = {Null} \/ (e.word = {1} /\ e.ppn = {v}))
    <3>1. SUFFICES ASSUME k = 1
                   PROVE  e.is_pte = {1} /\ (e.word = {Null} \/ (e.word = {1} /\ e.ppn = {v}))
      OBVIOUS
    <3>2. Unset4KB(e) \/ Entry4KB(e, v)
      <4>1. ~(k > 1) /\ k # 2 BY <3>1
      <4> QED BY <1>3, <1>7, <2>3, <4>1, SettledEntry
    <3> QED BY <3>2 DEF Unset4KB, Entry4KB
  <2>5. k = 2 => e.is_pte = {0} BY <1>1, <1>3, <1>7, <2>2 DEF Unpromoted
  <2>6. k = 2 => \/ e.word = {Null}
                 \/ \E g \in DOMAIN heap : e.word = {g} /\ Child(lv, px, f, Index(v, k), g)
    <3>1. SUFFICES ASSUME k = 2
                   PROVE  \/ e.word = {Null}
                          \/ \E g \in DOMAIN heap : e.word = {g} /\ Child(lv, px, f, Index(v, k), g)
      OBVIOUS
    <3>2. Empty(e) \/ \E g : Link(e, g) /\ At(lv, px, g, k - 1, v)
      BY <1>3, <1>7, <2>3, <2>5, <3>1, SettledEntry DEF Entry2MB
    <3>3. CASE \E g : Link(e, g) /\ At(lv, px, g, k - 1, v)
      <4>1. PICK g : Link(e, g) /\ At(lv, px, g, k - 1, v) BY <3>3
      <4>2. Child(lv, px, f, Index(v, k), g) BY <1>3, <1>7, <3>1, <4>1, AtChild
      <4> QED BY <4>1, <4>2 DEF Link, At
    <3> QED BY <3>2, <3>3 DEF Empty
  <2>7. \A g : Child(lv, px, f, Index(v, k), g)' <=> Child(lv, px, f, Index(v, k), g)
    BY <1>1, SameFrames
  <2>8. /\ StoreTo(3, f, Index(v, k), "is_pte", 1) \in pending'
        /\ StoreTo(1, f, Index(v, k), "valid", 1) \in pending'
        /\ StoreTo(2, f, Index(v, k), "ppn", p) \in pending'
    BY <1>2 DEF EntryStores
  <2>9. f # Null BY <1>0, <1>1
  <2>10. k = 1 \/ k = 2 BY <1>6
  <2>11. heap'[f][Index(v, k)] = e /\ DOMAIN heap' = DOMAIN heap BY <1>1
  <2> HIDE DEF e
  <2> QED BY <1>2, <1>4, <1>6, <2>4, <2>5, <2>6, <2>7, <2>8, <2>9, <2>10, <2>11 DEF SetOK
<1>13. Sized(v)' BY <1>1, <1>3, <1>4, <1>6, <1>9, <1>0 DEF Sized
<1>14. InFrame(lv, px, v, r)' /\ Missing(lv, px, v, r)'
  BY <1>0, <1>1, <1>3, <1>4, <1>8 DEF InFrame, Missing
<1>15. Storing(lv, px, v)' /\ Unpromoted(lv, px, v)' BY <1>4, <1>12 DEF Storing, Unpromoted
<1>16. Unmapped(v)' BY <1>1, <1>3 DEF Unmapped
<1>17. Updating(lv, px, v, r)' BY <1>13, <1>14, <1>15, <1>16 DEF Updating
<1>18. \A g, l, u : At(lv, px, g, l, u) => At(lv, px, g, l, u)' BY <1>8
<1> QED BY <1>0, <1>1, <1>5, <1>10, <1>11, <1>17, <1>18, UpdaterKeeps

\* The update has ended.
LEMMA EndUpdateStep ==
    ASSUME NEW lv, NEW px, Good(lv, px), NEW c \in Cores, EndUpdate(c)
    PROVE  Good(lv, px)'
<1>0. PICK v, r, w, k, f, S :
        /\ v = walk[c].vpn /\ r = requested[c] /\ w = walk[c].level
        /\ k = up.level /\ f = up.frame /\ S = IF up.size = 21 THEN RegionOf(v) ELSE {v}
  OBVIOUS
<1>1. /\ pc[c] = "update" /\ pending = {} /\ up.done /\ up' = NoUpdate
      /\ mapped' = mapped \cup S
      /\ walk' = [walk EXCEPT ![c] = FromRoot(v, TRUE, TRUE)]
      /\ pc' = [pc EXCEPT ![c] = "is_pte"]
      /\ requested' = requested /\ heap' = heap /\ pending' = pending
      /\ threshold' = threshold /\ in_use' = in_use
  <2>1. walk' = [walk EXCEPT ![c] = FromRoot(walk[c].vpn, TRUE, TRUE)] BY DEF EndUpdate
  <2> QED BY <1>0, <2>1 DEF EndUpdate
<1>2. /\ TypeOK /\ Frames(lv, px) /\ Entries(lv, px) /\ Updates(lv, px) /\ Handled(lv, px)
      /\ v \in Vpns /\ Sized(v) /\ InFrame(lv, px, v, r) /\ Missing(lv, px, v, r)
      /\ Storing(lv, px, v)
  BY <1>0, <1>1, UpdaterFacts
<1>3. Walks(lv, px) /\ QuietOK /\ SureOK BY DEF Good
<1>4. TypeOK'
  <2>1. \A d \in Cores : WalkRecord(walk'[d]) BY <1>1, <1>2 DEF TypeOK, WalkRecord, FromRoot
  <2>2. /\ pc' \in [Cores -> {"idle", "is_pte", "word", "ppn", "fault", "update", "dead", "assert"}]
        /\ walk' = [d \in Cores |-> walk'[d]] /\ requested' = [d \in Cores |-> requested'[d]]
    BY <1>1, <1>2 DEF TypeOK
  <2>3. up' = [level |-> up'.level, frame |-> up'.frame, parent |-> up'.parent, size |-> up'.size,
               used |-> up'.used, done |-> up'.done]
    BY <1>1 DEF NoUpdate
  <2> QED BY <2>1, <2>2, <2>3 DEF TypeOK, WalkRecord
<1>5. \A g, l, u : At(lv, px, g, l, u)' <=> At(lv, px, g, l, u) BY <1>1, SameFrames
<1>6. \A u : Promoted(u)' <=> Promoted(u) BY <1>1, SamePromotion
<1>7. Frames(lv, px)' /\ Entries(lv, px)'
  <2>1. pending \subseteq pending' BY <1>1
  <2> QED BY <1>1, <1>2, <1>6, <2>1, KeepTable
<1>8. \A d \in Cores : d # c => pc[d] # "update" BY <1>1, <1>2 DEF Updates
<1>9. Locked /\ ~Locked' BY <1>1, <1>2, <1>8 DEF Locked, TypeOK
<1>10. Updates(lv, px)' BY <1>1, <1>9 DEF Updates, Locked
<1>11. /\ pc'[c] = "is_pte" /\ walk'[c] = FromRoot(v, TRUE, TRUE)
       /\ \A d \in Cores : d # c => pc'[d] = pc[d] /\ walk'[d] = walk[d]
  BY <1>1, <1>2 DEF TypeOK
<1>12. /\ walk'[c].vpn = v /\ walk'[c].level = Levels /\ walk'[c].frame = Root
  BY <1>11 DEF FromRoot
<1>13. Levels \in Nat /\ Levels >= 2 BY Constants
<1>14. Walks(lv, px)'
  <2>1. v \in VpnsOf[c] BY <1>0, <1>1, WalkerAt DEF Walking
  <2>2. At(lv, px, Root, Levels, v)' BY <1>2, <1>5, AtRoot
  <2>5. Levels \in 1..Levels BY <1>13
  <2>3. WalkOK(lv, px, c)' BY <1>11, <1>12, <2>1, <2>2, <2>5 DEF WalkOK
  <2>4. ASSUME NEW d \in Cores, d # c PROVE WalkOK(lv, px, d)'
    <3>1. WalkOK(lv, px, d) BY <1>3 DEF Walks
    <3> QED BY <1>1, <1>5, <1>11, <2>4, <3>1 DEF WalkOK
  <2> QED BY <2>3, <2>4 DEF Walks
<1>15. SetOK(lv, px, v) BY <1>1, <1>2 DEF Storing
<1>16. k = TargetLevel /\ At(lv, px, f, k, v) /\ f \in DOMAIN heap
  BY <1>0, <1>2, <1>15 DEF SetOK, InFrame, At
<1>17. Maps(heap[f][Index(v, k)], k, v)
  <2> DEFINE e == heap[f][Index(v, k)]
  <2>1. /\ e.is_pte = {1} /\ ValidWord(e.word) /\ (k = 1 => e.word = {1})
        /\ e.ppn = {TargetPage(v)}
    BY <1>0, <1>1, <1>15 DEF SetOK
  <2>2. CASE up.size = 21
    BY <1>16, <2>1, <2>2 DEF TargetLevel, TargetPage, Maps, Entry2MB
  <2>3. CASE up.size # 21
    BY <1>16, <2>1, <2>3 DEF TargetLevel, TargetPage, Maps, Entry4KB
  <2> QED BY <2>2, <2>3
<1>18. ASSUME NEW u \in Vpns, u \in RegionOf(v), Promoted(u) PROVE Found2MB(lv, px, u)
  <2>1. Promoted(v) /\ Base(u) = Base(v) /\ Prefix(v, 2) = Prefix(u, 2) /\ Index(v, 2) = Index(u, 2)
    BY <1>2, <1>18, SameRegion
  <2>2. k = 2 BY <1>2, <1>16, <2>1 DEF Sized, TargetLevel
  <2>3. Entry2MB(heap[f][Index(v, 2)], v) BY <1>17, <2>2 DEF Maps
  <2>4. At(lv, px, f, 2, u) BY <1>16, <2>1, <2>2 DEF At
  <2>5. Entry2MB(heap[f][Index(u, 2)], u) BY <2>1, <2>3 DEF Entry2MB
  <2> QED BY <1>16, <2>4, <2>5 DEF Found2MB
<1>19. \A u : Found4KB(lv, px, u)' <=> Found4KB(lv, px, u) BY <1>1, <1>5 DEF Found4KB
<1>20. \A u : Found2MB(lv, px, u)' <=> Found2MB(lv, px, u) BY <1>1, <1>5 DEF Found2MB
<1>21. \A u : UsedIn(u)' = UsedIn(u) BY <1>1 DEF UsedIn
<1>22. Handled(lv, px)'
  <2>1. IsFiniteSet(in_use') /\ in_use' \subseteq Vpns /\ threshold' \in Nat
    BY <1>1, <1>2 DEF Handled
  <2>2. ASSUME NEW u \in mapped
        PROVE  /\ u \in Vpns /\ UsedIn(u) # {}
               /\ ~Promoted(u) => Found4KB(lv, px, u)
               /\ Promoted(u) => Found2MB(lv, px, u)
    <3>1. /\ u \in Vpns /\ UsedIn(u) # {} /\ (~Promoted(u) => Found4KB(lv, px, u))
          /\ Promoted(u) /\ ~Busy(u) => Found2MB(lv, px, u)
      BY <1>2 DEF Handled
    <3>2. Busy(u) => u \in RegionOf(v) BY <1>0, <1>8 DEF Busy
    <3> QED BY <1>18, <3>1, <3>2
  <2>3. ASSUME NEW u \in S
        PROVE  /\ u \in Vpns /\ UsedIn(u) # {}
               /\ ~Promoted(u) => Found4KB(lv, px, u)
               /\ Promoted(u) => Found2MB(lv, px, u)
    <3>1. u \in RegionOf(v) /\ u \in Vpns /\ v \in RegionOf(u) BY <1>0, <1>2, Regions, SameRegion
    <3>2. v \in UsedIn(u) BY <1>2, <3>1 DEF Sized, UsedIn
    <3>3. ASSUME ~Promoted(u) PROVE Found4KB(lv, px, u)
      <4>1. ~Promoted(v) BY <1>2, <3>1, <3>3, SameRegion
      <4>2. up.size # 21 /\ u = v /\ k = 1 BY <1>0, <1>2, <1>16, <4>1 DEF Sized, TargetLevel
      <4>3. At(lv, px, f, 1, v) /\ Entry4KB(heap[f][Index(v, 1)], v) BY <1>16, <1>17, <4>2 DEF Maps
      <4> QED BY <1>16, <4>2, <4>3 DEF Found4KB
    <3> QED BY <1>18, <3>1, <3>2, <3>3
  <2>4. ASSUME NEW u \in mapped'
        PROVE  /\ u \in Vpns /\ UsedIn(u)' # {}
               /\ ~Promoted(u)' => Found4KB(lv, px, u)'
               /\ Promoted(u)' /\ ~Busy(u)' => Found2MB(lv, px, u)'
    <3>1. u \in mapped \/ u \in S BY <1>1
    <3> QED BY <1>6, <1>19, <1>20, <1>21, <2>2, <2>3, <3>1
  <2> QED BY <2>1, <2>4 DEF Handled
<1>23. QuietOK'
  <2>1. QuietFor(c)' BY <1>9, <1>11 DEF QuietFor
  <2>2. ASSUME NEW d \in Cores, d # c PROVE QuietFor(d)'
    <3>1. QuietFor(d) BY <1>3 DEF QuietOK
    <3> QED BY <1>9, <1>11, <2>2, <3>1 DEF QuietFor
  <2> QED BY <2>1, <2>2 DEF QuietOK
<1>24. SureOK'
  <2>1. SUFFICES ASSUME LinksStay, NEW d \in Cores PROVE SureFor(d)' BY <1>1 DEF SureOK, LinksStay
  <2>2. CASE d = c
    <3>1. v \in mapped' BY <1>0, <1>1, <1>2, Regions
    <3>2. Levels >= LeafLevel' BY <1>13 DEF LeafLevel
    <3> QED BY <1>11, <1>12, <2>2, <3>1, <3>2 DEF SureFor
  <2>3. CASE d # c
    <3>1. SureFor(d) BY <1>3, <2>1 DEF SureOK
    <3> QED BY <1>1, <1>11, <2>3, <3>1 DEF SureFor, LeafLevel
  <2> QED BY <2>2, <2>3
<1> QED BY <1>4, <1>7, <1>10, <1>14, <1>22, <1>23, <1>24 DEF Good

\* A new frame: no other is at its place, for the entry above it is empty.
LEMMA NewFrameStep ==
    ASSUME NEW lv, NEW px, Good(lv, px), NEW c \in Cores, NewFrame(c)
    PROVE  Inv'
<1>0. PICK v, r, w, k, p, i, g :
        /\ v = walk[c].vpn /\ r = requested[c] /\ w = walk[c].level /\ k = up.level
        /\ p = up.parent /\ i = Index(v, k + 1) /\ g = Root + Cardinality(DOMAIN heap)
  OBVIOUS
<1>1. /\ pc[c] = "update" /\ pending = {} /\ up.frame = Null /\ up.used < r
      /\ heap' = [h \in DOMAIN heap \cup {g} |->
                    IF h = g THEN [j \in Indices |-> Uninitialized] ELSE heap[h]]
      /\ up' = [up EXCEPT !.frame = g, !.used = @ + 1]
      /\ UNCHANGED <<pc, walk, requested, osVars>>
      /\ threshold' = threshold /\ in_use' = in_use /\ mapped' = mapped
      /\ pc' = pc /\ walk' = walk /\ requested' = requested
  BY <1>0 DEF NewFrame, osVars
<1>2. pending' = {StoreTo(1, p, i, "next_level", g)} \cup InitStores(g, k)
  BY <1>0 DEF NewFrame
<1>3. /\ TypeOK /\ Frames(lv, px) /\ Entries(lv, px) /\ Updates(lv, px) /\ Handled(lv, px)
      /\ v \in Vpns /\ w \in 1..Levels /\ r = w - 1
      /\ Sized(v) /\ Missing(lv, px, v, r) /\ Unpromoted(lv, px, v) /\ Unmapped(v)
  BY <1>0, <1>1, UpdaterFacts
<1>4. /\ ~up.done /\ k < Levels /\ At(lv, px, p, k + 1, v) /\ p \in DOMAIN heap
      /\ Empty(heap[p][i]) /\ up.used + k <= r
  BY <1>0, <1>1, <1>3 DEF Missing, At
<1>5. k \in TargetLevel..Levels /\ TargetLevel \in {1, 2} /\ up.used \in Nat
  BY <1>0, <1>3 DEF Sized, TargetLevel
<1>6. k \in 1..Levels /\ k + 1 \in 1..Levels /\ k \in Nat /\ Levels \in Nat /\ (k + 1) - 1 = k
  BY <1>4, <1>5, Constants
<1>7. PICK n \in DOMAIN heap : n \in Nat /\ n >= 2 /\ DOMAIN heap = 2..n /\ g = n + 1
  <2>1. PICK n \in DOMAIN heap : n \in Nat /\ DOMAIN heap = Root..n BY <1>3 DEF Frames
  <2>2. n >= 2 /\ DOMAIN heap = 2..n BY <2>1 DEF Root
  <2>3. Cardinality(DOMAIN heap) = n - 1
    <3>1. PICK a : a = 2 OBVIOUS
    <3>2. a \in Int /\ n \in Int BY <2>1, <3>1
    <3>3. Cardinality(a..n) = IF a > n THEN 0 ELSE n - a + 1 BY <3>2, FS_Interval
    <3> QED BY <2>1, <2>2, <3>1, <3>3
  <2> QED BY <1>0, <2>1, <2>2, <2>3 DEF Root
<1>8. g \notin DOMAIN heap /\ g # Null /\ g \in Nat BY <1>7 DEF Null
<1>9. PICK lw : lw = [h \in DOMAIN heap \cup {g} |-> IF h = g THEN k ELSE lv[h]] OBVIOUS
<1>10. PICK py : py = [h \in DOMAIN heap \cup {g} |-> IF h = g THEN Prefix(v, k) ELSE px[h]]
  OBVIOUS
<1>11. /\ lw[g] = k /\ py[g] = Prefix(v, k)
       /\ \A h \in DOMAIN heap : lw[h] = lv[h] /\ py[h] = px[h] /\ heap'[h] = heap[h] /\ h # g
       /\ DOMAIN heap' = DOMAIN heap \cup {g}
       /\ heap'[g] = [j \in Indices |-> Uninitialized]
  BY <1>1, <1>8, <1>9, <1>10
<1>12. \A h, l, u : At(lv, px, h, l, u) => At(lw, py, h, l, u)' BY <1>11 DEF At
<1>13. \A h, j, x : h \in DOMAIN heap /\ Child(lv, px, h, j, x) => Child(lw, py, h, j, x)'
  <2>1. SUFFICES ASSUME NEW h \in DOMAIN heap, NEW j, NEW x, Child(lv, px, h, j, x)
                 PROVE  Child(lw, py, h, j, x)'
    OBVIOUS
  <2>2. x \in DOMAIN heap BY <2>1 DEF Child
  <2>3. lw[h] = lv[h] /\ py[h] = px[h] /\ lw[x] = lv[x] /\ py[x] = px[x] /\ x \in DOMAIN heap'
    BY <1>11, <2>2
  <2> QED BY <2>1, <2>3 DEF Child, EntryFor
<1>14. At(lw, py, g, k, v)' BY <1>11 DEF At
<1>15. \A u : Promoted(u)' <=> Promoted(u) BY <1>1, SamePromotion
<1>16. \A h \in DOMAIN heap : ~At(lv, px, h, k, v)
  <2>1. SUFFICES ASSUME NEW h \in DOMAIN heap, At(lv, px, h, k, v) PROVE FALSE OBVIOUS
  <2>2. h # Null BY <1>3, FrameFacts
  <2>3. ~Link(heap[p][i], h) BY <1>4, <2>2 DEF Link, Empty
  <2>4. ~LinkPending(p, i, h) BY <1>1 DEF LinkPending
  <2>5. ~(k + 1 = 2 /\ Promoted(v)) BY <1>3, <1>5, <1>6 DEF Sized, TargetLevel
  <2>6. PICK l : l = k + 1 OBVIOUS
  <2>7. At(lv, px, h, l - 1, v) /\ At(lv, px, p, l, v) BY <1>4, <1>6, <2>1, <2>6
  <2> QED BY <1>0, <1>3, <2>3, <2>4, <2>5, <2>6, <2>7, ParentLink
<1>17. Frames(lw, py)'
  <2>1. \E m \in DOMAIN heap' : m \in Nat /\ DOMAIN heap' = Root..m
    <3>1. DOMAIN heap' = 2..(n + 1) BY <1>7, <1>11
    <3>2. n + 1 \in DOMAIN heap' /\ n + 1 \in Nat BY <1>7, <3>1
    <3> QED BY <3>1, <3>2 DEF Root
  <2>2. \A h \in DOMAIN heap' : lw[h] \in 1..Levels /\ py[h] \in Nat
    <3>1. Prefix(v, k) \in Nat BY <1>3, <1>6, Digits
    <3>2. \A h \in DOMAIN heap : lv[h] \in 1..Levels /\ px[h] \in Nat BY <1>3 DEF Frames
    <3> QED BY <1>6, <1>11, <3>1, <3>2
  <2>3. lw[Root] = Levels /\ py[Root] = 0
    <3>1. Root \in DOMAIN heap BY <1>7 DEF Root
    <3> QED BY <1>3, <1>11, <3>1 DEF Frames
  <2>4. ASSUME NEW h \in DOMAIN heap', NEW x \in DOMAIN heap', lw[h] = lw[x], py[h] = py[x]
        PROVE  h = x
    <3>1. \A y \in DOMAIN heap : ~(lv[y] = k /\ px[y] = Prefix(v, k)) BY <1>16 DEF At
    <3>2. CASE h \in DOMAIN heap /\ x \in DOMAIN heap
      BY <1>3, <1>11, <2>4, <3>2 DEF Frames
    <3>3. CASE h = g \/ x = g BY <1>11, <2>4, <3>1, <3>3
    <3> QED BY <1>11, <3>2, <3>3
  <2>5. \A l, u : Has(lv, px, l, u) => Has(lw, py, l, u)' BY <1>11, <1>12 DEF Has
  <2>6. ASSUME NEW h \in DOMAIN heap', NEW u \in Vpns, py[h] = Prefix(u, lw[h]),
               NEW l \in lw[h]..Levels
        PROVE  Has(lw, py, l, u)'
    <3>1. CASE h \in DOMAIN heap
      <4>1. px[h] = Prefix(u, lv[h]) /\ l \in lv[h]..Levels BY <1>11, <2>6, <3>1
      <4> QED BY <1>3, <2>5, <3>1, <4>1 DEF Frames
    <3>2. CASE h = g
      <4>1. Prefix(v, k) = Prefix(u, k) /\ l \in k..Levels BY <1>11, <2>6, <3>2
      <4>2. CASE l = k
        <5>1. At(lw, py, g, l, u)' BY <1>11, <4>1, <4>2 DEF At
        <5> QED BY <1>11, <5>1 DEF Has
      <4>3. CASE l # k
        <5>1. l \in (k + 1)..Levels BY <1>6, <4>1, <4>3
        <5>2. Prefix(v, k + 1) = Prefix(u, k + 1)
          <6>1. PICK m : m = k + 1 OBVIOUS
          <6>2. m \in 1..Levels /\ m - 1 = k BY <1>6, <6>1
          <6>3. Prefix(v, m) = Prefix(u, m) BY <1>3, <4>1, <6>2, SamePrefix
          <6> QED BY <6>1, <6>3
        <5>3. px[p] = Prefix(u, lv[p]) /\ l \in lv[p]..Levels BY <1>4, <5>1, <5>2 DEF At
        <5> QED BY <1>3, <1>4, <2>5, <5>3 DEF Frames
      <4> QED BY <4>2, <4>3
    <3> QED BY <1>11, <3>1, <3>2
  <2>7. ASSUME NEW h \in DOMAIN heap' \ {Root} PROVE Linked(lw, py, h)'
    <3>1. CASE h \in DOMAIN heap
      <4>1. Linked(lv, px, h) BY <1>3, <2>7, <3>1 DEF Frames
      <4>2. PICK f \in DOMAIN heap, j \in Indices :
              /\ Child(lv, px, f, j, h)
              /\ \/ Link(heap[f][j], h)
                 \/ \E u \in Vpns : lv[h] = 1 /\ px[h] = Prefix(u, 1) /\ Promoted(u)
        BY <1>1, <4>1 DEF Linked, LinkPending
      <4>3. f \in DOMAIN heap' /\ heap'[f] = heap[f] /\ Child(lw, py, f, j, h)'
        BY <1>11, <1>13, <4>2
      <4>4. lw[h] = lv[h] /\ py[h] = px[h] BY <1>11, <3>1
      <4> QED BY <1>15, <4>2, <4>3, <4>4 DEF Linked
    <3>2. CASE h = g
      <4>1. i \in Indices
        <5>1. PICK m : m = k + 1 OBVIOUS
        <5> QED BY <1>0, <1>3, <1>6, <5>1, Digits
      <4>2. lw[p] = k + 1 /\ py[p] = Prefix(v, k + 1) BY <1>4, <1>11 DEF At
      <4>3. EntryFor(lw, py, p, i, v) BY <1>0, <1>3, <4>2 DEF EntryFor
      <4>4. lw[p] > 1 /\ lw[g] = lw[p] - 1 BY <1>6, <1>11, <4>2
      <4>5. Child(lw, py, p, i, g)'
        BY <1>3, <1>11, <4>3, <4>4 DEF Child, EntryFor
      <4>6. LinkPending(p, i, g)' BY <1>2 DEF LinkPending
      <4>7. p \in DOMAIN heap' BY <1>4, <1>11
      <4> QED BY <3>2, <4>1, <4>5, <4>6, <4>7 DEF Linked
    <3> QED BY <1>11, <3>1, <3>2
  <2>8. ASSUME NEW h \in DOMAIN heap'
        PROVE  /\ heap'[h] = [j \in Indices |-> heap'[h][j]]
               /\ \A j \in Indices : EntryRecord(heap'[h][j])
    <3>1. CASE h \in DOMAIN heap BY <1>3, <1>11, <3>1 DEF Frames
    <3>2. CASE h = g BY <1>11, <3>2 DEF EntryRecord, Uninitialized
    <3> QED BY <1>11, <3>1, <3>2
  <2> QED BY <2>1, <2>2, <2>3, <2>4, <2>6, <2>7, <2>8 DEF Frames, EntryRecord
<1>18. \A j \in Indices : Touched(g, j)'
  <2>1. SUFFICES ASSUME NEW j \in Indices PROVE Touched(g, j)' OBVIOUS
  <2>2. StoreTo(2 * j + 3, g, j, "next_level", Null) \in pending' BY <1>2 DEF InitStores
  <2> QED BY <2>2 DEF Touched, StoreTo
<1>19. Entries(lw, py)'
  <2>1. SUFFICES ASSUME NEW h \in DOMAIN heap', NEW j \in Indices, ~Touched(h, j)'
                 PROVE  Settled(lw, py, h, j)'
    BY DEF Entries
  <2>2. h \in DOMAIN heap BY <1>11, <1>18, <2>1
  <2>3. Settled(lv, px, h, j) BY <1>1, <1>3, <2>2 DEF Entries, Touched
  <2>4. lw[h] = lv[h] /\ py[h] = px[h] /\ heap'[h] = heap[h] BY <1>11, <2>2
  <2>5. \A u : EntryFor(lv, px, h, j, u) <=> EntryFor(lw, py, h, j, u)' BY <2>4 DEF EntryFor
  <2>6. \A x \in DOMAIN heap : Child(lv, px, h, j, x) => Child(lw, py, h, j, x)' /\ x \in DOMAIN heap'
    BY <1>11, <1>13, <2>2
  <2> QED BY <1>15, <2>3, <2>4, <2>5, <2>6 DEF Settled
<1>20. /\ up'.frame = g /\ up'.parent = p /\ up'.level = k /\ up'.size = up.size
       /\ up'.used = up.used + 1 /\ up'.done = up.done
  BY <1>0, <1>1, <1>3 DEF TypeOK
<1>21. TypeOK' BY <1>1, <1>3 DEF TypeOK
<1>22. Sized(v)'
  <2>1. up.used + 1 \in Nat /\ TargetLevel' = TargetLevel BY <1>5, <1>20 DEF TargetLevel
  <2> QED BY <1>0, <1>1, <1>3, <1>15, <1>20, <2>1 DEF Sized
<1>23. InFrame(lw, py, v, r)'
  <2>1. (up.used + 1) + k <= r + 1 BY <1>3, <1>4, <1>5, <1>6
  <2> QED BY <1>14, <1>20, <2>1 DEF InFrame
<1>24. Missing(lw, py, v, r)' BY <1>8, <1>20 DEF Missing
<1>25. NewOK(lw, py, v)'
  <2>1. At(lw, py, p, k + 1, v)' BY <1>4, <1>12
  <2>2. pending' \subseteq NewStores(v)' BY <1>0, <1>2, <1>20 DEF NewStores
  <2>3. Empty(heap'[p][i]) BY <1>4, <1>11
  <2>4. ASSUME NEW j \in Indices, NEW bit, bit = IF k = 1 THEN 1 ELSE 0
        PROVE  /\ heap'[g][j].is_pte = {0, 1} /\ heap'[g][j].word = {Null, -1}
               /\ StoreTo(2 * j + 2, g, j, "is_pte", bit) \in pending'
               /\ StoreTo(2 * j + 3, g, j, "next_level", Null) \in pending'
    <3>1. heap'[g][j] = Uninitialized BY <1>11
    <3>2. /\ StoreTo(2 * j + 2, g, j, "is_pte", bit) \in pending'
          /\ StoreTo(2 * j + 3, g, j, "next_level", Null) \in pending'
      BY <1>2, <2>4 DEF InitStores
    <3> QED BY <3>1, <3>2 DEF Uninitialized
  <2> QED BY <1>0, <1>20, <2>1, <2>2, <2>3, <2>4 DEF NewOK
<1>26. Storing(lw, py, v)' BY <1>4, <1>20, <1>25 DEF Storing
<1>27. Unpromoted(lw, py, v)'
  <2>1. SUFFICES ASSUME NEW h \in DOMAIN heap', At(lw, py, h, 2, v)', ~Touched(h, Index(v, 2))'
                 PROVE  heap'[h][Index(v, 2)].is_pte = {0}
    BY DEF Unpromoted
  <2>2. Index(v, 2) \in Indices BY <1>3, Digits, Constants
  <2>3. h \in DOMAIN heap BY <1>11, <1>18, <2>1, <2>2
  <2>4. At(lv, px, h, 2, v) BY <1>11, <2>1, <2>3 DEF At
  <2>5. heap[h][Index(v, 2)].is_pte = {0} BY <1>1, <1>3, <1>4, <2>3, <2>4 DEF Unpromoted, Touched
  <2> QED BY <1>11, <2>3, <2>5
<1>28. Unmapped(v)' BY <1>1, <1>3 DEF Unmapped
<1>29. Handled(lw, py)'
  <2>1. \A u : Found4KB(lv, px, u) => Found4KB(lw, py, u)' BY <1>11, <1>12 DEF Found4KB
  <2>2. \A u : Found2MB(lv, px, u) => Found2MB(lw, py, u)' BY <1>11, <1>12 DEF Found2MB
  <2>3. \A u : Busy(u) => Busy(u)' BY <1>1 DEF Busy, RegionOf
  <2> QED BY <1>1, <1>3, <1>15, <2>1, <2>2, <2>3 DEF Handled, UsedIn
<1>30. Updating(lw, py, v, r)' BY <1>22, <1>23, <1>24, <1>26, <1>27, <1>28 DEF Updating
<1>31. Good(lw, py)' BY <1>0, <1>1, <1>12, <1>17, <1>19, <1>21, <1>29, <1>30, UpdaterKeeps
<1> QED BY <1>31 DEF Inv

-----------------------------------------------------------------------------
(* A store reaches memory.                                                 *)

StoreOf(s) ==
    /\ s \in pending
    /\ heap' = [heap EXCEPT ![s.frame][s.index] = Stored(@, s)]
    /\ pending' = pending \ {s}
    /\ UNCHANGED <<pc, walk, requested, up, osVars>>

\* What a store may not do to entry i of f, of the update for v.
Benign(lv, px, f, i, v) ==
    /\ EntryRecord(heap'[f][i])
    /\ \A g \in DOMAIN heap : Child(lv, px, f, i, g) /\ Link(heap[f][i], g) =>
          \/ Link(heap'[f][i], g)
          \/ \E u \in Vpns : lv[g] = 1 /\ px[g] = Prefix(u, 1) /\ Promoted(u)
    /\ \A h, j : \A g \in DOMAIN heap : LinkPending(h, j, g) /\ ~LinkPending(h, j, g)' =>
          h = f /\ j = i /\ Link(heap'[f][i], g)
    /\ ~Touched(f, i)' => Settled(lv, px, f, i)'
    /\ \A u \in Vpns : lv[f] = 1 /\ EntryFor(lv, px, f, i, u) /\ Entry4KB(heap[f][i], u) =>
          Entry4KB(heap'[f][i], u)
    /\ \A u \in Vpns : /\ lv[f] = 2 /\ EntryFor(lv, px, f, i, u) /\ Entry2MB(heap[f][i], u)
                       /\ u \notin RegionOf(v)
                       => Entry2MB(heap'[f][i], u)
    /\ ~up.done /\ lv[f] = 2 /\ ~Touched(f, i)' => heap'[f][i].is_pte = {0}
    /\ Storing(lv, px, v)'

\* The store changes one entry of one frame.
LEMMA StoreFacts ==
    ASSUME NEW lv, NEW px, Good(lv, px), NEW c \in Cores, pc[c] = "update",
           NEW s, StoreOf(s), NEW f, f = s.frame, NEW i, i = s.index
    PROVE  /\ f \in DOMAIN heap /\ i \in Indices /\ DOMAIN heap' = DOMAIN heap
           /\ heap'[f][i] = Stored(heap[f][i], s) /\ EntryRecord(heap[f][i])
           /\ \A h \in DOMAIN heap, j \in Indices : h # f \/ j # i => heap'[h][j] = heap[h][j]
           /\ \A h \in DOMAIN heap : heap'[h] = [j \in Indices |-> heap'[h][j]]
           /\ up.frame # Null
<1>0. PICK v, r, w : v = walk[c].vpn /\ r = requested[c] /\ w = walk[c].level OBVIOUS
<1>1. s \in pending /\ pending # {} /\ heap' = [heap EXCEPT ![f][i] = Stored(@, s)]
  BY DEF StoreOf
<1>2. /\ Frames(lv, px) /\ v \in Vpns /\ Sized(v) /\ InFrame(lv, px, v, r)
      /\ Missing(lv, px, v, r) /\ UpdateOK(lv, px, c)
  BY <1>0, UpdaterFacts DEF Updates
<1>3. up.frame # Null BY <1>1, <1>2 DEF Missing
<1>4. At(lv, px, up.frame, up.level, v) BY <1>2, <1>3 DEF InFrame
<1>5. Touched(f, i) BY <1>1 DEF Touched
<1>6. f \in DOMAIN heap /\ i \in Indices
  <2>0. up.level \in 1..Levels BY <1>2, <1>4 DEF At, Frames
  <2>1. CASE f = up.frame /\ i = Index(v, up.level) BY <1>2, <1>4, <2>0, <2>1, Digits DEF At
  <2>2. CASE NewOK(lv, px, v) /\ f = up.parent /\ i = Index(v, up.level + 1)
    <3>1. PICK l : l = up.level + 1 OBVIOUS
    <3>2. At(lv, px, f, l, v) BY <2>2, <3>1 DEF NewOK
    <3>3. l \in 1..Levels /\ f \in DOMAIN heap BY <1>2, <3>2 DEF At, Frames
    <3> QED BY <1>2, <2>2, <3>1, <3>3, Digits
  <2>3. CASE f = up.frame /\ i \in Indices BY <1>4, <2>3 DEF At
  <2> QED BY <1>0, <1>2, <1>5, <2>1, <2>2, <2>3, TouchedEntries
<1>7. \A h \in DOMAIN heap : heap[h] = [j \in Indices |-> heap[h][j]]
                             /\ \A j \in Indices : EntryRecord(heap[h][j])
  BY <1>2 DEF Frames
<1>8. DOMAIN heap' = DOMAIN heap BY <1>1
<1>9. \A h \in DOMAIN heap :
        heap'[h] = IF h = f THEN [heap[h] EXCEPT ![i] = Stored(@, s)] ELSE heap[h]
  BY <1>1, <1>6
<1>10. heap'[f] = [heap[f] EXCEPT ![i] = Stored(@, s)] BY <1>6, <1>9
<1>11. heap'[f][i] = Stored(heap[f][i], s) BY <1>6, <1>7, <1>10
<1>12. \A j \in Indices : j # i => heap'[f][j] = heap[f][j] BY <1>6, <1>7, <1>10
<1>13. heap'[f] = [j \in Indices |-> heap'[f][j]] BY <1>6, <1>7, <1>10
<1> QED BY <1>3, <1>6, <1>7, <1>8, <1>9, <1>11, <1>12, <1>13

\* A benign store keeps the invariant.
LEMMA BenignStore ==
    ASSUME NEW lv, NEW px, Good(lv, px), NEW c \in Cores, pc[c] = "update",
           NEW s, StoreOf(s), NEW f, f = s.frame, NEW i, i = s.index,
           NEW v, v = walk[c].vpn, Benign(lv, px, f, i, v)
    PROVE  Good(lv, px)'
<1>0. PICK r, w : r = requested[c] /\ w = walk[c].level OBVIOUS
<1>1. /\ pending' = pending \ {s} /\ UNCHANGED <<pc, walk, requested, osVars>>
      /\ pc' = pc /\ walk' = walk /\ requested' = requested /\ up' = up
      /\ threshold' = threshold /\ in_use' = in_use /\ mapped' = mapped
  BY DEF StoreOf, osVars
<1>2. /\ TypeOK /\ Frames(lv, px) /\ Entries(lv, px) /\ Updates(lv, px) /\ Handled(lv, px)
      /\ v \in Vpns /\ Sized(v) /\ InFrame(lv, px, v, r) /\ Missing(lv, px, v, r)
      /\ Unpromoted(lv, px, v) /\ Unmapped(v)
  BY <1>0, UpdaterFacts
<1>3. /\ f \in DOMAIN heap /\ i \in Indices /\ DOMAIN heap' = DOMAIN heap
      /\ \A h \in DOMAIN heap, j \in Indices : h # f \/ j # i => heap'[h][j] = heap[h][j]
      /\ \A h \in DOMAIN heap : heap'[h] = [j \in Indices |-> heap'[h][j]]
      /\ up.frame # Null
  BY StoreFacts
<1>4. /\ \A h, l, u : At(lv, px, h, l, u)' <=> At(lv, px, h, l, u)
      /\ \A l, u : Has(lv, px, l, u)' <=> Has(lv, px, l, u)
      /\ \A h, j, g : Child(lv, px, h, j, g)' <=> Child(lv, px, h, j, g)
  BY <1>3, SameFrames
<1>5. \A u : Promoted(u)' <=> Promoted(u) BY <1>1, SamePromotion
<1>6. ASSUME NEW g \in DOMAIN heap, Linked(lv, px, g) PROVE Linked(lv, px, g)'
  <2>1. PICK h \in DOMAIN heap, j \in Indices :
          /\ Child(lv, px, h, j, g)
          /\ \/ Link(heap[h][j], g)
             \/ LinkPending(h, j, g)
             \/ \E u \in Vpns : lv[g] = 1 /\ px[g] = Prefix(u, 1) /\ Promoted(u)
    BY <1>6 DEF Linked
  <2>2. \/ Link(heap'[h][j], g)
        \/ LinkPending(h, j, g)'
        \/ \E u \in Vpns : lv[g] = 1 /\ px[g] = Prefix(u, 1) /\ Promoted(u)
    <3>1. CASE Link(heap[h][j], g) BY <1>3, <2>1, <3>1 DEF Benign
    <3>2. CASE LinkPending(h, j, g) BY <3>2 DEF Benign
    <3> QED BY <2>1, <3>1, <3>2
  <2> QED BY <1>3, <1>4, <1>5, <2>1, <2>2 DEF Linked
<1>7. Frames(lv, px)'
  <2>1. \A h \in DOMAIN heap : /\ heap'[h] = [j \in Indices |-> heap'[h][j]]
                               /\ \A j \in Indices : EntryRecord(heap'[h][j])
    <3>1. \A h \in DOMAIN heap, j \in Indices : EntryRecord(heap'[h][j])
      BY <1>2, <1>3 DEF Frames, Benign
    <3> QED BY <1>3, <3>1
  <2>2. \A h \in DOMAIN heap, u \in Vpns : px[h] = Prefix(u, lv[h]) =>
          \A l \in lv[h]..Levels : Has(lv, px, l, u)'
    BY <1>2, <1>4 DEF Frames
  <2>3. \A g \in DOMAIN heap \ {Root} : Linked(lv, px, g)' BY <1>2, <1>6 DEF Frames
  <2>4. /\ \E n \in DOMAIN heap' : n \in Nat /\ DOMAIN heap' = Root..n
        /\ \A h \in DOMAIN heap' : lv[h] \in 1..Levels /\ px[h] \in Nat
        /\ lv[Root] = Levels /\ px[Root] = 0
        /\ \A h, g \in DOMAIN heap' : lv[h] = lv[g] /\ px[h] = px[g] => h = g
    BY <1>2, <1>3 DEF Frames
  <2> QED BY <1>3, <2>1, <2>2, <2>3, <2>4 DEF Frames, EntryRecord
<1>8. \A h \in DOMAIN heap, j \in Indices : (h # f \/ j # i) /\ ~Touched(h, j)' => ~Touched(h, j)
  BY <1>1 DEF Touched
<1>9. Entries(lv, px)'
  <2>1. SUFFICES ASSUME NEW h \in DOMAIN heap, NEW j \in Indices, ~Touched(h, j)'
                 PROVE  Settled(lv, px, h, j)'
    BY <1>3 DEF Entries
  <2>2. CASE h = f /\ j = i BY <2>1, <2>2 DEF Benign
  <2>3. CASE h # f \/ j # i
    <3>1. Settled(lv, px, h, j) BY <1>2, <1>8, <2>1, <2>3 DEF Entries
    <3>2. heap'[h][j] = heap[h][j] BY <1>3, <2>3
    <3> QED BY <1>3, <1>4, <1>5, <3>1, <3>2 DEF Settled
  <2> QED BY <2>2, <2>3
<1>10. Sized(v)' BY <1>1, <1>2, <1>5 DEF Sized, TargetLevel
<1>11. InFrame(lv, px, v, r)' BY <1>1, <1>2, <1>4 DEF InFrame
<1>12. Missing(lv, px, v, r)' BY <1>1, <1>3 DEF Missing
<1>13. Unpromoted(lv, px, v)'
  <2>1. SUFFICES ASSUME NEW h \in DOMAIN heap, At(lv, px, h, 2, v), ~Touched(h, Index(v, 2))', ~up.done
                 PROVE  heap'[h][Index(v, 2)].is_pte = {0}
    BY <1>1, <1>3, <1>4 DEF Unpromoted
  <2>2. Index(v, 2) \in Indices BY <1>2, Digits, Constants
  <2>3. CASE h = f /\ Index(v, 2) = i BY <2>1, <2>3 DEF Benign, At
  <2>4. CASE h # f \/ Index(v, 2) # i
    <3>1. ~Touched(h, Index(v, 2)) BY <1>8, <2>1, <2>2, <2>4
    <3> QED BY <1>2, <1>3, <2>1, <2>2, <2>4, <3>1 DEF Unpromoted
  <2> QED BY <2>3, <2>4
<1>14. Unmapped(v)' BY <1>1, <1>2 DEF Unmapped
<1>15. Updating(lv, px, v, r)'
  BY <1>10, <1>11, <1>12, <1>13, <1>14 DEF Updating, Benign
<1>16. Handled(lv, px)'
  <2>1. \A u : Busy(u)' <=> Busy(u) BY <1>1 DEF Busy, RegionOf
  <2>2. IsFiniteSet(in_use') /\ in_use' \subseteq Vpns /\ threshold' \in Nat
    BY <1>1, <1>2 DEF Handled
  <2>3. ASSUME NEW u \in mapped
        PROVE  /\ u \in Vpns /\ UsedIn(u)' # {}
               /\ ~Promoted(u)' => Found4KB(lv, px, u)'
               /\ Promoted(u)' /\ ~Busy(u)' => Found2MB(lv, px, u)'
    <3>1. u \in Vpns /\ UsedIn(u) # {} BY <1>2 DEF Handled
    <3>2. UsedIn(u)' # {} BY <1>1, <3>1 DEF UsedIn
    <3>3. ASSUME ~Promoted(u) PROVE Found4KB(lv, px, u)'
      <4>1. PICK h \in DOMAIN heap : At(lv, px, h, 1, u) /\ Entry4KB(heap[h][Index(u, 1)], u)
        BY <1>2, <3>3 DEF Handled, Found4KB
      <4>2. Index(u, 1) \in Indices /\ EntryFor(lv, px, h, Index(u, 1), u) /\ lv[h] = 1
        BY <3>1, <4>1, Digits, Constants DEF At, EntryFor
      <4>3. Entry4KB(heap'[h][Index(u, 1)], u) BY <1>3, <3>1, <4>1, <4>2 DEF Benign
      <4> QED BY <1>3, <1>4, <4>1, <4>3 DEF Found4KB
    <3>4. ASSUME Promoted(u), ~Busy(u) PROVE Found2MB(lv, px, u)'
      <4>1. PICK h \in DOMAIN heap : At(lv, px, h, 2, u) /\ Entry2MB(heap[h][Index(u, 2)], u)
        BY <1>2, <3>4 DEF Handled, Found2MB
      <4>2. Index(u, 2) \in Indices /\ EntryFor(lv, px, h, Index(u, 2), u) /\ lv[h] = 2
        BY <3>1, <4>1, Digits, Constants DEF At, EntryFor
      <4>3. u \notin RegionOf(v) BY <3>4 DEF Busy
      <4>4. Entry2MB(heap'[h][Index(u, 2)], u) BY <1>3, <3>1, <4>1, <4>2, <4>3 DEF Benign
      <4> QED BY <1>3, <1>4, <4>1, <4>4 DEF Found2MB
    <3> QED BY <1>5, <2>1, <3>1, <3>2, <3>3, <3>4
  <2> QED BY <1>1, <2>2, <2>3 DEF Handled
<1>17. TypeOK' BY <1>1, <1>2 DEF TypeOK
<1>18. \A h, l, u : At(lv, px, h, l, u) => At(lv, px, h, l, u)' BY <1>4
<1> QED BY <1>0, <1>1, <1>7, <1>9, <1>15, <1>16, <1>17, <1>18, UpdaterKeeps

\* The stores that make a new frame are told apart by their fields.
LEMMA StoreFields ==
    ASSUME NEW n, NEW f, NEW i, NEW d, NEW x, NEW s, s = StoreTo(n, f, i, d, x)
    PROVE  s.nth = n /\ s.frame = f /\ s.index = i /\ s.field = d /\ s.value = x
BY DEF StoreTo

\* The link of a new frame.
LEMMA LinkStore ==
    ASSUME NEW lv, NEW px, Good(lv, px), NEW c \in Cores, pc[c] = "update", ~up.done,
           NEW s, StoreOf(s), NEW v, v = walk[c].vpn,
           s = StoreTo(1, up.parent, Index(v, up.level + 1), "next_level", up.frame)
    PROVE  Benign(lv, px, s.frame, s.index, v)
<1>0. PICK r, w, k, f, g, i : /\ r = requested[c] /\ w = walk[c].level /\ k = up.level
                              /\ f = up.parent /\ g = up.frame /\ i = Index(v, k + 1)
  OBVIOUS
<1>1. s = StoreTo(1, f, i, "next_level", g) BY <1>0
<1>2. s.frame = f /\ s.index = i /\ s.field = "next_level" /\ s.value = g
  BY <1>1, StoreFields
<1>3. /\ Frames(lv, px) /\ v \in Vpns /\ Sized(v) /\ InFrame(lv, px, v, r)
      /\ Storing(lv, px, v) /\ Updates(lv, px)
  BY <1>0, UpdaterFacts
<1>4. /\ f \in DOMAIN heap /\ i \in Indices /\ DOMAIN heap' = DOMAIN heap
      /\ heap'[f][i] = Stored(heap[f][i], s) /\ EntryRecord(heap[f][i])
      /\ \A h \in DOMAIN heap, j \in Indices : h # f \/ j # i => heap'[h][j] = heap[h][j]
      /\ g # Null
  BY <1>0, <1>2, StoreFacts
<1>5. /\ s \in pending /\ pending' = pending \ {s} /\ up' = up BY DEF StoreOf
<1>6. NewOK(lv, px, v) BY <1>3, <1>5 DEF Storing
<1>7. At(lv, px, f, k + 1, v) /\ At(lv, px, g, k, v) /\ Empty(heap[f][i])
  BY <1>0, <1>1, <1>3, <1>4, <1>5, <1>6 DEF NewOK, InFrame, LinkPending
<1>8. k \in Nat /\ k >= 1 /\ lv[f] = k + 1 /\ lv[g] = k /\ g \in DOMAIN heap
  BY <1>3, <1>7 DEF At, Frames
<1>9. f # g BY <1>8
<1>10. heap'[f][i] = [heap[f][i] EXCEPT !.word = {g}] BY <1>2, <1>4 DEF Stored
<1>11. Link(heap'[f][i], g) /\ EntryRecord(heap'[f][i])
  BY <1>4, <1>7, <1>10 DEF Empty, Link, EntryRecord
<1>12. /\ \A h, l, u : At(lv, px, h, l, u)' <=> At(lv, px, h, l, u)
       /\ \A h, j, x : Child(lv, px, h, j, x)' <=> Child(lv, px, h, j, x)
  BY <1>4, SameFrames
<1>13. \A x \in DOMAIN heap : ~Link(heap[f][i], x)
  BY <1>3, <1>7, FrameFacts DEF Link, Empty
<1>14. \A h, j : \A x \in DOMAIN heap : LinkPending(h, j, x) /\ ~LinkPending(h, j, x)' =>
         h = f /\ j = i /\ Link(heap'[f][i], x)
  <2>1. SUFFICES ASSUME NEW h, NEW j, NEW x \in DOMAIN heap,
                        LinkPending(h, j, x), ~LinkPending(h, j, x)'
                 PROVE  h = f /\ j = i /\ x = g
    BY <1>11
  <2>2. s = StoreTo(1, h, j, "next_level", x) BY <1>5, <2>1 DEF LinkPending
  <2> QED BY <1>2, <2>2, StoreFields
<1>15. Settled(lv, px, f, i)'
  <2>1. PICK l : l = k + 1 OBVIOUS
  <2>2. At(lv, px, f, l, v) /\ At(lv, px, g, l - 1, v) /\ l > 1 /\ i = Index(v, l)
    BY <1>0, <1>7, <1>8, <2>1
  <2>3. Child(lv, px, f, i, g) BY <1>3, <2>2, AtChild
  <2>4. lv[f] # 1 BY <1>8
  <2> QED BY <1>4, <1>8, <1>11, <1>12, <2>3, <2>4 DEF Settled
<1>16. heap[f][i].is_pte = {0} /\ heap'[f][i].is_pte = {0} BY <1>7, <1>11 DEF Empty, Link
<1>17. \A u : ~Entry4KB(heap[f][i], u) /\ ~Entry2MB(heap[f][i], u)
  BY <1>16 DEF Entry4KB, Entry2MB
<1>18. NewOK(lv, px, v)'
  <2>1. At(lv, px, f, k + 1, v)' BY <1>7, <1>12
  <2>2. pending' \subseteq NewStores(v)' BY <1>5, <1>6 DEF NewOK, NewStores
  <2>3. ~LinkPending(f, i, g)' BY <1>1, <1>5 DEF LinkPending
  <2>4. ASSUME NEW j \in Indices, NEW n, NEW d, NEW x
        PROVE  StoreTo(n, g, j, d, x) \in pending' <=> StoreTo(n, g, j, d, x) \in pending
    <3>1. StoreTo(n, g, j, d, x).frame = g BY StoreFields
    <3> QED BY <1>2, <1>5, <1>9, <3>1
  <2>5. \A j \in Indices : heap'[g][j] = heap[g][j] BY <1>4, <1>8, <1>9
  <2>6. \A j \in Indices :
          LET e == heap'[g][j]
              bit == IF k = 1 THEN 1 ELSE 0
          IN  /\ e.is_pte = IF StoreTo(2 * j + 2, g, j, "is_pte", bit) \in pending'
                            THEN {0, 1} ELSE {bit}
              /\ e.word = IF StoreTo(2 * j + 3, g, j, "next_level", Null) \in pending'
                          THEN {Null, -1} ELSE {Null}
    BY <1>0, <1>6, <2>4, <2>5 DEF NewOK
  <2> QED BY <1>0, <1>5, <2>1, <2>2, <2>3, <2>6 DEF NewOK
<1>19. Storing(lv, px, v)' BY <1>5, <1>18 DEF Storing
<1> QED BY <1>2, <1>11, <1>13, <1>14, <1>15, <1>16, <1>17, <1>19 DEF Benign

\* A store that initialises an entry of a new frame.
LEMMA InitStore ==
    ASSUME NEW lv, NEW px, Good(lv, px), NEW c \in Cores, pc[c] = "update", ~up.done,
           NEW s, StoreOf(s), NEW v, v = walk[c].vpn, NEW i \in Indices,
           NEW bit, bit = IF up.level = 1 THEN 1 ELSE 0,
           \/ s = StoreTo(2 * i + 2, up.frame, i, "is_pte", bit)
           \/ s = StoreTo(2 * i + 3, up.frame, i, "next_level", Null)
    PROVE  Benign(lv, px, s.frame, s.index, v)
<1>0. PICK r, w, k, f, p : /\ r = requested[c] /\ w = walk[c].level /\ k = up.level
                           /\ f = up.frame /\ p = up.parent
  OBVIOUS
<1>1. s.frame = f /\ s.index = i BY <1>0, StoreFields
<1>2. \/ s.field = "is_pte" /\ s.value = bit
      \/ s.field = "next_level" /\ s.value = Null
  BY StoreFields
<1>3. /\ Frames(lv, px) /\ v \in Vpns /\ Sized(v) /\ InFrame(lv, px, v, r)
      /\ Storing(lv, px, v) /\ Updates(lv, px)
  BY <1>0, UpdaterFacts
<1>4. /\ f \in DOMAIN heap /\ DOMAIN heap' = DOMAIN heap
      /\ heap'[f][i] = Stored(heap[f][i], s) /\ EntryRecord(heap[f][i])
      /\ \A h \in DOMAIN heap, j \in Indices : h # f \/ j # i => heap'[h][j] = heap[h][j]
      /\ f # Null
  BY <1>0, <1>1, StoreFacts
<1>5. /\ s \in pending /\ pending' = pending \ {s} /\ up' = up BY DEF StoreOf
<1>6. NewOK(lv, px, v) BY <1>3, <1>5 DEF Storing
<1>7. At(lv, px, p, k + 1, v) /\ At(lv, px, f, k, v) BY <1>0, <1>3, <1>4, <1>6 DEF NewOK, InFrame
<1>8. k \in Nat /\ k >= 1 /\ lv[p] = k + 1 /\ lv[f] = k /\ p \in DOMAIN heap /\ p # f
  <2>1. lv[p] = k + 1 /\ lv[f] = k /\ p \in DOMAIN heap BY <1>7 DEF At
  <2>2. k \in Nat /\ k >= 1 BY <1>3, <1>4, <2>1 DEF Frames
  <2> QED BY <2>1, <2>2
<1>9. \A h, l, u : At(lv, px, h, l, u)' <=> At(lv, px, h, l, u) BY <1>4, SameFrames
<1>10. ASSUME NEW h, NEW j, NEW x, x # Null
       PROVE  LinkPending(h, j, x)' <=> LinkPending(h, j, x)
  <2>1. StoreTo(1, h, j, "next_level", x).field = "next_level"
        /\ StoreTo(1, h, j, "next_level", x).value = x
    BY StoreFields
  <2>2. StoreTo(1, h, j, "next_level", x) # s BY <1>2, <1>10, <2>1
  <2> QED BY <1>5, <2>2 DEF LinkPending
<1>11. NewOK(lv, px, v)'
  <2>1. At(lv, px, p, k + 1, v)' BY <1>7, <1>9
  <2>2. pending' \subseteq NewStores(v)' BY <1>5, <1>6 DEF NewOK, NewStores
  <2>3. LinkPending(p, Index(v, k + 1), f)' => Empty(heap'[p][Index(v, k + 1)])
    <3>1. SUFFICES ASSUME LinkPending(p, Index(v, k + 1), f)
                   PROVE  Empty(heap'[p][Index(v, k + 1)])
      BY <1>4, <1>10
    <3>2. Empty(heap[p][Index(v, k + 1)]) BY <1>0, <1>6, <3>1 DEF NewOK
    <3>3. PICK l : l = k + 1 OBVIOUS
    <3>4. l \in 1..Levels BY <1>3, <1>8, <3>3 DEF Frames
    <3>5. Index(v, l) \in Indices BY <1>3, <3>4, Digits
    <3>6. heap'[p][Index(v, l)] = heap[p][Index(v, l)] BY <1>4, <1>8, <3>5
    <3> QED BY <3>2, <3>3, <3>6
  <2>4. ASSUME NEW j \in Indices
        PROVE  /\ heap'[f][j].is_pte =
                     IF StoreTo(2 * j + 2, f, j, "is_pte", bit) \in pending' THEN {0, 1} ELSE {bit}
               /\ heap'[f][j].word =
                     IF StoreTo(2 * j + 3, f, j, "next_level", Null) \in pending'
                     THEN {Null, -1} ELSE {Null}
    <3> DEFINE a == StoreTo(2 * j + 2, f, j, "is_pte", bit)
               b == StoreTo(2 * j + 3, f, j, "next_level", Null)
    <3>1. /\ heap[f][j].is_pte = IF a \in pending THEN {0, 1} ELSE {bit}
          /\ heap[f][j].word = IF b \in pending THEN {Null, -1} ELSE {Null}
      BY <1>0, <1>6 DEF NewOK
    <3>2. a.index = j /\ a.field = "is_pte" /\ b.index = j /\ b.field = "next_level"
      BY StoreFields
    <3>6. j = i => s = a \/ s = b BY <1>0
    <3> HIDE DEF a, b
    <3>3. CASE j # i
      <4>1. a # s /\ b # s /\ heap'[f][j] = heap[f][j] BY <1>1, <1>4, <3>2, <3>3
      <4> QED BY <1>5, <3>1, <4>1 DEF a, b
    <3>4. CASE j = i /\ s = a
      <4>1. s.field = "is_pte" /\ s.value = bit BY <1>2, <3>2, <3>4
      <4>2. heap'[f][j] = [heap[f][j] EXCEPT !.is_pte = {bit}] BY <1>4, <3>4, <4>1 DEF Stored
      <4>3. heap'[f][j].is_pte = {bit} /\ heap'[f][j].word = heap[f][j].word
        BY <1>4, <3>4, <4>2 DEF EntryRecord
      <4>4. b # s BY <3>2, <3>4
      <4> QED BY <1>5, <3>1, <3>4, <4>3, <4>4 DEF a, b
    <3>5. CASE j = i /\ s = b
      <4>1. s.field = "next_level" /\ s.value = Null BY <1>2, <3>2, <3>5
      <4>2. heap'[f][j] = [heap[f][j] EXCEPT !.word = {Null}] BY <1>4, <3>5, <4>1 DEF Stored
      <4>3. heap'[f][j].word = {Null} /\ heap'[f][j].is_pte = heap[f][j].is_pte
        BY <1>4, <3>5, <4>2 DEF EntryRecord
      <4>4. a # s BY <3>2, <3>5
      <4> QED BY <1>5, <3>1, <3>5, <4>3, <4>4 DEF a, b
    <3> QED BY <3>3, <3>4, <3>5, <3>6
  <2> QED BY <1>0, <1>5, <2>1, <2>2, <2>3, <2>4 DEF NewOK
<1>12. Storing(lv, px, v)' BY <1>5, <1>11 DEF Storing
<1>13. EntryRecord(heap'[f][i])
  <2>1. heap'[f][i] = [heap[f][i] EXCEPT !.is_pte = {bit}]
        \/ heap'[f][i] = [heap[f][i] EXCEPT !.word = {Null}]
    BY <1>2, <1>4 DEF Stored
  <2> QED BY <1>4, <2>1 DEF EntryRecord
<1>14. ~ValidWord(heap[f][i].word) /\ \A x : heap[f][i].word = {x} => x = Null
  BY <1>0, <1>6, NewWords
<1>15. \A x \in DOMAIN heap : x # Null BY <1>3, FrameFacts
<1>16. \A u : ~Entry4KB(heap[f][i], u) /\ ~Entry2MB(heap[f][i], u)
  BY <1>14 DEF Entry4KB, Entry2MB, Null
<1>17. ~Touched(f, i)' => heap'[f][i].is_pte = {bit} /\ heap'[f][i].word = {Null}
  <2>1. SUFFICES ASSUME ~Touched(f, i)'
                 PROVE  heap'[f][i].is_pte = {bit} /\ heap'[f][i].word = {Null}
    OBVIOUS
  <2>2. /\ StoreTo(2 * i + 2, f, i, "is_pte", bit) \notin pending'
        /\ StoreTo(2 * i + 3, f, i, "next_level", Null) \notin pending'
    BY <2>1 DEF Touched, StoreTo
  <2> QED BY <1>0, <1>5, <1>11, <2>2 DEF NewOK
<1>18. ~Touched(f, i)' => Settled(lv, px, f, i)'
  BY <1>0, <1>8, <1>17 DEF Settled, Unset4KB, Empty
<1>19. lv[f] = 2 => bit = 0 BY <1>0, <1>8
<1> QED BY <1>1, <1>10, <1>12, <1>13, <1>14, <1>15, <1>16, <1>17, <1>18, <1>19 DEF Benign, Link

\* A store that sets an entry.
LEMMA EntryStore ==
    ASSUME NEW lv, NEW px, Good(lv, px), NEW c \in Cores, pc[c] = "update", up.done,
           NEW s, StoreOf(s), NEW v, v = walk[c].vpn
    PROVE  Benign(lv, px, s.frame, s.index, v)
<1>0. PICK r, w, k, f, i, p : /\ r = requested[c] /\ w = walk[c].level /\ k = up.level
                              /\ f = up.frame /\ i = Index(v, k) /\ p = TargetPage(v)
  OBVIOUS
<1>1. /\ Frames(lv, px) /\ v \in Vpns /\ Sized(v) /\ InFrame(lv, px, v, r)
      /\ Storing(lv, px, v) /\ Updates(lv, px)
  BY <1>0, UpdaterFacts
<1>2. s \in pending /\ pending' = pending \ {s} /\ up' = up BY DEF StoreOf
<1>3. SetOK(lv, px, v) BY <1>1 DEF Storing
<1>4. pending \subseteq EntryStores(f, i, p) /\ k = TargetLevel /\ k \in {1, 2} /\ f # Null
  BY <1>0, <1>3 DEF SetOK, TargetLevel
<1>5. PICK a, b, d : /\ a = StoreTo(1, f, i, "valid", 1) /\ b = StoreTo(2, f, i, "ppn", p)
                     /\ d = StoreTo(3, f, i, "is_pte", 1)
  OBVIOUS
<1>6. /\ a.field = "valid" /\ b.field = "ppn" /\ d.field = "is_pte" /\ a.value = 1
      /\ b.value = p /\ d.value = 1 /\ a.frame = f /\ b.frame = f /\ d.frame = f
      /\ a.index = i /\ b.index = i /\ d.index = i
  BY <1>5, StoreFields
<1>7. s \in {a, b, d} /\ pending \subseteq {a, b, d} BY <1>2, <1>4, <1>5 DEF EntryStores
<1>8. s.frame = f /\ s.index = i BY <1>6, <1>7
<1>9. a # b /\ a # d /\ b # d BY <1>6
<1>10. /\ f \in DOMAIN heap /\ i \in Indices /\ DOMAIN heap' = DOMAIN heap
       /\ heap'[f][i] = Stored(heap[f][i], s) /\ EntryRecord(heap[f][i])
  BY <1>8, StoreFacts
<1>11. PICK e : e = heap[f][i] OBVIOUS
<1>12. PICK n : n = heap'[f][i] OBVIOUS
<1>13. /\ EntryRecord(n)
       /\ s = a => n.is_pte = e.is_pte /\ n.ppn = e.ppn /\ n.word = {Flagged(x) : x \in e.word}
       /\ s = b => n.is_pte = e.is_pte /\ n.ppn = {p} /\ n.word = e.word
       /\ s = d => n.is_pte = {1} /\ n.ppn = e.ppn /\ n.word = e.word
  <2>1. CASE s = a
    <3>1. n = [e EXCEPT !.word = {Flagged(x) : x \in @}]
      BY <1>6, <1>10, <1>11, <1>12, <2>1 DEF Stored
    <3> QED BY <1>9, <1>10, <1>11, <2>1, <3>1 DEF EntryRecord
  <2>2. CASE s = b
    <3>1. n = [e EXCEPT !.ppn = {p}] BY <1>6, <1>10, <1>11, <1>12, <2>2 DEF Stored
    <3> QED BY <1>9, <1>10, <1>11, <2>2, <3>1 DEF EntryRecord
  <2>3. CASE s = d
    <3>1. n = [e EXCEPT !.is_pte = {1}] BY <1>6, <1>10, <1>11, <1>12, <2>3 DEF Stored
    <3> QED BY <1>9, <1>10, <1>11, <2>3, <3>1 DEF EntryRecord
  <2> QED BY <1>7, <2>1, <2>2, <2>3
<1>14. /\ e.is_pte = IF d \in pending /\ k = 2 THEN {0} ELSE {1}
       /\ a \in pending => \/ e.word = {Null}
                           \/ k = 1 /\ e.word = {1} /\ e.ppn = {v}
                           \/ k = 2 /\ \E g \in DOMAIN heap : e.word = {g} /\ Child(lv, px, f, i, g)
       /\ a \notin pending => ValidWord(e.word) /\ (k = 1 => e.word = {1})
       /\ b \notin pending => e.ppn = {p}
  BY <1>0, <1>3, <1>5, <1>11 DEF SetOK
<1>15. At(lv, px, f, k, v) /\ lv[f] = k /\ px[f] = Prefix(v, k)
  BY <1>0, <1>1, <1>4 DEF InFrame, At
<1>16. k = 1 => p = v BY <1>0, <1>4 DEF TargetLevel, TargetPage
<1>17. k = 2 => Promoted(v) /\ p = Base(v) BY <1>0, <1>1, <1>4 DEF Sized, TargetLevel, TargetPage
<1>18. \A g \in DOMAIN heap : g \in Nat /\ g >= 2 BY <1>1, FrameFacts
<1>19. s = a => ValidWord(n.word) /\ (k = 1 => n.word = {1})
  <2>1. SUFFICES ASSUME s = a PROVE ValidWord(n.word) /\ (k = 1 => n.word = {1}) OBVIOUS
  <2>2. n.word = {Flagged(x) : x \in e.word} BY <1>13, <2>1
  <2>3. CASE e.word = {Null} \/ e.word = {1}
    <3>1. Flagged(Null) = 1 /\ Flagged(1) = 1 BY DEF Flagged, Null
    <3>2. n.word = {1} BY <2>2, <2>3, <3>1
    <3> QED BY <3>2 DEF ValidWord, Null
  <2>4. CASE k = 2 /\ \E g \in DOMAIN heap : e.word = {g} /\ Child(lv, px, f, i, g)
    <3>1. PICK g \in DOMAIN heap : e.word = {g} BY <2>4
    <3>2. n.word = {-g} /\ -g \in Int /\ -g <= 1 /\ -g # Null
      BY <1>18, <2>2, <3>1 DEF Flagged, Null
    <3> QED BY <2>4, <3>2 DEF ValidWord
  <2> QED BY <1>2, <1>14, <2>1, <2>3, <2>4
<1>20. \A g : Child(lv, px, f, i, g)' <=> Child(lv, px, f, i, g) BY <1>10, SameFrames
<1>21. /\ n.is_pte = IF d \in pending' /\ k = 2 THEN {0} ELSE {1}
       /\ a \in pending' => \/ n.word = {Null}
                            \/ k = 1 /\ n.word = {1} /\ n.ppn = {v}
                            \/ k = 2 /\ \E g \in DOMAIN heap : n.word = {g} /\ Child(lv, px, f, i, g)
       /\ a \notin pending' => ValidWord(n.word) /\ (k = 1 => n.word = {1})
       /\ b \notin pending' => n.ppn = {p}
  <2>1. CASE s = a
    <3>1. a \notin pending' /\ (b \in pending' <=> b \in pending) /\ (d \in pending' <=> d \in pending)
      BY <1>2, <1>9, <2>1
    <3> QED BY <1>13, <1>14, <1>19, <2>1, <3>1
  <2>2. CASE s = b
    <3>1. b \notin pending' /\ (a \in pending' <=> a \in pending) /\ (d \in pending' <=> d \in pending)
      BY <1>2, <1>9, <2>2
    <3> QED BY <1>13, <1>14, <1>16, <2>2, <3>1
  <2>3. CASE s = d
    <3>1. d \notin pending' /\ (a \in pending' <=> a \in pending) /\ (b \in pending' <=> b \in pending)
      BY <1>2, <1>9, <2>3
    <3> QED BY <1>13, <1>14, <2>3, <3>1
  <2> QED BY <1>7, <2>1, <2>2, <2>3
<1>22. SetOK(lv, px, v)'
  <2>1. TargetLevel' = TargetLevel /\ TargetPage(v)' = p
    BY <1>0, <1>2 DEF TargetLevel, TargetPage
  <2>2. pending' \subseteq EntryStores(f, i, p) BY <1>2, <1>4
  <2> QED BY <1>0, <1>2, <1>4, <1>5, <1>10, <1>12, <1>20, <1>21, <2>1, <2>2 DEF SetOK
<1>23. Storing(lv, px, v)' BY <1>2, <1>22 DEF Storing
<1>24. ~Touched(f, i)' => Settled(lv, px, f, i)'
  <2>1. SUFFICES ASSUME ~Touched(f, i)' PROVE Settled(lv, px, f, i)' OBVIOUS
  <2>2. a \notin pending' /\ b \notin pending' /\ d \notin pending' BY <1>6, <2>1 DEF Touched
  <2>3. n.is_pte = {1} /\ ValidWord(n.word) /\ (k = 1 => n.word = {1}) /\ n.ppn = {p}
    BY <1>21, <2>2
  <2>4. EntryFor(lv, px, f, i, v) BY <1>0, <1>1, <1>15 DEF EntryFor
  <2>5. Promoted(v)' <=> Promoted(v)
    <3>1. in_use' = in_use /\ threshold' = threshold BY DEF StoreOf, osVars
    <3> QED BY <3>1, SamePromotion
  <2>6. CASE k = 1
    <3>1. Entry4KB(n, v) BY <1>16, <2>3, <2>6 DEF Entry4KB
    <3> QED BY <1>1, <1>12, <1>15, <2>4, <2>6, <3>1 DEF Settled, EntryFor
  <2>7. CASE k = 2
    <3>1. Entry2MB(n, v) BY <1>17, <2>3, <2>7 DEF Entry2MB
    <3> QED BY <1>1, <1>12, <1>15, <1>17, <2>4, <2>5, <2>7, <3>1 DEF Settled, EntryFor
  <2> QED BY <1>4, <2>6, <2>7
<1>25. ASSUME NEW g \in DOMAIN heap, Child(lv, px, f, i, g)
       PROVE  \E u \in Vpns : lv[g] = 1 /\ px[g] = Prefix(u, 1) /\ Promoted(u)
  <2>1. At(lv, px, g, k - 1, v) /\ k > 1 BY <1>0, <1>1, <1>15, <1>25, ChildAt
  <2>2. k = 2 /\ k - 1 = 1 BY <1>4, <2>1
  <2> QED BY <1>1, <1>17, <2>1, <2>2 DEF At
<1>26. \A h, j : \A g \in DOMAIN heap : ~LinkPending(h, j, g)
  <2>1. SUFFICES ASSUME NEW h, NEW j, NEW g \in DOMAIN heap, LinkPending(h, j, g) PROVE FALSE
    OBVIOUS
  <2>2. g # Null BY <1>18 DEF Null
  <2>3. UpdateOK(lv, px, c) BY <1>1 DEF Updates
  <2> QED BY <2>1, <2>2, <2>3, PendingLink
<1>27. ASSUME NEW u \in Vpns, lv[f] = 1, EntryFor(lv, px, f, i, u), Entry4KB(e, u)
       PROVE  Entry4KB(n, u)
  <2>1. k = 1 /\ Prefix(v, 1) = Prefix(u, 1) /\ Index(v, 1) = Index(u, 1)
    BY <1>0, <1>15, <1>27 DEF EntryFor
  <2>2. u = v BY <1>1, <2>1, SamePage
  <2>3. e.is_pte = {1} /\ e.word = {1} /\ e.ppn = {v} BY <1>27, <2>2 DEF Entry4KB
  <2>4. s = a => n.word = {1} BY <1>19, <2>1
  <2> QED BY <1>7, <1>13, <1>16, <2>1, <2>2, <2>3, <2>4 DEF Entry4KB
<1>28. ASSUME NEW u \in Vpns, lv[f] = 2, EntryFor(lv, px, f, i, u) PROVE u \in RegionOf(v)
  <2>1. Prefix(v, 2) = Prefix(u, 2) /\ Index(v, 2) = Index(u, 2)
    BY <1>0, <1>15, <1>28 DEF EntryFor
  <2> QED BY <1>1, <2>1, SameRegion
<1> QED BY <1>8, <1>11, <1>12, <1>13, <1>23, <1>24, <1>25, <1>26, <1>27, <1>28 DEF Benign

\* One store of the update under the lock keeps the invariant.
LEMMA StoreStep ==
    ASSUME NEW lv, NEW px, Good(lv, px), NEW c \in Cores, Store(c)
    PROVE  Good(lv, px)'
<1>1. PICK s : StoreOf(s) BY DEF Store, StoreOf
<1>2. pc[c] = "update" BY DEF Store
<1>3. PICK v, r, w : v = walk[c].vpn /\ r = requested[c] /\ w = walk[c].level OBVIOUS
<1>4. Benign(lv, px, s.frame, s.index, v)
  <2>1. CASE up.done BY <1>1, <1>2, <1>3, <2>1, EntryStore
  <2>2. CASE ~up.done
    <3>1. s \in pending /\ Storing(lv, px, v) BY <1>1, <1>2, <1>3, UpdaterFacts DEF StoreOf
    <3>2. s \in NewStores(v) BY <2>2, <3>1 DEF Storing, NewOK
    <3>3. CASE s = StoreTo(1, up.parent, Index(v, up.level + 1), "next_level", up.frame)
      BY <1>1, <1>2, <1>3, <2>2, <3>3, LinkStore
    <3>4. CASE s \in InitStores(up.frame, up.level)
      <4>1. PICK bit : bit = IF up.level = 1 THEN 1 ELSE 0 OBVIOUS
      <4>2. PICK i \in Indices :
              s \in {StoreTo(2 * i + 2, up.frame, i, "is_pte", bit),
                    StoreTo(2 * i + 3, up.frame, i, "next_level", Null)}
        BY <3>4, <4>1 DEF InitStores
      <4> QED BY <1>1, <1>2, <1>3, <2>2, <4>1, <4>2, InitStore
    <3> QED BY <3>2, <3>3, <3>4 DEF NewStores
  <2> QED BY <2>1, <2>2
<1> QED BY <1>1, <1>2, <1>3, <1>4, BenignStore

-----------------------------------------------------------------------------
(* The theorems.                                                           *)

\* The empty table, its root alone, satisfies the inductive invariant.
LEMMA InitGood == Init => Inv
<1>1. SUFFICES ASSUME Init PROVE Inv OBVIOUS
<1>2. PICK lv, px : lv = [f \in {Root} |-> Levels] /\ px = [f \in {Root} |-> 0] OBVIOUS
<1>3. /\ pc = [c \in Cores |-> "idle"] /\ walk = [c \in Cores |-> NoWalk]
      /\ requested = [c \in Cores |-> 0]
      /\ heap = [f \in {Root} |-> [i \in Indices |-> EmptyEntry]]
      /\ up = NoUpdate /\ pending = {} /\ threshold \in Nat /\ in_use = {} /\ mapped = {}
  BY <1>1, RadixAssumption DEF Init
<1>4. DOMAIN heap = {Root} /\ lv[Root] = Levels /\ px[Root] = 0
      /\ heap[Root] = [i \in Indices |-> EmptyEntry]
  BY <1>2, <1>3
<1>5. TypeOK BY <1>3 DEF TypeOK, NoWalk, NoUpdate, WalkRecord
<1>6. Levels \in Nat /\ Levels >= 2 BY Constants
<1>7. Frames(lv, px)
  <2>1. Root \in Nat /\ {Root} = Root..Root BY DEF Root
  <2>2. \A u \in Vpns : \A l \in Levels..Levels : Has(lv, px, l, u)
    <3>1. SUFFICES ASSUME NEW u \in Vpns PROVE Has(lv, px, Levels, u) BY <1>6
    <3>2. Prefix(u, Levels) = 0 BY TopPrefix
    <3> QED BY <1>4, <3>2 DEF Has, At
  <2>3. \A f \in DOMAIN heap : heap[f] = [i \in Indices |-> heap[f][i]]
                               /\ \A i \in Indices : EntryRecord(heap[f][i])
    BY <1>4 DEF EntryRecord, EmptyEntry
  <2>4. Levels \in 1..Levels BY <1>6
  <2> QED BY <1>4, <2>1, <2>2, <2>3, <2>4 DEF Frames
<1>8. Entries(lv, px)
  <2>1. SUFFICES ASSUME NEW i \in Indices PROVE Settled(lv, px, Root, i) BY <1>4 DEF Entries
  <2>2. lv[Root] # 1 /\ Empty(heap[Root][i]) BY <1>4, <1>6 DEF Empty, EmptyEntry
  <2> QED BY <2>2 DEF Settled
<1>9. \A c \in Cores : pc[c] = "idle" /\ walk[c] = NoWalk BY <1>3
<1>10. Updates(lv, px) BY <1>3, <1>9 DEF Updates
<1>11. Walks(lv, px) BY <1>9 DEF Walks, WalkOK, Walking
<1>12. Handled(lv, px) BY <1>3, FS_EmptySet DEF Handled
<1>13. QuietOK /\ SureOK BY <1>9 DEF QuietOK, QuietFor, SureOK, SureFor, NoWalk
<1> QED BY <1>5, <1>7, <1>8, <1>10, <1>11, <1>12, <1>13 DEF Inv, Good

\* Every step of the specification keeps it.
LEMMA NextGood == Inv /\ [Next]_vars => Inv'
<1>1. SUFFICES ASSUME Inv, [Next]_vars PROVE Inv' OBVIOUS
<1>2. PICK lv, px : Good(lv, px) BY <1>1 DEF Inv
<1>3. ASSUME NEW c \in Cores, Step(c) PROVE Inv'
  <2>1. ASSUME NEW vpn \in VpnsOf[c], StartWalk(c, vpn) PROVE Good(lv, px)'
    BY <1>2, <2>1, StartWalkStep
  <2>2. CASE NewFrame(c) BY <1>2, <2>2, NewFrameStep
  <2>3. CASE Good(lv, px)' BY <2>3 DEF Inv
  <2> QED BY <1>2, <1>3, <2>1, <2>2, <2>3, LoadIsPteStep, LoadValidStep, LoadFaultStep,
         LoadLinkStep, LoadPpnStep, HandleFaultStep, PromotedFaultStep, DescendStep,
         SetEntryStep, StoreStep, EndUpdateStep DEF Step
<1>4. CASE UNCHANGED vars
  <2>1. /\ pc' = pc /\ walk' = walk /\ requested' = requested /\ heap' = heap /\ up' = up
        /\ pending' = pending /\ threshold' = threshold /\ in_use' = in_use /\ mapped' = mapped
    BY <1>4 DEF vars
  <2>2. Good(lv, px)'
    <3>1. CASE Cores = {}
      <4>1. /\ TypeOK /\ Frames(lv, px) /\ Entries(lv, px) /\ Updates(lv, px) /\ Handled(lv, px)
        BY <1>2 DEF Good
      <4>2. Frames(lv, px)' /\ Entries(lv, px)'
        <5>1. pending \subseteq pending' /\ \A v : Promoted(v) => Promoted(v)'
          BY <2>1, SamePromotion
        <5> QED BY <2>1, <4>1, <5>1, KeepTable
      <4>3. Handled(lv, px)'
        <5>1. \A v : Busy(v) => Busy(v)' BY <3>1 DEF Busy
        <5> QED BY <2>1, <4>1, <5>1, KeepHandled
      <4> QED BY <2>1, <3>1, <4>1, <4>2, <4>3
              DEF Good, TypeOK, Updates, Locked, Walks, QuietOK, SureOK
    <3>2. ASSUME NEW c \in Cores, pc[c] # "update" PROVE Good(lv, px)'
      <4>1. Walker(c) BY <2>1, <3>2 DEF Walker, tableVars, osVars
      <4>2. TypeOK' BY <1>2, <2>1 DEF Good, TypeOK
      <4>3. \A f, l, v : At(lv, px, f, l, v)' <=> At(lv, px, f, l, v) BY <2>1, SameFrames
      <4>4. WalkOK(lv, px, c)' BY <1>2, <2>1, <4>3 DEF Good, Walks, WalkOK
      <4>5. QuietFor(c)' BY <1>2, <2>1 DEF Good, QuietOK, QuietFor, Locked, EntryOf
      <4>6. LinksStay => SureFor(c)' BY <1>2, <2>1 DEF Good, SureOK, SureFor, LeafLevel
      <4> QED BY <1>2, <4>1, <4>2, <4>4, <4>5, <4>6, WalkerKeeps
    <3>3. ASSUME NEW c \in Cores, pc[c] = "update" PROVE Good(lv, px)'
      <4>1. PICK v, r, w : v = walk[c].vpn /\ r = requested[c] /\ w = walk[c].level OBVIOUS
      <4>2. /\ TypeOK /\ Frames(lv, px) /\ Entries(lv, px) /\ Handled(lv, px)
            /\ UpdateOK(lv, px, c)
        BY <1>2, <3>3, <4>1, UpdaterFacts DEF Updates
      <4>3. UpdateOK(lv, px, c)' BY <2>1, <4>2, KeepUpdate DEF tableVars, osVars
      <4>4. Updating(lv, px, v, r)' BY <2>1, <4>1, <4>3 DEF UpdateOK
      <4>5. Frames(lv, px)' /\ Entries(lv, px)'
        <5>1. pending \subseteq pending' /\ \A u : Promoted(u) => Promoted(u)'
          BY <2>1, SamePromotion
        <5> QED BY <2>1, <4>2, <5>1, KeepTable
      <4>6. Handled(lv, px)'
        <5>1. \A u : Busy(u) => Busy(u)' BY <2>1 DEF Busy, RegionOf
        <5> QED BY <2>1, <4>2, <5>1, KeepHandled
      <4>7. \A f, l, u : At(lv, px, f, l, u) => At(lv, px, f, l, u)' BY <2>1, SameFrames
      <4>8. TypeOK' BY <2>1, <4>2 DEF TypeOK
      <4>9. UNCHANGED <<pc, walk, requested, osVars>> BY <2>1 DEF osVars
      <4> QED BY <1>2, <3>3, <4>1, <4>4, <4>5, <4>6, <4>7, <4>8, <4>9, UpdaterKeeps
    <3> QED BY <3>1, <3>2, <3>3
  <2> QED BY <2>2 DEF Inv
<1> QED BY <1>1, <1>3, <1>4 DEF Next

\* The inductive invariant: every frame belongs to one level and one part of the
\* address space, and what a walk, an update or a handled page relies on holds
\* after each load and each store.
THEOREM WordsInvariant == Spec => []Inv
<1>1. Init => Inv BY InitGood
<1>2. Inv /\ [Next]_vars => Inv' BY NextGood
<1> QED BY <1>1, <1>2, PTL DEF Spec

\* The assertion of updatePageTableFrames holds whatever the walks before it
\* read: an update never needs more frames than its walk asked for.
THEOREM RequestsSuffice == Spec => []RequestSuffices
<1>1. Inv => RequestSuffices
  <2>1. SUFFICES ASSUME Inv, NEW c \in Cores, pc[c] = "update", pending = {}, up.frame = Null
                 PROVE  up.used < requested[c]
    BY DEF RequestSuffices
  <2>2. PICK lv, px : Good(lv, px) BY <2>1 DEF Inv
  <2>3. PICK v, r, w : v = walk[c].vpn /\ r = requested[c] /\ w = walk[c].level OBVIOUS
  <2>4. /\ Missing(lv, px, v, r) /\ Sized(v) /\ w \in 1..Levels /\ r = w - 1
    BY <2>1, <2>2, <2>3, UpdaterFacts
  <2>5. up.level >= 1 /\ up.level \in Nat /\ up.used \in Nat BY <2>4 DEF Sized, TargetLevel
  <2>6. up.used + up.level <= r BY <2>1, <2>4 DEF Missing
  <2>7. r \in Int BY <2>4
  <2> QED BY <2>3, <2>5, <2>6, <2>7
<1> QED BY <1>1, WordsInvariant, PTL

\* Where no link is ever replaced, a walk of a page that was mapped when it
\* started finds the page, whatever updates store meanwhile and in any order.
THEOREM EstablishedKept == Spec => []EstablishedKeptWhileLinksStay
<1>1. Inv => EstablishedKeptWhileLinksStay
  <2>1. SUFFICES ASSUME Inv, LinksStay, NEW c \in Cores, walk[c].sure
                 PROVE  /\ pc[c] # "fault"
                        /\ pc[c] \in {"idle", "dead"} => walk[c].page = walk[c].vpn
    BY DEF EstablishedKeptWhileLinksStay, LinksStay
  <2>2. SureFor(c) BY <2>1 DEF Inv, Good, SureOK
  <2> QED BY <2>1, <2>2 DEF SureFor
<1> QED BY <1>1, WordsInvariant, PTL

\* A walk during which no update ran returns the page its address maps to.
THEOREM QuietWalks == Spec => []QuietWalkReturnsMapping
<1>1. Inv => QuietWalkReturnsMapping
  BY DEF Inv, Good, QuietOK, QuietFor, QuietWalkReturnsMapping
<1> QED BY <1>1, WordsInvariant, PTL

-----------------------------------------------------------------------------
(* The table with the lock free.                                           *)

\* The frame below f on the way to page v, at level l.
Below(f, v, l) ==
    LET e == heap[f][Index(v, l + 1)]
    IN  IF f # Null /\ e.is_pte = {0} /\ e.word \subseteq Pointers
        THEN CHOOSE x \in e.word : TRUE ELSE Null
Descent(F, v) == F = [l \in 1..Levels |-> IF l = Levels THEN Root ELSE Below(F[l + 1], v, l)]

\* The path to a page exists, as a function defined from the root down.
LEMMA DescentExists == ASSUME NEW v PROVE \E F : Descent(F, v)
<1> DEFINE S == {n \in Nat : \E g : g = [j \in 0..n |-> IF j = 0 THEN Root
                                             ELSE Below(g[j - 1], v, Levels - j)]}
<1>1. 0 \in S
  <2> DEFINE g == [j \in 0..0 |-> Root]
  <2>1. g = [j \in 0..0 |-> IF j = 0 THEN Root ELSE Below(g[j - 1], v, Levels - j)] OBVIOUS
  <2> QED BY <2>1
<1>2. ASSUME NEW n \in Nat, n \in S PROVE n + 1 \in S
  <2>1. PICK g : g = [j \in 0..n |-> IF j = 0 THEN Root ELSE Below(g[j - 1], v, Levels - j)]
    BY <1>2
  <2> DEFINE h == [j \in 0..(n + 1) |-> IF j = n + 1 THEN Below(g[n], v, Levels - j) ELSE g[j]]
  <2>2. ASSUME NEW j \in 0..(n + 1)
        PROVE  h[j] = IF j = 0 THEN Root ELSE Below(h[j - 1], v, Levels - j)
    <3>1. CASE j = n + 1
      <4>1. j # 0 /\ j - 1 = n /\ n \in 0..(n + 1) /\ n # n + 1 BY <3>1
      <4>2. h[n] = g[n] BY <4>1
      <4>3. h[j] = Below(g[n], v, Levels - j) BY <3>1
      <4> QED BY <4>1, <4>2, <4>3
    <3>2. CASE j # n + 1
      <4>1. j \in 0..n BY <3>2
      <4>2. h[j] = g[j] BY <3>2
      <4>3. g[j] = IF j = 0 THEN Root ELSE Below(g[j - 1], v, Levels - j) BY <2>1, <4>1
      <4>4. j # 0 => j - 1 \in 0..(n + 1) /\ j - 1 # n + 1 BY <4>1
      <4>5. j # 0 => h[j - 1] = g[j - 1] BY <4>4
      <4> QED BY <4>2, <4>3, <4>5
    <3> QED BY <3>1, <3>2
  <2>3. h = [j \in 0..(n + 1) |-> h[j]] OBVIOUS
  <2> HIDE DEF h
  <2>4. h = [j \in 0..(n + 1) |-> IF j = 0 THEN Root ELSE Below(h[j - 1], v, Levels - j)]
    BY <2>2, <2>3
  <2> QED BY <2>4
<1> HIDE DEF S
<1>3. \A n \in Nat : n \in S BY <1>1, <1>2, NatSetInduction
<1>4. Levels \in Nat BY Constants
<1>5. PICK g : g = [j \in 0..Levels |-> IF j = 0 THEN Root ELSE Below(g[j - 1], v, Levels - j)]
  BY <1>3, <1>4 DEF S
<1> DEFINE F == [l \in 1..Levels |-> g[Levels - l]]
<1>6. ASSUME NEW l \in 1..Levels PROVE F[l] = IF l = Levels THEN Root ELSE Below(F[l + 1], v, l)
  <2>1. Levels - l \in 0..Levels /\ (Levels - l = 0 <=> l = Levels) /\ Levels - (Levels - l) = l
    BY <1>4
  <2>2. F[l] = g[Levels - l] OBVIOUS
  <2>3. g[Levels - l] = IF Levels - l = 0 THEN Root
                        ELSE Below(g[(Levels - l) - 1], v, Levels - (Levels - l))
    BY <1>5, <2>1
  <2>4. l # Levels => l + 1 \in 1..Levels /\ Levels - (l + 1) = (Levels - l) - 1 BY <1>4
  <2>5. l # Levels => F[l + 1] = g[(Levels - l) - 1] BY <2>4
  <2> QED BY <2>1, <2>2, <2>3, <2>5
<1>7. F = [l \in 1..Levels |-> F[l]] OBVIOUS
<1> HIDE DEF F
<1>8. Descent(F, v) BY <1>6, <1>7 DEF Descent
<1> QED BY <1>8

\* The recursive function Path satisfies its equations.
LEMMA PathDescent == ASSUME NEW v PROVE Descent(Path(v), v)
<1>1. \E F : F = [l \in 1..Levels |-> IF l = Levels THEN Root ELSE Below(F[l + 1], v, l)]
  BY DescentExists DEF Descent
<1>2. Path(v) = CHOOSE F : F = [l \in 1..Levels |-> IF l = Levels THEN Root ELSE Below(F[l + 1], v, l)]
  BY DEF Path, Below
<1> QED BY <1>1, <1>2 DEF Descent

\* The path to a page reaches every frame on the way to it, when all links
\* have reached memory and none has been replaced.
LEMMA PathAt ==
    ASSUME NEW lv, NEW px, Frames(lv, px), pending = {}, NEW v \in Vpns, NEW L \in 1..2,
           Has(lv, px, L, v), L = 1 => ~Promoted(v)
    PROVE  At(lv, px, Path(v)[L], L, v)
<1>0. PICK F : F = Path(v) OBVIOUS
<1>1. Descent(F, v) BY <1>0, PathDescent
<1>2. \A l \in 1..Levels : F[l] = IF l = Levels THEN Root ELSE Below(F[l + 1], v, l)
  BY <1>1 DEF Descent
<1>3. Levels \in Nat /\ Levels >= 2 BY Constants
<1>4. \A l \in L..Levels : Has(lv, px, l, v) BY DEF Frames, Has, At
<1> DEFINE S == {n \in Nat : Levels - n >= L => At(lv, px, F[Levels - n], Levels - n, v)}
<1>5. 0 \in S
  <2>1. Levels - 0 = Levels /\ Levels \in 1..Levels BY <1>3
  <2>2. F[Levels] = Root BY <1>2, <2>1
  <2>3. At(lv, px, Root, Levels, v) BY AtRoot
  <2> QED BY <2>1, <2>2, <2>3
<1>6. ASSUME NEW n \in Nat, n \in S PROVE n + 1 \in S
  <2>1. SUFFICES ASSUME Levels - (n + 1) >= L
                 PROVE  At(lv, px, F[Levels - (n + 1)], Levels - (n + 1), v)
    OBVIOUS
  <2>2. PICK l, m : l = Levels - (n + 1) /\ m = Levels - n OBVIOUS
  <2>3. l \in 1..Levels /\ l # Levels /\ l \in L..Levels /\ m = l + 1 /\ m - 1 = l
        /\ m >= L /\ m \in 1..Levels
    BY <1>3, <2>1, <2>2
  <2>4. At(lv, px, F[m], m, v) BY <1>6, <2>2, <2>3
  <2>5. PICK g \in DOMAIN heap : At(lv, px, g, l, v) BY <1>4, <2>3 DEF Has
  <2>6. ~LinkPending(F[m], Index(v, m), g) BY DEF LinkPending
  <2>7. ~(m = 2 /\ Promoted(v)) BY <2>3
  <2>8. Link(heap[F[m]][Index(v, m)], g)
    BY <2>3, <2>4, <2>5, <2>6, <2>7, ParentLink
  <2>9. F[m] # Null /\ g \in Pointers BY <2>4, <2>5, FrameFacts DEF At
  <2>10. F[l] = Below(F[m], v, l) BY <1>2, <2>3
  <2>11. PICK h : h = F[m] OBVIOUS
  <2>12. Below(h, v, l) = g
    <3>1. heap[h][Index(v, l + 1)].is_pte = {0} /\ heap[h][Index(v, l + 1)].word = {g}
      BY <2>3, <2>8, <2>11 DEF Link
    <3>2. (CHOOSE x \in {g} : TRUE) = g OBVIOUS
    <3> QED BY <2>9, <2>11, <3>1, <3>2 DEF Below
  <2> QED BY <2>2, <2>5, <2>10, <2>11, <2>12
<1> HIDE DEF S
<1>7. \A n \in Nat : n \in S BY <1>5, <1>6, NatSetInduction
<1>8. Levels - L \in Nat /\ Levels - (Levels - L) = L BY <1>3
<1>9. Levels - L \in S BY <1>7, <1>8
<1>10. At(lv, px, F[L], L, v) BY <1>8, <1>9 DEF S
<1> QED BY <1>0, <1>10

\* With the lock free every word of the table is initialised, and each handled
\* page is found along the path from the root, by a 4KB or a 2MB entry.
THEOREM QuietTables == Spec => []QuietTable
<1>1. Inv => QuietTable
  <2>1. SUFFICES ASSUME Inv, ~Locked PROVE QuietTable BY DEF QuietTable
  <2>2. PICK lv, px : Good(lv, px) BY <2>1 DEF Inv
  <2>3. Frames(lv, px) /\ Entries(lv, px) /\ Handled(lv, px) /\ pending = {}
    BY <2>1, <2>2 DEF Good, Updates
  <2>4. ASSUME NEW f \in DOMAIN heap, NEW i \in Indices
        PROVE  Cardinality(heap[f][i].is_pte) = 1 /\ Cardinality(heap[f][i].word) = 1
    <3>1. Settled(lv, px, f, i) BY <2>3 DEF Entries, Touched
    <3>2. \E a, b : heap[f][i].is_pte = {a} /\ heap[f][i].word = {b}
      <4>1. CASE \E v : Entry2MB(heap[f][i], v) BY <4>1 DEF Entry2MB, ValidWord
      <4>2. CASE \E v : Entry4KB(heap[f][i], v) BY <4>2 DEF Entry4KB
      <4>3. CASE \E g : Link(heap[f][i], g) BY <4>3 DEF Link
      <4>4. CASE Unset4KB(heap[f][i]) \/ Empty(heap[f][i]) BY <4>4 DEF Unset4KB, Empty
      <4> QED BY <3>1, <4>1, <4>2, <4>3, <4>4 DEF Settled
    <3>3. \A a : Cardinality({a}) = 1 BY FS_Singleton
    <3> QED BY <3>2, <3>3
  <2>5. ASSUME NEW v \in mapped
        PROVE  \E l \in {1, 2} :
                 LET f == Path(v)[l]
                     e == heap[f][Index(v, l)]
                 IN  /\ f # Null /\ e.is_pte = {1}
                     /\ \A x \in e.word : ReadsValid(x) = {TRUE}
                     /\ e.ppn = {v - (v % Fan^(l - 1))}
    <3>1. v \in Vpns /\ ~Busy(v) BY <2>1, <2>3 DEF Handled, Busy, Locked
    <3>2. PICK l : l = IF Promoted(v) THEN 2 ELSE 1 OBVIOUS
    <3>3. l \in {1, 2} /\ l \in 1..2 /\ (l = 1 => ~Promoted(v)) BY <3>2
    <3>4. PICK g \in DOMAIN heap : At(lv, px, g, l, v) /\ Maps(heap[g][Index(v, l)], l, v)
      <4>1. CASE Promoted(v)
        <5>1. Found2MB(lv, px, v) BY <2>3, <3>1, <4>1 DEF Handled
        <5> QED BY <3>2, <4>1, <5>1 DEF Found2MB, Maps
      <4>2. CASE ~Promoted(v)
        <5>1. Found4KB(lv, px, v) BY <2>3, <3>1, <4>2 DEF Handled
        <5> QED BY <3>2, <4>2, <5>1 DEF Found4KB, Maps
      <4> QED BY <4>1, <4>2
    <3>5. PICK f : f = Path(v)[l] OBVIOUS
    <3>6. Has(lv, px, l, v) BY <3>4 DEF Has
    <3>7. At(lv, px, f, l, v) BY <2>3, <3>1, <3>3, <3>5, <3>6, PathAt
    <3>8. f = g /\ f # Null BY <2>3, <3>4, <3>7, OneFrame, FrameFacts
    <3>9. Maps(heap[f][Index(v, l)], l, v) BY <3>4, <3>8
    <3>10. /\ heap[f][Index(v, l)].is_pte = {1}
           /\ \A x \in heap[f][Index(v, l)].word : ReadsValid(x) = {TRUE}
      BY <3>1, <3>9, ReadsMapping
    <3>11. heap[f][Index(v, l)].ppn = {v - (v % Fan^(l - 1))}
      <4>1. v \in Nat /\ Fan^0 = 1 /\ Fan^1 = Fan /\ 1 - 1 = 0 /\ 2 - 1 = 1 BY <3>1, Constants
      <4>2. v % 1 = 0
        <5>1. v = 1 * v + 0 BY <4>1
        <5> QED BY <4>1, <5>1, DivModUnique
      <4>3. CASE l = 1
        <5>1. v - (v % Fan^(l - 1)) = v BY <4>1, <4>2, <4>3
        <5> QED BY <3>9, <4>3, <5>1 DEF Maps, Entry4KB
      <4>4. CASE l = 2
        <5>1. v - (v % Fan^(l - 1)) = Base(v) BY <4>1, <4>4 DEF Base
        <5> QED BY <3>9, <4>4, <5>1 DEF Maps, Entry2MB
      <4> QED BY <3>3, <4>3, <4>4
    <3> QED BY <3>3, <3>5, <3>8, <3>10, <3>11
  <2> QED BY <2>4, <2>5 DEF QuietTable
<1> QED BY <1>1, WordsInvariant, PTL
==============================================================================
