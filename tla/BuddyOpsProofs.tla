--------------------------- MODULE BuddyOpsProofs ---------------------------
(***************************************************************************)
(* What the operations of the buddy allocator do to the pages on its free  *)
(* lists, for any memory size and any orders.                              *)
(*                                                                         *)
(* Each operation takes one block out of a list and puts the pieces that   *)
(* are left of it on others.  The pieces form a free list of their own, so *)
(* three facts carry the proof: what taking a block out does, what putting *)
(* two free lists together does, and which pages the pieces cover.         *)
(***************************************************************************)
EXTENDS BuddyOps, SequenceTheorems, FiniteSetTheorems, WellFoundedInduction, TLAPS

-----------------------------------------------------------------------------
(* Induction over the naturals in a form that needs no operator parameter:  *)
(* what is to be shown of every n is that n belongs to a set.               *)

\* A non-empty set of naturals has a least element.
LEMMA LeastNatural ==
    ASSUME NEW T, T \subseteq Nat, T # {}
    PROVE  \E x \in T : \A y \in T : x <= y
<1>1. PICK x \in T : \A y \in T : ~(<<y, x>> \in OpToRel(<, Nat))
  BY NatLessThanWellFounded, WFMin
<1>2. ASSUME NEW y \in T PROVE x <= y
  <2>1. x \in Nat /\ y \in Nat OBVIOUS
  <2>2. y < x => <<y, x>> \in OpToRel(<, Nat) BY <2>1 DEF OpToRel
  <2>3. ~(y < x) BY <1>1, <2>2
  <2> QED BY <2>1, <2>3
<1> QED BY <1>2

\* A set that holds 0 and with each natural its successor holds them all.
LEMMA NatSetInduction ==
    ASSUME NEW S, 0 \in S, \A n \in Nat : n \in S => n + 1 \in S
    PROVE  \A n \in Nat : n \in S
<1> DEFINE T == Nat \ S
<1>1. SUFFICES ASSUME T # {} PROVE FALSE OBVIOUS
<1>2. PICK x \in T : \A y \in T : x <= y
  <2>1. T \subseteq Nat OBVIOUS
  <2> HIDE DEF T
  <2> QED BY <1>1, <2>1, LeastNatural
<1>3. x # 0 /\ x \in Nat OBVIOUS
<1>4. x - 1 \in Nat /\ ~(x <= x - 1) /\ x - 1 + 1 = x BY <1>3
<1>5. x - 1 \in S BY <1>2, <1>4
<1> QED BY <1>4, <1>5

Blocks == [start : Int, end : Int]

FreeLists == [Orders -> Seq(Blocks)]

\* A page is in one block at most.
Separate(fl) == \A k, l \in Orders : \A i \in DOMAIN fl[k], j \in DOMAIN fl[l] : \A p :
                   p \in BlockPages(fl[k][i]) /\ p \in BlockPages(fl[l][j]) => k = l /\ i = j

\* A block has the size of its order.
Fits(fl) == \A k \in Orders : \A j \in DOMAIN fl[k] : BlockSize(fl[k][j]) = 2^k

\* A block of 2MB or more starts at a multiple of its size.
AtMultiple(b, k) == \E n \in Nat : b.start = KernelPages + n * 2^k
Aligned(fl) == \A k \in HugeOrder..MaxOrder : \A j \in DOMAIN fl[k] : AtMultiple(fl[k][j], k)

Good(fl) == fl \in FreeLists /\ Separate(fl) /\ Fits(fl) /\ Aligned(fl)

\* Lists whose blocks may overlap, as a demotion leaves them.
Tidy(fl) == fl \in FreeLists /\ Fits(fl) /\ Aligned(fl)

----------------------------------------------------------------------------
(* Arithmetic *)

\* The powers of two that are the sizes of blocks.
LEMMA Powers ==
    ASSUME NEW k \in Orders
    PROVE  2^k \in Nat \ {0} /\ 2^k \in Nat /\ 2^k > 0 /\ 2^k >= 1 /\ 2^(k + 1) = 2 * 2^k
<1>1. 2^k \in Nat \ {0} /\ 2^(k + 1) = 2 * 2^k BY PowersOfTwo
<1> QED BY <1>1

\* The constants and the orders are natural numbers.
LEMMA OrderType ==
    /\ MaxOrder \in Nat /\ HugeOrder \in Nat /\ HugeOrder >= 2 /\ HugeOrder <= MaxOrder
    /\ 0 \in Orders /\ HugeOrder \in Orders /\ HugeOrder - 1 \in Orders /\ MaxOrder \in Orders
    /\ \A k \in Orders : k \in Nat /\ k <= MaxOrder
    /\ KernelPages \in Nat /\ MemoryPages \in Nat /\ KernelPages <= MemoryPages
    /\ TotalPages \in Nat
BY BuddyAssumption DEF Orders, TotalPages

\* Division with remainder.
LEMMA Division ==
    ASSUME NEW o \in Nat, NEW P \in Nat \ {0}
    PROVE  /\ o \div P \in Nat /\ o % P \in Nat /\ o % P < P
           /\ o = (o \div P) * P + (o % P)
           /\ (o \div P) * P <= o /\ o < (o \div P) * P + P
<1>1. o = P * (o \div P) + (o % P) /\ o % P \in 0..(P - 1) /\ o \div P \in Nat OBVIOUS
<1> DEFINE q == o \div P
           r == o % P
<1>2. q \in Nat /\ r \in Nat /\ r < P /\ o = P * q + r BY <1>1
<1> HIDE DEF q, r
<1>3. P * q = q * P /\ q * P \in Nat BY <1>2
<1>4. o = q * P + r /\ q * P <= o /\ o < q * P + P BY <1>2, <1>3
<1> QED BY <1>2, <1>4 DEF q, r

\* A quotient is known by the multiple it leaves a remainder to.
LEMMA Quotient ==
    ASSUME NEW o \in Nat, NEW P \in Nat \ {0}, NEW q \in Nat, q * P <= o, o < q * P + P
    PROVE  o \div P = q /\ o % P = o - q * P
<1> DEFINE r == o - q * P
<1>1. q * P \in Nat OBVIOUS
<1>2. r \in Nat /\ r < P /\ o = q * P + r BY <1>1
<1> HIDE DEF r
<1>3. o \div P = q BY <1>2
<1>4. o % P = r BY <1>2
<1> QED BY <1>3, <1>4 DEF r

\* Products are monotonic.
LEMMA Times ==
    ASSUME NEW a \in Nat, NEW b \in Nat, NEW P \in Nat
    PROVE  /\ a * P \in Nat /\ (a + 1) * P = a * P + P
           /\ a <= b => a * P <= b * P
           /\ a < b => a * P + P <= b * P
<1>1. a * P \in Nat /\ (a + 1) * P = a * P + P OBVIOUS
<1>2. a <= b => a * P <= b * P OBVIOUS
<1>3. a < b => a * P + P <= b * P
  <2>1. SUFFICES ASSUME a < b PROVE a * P + P <= b * P OBVIOUS
  <2>2. a + 1 \in Nat /\ a + 1 <= b BY <2>1
  <2>3. (a + 1) * P <= b * P BY <2>2
  <2> QED BY <1>1, <2>3
<1> QED BY <1>1, <1>2, <1>3

\* A larger power is a multiple of a smaller one.
LEMMA Multiples ==
    ASSUME NEW k \in Orders, NEW i \in Orders, k <= i
    PROVE  \E r \in Nat \ {0} : 2^i = r * 2^k
<1> DEFINE S == {d \in Nat : k + d <= MaxOrder => \E r \in Nat \ {0} : 2^(k + d) = r * 2^k}
<1>0. k \in Nat /\ i \in Nat /\ i <= MaxOrder /\ MaxOrder \in Nat BY OrderType
<1>1. 0 \in S
  <2>1. 2^k \in Nat /\ k + 0 = k BY <1>0, Powers
  <2>2. 2^k = 1 * 2^k BY <2>1
  <2>3. 2^(k + 0) = 1 * 2^k BY <2>1, <2>2
  <2> QED BY <2>3
<1>2. ASSUME NEW d \in Nat, d \in S PROVE d + 1 \in S
  <2>1. SUFFICES ASSUME k + (d + 1) <= MaxOrder
                 PROVE  \E r \in Nat \ {0} : 2^(k + (d + 1)) = r * 2^k
    OBVIOUS
  <2>2. k + d \in Orders /\ k + (d + 1) = (k + d) + 1 /\ k + d <= MaxOrder
    BY <1>0, <2>1 DEF Orders
  <2>3. PICK r \in Nat \ {0} : 2^(k + d) = r * 2^k BY <1>2, <2>2
  <2>4. 2^(k + (d + 1)) = 2 * 2^(k + d) BY <2>2, Powers
  <2>5. 2 * (r * 2^k) = (2 * r) * 2^k /\ 2 * r \in Nat \ {0} BY Powers
  <2> QED BY <2>3, <2>4, <2>5
<1> HIDE DEF S
<1>3. \A d \in Nat : d \in S BY <1>1, <1>2, NatSetInduction
<1>4. i - k \in Nat /\ k + (i - k) = i BY <1>0
<1> QED BY <1>0, <1>3, <1>4 DEF S

\* The pages of a block.
LEMMA BlockFacts ==
    ASSUME NEW b \in Blocks
    PROVE  /\ b.start \in Int /\ b.end \in Int
           /\ \A p : p \in BlockPages(b) <=> p \in Int /\ b.start <= p /\ p <= b.end
           /\ BlockSize(b) = b.end - b.start + 1
<1>1. b.start \in Int /\ b.end \in Int BY DEF Blocks
<1> QED BY <1>1 DEF BlockPages, BlockSize

\* The block of order k at s has 2^k pages.
LEMMA BlockOfOrder ==
    ASSUME NEW s \in Int, NEW k \in Orders
    PROVE  /\ Block(s, k) \in Blocks /\ BlockSize(Block(s, k)) = 2^k
           /\ Block(s, k).start = s
           /\ \A p : p \in BlockPages(Block(s, k)) <=> p \in Int /\ s <= p /\ p < s + 2^k
<1>1. 2^k \in Nat BY Powers
<1>2. Block(s, k).start = s /\ Block(s, k).end = s + 2^k - 1 BY DEF Block
<1>3. Block(s, k) \in Blocks BY <1>1 DEF Block, Blocks
<1>4. BlockSize(Block(s, k)) = 2^k BY <1>1, <1>2 DEF BlockSize
<1>5. ASSUME NEW p PROVE p \in BlockPages(Block(s, k)) <=> p \in Int /\ s <= p /\ p < s + 2^k
  BY <1>1, <1>2 DEF BlockPages
<1> QED BY <1>2, <1>3, <1>4, <1>5

----------------------------------------------------------------------------
(* Free lists *)

\* Every list is a sequence of blocks.
LEMMA ListType ==
    ASSUME NEW fl \in FreeLists, NEW k \in Orders
    PROVE  /\ fl[k] \in Seq(Blocks) /\ Len(fl[k]) \in Nat /\ DOMAIN fl[k] = 1..Len(fl[k])
           /\ \A j \in DOMAIN fl[k] : fl[k][j] \in Blocks
<1>1. fl[k] \in Seq(Blocks) BY DEF FreeLists
<1> QED BY <1>1, LenProperties

\* The free pages are those in some block.
LEMMA PageFree ==
    ASSUME NEW fl, NEW p
    PROVE  p \in FreePages(fl) <=> \E k \in Orders : \E j \in DOMAIN fl[k] : p \in BlockPages(fl[k][j])
BY DEF FreePages, ToSet

\* s2 has the entries of s but the one at k, each once; at tells where they were.
Without(s, k, s2) ==
    \E at \in [DOMAIN s2 -> DOMAIN s] :
       /\ \A i \in DOMAIN s2 : at[i] # k /\ s2[i] = s[at[i]]
       /\ \A i, j \in DOMAIN s2 : at[i] = at[j] => i = j
       /\ \A j \in DOMAIN s : j # k => \E i \in DOMAIN s2 : at[i] = j

\* erase() takes out one element and keeps the others in order.
LEMMA Removed ==
    ASSUME NEW S, NEW s \in Seq(S), NEW k \in DOMAIN s
    PROVE  RemoveAt(s, k) \in Seq(S) /\ Without(s, k, RemoveAt(s, k))
<1> DEFINE a == SubSeq(s, 1, k - 1)
           b == SubSeq(s, k + 1, Len(s))
           s2 == a \o b
<1>1. /\ Len(s) \in Nat /\ DOMAIN s = 1..Len(s) /\ s \in [1..Len(s) -> S]
      /\ k \in Nat /\ k >= 1 /\ k <= Len(s)
  BY LenProperties
<1>2. a \in Seq(S) /\ Len(a) = k - 1 /\ \A i \in 1..(k - 1) : a[i] = s[i]
  <2>1. \A i \in 1..(k - 1) : s[i] \in S BY <1>1
  <2> QED BY <1>1, <2>1, SubSeqProperties
<1>3. b \in Seq(S) /\ Len(b) = Len(s) - k /\ \A i \in 1..(Len(s) - k) : b[i] = s[k + i]
  <2>1. \A i \in (k + 1)..Len(s) : s[i] \in S BY <1>1
  <2> QED BY <1>1, <2>1, SubSeqProperties
<1> HIDE DEF a, b
<1>4. /\ s2 \in Seq(S) /\ DOMAIN s2 = 1..(Len(s) - 1)
      /\ \A i \in 1..(Len(s) - 1) : s2[i] = IF i <= k - 1 THEN a[i] ELSE b[i - (k - 1)]
  <2>1. Len(a) + Len(b) = Len(s) - 1 BY <1>1, <1>2, <1>3
  <2>2. /\ s2 \in Seq(S) /\ Len(s2) = Len(a) + Len(b)
        /\ \A i \in 1..(Len(a) + Len(b)) : s2[i] = IF i <= Len(a) THEN a[i] ELSE b[i - Len(a)]
    BY <1>2, <1>3, ConcatProperties
  <2>3. DOMAIN s2 = 1..Len(s2) BY <2>2, LenProperties
  <2> HIDE DEF s2
  <2> QED BY <1>2, <2>1, <2>2, <2>3
<1>5. ASSUME NEW i \in 1..(Len(s) - 1)
      PROVE  s2[i] = IF i < k THEN s[i] ELSE s[i + 1]
  <2>1. CASE i < k
    <3>1. i \in 1..(k - 1) /\ i <= k - 1 BY <1>1, <2>1
    <3> QED BY <1>2, <1>4, <2>1, <3>1
  <2>2. CASE ~(i < k)
    <3>1. i - (k - 1) \in 1..(Len(s) - k) /\ ~(i <= k - 1) /\ k + (i - (k - 1)) = i + 1
      BY <1>1, <2>2
    <3> QED BY <1>3, <1>4, <2>2, <3>1
  <2> QED BY <2>1, <2>2
<1> HIDE DEF s2
<1> DEFINE at == [i \in DOMAIN s2 |-> IF i < k THEN i ELSE i + 1]
<1>6. ASSUME NEW i \in DOMAIN s2
      PROVE  at[i] \in DOMAIN s /\ at[i] # k /\ s2[i] = s[at[i]]
  BY <1>1, <1>4, <1>5
<1>7. ASSUME NEW i \in DOMAIN s2, NEW j \in DOMAIN s2, at[i] = at[j] PROVE i = j
  BY <1>1, <1>4, <1>7
<1>8. ASSUME NEW j \in DOMAIN s, j # k PROVE \E i \in DOMAIN s2 : at[i] = j
  <2>1. CASE j < k BY <1>1, <1>4, <2>1
  <2>2. CASE ~(j < k)
    <3>1. j - 1 \in DOMAIN s2 /\ at[j - 1] = j BY <1>1, <1>4, <1>8, <2>2
    <3> QED BY <3>1
  <2> QED BY <2>1, <2>2
<1>9. at \in [DOMAIN s2 -> DOMAIN s] BY <1>6
<1> HIDE DEF at
<1>10. s2 = RemoveAt(s, k) BY DEF s2, a, b, RemoveAt
<1>11. Without(s, k, s2) BY <1>6, <1>7, <1>8, <1>9 DEF Without
<1> QED BY <1>4, <1>10, <1>11

\* Where the entries of s and t are found in u.
Together(s, t, u) ==
    /\ Len(s) \in Nat /\ DOMAIN u \subseteq Int
    /\ \A n \in DOMAIN u : \/ n \in DOMAIN s /\ u[n] = s[n]
                           \/ n - Len(s) \in DOMAIN t /\ u[n] = t[n - Len(s)]
    /\ \A n \in DOMAIN s : n \in DOMAIN u /\ u[n] = s[n]
    /\ \A n \in DOMAIN t : n + Len(s) \in DOMAIN u /\ u[n + Len(s)] = t[n]

\* push_back of several elements keeps all of both parts.
LEMMA Concatenated ==
    ASSUME NEW S, NEW s \in Seq(S), NEW t \in Seq(S), NEW u, u = s \o t
    PROVE  u \in Seq(S) /\ Together(s, t, u)
<1> DEFINE a == Len(s)
           b == Len(t)
<1>1. a \in Nat /\ b \in Nat /\ DOMAIN s = 1..a /\ DOMAIN t = 1..b BY LenProperties
<1>2. /\ u \in Seq(S) /\ Len(u) = a + b
      /\ \A n \in 1..(a + b) : u[n] = IF n <= a THEN s[n] ELSE t[n - a]
  BY ConcatProperties
<1>3. DOMAIN u = 1..(a + b) BY <1>2, LenProperties
<1> HIDE DEF a, b
<1>4. ASSUME NEW n \in DOMAIN u
      PROVE  \/ n \in DOMAIN s /\ u[n] = s[n]
             \/ n - a \in DOMAIN t /\ u[n] = t[n - a]
  <2>1. CASE n <= a
    <3>1. n \in 1..a BY <1>1, <1>3, <2>1
    <3> QED BY <1>1, <1>2, <1>3, <2>1, <3>1
  <2>2. CASE ~(n <= a)
    <3>1. n - a \in 1..b BY <1>1, <1>3, <2>2
    <3> QED BY <1>1, <1>2, <1>3, <2>2, <3>1
  <2> QED BY <2>1, <2>2
<1>5. ASSUME NEW n \in DOMAIN s PROVE n \in DOMAIN u /\ u[n] = s[n]
  <2>1. n \in 1..(a + b) /\ n <= a BY <1>1
  <2> QED BY <1>2, <1>3, <2>1
<1>6. ASSUME NEW n \in DOMAIN t PROVE n + a \in DOMAIN u /\ u[n + a] = t[n]
  <2> DEFINE j == n + a
  <2>1. j \in 1..(a + b) /\ ~(j <= a) /\ j - a = n BY <1>1
  <2> HIDE DEF j
  <2>2. u[j] = t[j - a] BY <1>2, <2>1
  <2>3. j \in DOMAIN u /\ u[j] = t[n] BY <1>3, <2>1, <2>2
  <2> QED BY <2>3 DEF j
<1>7. a \in Nat /\ DOMAIN u \subseteq Int BY <1>1, <1>3
<1>8. Together(s, t, u) BY <1>4, <1>5, <1>6, <1>7 DEF Together, a
<1> QED BY <1>2, <1>8

\* Tail and Front are special cases.
LEMMA TailFront ==
    ASSUME NEW S, NEW s \in Seq(S), s # <<>>
    PROVE  /\ 1 \in DOMAIN s /\ Head(s) = s[1] /\ Tail(s) = RemoveAt(s, 1)
           /\ Len(s) \in DOMAIN s /\ Last(s) = s[Len(s)] /\ Front(s) = RemoveAt(s, Len(s))
<1>1. Len(s) \in Nat /\ Len(s) # 0 /\ DOMAIN s = 1..Len(s) BY LenProperties, EmptySeq
<1>2. 1 \in DOMAIN s /\ Len(s) \in DOMAIN s /\ Head(s) = s[1] BY <1>1
<1>3. Last(s) = s[Len(s)] BY DEF Last
<1>4. Tail(s) = RemoveAt(s, 1)
  <2>1. Tail(s) = SubSeq(s, 2, Len(s)) BY TailIsSubSeq
  <2>2. SubSeq(s, 1, 1 - 1) = <<>> BY SubSeqEmpty
  <2>3. SubSeq(s, 2, Len(s)) \in Seq(S) BY <2>1, HeadTailProperties
  <2>4. <<>> \o SubSeq(s, 2, Len(s)) = SubSeq(s, 2, Len(s)) BY <2>3, ConcatEmptySeq
  <2>5. 1 + 1 = 2 OBVIOUS
  <2> QED BY <2>1, <2>2, <2>4, <2>5 DEF RemoveAt
<1>5. Front(s) = RemoveAt(s, Len(s))
  <2>1. SubSeq(s, Len(s) + 1, Len(s)) = <<>> BY <1>1, SubSeqEmpty
  <2>2. \A i \in 1..(Len(s) - 1) : s[i] \in S BY <1>1, ElementOfSeq
  <2>3. SubSeq(s, 1, Len(s) - 1) \in Seq(S) BY <1>1, <2>2, SubSeqProperties
  <2>4. SubSeq(s, 1, Len(s) - 1) \o <<>> = SubSeq(s, 1, Len(s) - 1) BY <2>3, ConcatEmptySeq
  <2> QED BY <2>1, <2>4 DEF RemoveAt, Front
<1> QED BY <1>2, <1>3, <1>4, <1>5

TakeOut(fl, i, j) == [fl EXCEPT ![i] = RemoveAt(@, j)]

\* A block is taken out.
LEMMA Dropped ==
    ASSUME NEW fl, Good(fl), NEW i \in Orders, NEW j \in DOMAIN fl[i]
    PROVE  /\ Good(TakeOut(fl, i, j))
           /\ FreePages(TakeOut(fl, i, j)) = FreePages(fl) \ BlockPages(fl[i][j])
<1> DEFINE fl2 == [fl EXCEPT ![i] = RemoveAt(@, j)]
<1>1. fl \in FreeLists /\ Separate(fl) /\ Fits(fl) /\ Aligned(fl) /\ DOMAIN fl = Orders
  BY DEF Good, FreeLists
<1>2. fl[i] \in Seq(Blocks) BY <1>1, ListType
<1>3. fl2[i] = RemoveAt(fl[i], j) /\ \A k \in Orders \ {i} : fl2[k] = fl[k] BY <1>1
<1>4. fl2[i] \in Seq(Blocks) BY <1>2, <1>3, Removed
<1>5. PICK at \in [DOMAIN fl2[i] -> DOMAIN fl[i]] :
         /\ \A n \in DOMAIN fl2[i] : at[n] # j /\ fl2[i][n] = fl[i][at[n]]
         /\ \A n, m \in DOMAIN fl2[i] : at[n] = at[m] => n = m
         /\ \A m \in DOMAIN fl[i] : m # j => \E n \in DOMAIN fl2[i] : at[n] = m
  <2>1. Without(fl[i], j, fl2[i]) BY <1>2, <1>3, Removed
  <2> HIDE DEF fl2
  <2> QED BY <2>1 DEF Without
<1>6. fl2 \in FreeLists BY <1>1, <1>4 DEF FreeLists
<1> HIDE DEF fl2
<1> DEFINE src(k, n) == IF k = i THEN at[n] ELSE n
<1>7. ASSUME NEW k \in Orders, NEW n \in DOMAIN fl2[k]
      PROVE  /\ src(k, n) \in DOMAIN fl[k] /\ fl2[k][n] = fl[k][src(k, n)]
             /\ ~(k = i /\ src(k, n) = j)
  BY <1>3, <1>5
<1>8. ASSUME NEW k \in Orders, NEW n \in DOMAIN fl2[k], NEW m \in DOMAIN fl2[k],
             src(k, n) = src(k, m)
      PROVE  n = m
  BY <1>5, <1>8
<1>9. ASSUME NEW k \in Orders, NEW m \in DOMAIN fl[k], ~(k = i /\ m = j)
      PROVE  \E n \in DOMAIN fl2[k] : src(k, n) = m
  BY <1>3, <1>5, <1>9
<1> HIDE DEF src
<1>10. Separate(fl2)
  <2>1. SUFFICES ASSUME NEW k \in Orders, NEW l \in Orders, NEW n \in DOMAIN fl2[k],
                        NEW m \in DOMAIN fl2[l], NEW p,
                        p \in BlockPages(fl2[k][n]), p \in BlockPages(fl2[l][m])
                 PROVE  k = l /\ n = m
    BY DEF Separate
  <2>2. k = l /\ src(k, n) = src(l, m) BY <1>1, <1>7, <2>1 DEF Separate
  <2> QED BY <1>8, <2>2
<1>11. Fits(fl2) BY <1>1, <1>7 DEF Fits
<1>12. Aligned(fl2)
  <2>1. HugeOrder..MaxOrder \subseteq Orders BY OrderType DEF Orders
  <2> QED BY <1>1, <1>7, <2>1 DEF Aligned
<1>13. ASSUME NEW p PROVE p \in FreePages(fl2) <=> p \in FreePages(fl) /\ p \notin BlockPages(fl[i][j])
  <2>1. ASSUME p \in FreePages(fl2) PROVE p \in FreePages(fl) /\ p \notin BlockPages(fl[i][j])
    <3>1. PICK k \in Orders : \E n \in DOMAIN fl2[k] : p \in BlockPages(fl2[k][n])
      BY <2>1, PageFree
    <3>2. PICK n \in DOMAIN fl2[k] : p \in BlockPages(fl2[k][n]) BY <3>1
    <3>3. p \in BlockPages(fl[k][src(k, n)]) /\ src(k, n) \in DOMAIN fl[k] BY <1>7, <3>2
    <3>4. p \in FreePages(fl) BY <3>3, PageFree
    <3>5. p \notin BlockPages(fl[i][j]) BY <1>1, <1>7, <3>3 DEF Separate
    <3> QED BY <3>4, <3>5
  <2>2. ASSUME p \in FreePages(fl), p \notin BlockPages(fl[i][j]) PROVE p \in FreePages(fl2)
    <3>1. PICK k \in Orders : \E n \in DOMAIN fl[k] : p \in BlockPages(fl[k][n])
      BY <2>2, PageFree
    <3>2. PICK m \in DOMAIN fl[k] : p \in BlockPages(fl[k][m]) BY <3>1
    <3>3. PICK n \in DOMAIN fl2[k] : src(k, n) = m BY <1>9, <2>2, <3>2
    <3>4. p \in BlockPages(fl2[k][n]) BY <1>7, <3>2, <3>3
    <3> QED BY <3>4, PageFree
  <2> QED BY <2>1, <2>2
<1>14. FreePages(fl2) = FreePages(fl) \ BlockPages(fl[i][j]) BY <1>13
<1> QED BY <1>6, <1>10, <1>11, <1>12, <1>14 DEF Good, fl2, TakeOut

Join(fl, new) == [k \in Orders |-> fl[k] \o new[k]]

\* Two free lists without a page in common are put together.
LEMMA Combined ==
    ASSUME NEW fl, NEW new, Good(fl), Good(new), FreePages(fl) \cap FreePages(new) = {}
    PROVE  Good(Join(fl, new)) /\ FreePages(Join(fl, new)) = FreePages(fl) \cup FreePages(new)
<1> DEFINE fl2 == [k \in Orders |-> fl[k] \o new[k]]
<1>1. /\ fl \in FreeLists /\ Separate(fl) /\ Fits(fl) /\ Aligned(fl)
      /\ new \in FreeLists /\ Separate(new) /\ Fits(new) /\ Aligned(new)
  BY DEF Good
<1>2. ASSUME NEW k \in Orders
      PROVE  fl[k] \in Seq(Blocks) /\ new[k] \in Seq(Blocks) /\ fl2[k] = fl[k] \o new[k]
  BY <1>1, ListType
<1>3. ASSUME NEW k \in Orders PROVE fl2[k] \in Seq(Blocks) /\ Together(fl[k], new[k], fl2[k])
  BY <1>2, Concatenated
<1>4. fl2 \in FreeLists BY <1>3 DEF FreeLists
<1> HIDE DEF fl2
<1>5. ASSUME NEW k \in Orders, NEW n \in DOMAIN fl2[k]
      PROVE  \/ n \in DOMAIN fl[k] /\ fl2[k][n] = fl[k][n]
             \/ n - Len(fl[k]) \in DOMAIN new[k] /\ fl2[k][n] = new[k][n - Len(fl[k])]
  BY <1>3 DEF Together
<1>6. ASSUME NEW k \in Orders, NEW n \in DOMAIN fl[k]
      PROVE  n \in DOMAIN fl2[k] /\ fl2[k][n] = fl[k][n]
  BY <1>3 DEF Together
<1>7. ASSUME NEW k \in Orders, NEW n \in DOMAIN new[k]
      PROVE  n + Len(fl[k]) \in DOMAIN fl2[k] /\ fl2[k][n + Len(fl[k])] = new[k][n]
  BY <1>3 DEF Together
<1>8. ASSUME NEW k \in Orders, NEW l \in Orders, NEW n \in DOMAIN fl[k], NEW m \in DOMAIN new[l], NEW p,
             p \in BlockPages(fl[k][n]), p \in BlockPages(new[l][m])
      PROVE  FALSE
  <2>1. p \in FreePages(fl) /\ p \in FreePages(new) BY <1>8, PageFree
  <2> QED BY <2>1
<1>9. Separate(fl2)
  <2>1. SUFFICES ASSUME NEW k \in Orders, NEW l \in Orders, NEW n \in DOMAIN fl2[k],
                        NEW m \in DOMAIN fl2[l], NEW p,
                        p \in BlockPages(fl2[k][n]), p \in BlockPages(fl2[l][m])
                 PROVE  k = l /\ n = m
    BY DEF Separate
  <2> DEFINE OldK == n \in DOMAIN fl[k] /\ fl2[k][n] = fl[k][n]
             NewK == n - Len(fl[k]) \in DOMAIN new[k] /\ fl2[k][n] = new[k][n - Len(fl[k])]
             OldL == m \in DOMAIN fl[l] /\ fl2[l][m] = fl[l][m]
             NewL == m - Len(fl[l]) \in DOMAIN new[l] /\ fl2[l][m] = new[l][m - Len(fl[l])]
  <2>2. (OldK \/ NewK) /\ (OldL \/ NewL) BY <1>5
  <2>3. CASE OldK /\ OldL BY <1>1, <2>1, <2>3 DEF Separate
  <2>4. CASE OldK /\ NewL BY <1>8, <2>1, <2>4
  <2>5. CASE NewK /\ OldL
    <3>1. p \in BlockPages(new[k][n - Len(fl[k])]) /\ p \in BlockPages(fl[l][m]) BY <2>1, <2>5
    <3> QED BY <1>8, <2>5, <3>1
  <2>6. CASE NewK /\ NewL
    <3> DEFINE x == n - Len(fl[k])
               y == m - Len(fl[l])
    <3>0. /\ x \in DOMAIN new[k] /\ p \in BlockPages(new[k][x])
          /\ y \in DOMAIN new[l] /\ p \in BlockPages(new[l][y])
      BY <2>1, <2>6
    <3>1. k = l /\ x = y
      <4> HIDE DEF x, y
      <4> QED BY <1>1, <3>0 DEF Separate
    <3>2. n \in Int /\ m \in Int /\ Len(fl[k]) \in Nat
      <4>1. DOMAIN fl2[k] \subseteq Int /\ Len(fl[k]) \in Nat BY <1>3 DEF Together
      <4> QED BY <3>1, <4>1
    <3> QED BY <3>1, <3>2
  <2> QED BY <2>2, <2>3, <2>4, <2>5, <2>6
<1>10. Fits(fl2) BY <1>1, <1>5 DEF Fits
<1>11. Aligned(fl2)
  <2>1. HugeOrder..MaxOrder \subseteq Orders BY OrderType DEF Orders
  <2> QED BY <1>1, <1>5, <2>1 DEF Aligned
<1>12. ASSUME NEW p PROVE p \in FreePages(fl2) <=> p \in FreePages(fl) \/ p \in FreePages(new)
  <2>1. ASSUME p \in FreePages(fl2) PROVE p \in FreePages(fl) \/ p \in FreePages(new)
    <3>1. PICK k \in Orders : \E n \in DOMAIN fl2[k] : p \in BlockPages(fl2[k][n])
      BY <2>1, PageFree
    <3>2. PICK n \in DOMAIN fl2[k] : p \in BlockPages(fl2[k][n]) BY <3>1
    <3>3. CASE n \in DOMAIN fl[k] /\ fl2[k][n] = fl[k][n] BY <3>2, <3>3, PageFree
    <3>4. CASE n - Len(fl[k]) \in DOMAIN new[k] /\ fl2[k][n] = new[k][n - Len(fl[k])]
      BY <3>2, <3>4, PageFree
    <3> QED BY <1>5, <3>3, <3>4
  <2>2. ASSUME p \in FreePages(fl) PROVE p \in FreePages(fl2)
    <3>1. PICK k \in Orders : \E n \in DOMAIN fl[k] : p \in BlockPages(fl[k][n])
      BY <2>2, PageFree
    <3> QED BY <1>6, <3>1, PageFree
  <2>3. ASSUME p \in FreePages(new) PROVE p \in FreePages(fl2)
    <3>1. PICK k \in Orders : \E n \in DOMAIN new[k] : p \in BlockPages(new[k][n])
      BY <2>3, PageFree
    <3>2. PICK n \in DOMAIN new[k] : p \in BlockPages(new[k][n]) BY <3>1
    <3>3. p \in BlockPages(fl2[k][n + Len(fl[k])]) /\ n + Len(fl[k]) \in DOMAIN fl2[k] BY <1>7, <3>2
    <3> QED BY <3>3, PageFree
  <2> QED BY <2>1, <2>2, <2>3
<1>13. FreePages(fl2) = FreePages(fl) \cup FreePages(new) BY <1>12
<1> QED BY <1>4, <1>9, <1>10, <1>11, <1>13 DEF Good, fl2, Join

----------------------------------------------------------------------------
(* Pieces of a block *)

\* The empty list.
Nothing == [k \in Orders |-> <<>>]

(* Sets that grow from one order to the next: the rings between them are   *)
(* disjoint and fill the gap between the first set and the last.           *)
Growing(a, lo, hi) == \A k \in lo..(hi - 1) : a[k] \subseteq a[k + 1]

\* Growing sets are nested, and each page of the gap is in one ring.
LEMMA Nested ==
    ASSUME NEW lo \in Nat, NEW hi \in Nat, lo <= hi, NEW a, Growing(a, lo, hi)
    PROVE  /\ \A k, l \in lo..hi : k <= l => a[k] \subseteq a[l]
           /\ \A p : p \in a[hi] /\ p \notin a[lo] =>
                 \E k \in lo..(hi - 1) : p \in a[k + 1] /\ p \notin a[k]
<1>1. ASSUME NEW k \in lo..hi, NEW l \in lo..hi, k <= l PROVE a[k] \subseteq a[l]
  <2> DEFINE S == {d \in Nat : k + d <= hi => a[k] \subseteq a[k + d]}
  <2>1. 0 \in S
    <3>1. k + 0 = k OBVIOUS
    <3> QED BY <3>1
  <2>2. ASSUME NEW d \in Nat, d \in S PROVE d + 1 \in S
    <3>1. SUFFICES ASSUME k + (d + 1) <= hi PROVE a[k] \subseteq a[k + (d + 1)] OBVIOUS
    <3>2. k + d \in lo..(hi - 1) /\ k + d <= hi /\ k + (d + 1) = (k + d) + 1 BY <3>1
    <3>3. a[k + d] \subseteq a[(k + d) + 1] BY <3>2 DEF Growing
    <3> QED BY <2>2, <3>2, <3>3
  <2> HIDE DEF S
  <2>3. \A d \in Nat : d \in S BY <2>1, <2>2, NatSetInduction
  <2>4. l - k \in Nat /\ k + (l - k) = l /\ l <= hi BY <1>1
  <2> QED BY <2>3, <2>4 DEF S
<1>2. ASSUME NEW p, p \in a[hi], p \notin a[lo]
      PROVE  \E k \in lo..(hi - 1) : p \in a[k + 1] /\ p \notin a[k]
  <2> DEFINE S == {d \in Nat : lo + d <= hi /\ p \in a[lo + d] =>
                                  \E k \in lo..(hi - 1) : p \in a[k + 1] /\ p \notin a[k]}
  <2>1. 0 \in S
    <3>1. lo + 0 = lo OBVIOUS
    <3> QED BY <1>2, <3>1
  <2>2. ASSUME NEW d \in Nat, d \in S PROVE d + 1 \in S
    <3>1. SUFFICES ASSUME lo + (d + 1) <= hi, p \in a[lo + (d + 1)]
                   PROVE  \E k \in lo..(hi - 1) : p \in a[k + 1] /\ p \notin a[k]
      OBVIOUS
    <3>2. lo + d \in lo..(hi - 1) /\ lo + d <= hi /\ lo + (d + 1) = (lo + d) + 1 BY <3>1
    <3>3. CASE p \in a[lo + d] BY <2>2, <3>2, <3>3
    <3>4. CASE p \notin a[lo + d] BY <3>1, <3>2, <3>4
    <3> QED BY <3>3, <3>4
  <2> HIDE DEF S
  <2>3. \A d \in Nat : d \in S BY <2>1, <2>2, NatSetInduction
  <2>4. hi - lo \in Nat /\ lo + (hi - lo) = hi /\ hi <= hi OBVIOUS
  <2> QED BY <1>2, <2>3, <2>4 DEF S
<1> QED BY <1>1, <1>2

\* At each order from lo up to below hi, one block or none: the ring there.
Rings(new, a, lo, hi) ==
    /\ \A k \in Orders : \A j \in DOMAIN new[k] :
          /\ k \in lo..(hi - 1) /\ j = 1
          /\ \A p : p \in BlockPages(new[k][j]) <=> p \in a[k + 1] /\ p \notin a[k]
    /\ \A k \in lo..(hi - 1) : \A p : p \in a[k + 1] /\ p \notin a[k] => 1 \in DOMAIN new[k]

\* Lists that hold one ring each share no page and fill the gap.
LEMMA RingPages ==
    ASSUME NEW lo \in Orders, NEW hi \in Orders, lo <= hi, NEW a, Growing(a, lo, hi),
           NEW new, Rings(new, a, lo, hi)
    PROVE  Separate(new) /\ FreePages(new) = a[hi] \ a[lo]
<1>0. lo \in Nat /\ hi \in Nat /\ hi <= MaxOrder /\ MaxOrder \in Nat BY OrderType
<1>1. \A k, l \in lo..hi : k <= l => a[k] \subseteq a[l] BY <1>0, Nested
<1>2. Separate(new)
  <2>1. SUFFICES ASSUME NEW k \in Orders, NEW l \in Orders, NEW i \in DOMAIN new[k],
                        NEW j \in DOMAIN new[l], NEW p,
                        p \in BlockPages(new[k][i]), p \in BlockPages(new[l][j])
                 PROVE  k = l /\ i = j
    BY DEF Separate
  <2>2. /\ k \in lo..(hi - 1) /\ l \in lo..(hi - 1) /\ i = 1 /\ j = 1
        /\ p \in a[k + 1] /\ p \notin a[k] /\ p \in a[l + 1] /\ p \notin a[l]
    BY <2>1 DEF Rings
  <2>3. ASSUME k < l PROVE FALSE
    <3>1. k + 1 \in lo..hi /\ l \in lo..hi /\ k + 1 <= l BY <1>0, <2>2, <2>3
    <3> QED BY <1>1, <2>2, <3>1
  <2>4. ASSUME l < k PROVE FALSE
    <3>1. l + 1 \in lo..hi /\ k \in lo..hi /\ l + 1 <= k BY <1>0, <2>2, <2>4
    <3> QED BY <1>1, <2>2, <3>1
  <2>5. k = l BY <1>0, <2>2, <2>3, <2>4
  <2> QED BY <2>2, <2>5
<1>3. ASSUME NEW p, p \in FreePages(new) PROVE p \in a[hi] \ a[lo]
  <2>1. PICK k \in Orders : \E j \in DOMAIN new[k] : p \in BlockPages(new[k][j])
    BY <1>3, PageFree
  <2>2. k \in lo..(hi - 1) /\ p \in a[k + 1] /\ p \notin a[k] BY <2>1 DEF Rings
  <2>3. /\ k \in lo..hi /\ k + 1 \in lo..hi /\ lo \in lo..hi /\ hi \in lo..hi
        /\ lo <= k /\ k + 1 <= hi
    BY <1>0, <2>2
  <2> QED BY <1>1, <2>2, <2>3
<1>4. ASSUME NEW p \in a[hi] \ a[lo] PROVE p \in FreePages(new)
  <2>1. PICK k \in lo..(hi - 1) : p \in a[k + 1] /\ p \notin a[k] BY <1>0, Nested
  <2>2. 1 \in DOMAIN new[k] /\ k \in Orders BY <1>0, <2>1 DEF Rings, Orders
  <2>3. p \in BlockPages(new[k][1]) BY <2>1, <2>2 DEF Rings
  <2> QED BY <2>2, <2>3, PageFree
<1> QED BY <1>2, <1>3, <1>4

\* A block cut into n chunks of order k.
LEMMA ChunkPages ==
    ASSUME NEW b \in Blocks, NEW k \in Orders, NEW n \in Nat, BlockSize(b) = n * 2^k,
           k >= HugeOrder => AtMultiple(b, k)
    PROVE  LET new == [Nothing EXCEPT ![k] = Chunks(b, k)]
           IN  Good(new) /\ FreePages(new) = BlockPages(b)
<1> DEFINE new == [Nothing EXCEPT ![k] = Chunks(b, k)]
           P == 2^k
<1>1. P \in Nat \ {0} /\ P \in Nat /\ P > 0 BY Powers
<1>2. b.start \in Int /\ b.end \in Int /\ b.end - b.start + 1 = n * P BY BlockFacts
<1>3. BlockSize(b) \div P = n
  <2>1. n * P \in Nat /\ n * P <= n * P /\ n * P < n * P + P BY <1>1
  <2> QED BY <1>1, <2>1, Quotient
<1>4. Chunks(b, k) = [j \in 1..n |-> Block(b.start + (j - 1) * P, k)] BY <1>3 DEF Chunks
<1> HIDE DEF P
<1>5. ASSUME NEW j \in 1..n
      PROVE  /\ j - 1 \in Nat /\ (j - 1) * P \in Nat /\ b.start + (j - 1) * P \in Int
             /\ (j - 1) * P + P <= n * P
  <2>1. j - 1 \in Nat /\ j - 1 < n OBVIOUS
  <2> DEFINE i == j - 1
  <2>2. i * P \in Nat /\ i * P + P <= n * P
    <3> HIDE DEF i
    <3>1. i \in Nat /\ i < n BY <2>1 DEF i
    <3> QED BY <1>1, <3>1, Times
  <2> QED BY <1>2, <2>1, <2>2
<1>6. ASSUME NEW j \in 1..n
      PROVE  /\ Chunks(b, k)[j] \in Blocks /\ BlockSize(Chunks(b, k)[j]) = P
             /\ Chunks(b, k)[j].start = b.start + (j - 1) * P
             /\ \A p : p \in BlockPages(Chunks(b, k)[j]) <=>
                          p \in Int /\ b.start + (j - 1) * P <= p /\ p < b.start + (j - 1) * P + P
  <2> DEFINE s == b.start + (j - 1) * P
  <2>1. s \in Int /\ Chunks(b, k)[j] = Block(s, k) BY <1>4, <1>5
  <2> HIDE DEF s
  <2>2. /\ Block(s, k) \in Blocks /\ BlockSize(Block(s, k)) = P /\ Block(s, k).start = s
        /\ \A p : p \in BlockPages(Block(s, k)) <=> p \in Int /\ s <= p /\ p < s + P
    BY <2>1, BlockOfOrder DEF P
  <2> QED BY <2>1, <2>2 DEF s
<1>7. Chunks(b, k) \in Seq(Blocks) /\ DOMAIN Chunks(b, k) = 1..n
  <2>1. DOMAIN Chunks(b, k) = 1..n BY <1>4
  <2>2. Chunks(b, k) \in [1..n -> Blocks] BY <1>4, <1>6
  <2> QED BY <2>1, <2>2
<1>8. /\ new[k] = Chunks(b, k) /\ \A l \in Orders \ {k} : new[l] = <<>> /\ DOMAIN new[l] = {}
      /\ new = [l \in Orders |-> new[l]]
  BY DEF Nothing
<1>9. new \in FreeLists
  <2>1. <<>> \in Seq(Blocks) OBVIOUS
  <2> HIDE DEF new
  <2>2. \A l \in Orders : new[l] \in Seq(Blocks) BY <1>7, <1>8, <2>1
  <2> QED BY <1>8, <2>2 DEF FreeLists
<1> HIDE DEF new
<1>10. ASSUME NEW l \in Orders, NEW j \in DOMAIN new[l]
       PROVE  l = k /\ j \in 1..n /\ new[l][j] = Chunks(b, k)[j]
  BY <1>7, <1>8
<1>11. Separate(new)
  <2>1. SUFFICES ASSUME NEW i \in 1..n, NEW j \in 1..n, NEW p,
                        p \in BlockPages(Chunks(b, k)[i]), p \in BlockPages(Chunks(b, k)[j])
                 PROVE  i = j
    BY <1>10 DEF Separate
  <2>2. ASSUME NEW x \in 1..n, NEW y \in 1..n, x < y,
               p \in BlockPages(Chunks(b, k)[x]), p \in BlockPages(Chunks(b, k)[y])
        PROVE  FALSE
    <3> DEFINE u == x - 1
               v == y - 1
    <3>1. u \in Nat /\ v \in Nat /\ u < v BY <2>2
    <3>2. p \in Int /\ b.start + v * P <= p /\ p < b.start + u * P + P BY <1>6, <2>2
    <3> HIDE DEF u, v
    <3>3. u * P \in Nat /\ v * P \in Nat /\ u * P + P <= v * P BY <1>1, <3>1, Times
    <3> QED BY <1>1, <1>2, <3>2, <3>3
  <2>3. ~(i < j) /\ ~(j < i) BY <2>1, <2>2
  <2> QED BY <2>3
<1>12. Fits(new) BY <1>6, <1>10 DEF Fits, P
<1>13. Aligned(new)
  <2>1. SUFFICES ASSUME k >= HugeOrder, NEW j \in 1..n PROVE AtMultiple(Chunks(b, k)[j], k)
    <3>1. HugeOrder..MaxOrder \subseteq Orders /\ \A l \in HugeOrder..MaxOrder : l >= HugeOrder
      BY OrderType DEF Orders
    <3> QED BY <1>10, <3>1 DEF Aligned
  <2>2. PICK m \in Nat : b.start = KernelPages + m * P BY <2>1 DEF AtMultiple, P
  <2> DEFINE i == j - 1
  <2>3. i \in Nat /\ Chunks(b, k)[j].start = b.start + i * P BY <1>6
  <2> HIDE DEF i
  <2>4. m * P + i * P = (m + i) * P /\ m * P \in Nat /\ i * P \in Nat BY <1>1, <2>3
  <2>5. KernelPages \in Nat BY OrderType
  <2>6. Chunks(b, k)[j].start = KernelPages + (m + i) * P BY <2>2, <2>3, <2>4, <2>5
  <2>7. m + i \in Nat BY <2>3
  <2> QED BY <2>6, <2>7 DEF AtMultiple, P
<1>14. ASSUME NEW p PROVE p \in FreePages(new) <=> p \in BlockPages(b)
  <2>1. p \in FreePages(new) <=> \E j \in 1..n : p \in BlockPages(Chunks(b, k)[j])
    <3>1. \A j \in 1..n : j \in DOMAIN new[k] /\ new[k][j] = Chunks(b, k)[j] BY <1>7, <1>8
    <3> QED BY <1>10, <3>1, PageFree
  <2>2. p \in BlockPages(b) <=> p \in Int /\ b.start <= p /\ p <= b.end BY BlockFacts
  <2>3. ASSUME NEW j \in 1..n, p \in BlockPages(Chunks(b, k)[j]) PROVE p \in BlockPages(b)
    <3> DEFINE c == (j - 1) * P
               e == n * P
    <3>1. p \in Int /\ b.start + c <= p /\ p < b.start + c + P BY <1>6, <2>3
    <3>2. c \in Nat /\ c + P <= e /\ b.end - b.start + 1 = e BY <1>2, <1>5
    <3>3. e \in Nat BY <1>1
    <3> HIDE DEF c, e
    <3> QED BY <1>1, <1>2, <2>2, <3>1, <3>2, <3>3
  <2>4. ASSUME p \in BlockPages(b) PROVE \E j \in 1..n : p \in BlockPages(Chunks(b, k)[j])
    <3> DEFINE o == p - b.start
               q == o \div P
    <3>1. o \in Nat /\ o < n * P /\ p \in Int
      <4> DEFINE e == n * P
      <4>1. e \in Nat /\ b.end - b.start + 1 = e BY <1>1, <1>2
      <4> HIDE DEF e
      <4>2. o \in Nat /\ o < e /\ p \in Int BY <1>2, <2>2, <2>4, <4>1
      <4> QED BY <4>2 DEF e
    <3> HIDE DEF o
    <3>2. q \in Nat /\ q * P <= o /\ o < q * P + P BY <1>1, <3>1, Division
    <3> HIDE DEF q
    <3>3. q < n
      <4>1. ASSUME n <= q PROVE FALSE
        <5>1. n * P <= q * P /\ n * P \in Nat /\ q * P \in Nat BY <1>1, <3>2, <4>1, Times
        <5> QED BY <3>1, <3>2, <5>1
      <4> QED BY <3>2, <4>1
    <3>4. q + 1 \in 1..n /\ (q + 1) - 1 = q BY <3>2, <3>3
    <3>5. b.start + q * P <= p /\ p < b.start + q * P + P
      <4>1. q * P \in Nat /\ p = b.start + o BY <1>1, <1>2, <3>1, <3>2 DEF o
      <4> QED BY <1>1, <1>2, <3>1, <3>2, <4>1
    <3>6. p \in BlockPages(Chunks(b, k)[q + 1]) BY <1>6, <3>1, <3>4, <3>5
    <3> QED BY <3>4, <3>6
  <2> QED BY <2>1, <2>3, <2>4
<1>15. FreePages(new) = BlockPages(b) BY <1>14
<1> QED BY <1>9, <1>11, <1>12, <1>13, <1>15 DEF Good, new

----------------------------------------------------------------------------
(* One block replaced by pieces of it *)

\* fl2 is fl without the j-th block of order i, with the blocks of new.
Replaced(fl, i, j, new, fl2) ==
    /\ fl2 = [k \in Orders |-> fl2[k]]
    /\ fl2[i] = RemoveAt(fl[i], j) \o new[i]
    /\ \A k \in Orders : k # i => fl2[k] = fl[k] \o new[k]

\* A block replaced by blocks within it leaves the lists good.
LEMMA ReplacedPages ==
    ASSUME NEW fl, Good(fl), NEW i \in Orders, NEW j \in DOMAIN fl[i],
           NEW new, Good(new), FreePages(new) \subseteq BlockPages(fl[i][j]),
           NEW fl2, Replaced(fl, i, j, new, fl2)
    PROVE  /\ Good(fl2)
           /\ FreePages(fl2) = (FreePages(fl) \ BlockPages(fl[i][j])) \cup FreePages(new)
           /\ BlockPages(fl[i][j]) \subseteq FreePages(fl)
<1> DEFINE d == TakeOut(fl, i, j)
           c == Join(d, new)
<1>1. Good(d) /\ FreePages(d) = FreePages(fl) \ BlockPages(fl[i][j]) BY Dropped
<1>2. DOMAIN fl = Orders BY DEF Good, FreeLists
<1>3. d[i] = RemoveAt(fl[i], j) /\ \A k \in Orders : k # i => d[k] = fl[k] BY <1>2 DEF TakeOut
<1> HIDE DEF d
<1>4. FreePages(d) \cap FreePages(new) = {} BY <1>1
<1>5. Good(c) /\ FreePages(c) = FreePages(d) \cup FreePages(new) BY <1>1, <1>4, Combined
<1>6. \A k \in Orders : c[k] = fl2[k] BY <1>3 DEF Replaced, Join
<1>7. c = [k \in Orders |-> c[k]] BY DEF Join
<1> HIDE DEF c
<1>8. c = fl2 BY <1>6, <1>7 DEF Replaced
<1>9. ASSUME NEW p \in BlockPages(fl[i][j]) PROVE p \in FreePages(fl) BY PageFree
<1> QED BY <1>1, <1>5, <1>8, <1>9

\* The empty list is good.
LEMMA NothingFacts ==
    /\ Good(Nothing) /\ FreePages(Nothing) = {}
    /\ \A k \in Orders : Nothing[k] = <<>> /\ DOMAIN Nothing[k] = {}
<1>1. \A k \in Orders : Nothing[k] = <<>> /\ DOMAIN Nothing[k] = {} BY DEF Nothing
<1>2. Nothing \in FreeLists
  <2>1. <<>> \in Seq(Blocks) OBVIOUS
  <2> QED BY <2>1 DEF Nothing, FreeLists
<1>3. Separate(Nothing) /\ Fits(Nothing) BY <1>1 DEF Separate, Fits
<1>4. Aligned(Nothing)
  <2>1. HugeOrder..MaxOrder \subseteq Orders BY OrderType DEF Orders
  <2> QED BY <1>1, <2>1 DEF Aligned
<1>5. FreePages(Nothing) = {} BY <1>1, PageFree
<1> QED BY <1>1, <1>2, <1>3, <1>4, <1>5 DEF Good

ChunkList(b, k) == [Nothing EXCEPT ![k] = Chunks(b, k)]

\* A block's chunks of a lower order can replace it.
LEMMA ChunksOf ==
    ASSUME NEW fl, Good(fl), NEW i \in Orders, NEW j \in DOMAIN fl[i], NEW k \in Orders, k < i,
           NEW new, new = ChunkList(fl[i][j], k)
    PROVE  /\ Good(new) /\ FreePages(new) = BlockPages(fl[i][j])
           /\ new[k] = Chunks(fl[i][j], k) /\ \A l \in Orders : l # k => new[l] = <<>>
           /\ Chunks(fl[i][j], k) # <<>> /\ k # i
<1> DEFINE b == fl[i][j]
<1>0. i \in Nat /\ k \in Nat /\ i <= MaxOrder /\ HugeOrder \in Nat BY OrderType
<1>1. b \in Blocks BY ListType DEF Good
<1>2. BlockSize(b) = 2^i BY DEF Good, Fits
<1>3. PICK r \in Nat \ {0} : 2^i = r * 2^k BY <1>0, Multiples
<1>4. k >= HugeOrder => AtMultiple(b, k)
  <2>1. SUFFICES ASSUME k >= HugeOrder PROVE AtMultiple(b, k) OBVIOUS
  <2>2. i \in HugeOrder..MaxOrder BY <1>0, <2>1, OrderType
  <2>3. AtMultiple(b, i) BY <2>2 DEF Good, Aligned
  <2>4. PICK n \in Nat : b.start = KernelPages + n * 2^i BY <2>3 DEF AtMultiple
  <2>5. n * (r * 2^k) = (n * r) * 2^k /\ n * r \in Nat BY Powers
  <2>6. b.start = KernelPages + (n * r) * 2^k BY <1>3, <2>4, <2>5
  <2> QED BY <2>5, <2>6 DEF AtMultiple
<1>8. new = [Nothing EXCEPT ![k] = Chunks(b, k)] BY DEF ChunkList
<1> HIDE DEF b
<1>5. Good(new) /\ FreePages(new) = BlockPages(b) BY <1>1, <1>2, <1>3, <1>4, <1>8, ChunkPages
<1>6. new[k] = Chunks(b, k) /\ \A l \in Orders : l # k => new[l] = <<>> BY <1>8 DEF Nothing
<1>7. Chunks(b, k) # <<>>
  <2>1. 2^k \in Nat \ {0} /\ r * 2^k <= r * 2^k /\ r * 2^k < r * 2^k + 2^k /\ r * 2^k \in Nat BY Powers
  <2>2. BlockSize(b) \div 2^k = r BY <1>2, <1>3, <2>1, Quotient
  <2>3. DOMAIN Chunks(b, k) = 1..r BY <2>2 DEF Chunks
  <2>4. 1 \in DOMAIN Chunks(b, k) /\ DOMAIN <<>> = {} BY <2>3
  <2> QED BY <2>4
<1>9. k # i BY <1>0
<1> QED BY <1>5, <1>6, <1>7, <1>9 DEF b

\* Fragmentation moves no page.
LEMMA SplitPages ==
    ASSUME NEW fl, Good(fl), NEW i \in Orders, NEW k \in Orders, k < i, fl[i] # <<>>
    PROVE  Good(Split(fl, i, k)) /\ FreePages(Split(fl, i, k)) = FreePages(fl)
<1>1. DOMAIN fl = Orders /\ fl \in FreeLists BY DEF Good, FreeLists
<1>2. fl[i] \in Seq(Blocks) BY <1>1, ListType
<1>3. 1 \in DOMAIN fl[i] /\ Head(fl[i]) = fl[i][1] /\ Tail(fl[i]) = RemoveAt(fl[i], 1)
  BY <1>2, TailFront
<1> DEFINE new == ChunkList(fl[i][1], k)
           fl2 == Split(fl, i, k)
<1>4. /\ Good(new) /\ FreePages(new) = BlockPages(fl[i][1])
      /\ new[k] = Chunks(fl[i][1], k) /\ \A l \in Orders : l # k => new[l] = <<>>
      /\ k # i
  BY <1>3, ChunksOf
<1> HIDE DEF new
<1>5. /\ fl2 = [l \in Orders |-> fl2[l]]
      /\ fl2[i] = RemoveAt(fl[i], 1) /\ fl2[k] = fl[k] \o new[k]
      /\ \A l \in Orders : l # i /\ l # k => fl2[l] = fl[l]
  BY <1>1, <1>3, <1>4 DEF Split
<1> HIDE DEF fl2
<1>6. RemoveAt(fl[i], 1) \in Seq(Blocks) /\ \A l \in Orders : fl[l] \in Seq(Blocks)
  BY <1>1, <1>2, <1>3, Removed, ListType
<1>7. RemoveAt(fl[i], 1) \o <<>> = RemoveAt(fl[i], 1) /\ \A l \in Orders : fl[l] \o <<>> = fl[l]
  BY <1>6, ConcatEmptySeq
<1>8. Replaced(fl, i, 1, new, fl2)
  BY <1>4, <1>5, <1>7 DEF Replaced
<1>9. /\ Good(fl2) /\ FreePages(fl2) = (FreePages(fl) \ BlockPages(fl[i][1])) \cup FreePages(new)
      /\ BlockPages(fl[i][1]) \subseteq FreePages(fl)
  BY <1>3, <1>4, <1>8, ReplacedPages
<1> QED BY <1>4, <1>9 DEF fl2


----------------------------------------------------------------------------
(* Least and greatest elements *)

\* What Min returns.
LEMMA Least ==
    ASSUME NEW S, S \subseteq Nat, S # {}
    PROVE  Min(S) \in S /\ \A y \in S : Min(S) <= y
<1>1. \E x \in S : \A y \in S : x <= y BY LeastNatural
<1> QED BY <1>1 DEF Min

\* What Max returns.
LEMMA Greatest ==
    ASSUME NEW S, NEW n \in Nat, S \subseteq 0..n, S # {}
    PROVE  Max(S) \in S /\ \A y \in S : Max(S) >= y
<1> DEFINE T == {n - x : x \in S}
<1>1. T \subseteq Nat /\ T # {} OBVIOUS
<1>2. PICK t \in T : \A y \in T : t <= y
  <2> HIDE DEF T
  <2> QED BY <1>1, LeastNatural
<1>3. PICK x \in S : t = n - x OBVIOUS
<1>4. ASSUME NEW y \in S PROVE x >= y
  <2>1. n - y \in T OBVIOUS
  <2>2. n - x <= n - y BY <1>2, <1>3, <2>1
  <2>3. x \in 0..n /\ y \in 0..n OBVIOUS
  <2> QED BY <2>2, <2>3
<1>5. \E m \in S : \A y \in S : m >= y BY <1>4
<1> QED BY <1>5 DEF Max

\* Powers of two grow with the order.
LEMMA PowerOrder ==
    ASSUME NEW k \in Orders, NEW l \in Orders, k <= l
    PROVE  2^k <= 2^l
<1>1. k \in Nat /\ l \in Nat BY OrderType
<1>2. CASE k = l BY <1>2, Powers
<1>3. CASE k < l
  <2>1. 2^(k + 1) <= 2^l BY <1>3, PowersOfTwo
  <2>2. 2^(k + 1) = 2 * 2^k /\ 2^k \in Nat /\ 2^l \in Nat BY Powers
  <2> QED BY <2>1, <2>2
<1> QED BY <1>1, <1>2, <1>3

----------------------------------------------------------------------------
(* allocate() *)

\* The lower halves that splitting b from order i down to ind leaves.
Halves(b, i, ind) ==
    [k \in Orders |-> IF k \in ind..(i - 1) THEN <<Block((b.start + 2^i) - 2^(k + 1), k)>> ELSE <<>>]

\* The halves left by allocate() fill the block but for the run handed out.
LEMMA HalvesPages ==
    ASSUME NEW b \in Blocks, NEW i \in Orders, NEW ind \in Orders, ind <= i,
           BlockSize(b) = 2^i, i >= HugeOrder => AtMultiple(b, i),
           NEW top, top = b.start + 2^i,
           NEW new, new = Halves(b, i, ind)
    PROVE  /\ Good(new)
           /\ BlockPages(Block(top - 2^ind, ind)) \subseteq BlockPages(b)
           /\ FreePages(new) = BlockPages(b) \ BlockPages(Block(top - 2^ind, ind))
<1> DEFINE a == [k \in Orders |-> (top - 2^k)..(top - 1)]
<1>0. i \in Nat /\ ind \in Nat /\ i <= MaxOrder /\ MaxOrder \in Nat /\ HugeOrder \in Nat BY OrderType
<1>1. b.start \in Int /\ b.end \in Int /\ 2^i \in Nat BY BlockFacts, Powers
<1>2. top \in Int /\ b.end = top - 1 /\ b.start = top - 2^i BY <1>1, BlockFacts
<1>3. \A k \in Orders : a[k] = (top - 2^k)..(top - 1) OBVIOUS
<1> HIDE DEF a
<1>4. ASSUME NEW k \in ind..(i - 1)
      PROVE  /\ k \in Orders /\ k + 1 \in Orders /\ k \in Nat
             /\ 2^k \in Nat /\ 2^k > 0 /\ 2^(k + 1) = 2 * 2^k /\ 2^(k + 1) \in Nat
             /\ top - 2^(k + 1) \in Int
  <2>1. k \in Orders /\ k + 1 \in Orders /\ k \in Nat BY <1>0 DEF Orders
  <2> QED BY <1>2, <2>1, Powers
<1>5. ASSUME NEW k \in ind..(i - 1), NEW p
      PROVE  /\ p \in a[k] => p \in a[k + 1]
             /\ p \in BlockPages(Block(top - 2^(k + 1), k)) <=> p \in a[k + 1] /\ p \notin a[k]
  <2> DEFINE P == 2^k
  <2>1. P \in Nat /\ P > 0 BY <1>4
  <2>2. p \in a[k] <=> p \in Int /\ top - P <= p /\ p <= top - 1
    BY <1>2, <1>3, <1>4
  <2>3. p \in a[k + 1] <=> p \in Int /\ top - 2 * P <= p /\ p <= top - 1
    BY <1>2, <1>3, <1>4
  <2>4. p \in BlockPages(Block(top - 2^(k + 1), k)) <=>
           p \in Int /\ top - 2^(k + 1) <= p /\ p < top - 2^(k + 1) + 2^k
    BY <1>4, BlockOfOrder
  <2>5. p \in BlockPages(Block(top - 2^(k + 1), k)) <=>
           p \in Int /\ top - 2 * P <= p /\ p < top - 2 * P + P
    BY <1>4, <2>4
  <2> HIDE DEF P
  <2> QED BY <1>2, <2>1, <2>2, <2>3, <2>5
<1>6. \A k \in Orders : /\ k \in ind..(i - 1) => new[k] = <<Block(top - 2^(k + 1), k)>>
                        /\ k \notin ind..(i - 1) => new[k] = <<>>
  BY <1>1, <1>2 DEF Halves
<1>7. ASSUME NEW k \in Orders, NEW j \in DOMAIN new[k]
      PROVE  k \in ind..(i - 1) /\ j = 1 /\ new[k][j] = Block(top - 2^(k + 1), k)
  BY <1>6
<1>8. ASSUME NEW k \in ind..(i - 1) PROVE 1 \in DOMAIN new[k] BY <1>4, <1>6
<1>9. Growing(a, ind, i) BY <1>5 DEF Growing
<1>10. Rings(new, a, ind, i)
  <2>1. ASSUME NEW k \in Orders, NEW j \in DOMAIN new[k]
        PROVE  /\ k \in ind..(i - 1) /\ j = 1
               /\ \A p : p \in BlockPages(new[k][j]) <=> p \in a[k + 1] /\ p \notin a[k]
    BY <1>5, <1>7
  <2> QED BY <1>8, <2>1 DEF Rings
<1>11. Separate(new) /\ FreePages(new) = a[i] \ a[ind] BY <1>9, <1>10, RingPages
<1>12. new \in FreeLists
  <2>1. \A k \in Orders : new[k] \in Seq(Blocks)
    <3>1. ASSUME NEW k \in Orders PROVE new[k] \in Seq(Blocks)
      <4>1. CASE k \in ind..(i - 1)
        <5>1. Block(top - 2^(k + 1), k) \in Blocks BY <1>4, <4>1, BlockOfOrder
        <5>2. new[k] = <<Block(top - 2^(k + 1), k)>> BY <1>6, <4>1
        <5> QED BY <5>1, <5>2
      <4>2. CASE k \notin ind..(i - 1)
        <5>1. new[k] = <<>> BY <1>6, <4>2
        <5> QED BY <5>1
      <4> QED BY <4>1, <4>2
    <3> QED BY <3>1
  <2>2. new = [k \in Orders |-> new[k]] BY DEF Halves
  <2> QED BY <2>1, <2>2 DEF FreeLists
<1>13. Fits(new)
  <2>1. ASSUME NEW k \in Orders, NEW j \in DOMAIN new[k] PROVE BlockSize(new[k][j]) = 2^k
    BY <1>4, <1>7, BlockOfOrder
  <2> QED BY <2>1 DEF Fits
<1>14. Aligned(new)
  <2>1. SUFFICES ASSUME NEW k \in HugeOrder..MaxOrder, NEW j \in DOMAIN new[k]
                 PROVE  AtMultiple(new[k][j], k)
    BY DEF Aligned
  <2>2. k \in Orders /\ k >= HugeOrder BY <1>0 DEF Orders
  <2>3. k \in ind..(i - 1) /\ new[k][j] = Block(top - 2^(k + 1), k) BY <1>7, <2>2
  <2>4. k + 1 \in Orders /\ k + 1 <= i /\ i >= HugeOrder BY <1>0, <1>4, <2>2, <2>3
  <2>5. PICK r \in Nat \ {0} : 2^i = r * 2^(k + 1) BY <2>4, Multiples
  <2>6. PICK n \in Nat : b.start = KernelPages + n * 2^i BY <2>4 DEF AtMultiple
  <2> DEFINE P == 2^k
  <2>7. P \in Nat /\ 2^(k + 1) = 2 * P BY <1>4, <2>3
  <2>8. new[k][j].start = top - 2 * P BY <1>4, <2>3, <2>7, BlockOfOrder
  <2>9. 2^i = r * (2 * P) BY <2>5, <2>7
  <2> HIDE DEF P
  <2>10. r - 1 \in Nat BY <2>5
  <2> DEFINE q == (r - 1) + n * r
  <2>11. q \in Nat BY <2>10
  <2>12. r * (2 * P) - 2 * P + n * (r * (2 * P)) = (2 * ((r - 1) + n * r)) * P BY <2>7
  <2>13. top - 2 * P = KernelPages + (2 * q) * P BY <1>1, <2>6, <2>7, <2>9, <2>12, OrderType
  <2>14. 2 * q \in Nat BY <2>11
  <2> HIDE DEF q
  <2> QED BY <2>8, <2>13, <2>14 DEF AtMultiple, P
<1>15. ASSUME NEW p PROVE p \in a[i] <=> p \in BlockPages(b)
  <2>1. a[i] = b.start..b.end BY <1>2, <1>3
  <2> QED BY <2>1 DEF BlockPages
<1>16. ASSUME NEW p PROVE p \in a[ind] <=> p \in BlockPages(Block(top - 2^ind, ind))
  <2> DEFINE P == 2^ind
  <2>1. P \in Nat BY Powers
  <2>2. p \in a[ind] <=> p \in Int /\ top - P <= p /\ p <= top - 1 BY <1>2, <1>3, <2>1
  <2>3. p \in BlockPages(Block(top - P, ind)) <=> p \in Int /\ top - P <= p /\ p < top - P + P
    BY <1>2, <2>1, BlockOfOrder
  <2> HIDE DEF P
  <2>4. p \in a[ind] <=> p \in BlockPages(Block(top - P, ind)) BY <1>2, <2>1, <2>2, <2>3
  <2> QED BY <2>4 DEF P
<1>17. \A k, l \in ind..i : k <= l => a[k] \subseteq a[l] BY <1>0, <1>9, Nested
<1>18. a[ind] \subseteq a[i]
  <2>1. ind \in ind..i /\ i \in ind..i BY <1>0
  <2> QED BY <1>17, <2>1
<1> QED BY <1>11, <1>12, <1>13, <1>14, <1>15, <1>16, <1>18 DEF Good

\* The lists after allocate(), order by order.
LEMMA AllocateLists ==
    ASSUME NEW fl, NEW ind \in Orders, NEW i, i = Min(Candidates(fl, ind)),
           NEW top, top = Last(fl[i]).start + 2^i, NEW fl2, fl2 = AllocateFrom(fl, ind)
    PROVE  /\ fl2 = [k \in Orders |-> fl2[k]]
           /\ \A k \in Orders :
                /\ k = i => fl2[k] = Front(fl[k])
                /\ k # i /\ k \in ind..(i - 1) => fl2[k] = Append(fl[k], Block(top - 2^(k + 1), k))
                /\ k # i /\ k \notin ind..(i - 1) => fl2[k] = fl[k]
<1>1. ASSUME NEW k \in Orders, k = i PROVE fl2[k] = Front(fl[k]) BY <1>1 DEF AllocateFrom
<1>2. ASSUME NEW k \in Orders, k # i, k \in ind..(i - 1)
      PROVE  fl2[k] = Append(fl[k], Block(top - 2^(k + 1), k))
  BY <1>2 DEF AllocateFrom
<1>3. ASSUME NEW k \in Orders, k # i, k \notin ind..(i - 1) PROVE fl2[k] = fl[k]
  BY <1>3 DEF AllocateFrom
<1>4. fl2 = [k \in Orders |-> fl2[k]] BY DEF AllocateFrom
<1> QED BY <1>1, <1>2, <1>3, <1>4

\* allocate() replaces one block by what is left of it without the pages handed out.
LEMMA AllocateReplaces ==
    ASSUME NEW fl, Tidy(fl), NEW ind \in Orders, Candidates(fl, ind) # {},
           NEW page, page = AllocatedPage(fl, ind)
    PROVE  /\ page \in Int
           /\ ind >= HugeOrder => AtMultiple(Block(page, ind), ind)
           /\ \E i \in Orders : \E j \in DOMAIN fl[i] : \E new :
                 /\ Good(new) /\ Replaced(fl, i, j, new, AllocateFrom(fl, ind))
                 /\ BlockPages(Block(page, ind)) \subseteq BlockPages(fl[i][j])
                 /\ FreePages(new) = BlockPages(fl[i][j]) \ BlockPages(Block(page, ind))
<1> DEFINE i == Min(Candidates(fl, ind))
           j == Len(fl[i])
           b == fl[i][j]
           top == b.start + 2^i
           new == Halves(b, i, ind)
           fl2 == AllocateFrom(fl, ind)
<1>0. ind \in Nat /\ MaxOrder \in Nat /\ HugeOrder \in Nat BY OrderType
<1>1. i \in Candidates(fl, ind)
  <2>1. Candidates(fl, ind) \subseteq Nat BY <1>0 DEF Candidates
  <2> QED BY <2>1, Least
<1>2. i \in Orders /\ i \in Nat /\ ind <= i /\ i <= MaxOrder /\ fl[i] # <<>>
  BY <1>0, <1>1 DEF Candidates, Orders
<1>3. page = Last(fl[i]).start + 2^i - 2^ind
  BY DEF AllocatedPage
<1> HIDE DEF i, fl2, j, b
<1>5. \A k \in Orders : fl[k] \in Seq(Blocks) BY ListType DEF Tidy
<1>6. j \in DOMAIN fl[i] /\ Last(fl[i]) = b /\ Front(fl[i]) = RemoveAt(fl[i], j)
  BY <1>2, <1>5, TailFront DEF j, b
<1>7. b \in Blocks /\ BlockSize(b) = 2^i BY <1>2, <1>6, ListType DEF Tidy, Fits, b
<1>8. i >= HugeOrder => AtMultiple(b, i)
  <2>1. i >= HugeOrder => i \in HugeOrder..MaxOrder BY <1>0, <1>2
  <2> QED BY <1>6, <2>1 DEF Tidy, Aligned, b
<1>9. page = top - 2^ind
  <2>1. page = b.start + 2^i - 2^ind BY <1>3, <1>6
  <2>2. b.start \in Int /\ 2^i \in Nat /\ 2^ind \in Nat BY <1>2, <1>7, BlockFacts, Powers
  <2> QED BY <2>1, <2>2
<1>10. ASSUME NEW k \in Orders
       PROVE  /\ k = i => fl2[k] = Front(fl[k])
              /\ k # i /\ k \in ind..(i - 1) => fl2[k] = Append(fl[k], Block(top - 2^(k + 1), k))
              /\ k # i /\ k \notin ind..(i - 1) => fl2[k] = fl[k]
  <2>1. Last(fl[i]).start + 2^i = top BY <1>6
  <2>2. i = Min(Candidates(fl, ind)) /\ fl2 = AllocateFrom(fl, ind) BY DEF i, fl2
  <2> HIDE DEF top
  <2> QED BY <2>1, <2>2, AllocateLists
<1>11. b.start \in Int /\ 2^i \in Nat /\ top \in Int /\ 2^ind \in Nat
  BY <1>2, <1>7, BlockFacts, Powers
<1>12. ASSUME NEW k \in Orders
       PROVE  /\ k \in ind..(i - 1) => new[k] = <<Block(top - 2^(k + 1), k)>>
              /\ k \notin ind..(i - 1) => new[k] = <<>>
  <2>1. CASE k \in ind..(i - 1) BY <2>1 DEF Halves
  <2>2. CASE k \notin ind..(i - 1) BY <2>2 DEF Halves
  <2> QED BY <2>1, <2>2
<1>13. /\ Good(new)
       /\ BlockPages(Block(top - 2^ind, ind)) \subseteq BlockPages(b)
       /\ FreePages(new) = BlockPages(b) \ BlockPages(Block(top - 2^ind, ind))
  <2>1. top = b.start + 2^i /\ new = Halves(b, i, ind) OBVIOUS
  <2>2. i \in Orders /\ ind <= i BY <1>2
  <2> HIDE DEF top, new
  <2>3. Good(new) BY <1>7, <1>8, <2>1, <2>2, HalvesPages
  <2>4. BlockPages(Block(top - 2^ind, ind)) \subseteq BlockPages(b) BY <1>7, <1>8, <2>1, <2>2, HalvesPages
  <2>5. FreePages(new) = BlockPages(b) \ BlockPages(Block(top - 2^ind, ind))
    BY <1>7, <1>8, <2>1, <2>2, HalvesPages
  <2> QED BY <2>3, <2>4, <2>5
<1> HIDE DEF new
<1>14. i \notin ind..(i - 1) BY <1>2
<1>15. fl2[i] = RemoveAt(fl[i], j) \o new[i]
  <2>1. RemoveAt(fl[i], j) \in Seq(Blocks) BY <1>2, <1>5, <1>6, Removed
  <2>2. RemoveAt(fl[i], j) \o <<>> = RemoveAt(fl[i], j) BY <2>1, ConcatEmptySeq
  <2>3. fl2[i] = RemoveAt(fl[i], j) BY <1>2, <1>6, <1>10
  <2>4. new[i] = <<>> BY <1>2, <1>12, <1>14
  <2> QED BY <2>2, <2>3, <2>4
<1>16. ASSUME NEW k \in Orders, k # i PROVE fl2[k] = fl[k] \o new[k]
  <2>1. fl[k] \in Seq(Blocks) BY <1>5
  <2>2. CASE k \in ind..(i - 1)
    <3> DEFINE x == Block(top - 2^(k + 1), k)
    <3>1. fl2[k] = Append(fl[k], x) /\ new[k] = <<x>> BY <1>10, <1>12, <1>16, <2>2
    <3>2. x \in Blocks
      <4>1. k + 1 \in Orders BY <1>0, <1>2, <2>2 DEF Orders
      <4>2. 2^(k + 1) \in Nat BY <4>1, Powers
      <4>3. top - 2^(k + 1) \in Int BY <1>11, <4>2
      <4> QED BY <4>3, BlockOfOrder
    <3> HIDE DEF x
    <3>3. Append(fl[k], x) = fl[k] \o <<x>> BY <2>1, <3>2, AppendIsConcat
    <3> QED BY <3>1, <3>3
  <2>3. CASE k \notin ind..(i - 1)
    <3>1. fl2[k] = fl[k] /\ new[k] = <<>> BY <1>10, <1>12, <1>16, <2>3
    <3>2. fl[k] \o <<>> = fl[k] BY <2>1, ConcatEmptySeq
    <3> QED BY <3>1, <3>2
  <2> QED BY <2>2, <2>3
<1>17. fl2 = [k \in Orders |-> fl2[k]] BY AllocateLists DEF fl2
<1>18. Replaced(fl, i, j, new, fl2) BY <1>15, <1>16, <1>17 DEF Replaced
<1>19. /\ BlockPages(Block(page, ind)) \subseteq BlockPages(fl[i][j])
       /\ FreePages(new) = BlockPages(fl[i][j]) \ BlockPages(Block(page, ind))
  BY <1>9, <1>13 DEF b
<1>22. page \in Int BY <1>9, <1>11
<1>23. ind >= HugeOrder => AtMultiple(Block(page, ind), ind)
  <2>1. SUFFICES ASSUME ind >= HugeOrder PROVE AtMultiple(Block(page, ind), ind) OBVIOUS
  <2>2. AtMultiple(b, i) BY <1>0, <1>2, <1>8, <2>1
  <2>3. PICK n \in Nat : b.start = KernelPages + n * 2^i BY <2>2 DEF AtMultiple
  <2>4. PICK r \in Nat \ {0} : 2^i = r * 2^ind BY <1>2, Multiples
  <2>5. n * (r * 2^ind) + r * 2^ind - 2^ind = (n * r + (r - 1)) * 2^ind BY <1>11
  <2>6. n * r + (r - 1) \in Nat
    <3>1. n * r \in Nat /\ r - 1 \in Nat OBVIOUS
    <3> QED BY <3>1
  <2>7. page = KernelPages + (n * r + (r - 1)) * 2^ind
    BY <1>9, <1>11, <2>3, <2>4, <2>5, OrderType
  <2>8. Block(page, ind).start = page BY DEF Block
  <2> QED BY <2>6, <2>7, <2>8 DEF AtMultiple
<1>24. Replaced(fl, i, j, new, AllocateFrom(fl, ind)) BY <1>18 DEF fl2
<1> QED BY <1>2, <1>6, <1>13, <1>19, <1>22, <1>23, <1>24

\* allocate() takes exactly the run it returns out of the lists.
LEMMA AllocatePages ==
    ASSUME NEW fl, Good(fl), NEW ind \in Orders, Candidates(fl, ind) # {},
           NEW page, page = AllocatedPage(fl, ind)
    PROVE  /\ Good(AllocateFrom(fl, ind)) /\ page \in Int
           /\ BlockPages(Block(page, ind)) \subseteq FreePages(fl)
           /\ FreePages(AllocateFrom(fl, ind)) = FreePages(fl) \ BlockPages(Block(page, ind))
           /\ ind >= HugeOrder => AtMultiple(Block(page, ind), ind)
<1> DEFINE run == BlockPages(Block(page, ind))
           fl2 == AllocateFrom(fl, ind)
<1>1. Tidy(fl) BY DEF Good, Tidy
<1>2. page \in Int /\ (ind >= HugeOrder => AtMultiple(Block(page, ind), ind))
  BY <1>1, AllocateReplaces
<1>3. PICK i \in Orders : \E j \in DOMAIN fl[i] : \E new :
         /\ Good(new) /\ Replaced(fl, i, j, new, fl2) /\ run \subseteq BlockPages(fl[i][j])
         /\ FreePages(new) = BlockPages(fl[i][j]) \ run
  BY <1>1, AllocateReplaces
<1>3a. PICK j \in DOMAIN fl[i] : \E new :
         /\ Good(new) /\ Replaced(fl, i, j, new, fl2) /\ run \subseteq BlockPages(fl[i][j])
         /\ FreePages(new) = BlockPages(fl[i][j]) \ run
  BY <1>3
<1>4. PICK new :
         /\ Good(new) /\ Replaced(fl, i, j, new, fl2) /\ run \subseteq BlockPages(fl[i][j])
         /\ FreePages(new) = BlockPages(fl[i][j]) \ run
  BY <1>3a
<1> HIDE DEF run, fl2
<1>5. /\ Good(fl2) /\ FreePages(fl2) = (FreePages(fl) \ BlockPages(fl[i][j])) \cup FreePages(new)
      /\ BlockPages(fl[i][j]) \subseteq FreePages(fl)
  BY <1>4, ReplacedPages
<1>6. run \subseteq FreePages(fl) /\ FreePages(fl2) = FreePages(fl) \ run BY <1>4, <1>5
<1> QED BY <1>2, <1>5, <1>6 DEF run, fl2

\* What is left of lists whose blocks may overlap.
LEMMA ReplacedTidy ==
    ASSUME NEW fl, Tidy(fl), NEW i \in Orders, NEW j \in DOMAIN fl[i],
           NEW new, Good(new), NEW fl2, Replaced(fl, i, j, new, fl2)
    PROVE  /\ Tidy(fl2)
           /\ FreePages(fl) \subseteq (FreePages(fl2) \cup BlockPages(fl[i][j]))
           /\ FreePages(new) \subseteq FreePages(fl2)
           /\ FreePages(fl2) \subseteq FreePages(fl) \cup FreePages(new)
<1> DEFINE s(k) == IF k = i THEN RemoveAt(fl[i], j) ELSE fl[k]
<1>1. ASSUME NEW k \in Orders
      PROVE  /\ s(k) \in Seq(Blocks) /\ new[k] \in Seq(Blocks)
             /\ \A m \in DOMAIN s(k) : \E n \in DOMAIN fl[k] : s(k)[m] = fl[k][n]
             /\ \A n \in DOMAIN fl[k] : (k = i => n # j) =>
                   \E m \in DOMAIN s(k) : s(k)[m] = fl[k][n]
  <2>1. fl[k] \in Seq(Blocks) /\ new[k] \in Seq(Blocks) BY ListType DEF Good, Tidy
  <2>2. CASE k # i
    <3>1. s(k) = fl[k] BY <2>2
    <3> HIDE DEF s
    <3> QED BY <2>1, <2>2, <3>1
  <2>3. CASE k = i
    <3>1. s(k) = RemoveAt(fl[k], j) BY <2>3
    <3>2. s(k) \in Seq(Blocks) /\ Without(fl[k], j, s(k)) BY <2>1, <2>3, <3>1, Removed
    <3> HIDE DEF s
    <3>3. PICK at \in [DOMAIN s(k) -> DOMAIN fl[k]] :
             /\ \A m \in DOMAIN s(k) : at[m] # j /\ s(k)[m] = fl[k][at[m]]
             /\ \A n \in DOMAIN fl[k] : n # j => \E m \in DOMAIN s(k) : at[m] = n
      BY <3>2 DEF Without
    <3> QED BY <2>1, <2>3, <3>2, <3>3
  <2> QED BY <2>2, <2>3
<1>2. ASSUME NEW k \in Orders PROVE fl2[k] = s(k) \o new[k]
  BY DEF Replaced
<1> HIDE DEF s
<1>3. ASSUME NEW k \in Orders PROVE fl2[k] \in Seq(Blocks) /\ Together(s(k), new[k], fl2[k])
  BY <1>1, <1>2, Concatenated
<1>4. fl2 \in FreeLists
  <2>1. fl2 = [k \in Orders |-> fl2[k]] BY DEF Replaced
  <2> QED BY <1>3, <2>1 DEF FreeLists
<1>5. ASSUME NEW k \in Orders, NEW n \in DOMAIN fl2[k]
      PROVE  \/ \E m \in DOMAIN fl[k] : fl2[k][n] = fl[k][m]
             \/ \E m \in DOMAIN new[k] : fl2[k][n] = new[k][m]
  <2>1. \/ n \in DOMAIN s(k) /\ fl2[k][n] = s(k)[n]
        \/ n - Len(s(k)) \in DOMAIN new[k] /\ fl2[k][n] = new[k][n - Len(s(k))]
    BY <1>3 DEF Together
  <2>2. CASE n \in DOMAIN s(k) /\ fl2[k][n] = s(k)[n] BY <1>1, <2>2
  <2> QED BY <2>1, <2>2
<1>6. Fits(fl2) BY <1>5 DEF Fits, Tidy, Good
<1>7. Aligned(fl2)
  <2>1. HugeOrder..MaxOrder \subseteq Orders BY OrderType DEF Orders
  <2> QED BY <1>5, <2>1 DEF Aligned, Tidy, Good
<1>8. ASSUME NEW p \in FreePages(fl), p \notin BlockPages(fl[i][j]) PROVE p \in FreePages(fl2)
  <2>1. PICK k \in Orders : \E n \in DOMAIN fl[k] : p \in BlockPages(fl[k][n]) BY PageFree
  <2>2. PICK n \in DOMAIN fl[k] : p \in BlockPages(fl[k][n]) BY <2>1
  <2>3. k = i => n # j BY <1>8, <2>2
  <2>4. PICK m \in DOMAIN s(k) : s(k)[m] = fl[k][n] BY <1>1, <2>3
  <2>5. m \in DOMAIN fl2[k] /\ fl2[k][m] = fl[k][n] BY <1>3, <2>4 DEF Together
  <2> QED BY <2>2, <2>5, PageFree
<1>9. ASSUME NEW p \in FreePages(new) PROVE p \in FreePages(fl2)
  <2>1. PICK k \in Orders : \E n \in DOMAIN new[k] : p \in BlockPages(new[k][n]) BY PageFree
  <2>2. PICK n \in DOMAIN new[k] : p \in BlockPages(new[k][n]) BY <2>1
  <2>3. PICK m \in DOMAIN fl2[k] : fl2[k][m] = new[k][n] BY <1>3 DEF Together
  <2> QED BY <2>2, <2>3, PageFree
<1>10. ASSUME NEW p \in FreePages(fl2) PROVE p \in FreePages(fl) \/ p \in FreePages(new)
  <2>1. PICK k \in Orders : \E n \in DOMAIN fl2[k] : p \in BlockPages(fl2[k][n]) BY PageFree
  <2>2. PICK n \in DOMAIN fl2[k] : p \in BlockPages(fl2[k][n]) BY <2>1
  <2> QED BY <1>5, <2>2, PageFree
<1> QED BY <1>4, <1>6, <1>7, <1>8, <1>9, <1>10 DEF Tidy

\* One page handed out from such lists: no other page is lost, and no large block
\* appears.
LEMMA AllocateOne ==
    ASSUME NEW fl, Tidy(fl), Candidates(fl, 0) # {}, NEW page, page = AllocatedPage(fl, 0)
    PROVE  /\ Tidy(AllocateFrom(fl, 0)) /\ page \in FreePages(fl)
           /\ FreePages(fl) \subseteq FreePages(AllocateFrom(fl, 0)) \cup {page}
           /\ FreePages(AllocateFrom(fl, 0)) \subseteq FreePages(fl)
           /\ HugeCandidates(fl) = {} => HugeCandidates(AllocateFrom(fl, 0)) = {}
<1> DEFINE fl2 == AllocateFrom(fl, 0)
           run == BlockPages(Block(page, 0))
<1>0. 0 \in Orders /\ 2^0 = 1 BY OrderType, PowersOfTwo
<1>1. page \in Int BY <1>0, AllocateReplaces
<1>2. PICK i \in Orders : \E j \in DOMAIN fl[i] : \E new :
         /\ Good(new) /\ Replaced(fl, i, j, new, fl2) /\ run \subseteq BlockPages(fl[i][j])
         /\ FreePages(new) = BlockPages(fl[i][j]) \ run
  BY <1>0, AllocateReplaces
<1>2a. PICK j \in DOMAIN fl[i] : \E new :
         /\ Good(new) /\ Replaced(fl, i, j, new, fl2) /\ run \subseteq BlockPages(fl[i][j])
         /\ FreePages(new) = BlockPages(fl[i][j]) \ run
  BY <1>2
<1>3. PICK new :
         /\ Good(new) /\ Replaced(fl, i, j, new, fl2) /\ run \subseteq BlockPages(fl[i][j])
         /\ FreePages(new) = BlockPages(fl[i][j]) \ run
  BY <1>2a
<1>4. run = {page}
  <2>1. \A p : p \in run <=> p \in Int /\ page <= p /\ p < page + 2^0 BY <1>0, <1>1, BlockOfOrder
  <2> HIDE DEF run
  <2> QED BY <1>0, <1>1, <2>1
<1> HIDE DEF run, fl2
<1>5. /\ Tidy(fl2) /\ FreePages(fl) \subseteq (FreePages(fl2) \cup BlockPages(fl[i][j]))
      /\ FreePages(new) \subseteq FreePages(fl2)
      /\ FreePages(fl2) \subseteq FreePages(fl) \cup FreePages(new)
  BY <1>3, ReplacedTidy
<1>6. FreePages(fl) \subseteq FreePages(fl2) \cup {page} BY <1>3, <1>4, <1>5
<1>7. page \in FreePages(fl) BY <1>3, <1>4, PageFree
<1>8. ASSUME HugeCandidates(fl) = {} PROVE HugeCandidates(fl2) = {}
  <2> DEFINE c == Min(Candidates(fl, 0))
             top == Last(fl[c]).start + 2^c
  <2>1. c \in Candidates(fl, 0)
    <3>1. Candidates(fl, 0) \subseteq Nat BY OrderType DEF Candidates
    <3> QED BY <3>1, Least
  <2>2. c \in Nat /\ c <= MaxOrder /\ fl[c] # <<>> BY <2>1, OrderType DEF Candidates
  <2>3. \A k \in Orders : k # c /\ k \notin 0..(c - 1) => fl2[k] = fl[k]
    <3>1. c = Min(Candidates(fl, 0)) /\ top = Last(fl[c]).start + 2^c OBVIOUS
    <3> HIDE DEF c, top
    <3> QED BY <1>0, <3>1, AllocateLists DEF fl2
  <2> HIDE DEF c
  <2>4. \A k \in HugeOrder..MaxOrder : fl[k] = <<>> /\ k \in Orders
    BY <1>8, OrderType DEF HugeCandidates, Orders
  <2>5. c < HugeOrder BY <2>2, <2>4, OrderType
  <2>6. \A k \in HugeOrder..MaxOrder : fl2[k] = <<>>
    BY <2>2, <2>3, <2>4, <2>5, OrderType
  <2> QED BY <2>6 DEF HugeCandidates
<1>9. FreePages(fl2) \subseteq FreePages(fl)
  <2>1. BlockPages(fl[i][j]) \subseteq FreePages(fl) BY PageFree
  <2> QED BY <1>3, <1>5, <2>1
<1> QED BY <1>5, <1>6, <1>7, <1>8, <1>9 DEF fl2

----------------------------------------------------------------------------
(* reserve_2mb_page() *)

\* Chunking a larger block into 2MB blocks keeps the free pages.
LEMMA WithHugePages ==
    ASSUME NEW fl, Good(fl), HugeCandidates(fl) # {}
    PROVE  /\ Good(WithHugeBlock(fl)) /\ FreePages(WithHugeBlock(fl)) = FreePages(fl)
           /\ WithHugeBlock(fl)[HugeOrder] # <<>>
<1> DEFINE i == Min(HugeCandidates(fl))
<1>0. MaxOrder \in Nat /\ HugeOrder \in Nat /\ HugeOrder \in Orders BY OrderType
<1>1. i \in HugeCandidates(fl)
  <2>1. HugeCandidates(fl) \subseteq Nat BY <1>0 DEF HugeCandidates
  <2> QED BY <2>1, Least
<1>2. i \in Orders /\ i \in Nat /\ HugeOrder <= i /\ fl[i] # <<>>
  BY <1>0, <1>1 DEF HugeCandidates, Orders
<1>3. i = HugeOrder => WithHugeBlock(fl) = fl BY DEF WithHugeBlock
<1>4. i # HugeOrder => WithHugeBlock(fl) = Split(fl, i, HugeOrder) BY DEF WithHugeBlock, Split
<1> HIDE DEF i
<1>5. CASE i = HugeOrder BY <1>2, <1>3, <1>5
<1>6. CASE i # HugeOrder
  <2>1. HugeOrder < i BY <1>0, <1>2, <1>6
  <2>2. /\ Good(Split(fl, i, HugeOrder))
        /\ FreePages(Split(fl, i, HugeOrder)) = FreePages(fl)
    BY <1>0, <1>2, <2>1, SplitPages
  <2> DEFINE c == Chunks(fl[i][1], HugeOrder)
             s == fl[HugeOrder]
  <2>3. s \in Seq(Blocks) /\ fl[i] \in Seq(Blocks) /\ DOMAIN fl = Orders
    BY <1>0, <1>2, ListType DEF Good, FreeLists
  <2>4. 1 \in DOMAIN fl[i] /\ Head(fl[i]) = fl[i][1] BY <1>2, <2>3, TailFront
  <2> DEFINE new == ChunkList(fl[i][1], HugeOrder)
  <2>5. Good(new) /\ new[HugeOrder] = c /\ c # <<>> BY <1>0, <1>2, <2>1, <2>4, ChunksOf
  <2>6. c \in Seq(Blocks) BY <1>0, <2>5, ListType DEF Good
  <2>7. Split(fl, i, HugeOrder)[HugeOrder] = s \o c
    BY <1>0, <1>2, <1>6, <2>3, <2>4 DEF Split
  <2> HIDE DEF c, s, new
  <2>8. s \o c # <<>>
    <3>1. Len(s) \in Nat /\ Len(c) \in Nat /\ Len(c) # 0 BY <2>3, <2>5, <2>6, LenProperties, EmptySeq
    <3>2. Len(s \o c) = Len(s) + Len(c) BY <2>3, <2>6, ConcatProperties
    <3>3. Len(<<>>) = 0 BY EmptySeq
    <3> QED BY <3>1, <3>2, <3>3
  <2> QED BY <1>4, <1>6, <2>2, <2>7, <2>8
<1> QED BY <1>5, <1>6

\* reserve_2mb_page() takes out exactly the aligned 2MB block it returns.
LEMMA ReservePages ==
    ASSUME NEW fl, Good(fl), HugeCandidates(fl) # {},
           NEW b, b = ReservedBlock(fl)
    PROVE  /\ Good(ReserveFrom(fl)) /\ b \in Blocks /\ BlockSize(b) = 2^HugeOrder
           /\ AtMultiple(b, HugeOrder)
           /\ BlockPages(b) \subseteq FreePages(fl)
           /\ FreePages(ReserveFrom(fl)) = FreePages(fl) \ BlockPages(b)
<1> DEFINE w == WithHugeBlock(fl)
           s == w[HugeOrder]
           j == Len(s)
<1>0. HugeOrder \in Orders /\ HugeOrder \in HugeOrder..MaxOrder BY OrderType
<1>1. Good(w) /\ FreePages(w) = FreePages(fl) /\ s # <<>> BY WithHugePages
<1>2. b = Last(s) /\ ReserveFrom(fl) = [w EXCEPT ![HugeOrder] = Front(s)]
  BY DEF ReservedBlock, ReserveFrom
<1> HIDE DEF w
<1>3. s \in Seq(Blocks) BY <1>0, <1>1, ListType DEF Good
<1>4. j \in DOMAIN s /\ Last(s) = s[j] /\ Front(s) = RemoveAt(s, j) BY <1>1, <1>3, TailFront
<1>5. ReserveFrom(fl) = TakeOut(w, HugeOrder, j) BY <1>2, <1>4 DEF TakeOut
<1> HIDE DEF j
<1>6. Good(ReserveFrom(fl)) /\ FreePages(ReserveFrom(fl)) = FreePages(w) \ BlockPages(s[j])
  BY <1>0, <1>1, <1>4, <1>5, Dropped
<1>7. s[j] \in Blocks /\ BlockSize(s[j]) = 2^HugeOrder /\ AtMultiple(s[j], HugeOrder)
  BY <1>0, <1>1, <1>4, ListType DEF Good, Fits, Aligned
<1>8. ASSUME NEW p \in BlockPages(s[j]) PROVE p \in FreePages(w) BY <1>0, <1>4, PageFree
<1> QED BY <1>1, <1>2, <1>4, <1>6, <1>7, <1>8

----------------------------------------------------------------------------
(* free() *)

\* The orders of one page and of a pair.
LEMMA SmallOrders == OrderOf(1) = 0 /\ OrderOf(2) = 1 /\ 2^1 = 2 /\ 2^0 = 1 /\ 1 \in Orders
<1>0. 0 \in Orders /\ 1 \in Orders /\ 2^0 = 1 BY OrderType, PowersOfTwo DEF Orders
<1>1. 2^1 = 2
  <2>1. 2^(0 + 1) = 2 * 2^0 BY <1>0, Powers
  <2>2. 0 + 1 = 1 OBVIOUS
  <2> QED BY <1>0, <2>1, <2>2
<1>2. OrderOf(1) = 0
  <2> DEFINE S == {k \in 0..1 : 1 <= 2^k}
  <2>1. S \subseteq Nat /\ 0 \in S /\ \A y \in S : y \in Nat BY <1>0
  <2>2. OrderOf(1) = Min(S) BY DEF OrderOf
  <2> HIDE DEF S
  <2>3. Min(S) \in S /\ \A y \in S : Min(S) <= y BY <2>1, Least
  <2>4. Min(S) <= 0 /\ Min(S) \in Nat BY <2>1, <2>3
  <2> QED BY <2>2, <2>4
<1>3. OrderOf(2) = 1
  <2> DEFINE S == {k \in 0..2 : 2 <= 2^k}
  <2>1. S \subseteq Nat /\ 1 \in S /\ 0 \notin S /\ \A y \in S : y \in Nat BY <1>0, <1>1
  <2>2. OrderOf(2) = Min(S) BY DEF OrderOf
  <2> HIDE DEF S
  <2>3. Min(S) \in S /\ \A y \in S : Min(S) <= y BY <2>1, Least
  <2>4. Min(S) <= 1 /\ Min(S) \in Nat /\ Min(S) # 0 BY <2>1, <2>3
  <2> QED BY <2>2, <2>4
<1> QED BY <1>0, <1>1, <1>2, <1>3

\* free() of one or two pages that are not free adds exactly those.
LEMMA FreeToPages ==
    ASSUME NEW fl, Good(fl), NEW start \in Int, NEW size \in {1, 2}, NEW end, end = start + size - 1,
           (start..end) \cap FreePages(fl) = {}
    PROVE  /\ Good(FreeTo(fl, start, end))
           /\ FreePages(FreeTo(fl, start, end)) = FreePages(fl) \cup (start..end)
           /\ 2^OrderOf(end - start + 1) = size
<1> DEFINE k == OrderOf(size)
           b == [start |-> start, end |-> end]
           new == [Nothing EXCEPT ![k] = <<b>>]
           fl2 == FreeTo(fl, start, end)
<1>0. size \in Nat /\ end \in Int /\ end - start + 1 = size OBVIOUS
<1>1. k \in Orders /\ 2^k = size /\ k < HugeOrder
  <2>1. CASE size = 1
    <3>1. k = 0 BY <2>1, SmallOrders
    <3> HIDE DEF k
    <3>2. 2^k = 1 BY <3>1, SmallOrders
    <3> QED BY <2>1, <3>1, <3>2, SmallOrders, OrderType
  <2>2. CASE size = 2
    <3>1. k = 1 BY <2>2, SmallOrders
    <3> HIDE DEF k
    <3>2. 2^k = 2 BY <3>1, SmallOrders
    <3> QED BY <2>2, <3>1, <3>2, SmallOrders, OrderType
  <2> QED BY <2>1, <2>2
<1>2. b \in Blocks /\ BlockSize(b) = size /\ BlockPages(b) = start..end
  BY <1>0 DEF Blocks, BlockSize, BlockPages
<1>3. DOMAIN fl = Orders /\ \A l \in Orders : fl[l] \in Seq(Blocks)
  BY ListType DEF Good, FreeLists
<1>4. fl2 = [fl EXCEPT ![k] = Append(@, b)] BY <1>0 DEF FreeTo
<1> HIDE DEF k, b, fl2
<1>5. fl2 = [l \in Orders |-> fl2[l]] BY <1>3, <1>4
<1>6. fl2[k] = Append(fl[k], b) /\ \A l \in Orders : l # k => fl2[l] = fl[l] BY <1>1, <1>3, <1>4
<1>7. /\ new[k] = <<b>> /\ \A l \in Orders : l # k => new[l] = <<>>
      /\ new = [l \in Orders |-> new[l]]
  BY <1>1 DEF Nothing
<1> HIDE DEF new
<1>8. Append(fl[k], b) = fl[k] \o <<b>> BY <1>1, <1>2, <1>3, AppendIsConcat
<1>9. \A l \in Orders : fl[l] \o <<>> = fl[l] BY <1>3, ConcatEmptySeq
<1>10. \A l \in Orders : fl2[l] = fl[l] \o new[l] BY <1>6, <1>7, <1>8, <1>9
<1>11. fl2 = Join(fl, new) BY <1>5, <1>10 DEF Join
<1>12. ASSUME NEW l \in Orders, NEW j \in DOMAIN new[l] PROVE l = k /\ j = 1 /\ new[l][j] = b
  <2>1. DOMAIN <<>> = {} /\ DOMAIN <<b>> = {1} /\ <<b>>[1] = b OBVIOUS
  <2>2. l = k BY <1>7, <2>1
  <2>3. new[l] = <<b>> BY <1>7, <2>2
  <2> QED BY <2>1, <2>2, <2>3
<1>13. Good(new)
  <2>1. \A l \in Orders : new[l] \in Seq(Blocks)
    <3>1. <<>> \in Seq(Blocks) /\ <<b>> \in Seq(Blocks) BY <1>2
    <3> QED BY <1>7, <3>1
  <2>2. new \in FreeLists BY <1>7, <2>1 DEF FreeLists
  <2>3. Separate(new) /\ Fits(new) BY <1>1, <1>2, <1>12 DEF Separate, Fits
  <2>4. Aligned(new)
    <3>1. HugeOrder..MaxOrder \subseteq Orders /\ k \notin HugeOrder..MaxOrder
      BY <1>1, OrderType DEF Orders
    <3> QED BY <1>12, <3>1 DEF Aligned
  <2> QED BY <2>2, <2>3, <2>4 DEF Good
<1>14. ASSUME NEW p PROVE p \in FreePages(new) <=> p \in BlockPages(b)
  <2>1. 1 \in DOMAIN new[k] /\ new[k][1] = b BY <1>7
  <2> QED BY <1>1, <1>12, <2>1, PageFree
<1>15. FreePages(fl) \cap FreePages(new) = {} BY <1>2, <1>14
<1>16. Good(fl2) /\ FreePages(fl2) = FreePages(fl) \cup FreePages(new)
  BY <1>11, <1>13, <1>15, Combined
<1>17. 2^OrderOf(end - start + 1) = size BY <1>0, <1>1 DEF k
<1> QED BY <1>2, <1>14, <1>16, <1>17 DEF fl2

\* free() of two pages, onto lists whose blocks may overlap.
LEMMA FreePair ==
    ASSUME NEW fl, Tidy(fl), NEW start \in Int, NEW end, end = start + 1,
           NEW fl2, fl2 = FreeTo(fl, start, end)
    PROVE  /\ Tidy(fl2)
           /\ FreePages(fl) \subseteq FreePages(fl2) /\ start \in FreePages(fl2)
           /\ \A p \in FreePages(fl2) : p \in FreePages(fl) \/ p = start \/ p = end
           /\ HugeCandidates(fl2) = HugeCandidates(fl)
<1> DEFINE b == [start |-> start, end |-> end]
<1>0. /\ 1 \in Orders /\ 2^1 = 2 /\ OrderOf(2) = 1 /\ end - start + 1 = 2
      /\ \A k \in HugeOrder..MaxOrder : k \in Orders /\ k # 1
  BY SmallOrders, OrderType DEF Orders
<1>1. DOMAIN fl = Orders /\ \A k \in Orders : fl[k] \in Seq(Blocks) BY ListType DEF Tidy, FreeLists
<1>2. fl2 = [fl EXCEPT ![1] = Append(@, b)] BY <1>0 DEF FreeTo
<1>3. b \in Blocks /\ BlockSize(b) = 2 /\ BlockPages(b) = {start, end}
  <2>1. b.start = start /\ b.end = end /\ end \in Int OBVIOUS
  <2>2. b \in Blocks BY <2>1 DEF Blocks
  <2>3. BlockSize(b) = 2 BY <1>0, <2>1 DEF BlockSize
  <2>4. BlockPages(b) = start..end BY <2>1 DEF BlockPages
  <2>5. start..end = {start, end} OBVIOUS
  <2> QED BY <2>2, <2>3, <2>4, <2>5
<1> HIDE DEF b
<1>4. fl2[1] = Append(fl[1], b) /\ \A k \in Orders : k # 1 => fl2[k] = fl[k] BY <1>0, <1>1, <1>2
<1>5. fl2 = [k \in Orders |-> fl2[k]] BY <1>1, <1>2
<1>6. Append(fl[1], b) = fl[1] \o <<b>> BY <1>0, <1>1, <1>3, AppendIsConcat
<1>7. <<b>> \in Seq(Blocks) /\ DOMAIN <<b>> = {1} /\ <<b>>[1] = b BY <1>3
<1>8. fl2[1] \in Seq(Blocks) /\ Together(fl[1], <<b>>, fl2[1]) BY <1>0, <1>1, <1>4, <1>6, <1>7, Concatenated
<1>9. fl2 \in FreeLists BY <1>1, <1>4, <1>5, <1>8 DEF FreeLists
<1>10. ASSUME NEW k \in Orders, NEW n \in DOMAIN fl2[k]
       PROVE  (n \in DOMAIN fl[k] /\ fl2[k][n] = fl[k][n]) \/ (k = 1 /\ fl2[k][n] = b)
  <2>1. CASE k # 1 BY <1>4, <2>1
  <2>2. CASE k = 1
    <3>1. \/ n \in DOMAIN fl[1] /\ fl2[1][n] = fl[1][n]
          \/ n - Len(fl[1]) \in DOMAIN <<b>> /\ fl2[1][n] = <<b>>[n - Len(fl[1])]
      BY <1>8, <2>2 DEF Together
    <3> QED BY <1>7, <2>2, <3>1
  <2> QED BY <2>1, <2>2
<1>11. Fits(fl2) BY <1>0, <1>3, <1>10 DEF Fits, Tidy
<1>12. Aligned(fl2) BY <1>0, <1>4 DEF Aligned, Tidy
<1>13. ASSUME NEW p PROVE p \in FreePages(fl2) <=> p \in FreePages(fl) \/ p \in {start, end}
  <2>1. ASSUME p \in FreePages(fl2) PROVE p \in FreePages(fl) \/ p \in {start, end}
    <3>1. PICK k \in Orders : \E n \in DOMAIN fl2[k] : p \in BlockPages(fl2[k][n]) BY <2>1, PageFree
    <3>2. PICK n \in DOMAIN fl2[k] : p \in BlockPages(fl2[k][n]) BY <3>1
    <3> QED BY <1>3, <1>10, <3>2, PageFree
  <2>2. ASSUME p \in FreePages(fl) PROVE p \in FreePages(fl2)
    <3>1. PICK k \in Orders : \E n \in DOMAIN fl[k] : p \in BlockPages(fl[k][n]) BY <2>2, PageFree
    <3>2. PICK n \in DOMAIN fl[k] : p \in BlockPages(fl[k][n]) BY <3>1
    <3>3. n \in DOMAIN fl2[k] /\ fl2[k][n] = fl[k][n]
      <4>1. CASE k # 1 BY <1>4, <4>1
      <4>2. CASE k = 1 BY <1>8, <3>2, <4>2 DEF Together
      <4> QED BY <4>1, <4>2
    <3> QED BY <3>2, <3>3, PageFree
  <2>3. ASSUME p \in {start, end} PROVE p \in FreePages(fl2)
    <3>1. PICK n \in DOMAIN fl2[1] : fl2[1][n] = b
      <4>1. 1 + Len(fl[1]) \in DOMAIN fl2[1] /\ fl2[1][1 + Len(fl[1])] = b BY <1>7, <1>8 DEF Together
      <4> QED BY <4>1
    <3> QED BY <1>0, <1>3, <2>3, <3>1, PageFree
  <2> QED BY <2>1, <2>2, <2>3
<1>14. HugeCandidates(fl2) = HugeCandidates(fl) BY <1>0, <1>4 DEF HugeCandidates
<1> QED BY <1>9, <1>11, <1>12, <1>13, <1>14 DEF Tidy

----------------------------------------------------------------------------
(* checkIfFree() *)

\* Halves of a block counted in multiples of their size.
LEMMA Doubles ==
    ASSUME NEW h \in Nat, NEW P \in Nat
    PROVE  /\ 2 * h \in Nat /\ (2 * h) * P \in Nat
           /\ h * (2 * P) = (2 * h) * P
           /\ (2 * h + 1) * P = (2 * h) * P + P
OBVIOUS

\* h is half of q, rounded down.
Halved(q, h) == /\ q \in Nat /\ h \in Nat
                /\ \/ q = 2 * h /\ q % 2 = 0
                   \/ q = 2 * h + 1 /\ q % 2 # 0

\* An index, the index of the pair it is in, and its sibling's.
LEMMA HalfQuotient ==
    ASSUME NEW o \in Nat, NEW P \in Nat \ {0}, NEW q, q = o \div P, NEW h, h = o \div (2 * P)
    PROVE  Halved(q, h)
<1>1. 2 * P \in Nat \ {0} OBVIOUS
<1>2. q \in Nat /\ q * P <= o /\ o < q * P + P BY Division
<1> DEFINE D == 2 * P
<1>3. h \in Nat /\ h * D <= o /\ o < h * D + D
  <2>1. D \in Nat \ {0} /\ h = o \div D BY <1>1
  <2> HIDE DEF D
  <2> QED BY <2>1, Division
<1>4. h * D = (2 * h) * P /\ h * D + D = (2 * h + 1) * P + P /\ 2 * h \in Nat
  <2>1. /\ 2 * h \in Nat /\ (2 * h) * P \in Nat /\ h * (2 * P) = (2 * h) * P
        /\ (2 * h + 1) * P = (2 * h) * P + P
    BY <1>3, Doubles
  <2> QED BY <2>1
<1> DEFINE e == 2 * h
<1>5. e \in Nat /\ e * P <= o /\ o < (e + 1) * P + P BY <1>3, <1>4
<1> HIDE DEF e, D
<1>6. ~(q < e)
  <2>1. SUFFICES ASSUME q < e PROVE FALSE OBVIOUS
  <2>2. q * P + P <= e * P /\ q * P \in Nat /\ e * P \in Nat BY <1>2, <1>5, <2>1, Times
  <2> QED BY <1>2, <1>5, <2>2
<1>7. ~(e + 1 < q)
  <2> DEFINE f == e + 1
  <2>1. SUFFICES ASSUME f < q PROVE FALSE OBVIOUS
  <2>2. f \in Nat /\ o < f * P + P BY <1>5
  <2> HIDE DEF f
  <2>3. f * P + P <= q * P /\ q * P \in Nat /\ f * P \in Nat BY <1>2, <2>1, <2>2, Times
  <2> QED BY <1>2, <2>2, <2>3
<1>8. q = e \/ q = e + 1 BY <1>2, <1>5, <1>6, <1>7
<1>9. h * 2 = e BY <1>3 DEF e
<1>10. h * 2 <= q /\ q < h * 2 + 2 BY <1>2, <1>5, <1>8, <1>9
<1>11. q % 2 = q - h * 2 BY <1>2, <1>3, <1>10, Quotient
<1>12. q % 2 = q - e BY <1>9, <1>11
<1>13. CASE q = e
  <2>1. q % 2 = 0 BY <1>2, <1>12, <1>13
  <2> QED BY <1>2, <1>3, <1>13, <2>1 DEF e, Halved
<1>14. CASE q = e + 1
  <2>1. q % 2 = 1 BY <1>5, <1>12, <1>14
  <2> QED BY <1>2, <1>3, <1>14, <2>1 DEF e, Halved
<1> QED BY <1>8, <1>13, <1>14

SiblingIndex(o, k) ==
    LET q == o \div 2^k
    IN  IF q % 2 = 0 THEN q + 1 ELSE q - 1

\* The part of order k that holds offset o, and its sibling, make the part of
\* order k + 1.
LEMMA SiblingPages ==
    ASSUME NEW o \in Nat, NEW k \in Orders, NEW z \in Int,
           NEW q, q = o \div 2^k, NEW h, h = o \div 2^(k + 1), NEW s, s = SiblingIndex(o, k)
    PROVE  /\ q \in Nat /\ h \in Nat /\ s \in Nat
           /\ q * 2^k \in Nat /\ h * 2^(k + 1) \in Nat /\ s * 2^k \in Nat
           /\ (z >= q * 2^k /\ z < q * 2^k + 2^k)
              => (z >= h * 2^(k + 1) /\ z < h * 2^(k + 1) + 2^(k + 1))
           /\ z >= s * 2^k /\ z < s * 2^k + 2^k
              <=> /\ z >= h * 2^(k + 1) /\ z < h * 2^(k + 1) + 2^(k + 1)
                  /\ ~(z >= q * 2^k /\ z < q * 2^k + 2^k)
<1> DEFINE P == 2^k
           D == 2^(k + 1)
<1>1. P \in Nat \ {0} /\ P \in Nat /\ P > 0 /\ D = 2 * P BY Powers
<1>2. q = o \div P /\ h = o \div (2 * P) BY <1>1
<1>3. s = IF q % 2 = 0 THEN q + 1 ELSE q - 1 BY DEF SiblingIndex
<1> HIDE DEF P, D
<1>4. /\ q \in Nat /\ h \in Nat
      /\ \/ q = 2 * h /\ q % 2 = 0
         \/ q = 2 * h + 1 /\ q % 2 # 0
  <2>1. P \in Nat \ {0} /\ o \in Nat BY <1>1
  <2>2. Halved(q, h) BY <1>2, <2>1, HalfQuotient
  <2> QED BY <2>2 DEF Halved
<1> DEFINE e == (2 * h) * P
<1>5. e \in Nat /\ h * D = e /\ h * D + D = e + 2 * P BY <1>1, <1>4
<1>6. \/ q * P = e /\ s * P = e + P /\ s \in Nat
      \/ q * P = e + P /\ s * P = e /\ s \in Nat
  <2>1. CASE q = 2 * h /\ q % 2 = 0
    <3>1. s = q + 1 /\ s \in Nat BY <1>3, <1>4, <2>1
    <3>2. q * P = e BY <2>1
    <3>3. s * P = q * P + P BY <1>1, <1>4, <3>1
    <3> QED BY <3>1, <3>2, <3>3
  <2>2. CASE q = 2 * h + 1 /\ q % 2 # 0
    <3> DEFINE g == 2 * h
    <3>1. g \in Nat /\ q = g + 1 BY <1>4, <2>2
    <3> HIDE DEF g
    <3>0. s = q - 1 BY <1>3, <2>2
    <3>2. s = g /\ s \in Nat BY <3>0, <3>1
    <3>3. q * P = g * P + P BY <1>1, <3>1
    <3>4. g * P = e BY DEF g, e
    <3> QED BY <3>2, <3>3, <3>4
  <2> QED BY <1>4, <2>1, <2>2
<1> HIDE DEF e
<1> DEFINE x == q * P
           y == s * P
<1>7. (x = e /\ y = e + P) \/ (x = e + P /\ y = e) BY <1>6
<1>8. x \in Nat /\ y \in Nat BY <1>1, <1>5, <1>7
<1> HIDE DEF x, y
<1>9. (z >= x /\ z < x + P) => (z >= e /\ z < e + 2 * P) BY <1>1, <1>5, <1>7
<1>10. (z >= y /\ z < y + P) <=> (z >= e /\ z < e + 2 * P) /\ ~(z >= x /\ z < x + P)
  BY <1>1, <1>5, <1>7
<1> QED BY <1>4, <1>5, <1>6, <1>8, <1>9, <1>10 DEF x, y, P, D

\* The halves without the page that splitting b from order i down to it leaves.
SiblingList(b, page, i) ==
    [k \in Orders |-> IF k < i THEN <<Sibling(b, page, k)>> ELSE <<>>]

\* The siblings left by checkIfFree() fill the block but for the page.
LEMMA SiblingsPages ==
    ASSUME NEW b \in Blocks, NEW i \in Orders, BlockSize(b) = 2^i,
           i >= HugeOrder => AtMultiple(b, i), NEW page \in BlockPages(b),
           NEW new, new = SiblingList(b, page, i)
    PROVE  Good(new) /\ FreePages(new) = BlockPages(b) \ {page}
<1> DEFINE o == page - b.start
           s(k) == SiblingIndex(o, k)
           In(k, z) == z >= (o \div 2^k) * 2^k /\ z < (o \div 2^k) * 2^k + 2^k
           a == [k \in Orders |-> {p \in Int : In(k, p - b.start)}]
<1>0. i \in Nat /\ i <= MaxOrder /\ MaxOrder \in Nat /\ HugeOrder \in Nat /\ 0 \in Orders BY OrderType
<1>1. /\ b.start \in Int /\ b.end \in Int /\ 2^i \in Nat /\ page \in Int
      /\ b.start <= page /\ page <= b.end /\ b.end = b.start + (2^i - 1)
  BY BlockFacts, Powers
<1>2. o \in Nat /\ o < 2^i /\ page = b.start + o BY <1>1
<1>3. ASSUME NEW k \in Orders PROVE Sibling(b, page, k) = Block(b.start + s(k) * 2^k, k)
  BY DEF Sibling, SiblingIndex
<1>4. \A k \in Orders : \A p : p \in a[k] <=> p \in Int /\ In(k, p - b.start) OBVIOUS
<1> HIDE DEF a, o
<1>5. ASSUME NEW k \in Orders, k < i
      PROVE  /\ k \in Nat /\ k + 1 \in Orders /\ s(k) \in Nat /\ s(k) * 2^k \in Nat
             /\ b.start + s(k) * 2^k \in Int /\ k \in 0..(i - 1)
  <2>1. k \in Nat /\ k + 1 \in Orders /\ k \in 0..(i - 1) BY <1>0, <1>5 DEF Orders
  <2>2. s(k) \in Nat /\ s(k) * 2^k \in Nat BY <1>2, SiblingPages
  <2> HIDE DEF s
  <2> QED BY <1>1, <2>1, <2>2
<1>6. ASSUME NEW k \in Orders, k < i, NEW p
      PROVE  /\ p \in a[k] => p \in a[k + 1]
             /\ p \in BlockPages(Sibling(b, page, k)) <=> p \in a[k + 1] /\ p \notin a[k]
  <2> DEFINE c == s(k) * 2^k
  <2>1. p \in BlockPages(Sibling(b, page, k)) <=> p \in Int /\ b.start + c <= p /\ p < b.start + c + 2^k
    BY <1>3, <1>5, <1>6, BlockOfOrder
  <2>2. CASE p \notin Int BY <1>4, <1>5, <1>6, <2>1, <2>2
  <2>3. CASE p \in Int
    <3> DEFINE z == p - b.start
    <3>1. z \in Int /\ p = b.start + z BY <1>1, <2>3
    <3>2. c \in Nat /\ 2^k \in Nat BY <1>5, <1>6, Powers
    <3>3. (b.start + c <= p /\ p < b.start + c + 2^k) <=> (z >= c /\ z < c + 2^k)
      <4> HIDE DEF c, z
      <4> QED BY <1>1, <3>1, <3>2
    <3>4. p \in a[k] <=> In(k, z) BY <1>4, <2>3
    <3>5. p \in a[k + 1] <=> In(k + 1, z) BY <1>4, <1>5, <1>6, <2>3
    <3>6. /\ In(k, z) => In(k + 1, z)
          /\ (z >= c /\ z < c + 2^k) <=> In(k + 1, z) /\ ~In(k, z)
      <4> HIDE DEF z
      <4> QED BY <1>2, <3>1, SiblingPages
    <3> HIDE DEF z, c, In
    <3> QED BY <2>1, <2>3, <3>3, <3>4, <3>5, <3>6
  <2> QED BY <2>2, <2>3
<1> HIDE DEF s
<1>7. \A k \in Orders : /\ k < i => new[k] = <<Sibling(b, page, k)>>
                        /\ ~(k < i) => new[k] = <<>>
  BY DEF SiblingList
<1>8. ASSUME NEW k \in Orders, NEW j \in DOMAIN new[k]
      PROVE  k < i /\ j = 1 /\ new[k][j] = Sibling(b, page, k)
  BY <1>7
<1>9. ASSUME NEW k \in 0..(i - 1) PROVE k \in Orders /\ k < i /\ 1 \in DOMAIN new[k]
  <2>1. k \in Orders /\ k < i BY <1>0 DEF Orders
  <2> QED BY <1>7, <2>1
<1>10. Growing(a, 0, i) BY <1>6, <1>9 DEF Growing
<1>11. Rings(new, a, 0, i)
  <2>1. ASSUME NEW k \in Orders, NEW j \in DOMAIN new[k]
        PROVE  /\ k \in 0..(i - 1) /\ j = 1
               /\ \A p : p \in BlockPages(new[k][j]) <=> p \in a[k + 1] /\ p \notin a[k]
    BY <1>5, <1>6, <1>8
  <2> QED BY <1>9, <2>1 DEF Rings
<1>12. Separate(new) /\ FreePages(new) = a[i] \ a[0] BY <1>0, <1>10, <1>11, RingPages
<1>13. ASSUME NEW k \in Orders, k < i
       PROVE  /\ Sibling(b, page, k) \in Blocks /\ BlockSize(Sibling(b, page, k)) = 2^k
              /\ Sibling(b, page, k).start = b.start + s(k) * 2^k
  BY <1>3, <1>5, <1>13, BlockOfOrder
<1>14. new \in FreeLists
  <2>1. ASSUME NEW k \in Orders PROVE new[k] \in Seq(Blocks)
    <3>1. CASE k < i
      <4>1. new[k] = <<Sibling(b, page, k)>> BY <1>7, <3>1
      <4> QED BY <1>13, <3>1, <4>1
    <3>2. CASE ~(k < i)
      <4>1. new[k] = <<>> BY <1>7, <3>2
      <4> QED BY <4>1
    <3> QED BY <3>1, <3>2
  <2>2. new = [k \in Orders |-> new[k]] BY DEF SiblingList
  <2> QED BY <2>1, <2>2 DEF FreeLists
<1>15. Fits(new) BY <1>8, <1>13 DEF Fits
<1>16. Aligned(new)
  <2>1. SUFFICES ASSUME NEW k \in HugeOrder..MaxOrder, NEW j \in DOMAIN new[k]
                 PROVE  AtMultiple(new[k][j], k)
    BY DEF Aligned
  <2>2. k \in Orders /\ k >= HugeOrder /\ k \in Nat BY <1>0 DEF Orders
  <2>3. k < i /\ new[k][j].start = b.start + s(k) * 2^k BY <1>8, <1>13, <2>2
  <2>4. i >= HugeOrder BY <1>0, <2>2, <2>3
  <2>5. PICK n \in Nat : b.start = KernelPages + n * 2^i BY <2>4 DEF AtMultiple
  <2>6. PICK r \in Nat \ {0} : 2^i = r * 2^k BY <1>0, <2>2, <2>3, Multiples
  <2> DEFINE P == 2^k
             t == s(k)
  <2>7. P \in Nat /\ t \in Nat BY <1>5, <2>2, <2>3, Powers
  <2>8. new[k][j].start = (KernelPages + n * (r * P)) + t * P BY <2>3, <2>5, <2>6
  <2> HIDE DEF P, t
  <2>9. n * (r * P) + t * P = (n * r + t) * P /\ n * (r * P) \in Nat /\ t * P \in Nat BY <2>7
  <2>10. new[k][j].start = KernelPages + (n * r + t) * P BY <2>8, <2>9, OrderType
  <2>11. n * r + t \in Nat BY <2>7
  <2> QED BY <2>10, <2>11 DEF AtMultiple, P
<1>17. ASSUME NEW p PROVE p \in a[i] <=> p \in BlockPages(b)
  <2>1. 2^i \in Nat \ {0} /\ 0 * 2^i <= o /\ o < 0 * 2^i + 2^i /\ 0 * 2^i = 0
    BY <1>2, Powers
  <2>2. o \div 2^i = 0 BY <1>2, <2>1, Quotient
  <2>3. p \in a[i] <=> p \in Int /\ p - b.start >= 0 /\ p - b.start < 0 + 2^i
    BY <1>4, <2>1, <2>2
  <2>4. p \in BlockPages(b) <=> p \in Int /\ b.start <= p /\ p <= b.end BY BlockFacts
  <2> QED BY <1>1, <2>3, <2>4
<1>18. ASSUME NEW p PROVE p \in a[0] <=> p = page
  <2>1. 2^0 = 1 BY PowersOfTwo
  <2>2. o * 1 <= o /\ o < o * 1 + 1 /\ 1 \in Nat \ {0} /\ o * 1 = o BY <1>2
  <2>3. o \div 1 = o BY <1>2, <2>2, Quotient
  <2>4. (o \div 2^0) * 2^0 = o BY <2>1, <2>2, <2>3
  <2>5. p \in a[0] <=> p \in Int /\ p - b.start >= o /\ p - b.start < o + 1
    BY <1>0, <1>4, <2>1, <2>4
  <2> QED BY <1>1, <1>2, <2>5
<1>19. FreePages(new) = BlockPages(b) \ {page} BY <1>12, <1>17, <1>18
<1> QED BY <1>12, <1>14, <1>15, <1>16, <1>19 DEF Good

\* The orders, and in one of them the positions, of the blocks with the page.
CoverOrders(fl, page) == {k \in Orders : \E b \in ToSet(fl[k]) : page \in BlockPages(b)}
CoversAt(fl, i, page) == {n \in DOMAIN fl[i] : page \in BlockPages(fl[i][n])}

\* The lists after checkIfFree(page, true), order by order.
LEMMA TakeLists ==
    ASSUME NEW fl, NEW page,
           NEW i, i = Min(CoverOrders(fl, page)), NEW j, j = Min(CoversAt(fl, i, page)),
           NEW fl2, fl2 = TakePage(fl, page)
    PROVE  /\ fl2 = [k \in Orders |-> fl2[k]]
           /\ \A k \in Orders :
                /\ k = i => fl2[k] = RemoveAt(fl[k], j)
                /\ k # i /\ k < i => fl2[k] = Append(fl[k], Sibling(fl[i][j], page, k))
                /\ k # i /\ ~(k < i) => fl2[k] = fl[k]
<1>1. ASSUME NEW k \in Orders, k = i PROVE fl2[k] = RemoveAt(fl[k], j) BY <1>1 DEF TakePage, CoverOrders, CoversAt
<1>2. ASSUME NEW k \in Orders, k # i, k < i
      PROVE  fl2[k] = Append(fl[k], Sibling(fl[i][j], page, k))
  BY <1>2 DEF TakePage, CoverOrders, CoversAt
<1>3. ASSUME NEW k \in Orders, k # i, ~(k < i) PROVE fl2[k] = fl[k] BY <1>3 DEF TakePage, CoverOrders, CoversAt
<1>4. fl2 = [k \in Orders |-> fl2[k]] BY DEF TakePage, CoverOrders, CoversAt
<1> QED BY <1>1, <1>2, <1>3, <1>4

\* checkIfFree() takes exactly the page it was asked for.
LEMMA TakePages ==
    ASSUME NEW fl, Good(fl), NEW page, IsFree(fl, page)
    PROVE  /\ Good(TakePage(fl, page)) /\ page \in FreePages(fl)
           /\ FreePages(TakePage(fl, page)) = FreePages(fl) \ {page}
<1> DEFINE I == CoverOrders(fl, page)
           i == Min(I)
           J == CoversAt(fl, i, page)
           j == Min(J)
           fl2 == TakePage(fl, page)
<1>0. page \in FreePages(fl) BY DEF IsFree
<1>1. /\ fl2 = [k \in Orders |-> fl2[k]]
      /\ \A k \in Orders :
           /\ k = i => fl2[k] = RemoveAt(fl[k], j)
           /\ k # i /\ k < i => fl2[k] = Append(fl[k], Sibling(fl[i][j], page, k))
           /\ k # i /\ ~(k < i) => fl2[k] = fl[k]
  BY TakeLists
<1>2. i \in I
  <2>1. \A k \in Orders : k \in Nat BY OrderType
  <2>2. I \subseteq Nat BY <2>1 DEF CoverOrders
  <2>3. I # {} BY <1>0 DEF FreePages, CoverOrders
  <2> HIDE DEF I
  <2> QED BY <2>2, <2>3, Least
<1>3. i \in Orders /\ \E b \in ToSet(fl[i]) : page \in BlockPages(b) BY <1>2 DEF CoverOrders
<1> HIDE DEF i
<1>4. \A k \in Orders : fl[k] \in Seq(Blocks) BY ListType DEF Good
<1>5. j \in J
  <2>1. DOMAIN fl[i] = 1..Len(fl[i]) /\ Len(fl[i]) \in Nat BY <1>3, ListType DEF Good
  <2>2. J \subseteq Nat BY <2>1 DEF CoversAt
  <2>3. J # {} BY <1>3 DEF ToSet, CoversAt
  <2> HIDE DEF J
  <2> QED BY <2>2, <2>3, Least
<1>6. j \in DOMAIN fl[i] /\ page \in BlockPages(fl[i][j]) BY <1>5 DEF CoversAt
<1> HIDE DEF j, fl2
<1> DEFINE b == fl[i][j]
           new == SiblingList(b, page, i)
<1>7. b \in Blocks /\ BlockSize(b) = 2^i BY <1>3, <1>6, ListType DEF Good, Fits
<1>8. i >= HugeOrder => AtMultiple(b, i)
  <2>1. i >= HugeOrder => i \in HugeOrder..MaxOrder BY <1>3, OrderType
  <2> QED BY <1>6, <2>1 DEF Good, Aligned
<1>9. \A k \in Orders : /\ k < i => new[k] = <<Sibling(b, page, k)>>
                        /\ ~(k < i) => new[k] = <<>>
  BY DEF SiblingList
<1>10. Good(new) /\ FreePages(new) = BlockPages(b) \ {page}
  <2> HIDE DEF b
  <2> QED BY <1>3, <1>6, <1>7, <1>8, SiblingsPages DEF b
<1> HIDE DEF new
<1>11. ~(i < i) BY <1>3, OrderType
<1>12. fl2[i] = RemoveAt(fl[i], j) \o new[i]
  <2>1. RemoveAt(fl[i], j) \in Seq(Blocks) BY <1>3, <1>4, <1>6, Removed
  <2>2. RemoveAt(fl[i], j) \o <<>> = RemoveAt(fl[i], j) BY <2>1, ConcatEmptySeq
  <2>3. fl2[i] = RemoveAt(fl[i], j) BY <1>1, <1>3
  <2>4. new[i] = <<>> BY <1>3, <1>9, <1>11
  <2> QED BY <2>2, <2>3, <2>4
<1>13. ASSUME NEW k \in Orders, k # i PROVE fl2[k] = fl[k] \o new[k]
  <2>1. fl[k] \in Seq(Blocks) BY <1>4
  <2>2. CASE k < i
    <3> DEFINE x == Sibling(b, page, k)
    <3>1. fl2[k] = Append(fl[k], x) BY <1>1, <1>13, <2>2
    <3>2. new[k] = <<x>> BY <1>9, <2>2
    <3>3. x \in Blocks
      <4>1. 1 \in DOMAIN new[k] /\ new[k][1] = x BY <3>2
      <4> HIDE DEF x
      <4> QED BY <1>10, <4>1, ListType DEF Good
    <3> HIDE DEF x
    <3>4. Append(fl[k], x) = fl[k] \o <<x>> BY <2>1, <3>3, AppendIsConcat
    <3> QED BY <3>1, <3>2, <3>4
  <2>3. CASE ~(k < i)
    <3>1. fl2[k] = fl[k] BY <1>1, <1>13, <2>3
    <3>2. new[k] = <<>> BY <1>9, <2>3
    <3>3. fl[k] \o <<>> = fl[k] BY <2>1, ConcatEmptySeq
    <3> QED BY <3>1, <3>2, <3>3
  <2> QED BY <2>2, <2>3
<1>14. Replaced(fl, i, j, new, fl2) BY <1>1, <1>12, <1>13 DEF Replaced
<1>15. FreePages(new) \subseteq BlockPages(fl[i][j]) BY <1>10
<1>16. /\ Good(fl2) /\ FreePages(fl2) = (FreePages(fl) \ BlockPages(fl[i][j])) \cup FreePages(new)
       /\ BlockPages(fl[i][j]) \subseteq FreePages(fl)
  BY <1>3, <1>6, <1>10, <1>14, <1>15, ReplacedPages
<1>17. FreePages(fl2) = FreePages(fl) \ {page} BY <1>6, <1>10, <1>16
<1> QED BY <1>0, <1>16, <1>17 DEF fl2

----------------------------------------------------------------------------
(* The constructor *)

\* The blocks of less than the highest order: those of the remainder.
Remainder ==
    [k \in Orders |-> IF k # MaxOrder /\ (TotalPages \div 2^k) % 2 = 1
                      THEN <<Block(KernelPages + (TotalPages \div 2^(k + 1)) * 2^(k + 1), k)>>
                      ELSE <<>>]

\* What the orders below k leave uncovered starts at offset (T \div 2^k) * 2^k.
LEMMA RemainderStep ==
    ASSUME NEW k \in Orders, NEW q, q = TotalPages \div 2^k, NEW h, h = TotalPages \div 2^(k + 1)
    PROVE  /\ q \in Nat /\ h \in Nat /\ q * 2^k \in Nat /\ q * 2^k <= TotalPages
           /\ h * 2^(k + 1) = (2 * h) * 2^k /\ (2 * h) * 2^k \in Nat
           /\ \/ q % 2 = 0 /\ q * 2^k = (2 * h) * 2^k
              \/ q % 2 = 1 /\ q * 2^k = (2 * h) * 2^k + 2^k
<1> DEFINE P == 2^k
           T == TotalPages
<1>0. 2^(k + 1) = 2 * P BY Powers
<1>1. P \in Nat \ {0} /\ P \in Nat /\ P > 0 /\ T \in Nat BY Powers, OrderType
<1>2. q = T \div P /\ h = T \div (2 * P) BY <1>0
<1>3. h * 2^(k + 1) = h * (2 * P) BY <1>0
<1> HIDE DEF P, T
<1>4. /\ q \in Nat /\ h \in Nat
      /\ \/ q = 2 * h /\ q % 2 = 0
         \/ q = 2 * h + 1 /\ q % 2 # 0
  <2>1. P \in Nat \ {0} /\ T \in Nat BY <1>1
  <2>2. Halved(q, h) BY <1>2, <2>1, HalfQuotient
  <2> QED BY <2>2 DEF Halved
<1>5. q * P <= T /\ q * P \in Nat
  <2>1. q * P <= T BY <1>1, <1>2, Division
  <2> QED BY <1>1, <1>4, <2>1, Times
<1>6. /\ (2 * h) * P \in Nat /\ h * (2 * P) = (2 * h) * P
      /\ (2 * h + 1) * P = (2 * h) * P + P
  BY <1>1, <1>4, Doubles
<1>7. q % 2 = 0 \/ q % 2 = 1 BY <1>4
<1>8. \/ q % 2 = 0 /\ q * P = (2 * h) * P
      \/ q % 2 = 1 /\ q * P = (2 * h) * P + P
  <2>1. CASE q = 2 * h /\ q % 2 = 0 BY <2>1
  <2>2. CASE q = 2 * h + 1 /\ q % 2 # 0 BY <1>6, <1>7, <2>2
  <2> QED BY <1>4, <2>1, <2>2
<1> QED BY <1>3, <1>4, <1>5, <1>6, <1>8 DEF P, T

\* The start-up loop fills what the blocks of the highest order leave.
LEMMA RemainderPages ==
    /\ Good(Remainder)
    /\ \A p : p \in FreePages(Remainder) <=>
                 /\ p \in Int
                 /\ KernelPages + (TotalPages \div 2^MaxOrder) * 2^MaxOrder <= p
                 /\ p < KernelPages + TotalPages
<1> DEFINE K == KernelPages
           T == TotalPages
           q(k) == T \div 2^k
           o(k) == q(k) * 2^k
           a == [k \in Orders |-> {p \in Int : K + o(k) <= p /\ p < K + T}]
           piece(k) == Block(K + q(k + 1) * 2^(k + 1), k)
           new == Remainder
<1>0. /\ MaxOrder \in Nat /\ HugeOrder \in Nat /\ 0 \in Orders /\ MaxOrder \in Orders
      /\ K \in Nat /\ T \in Nat
  BY OrderType
<1>1. \A k \in Orders : \A p : p \in a[k] <=> p \in Int /\ K + o(k) <= p /\ p < K + T OBVIOUS
<1> HIDE DEF a
<1>2. ASSUME NEW k \in 0..(MaxOrder - 1)
      PROVE  k \in Orders /\ k + 1 \in Orders /\ k # MaxOrder /\ k \in Nat
  BY <1>0 DEF Orders
<1>3. ASSUME NEW k \in Orders
      PROVE  /\ k # MaxOrder /\ q(k) % 2 = 1 => new[k] = <<piece(k)>>
             /\ ~(k # MaxOrder /\ q(k) % 2 = 1) => new[k] = <<>>
  <2>1. CASE k # MaxOrder /\ q(k) % 2 = 1 BY <2>1 DEF Remainder
  <2>2. CASE ~(k # MaxOrder /\ q(k) % 2 = 1) BY <2>2 DEF Remainder
  <2> QED BY <2>1, <2>2
<1>4. ASSUME NEW k \in Orders
      PROVE  /\ q(k) \in Nat /\ q(k + 1) \in Nat /\ o(k) \in Nat /\ o(k) <= T
             /\ q(k + 1) * 2^(k + 1) = (2 * q(k + 1)) * 2^k /\ (2 * q(k + 1)) * 2^k \in Nat
             /\ \/ q(k) % 2 = 0 /\ o(k) = (2 * q(k + 1)) * 2^k
                \/ q(k) % 2 = 1 /\ o(k) = (2 * q(k + 1)) * 2^k + 2^k
  BY RemainderStep
<1>5. ASSUME NEW k \in Orders
      PROVE  /\ piece(k) \in Blocks /\ BlockSize(piece(k)) = 2^k
             /\ piece(k).start = K + (2 * q(k + 1)) * 2^k
             /\ \A p : p \in BlockPages(piece(k)) <=>
                   p \in Int /\ K + (2 * q(k + 1)) * 2^k <= p /\ p < K + (2 * q(k + 1)) * 2^k + 2^k
  <2> DEFINE s == K + (2 * q(k + 1)) * 2^k
  <2>1. piece(k) = Block(s, k) /\ s \in Int BY <1>0, <1>4
  <2> HIDE DEF s, piece
  <2>2. /\ piece(k) \in Blocks /\ BlockSize(piece(k)) = 2^k /\ piece(k).start = s
        /\ \A p : p \in BlockPages(piece(k)) <=> p \in Int /\ s <= p /\ p < s + 2^k
    BY <2>1, BlockOfOrder
  <2> QED BY <2>2 DEF s
<1>6. ASSUME NEW k \in 0..(MaxOrder - 1) PROVE o(k + 1) = (2 * q(k + 1)) * 2^k BY <1>2, <1>4
<1> HIDE DEF piece, o, q, new
<1>7. ASSUME NEW k \in 0..(MaxOrder - 1), NEW p
      PROVE  /\ p \in a[k] => p \in a[k + 1]
             /\ q(k) % 2 = 1 => (p \in BlockPages(piece(k)) <=> p \in a[k + 1] /\ p \notin a[k])
             /\ q(k) % 2 # 1 => ~(p \in a[k + 1] /\ p \notin a[k])
  <2> DEFINE e == (2 * q(k + 1)) * 2^k
             P == 2^k
             O == o(k)
  <2>1. P \in Nat /\ P > 0 /\ e \in Nat /\ O \in Nat /\ O <= T BY <1>2, <1>4, Powers
  <2>2. p \in a[k] <=> p \in Int /\ K + O <= p /\ p < K + T BY <1>1, <1>2
  <2>3. p \in a[k + 1] <=> p \in Int /\ K + e <= p /\ p < K + T BY <1>1, <1>2, <1>6
  <2>4. p \in BlockPages(piece(k)) <=> p \in Int /\ K + e <= p /\ p < K + e + P BY <1>2, <1>5
  <2>5. (q(k) % 2 = 0 /\ O = e) \/ (q(k) % 2 = 1 /\ O = e + P) BY <1>2, <1>4
  <2> HIDE DEF e, P, O
  <2>6. CASE q(k) % 2 = 0 /\ O = e BY <1>0, <2>1, <2>2, <2>3, <2>6
  <2>7. CASE q(k) % 2 = 1 /\ O = e + P
    <3>1. p \in a[k] => p \in a[k + 1] BY <1>0, <2>1, <2>2, <2>3, <2>7
    <3>2. p \in BlockPages(piece(k)) <=> p \in a[k + 1] /\ p \notin a[k]
      BY <1>0, <2>1, <2>2, <2>3, <2>4, <2>7
    <3> QED BY <2>7, <3>1, <3>2
  <2> QED BY <2>5, <2>6, <2>7
<1>8. ASSUME NEW k \in Orders, NEW j \in DOMAIN new[k]
      PROVE  k \in 0..(MaxOrder - 1) /\ q(k) % 2 = 1 /\ j = 1 /\ new[k][j] = piece(k)
  <2>1. k # MaxOrder /\ q(k) % 2 = 1 BY <1>3
  <2>2. new[k] = <<piece(k)>> BY <1>3, <2>1
  <2>3. k \in 0..(MaxOrder - 1) BY <1>0, <2>1 DEF Orders
  <2> QED BY <2>1, <2>2, <2>3
<1>9. Growing(a, 0, MaxOrder) BY <1>7 DEF Growing
<1>10. Rings(new, a, 0, MaxOrder)
  <2>1. ASSUME NEW k \in Orders, NEW j \in DOMAIN new[k]
        PROVE  /\ k \in 0..(MaxOrder - 1) /\ j = 1
               /\ \A p : p \in BlockPages(new[k][j]) <=> p \in a[k + 1] /\ p \notin a[k]
    BY <1>7, <1>8
  <2>2. ASSUME NEW k \in 0..(MaxOrder - 1), NEW p, p \in a[k + 1], p \notin a[k]
        PROVE  1 \in DOMAIN new[k]
    <3>1. q(k) % 2 = 1 BY <1>7, <2>2
    <3>2. new[k] = <<piece(k)>> BY <1>2, <1>3, <3>1
    <3> QED BY <3>2
  <2> QED BY <2>1, <2>2 DEF Rings
<1>11. Separate(new) /\ FreePages(new) = a[MaxOrder] \ a[0]
  BY <1>0, <1>9, <1>10, RingPages
<1>12. new \in FreeLists
  <2>1. ASSUME NEW k \in Orders PROVE new[k] \in Seq(Blocks)
    <3>1. CASE k # MaxOrder /\ q(k) % 2 = 1
      <4>1. new[k] = <<piece(k)>> BY <1>3, <3>1
      <4> QED BY <1>5, <4>1
    <3>2. CASE ~(k # MaxOrder /\ q(k) % 2 = 1)
      <4>1. new[k] = <<>> BY <1>3, <3>2
      <4> QED BY <4>1
    <3> QED BY <3>1, <3>2
  <2>2. new = [k \in Orders |-> new[k]] BY DEF new, Remainder
  <2> QED BY <2>1, <2>2 DEF FreeLists
<1>13. Fits(new) BY <1>5, <1>8 DEF Fits
<1>14. Aligned(new)
  <2>1. SUFFICES ASSUME NEW k \in HugeOrder..MaxOrder, NEW j \in DOMAIN new[k]
                 PROVE  AtMultiple(new[k][j], k)
    BY DEF Aligned
  <2>2. k \in Orders BY <1>0 DEF Orders
  <2>3. new[k][j].start = K + (2 * q(k + 1)) * 2^k BY <1>5, <1>8, <2>2
  <2>4. 2 * q(k + 1) \in Nat BY <1>4, <2>2
  <2> QED BY <2>3, <2>4 DEF AtMultiple
<1>15. \A p : p \notin a[0]
  <2>1. 2^0 = 1 /\ q(0) = T \div 1 BY PowersOfTwo DEF q
  <2>2. T * 1 <= T /\ T < T * 1 + 1 /\ 1 \in Nat \ {0} /\ T * 1 = T BY <1>0
  <2>3. q(0) = T BY <1>0, <2>1, <2>2, Quotient
  <2>4. o(0) = T BY <2>1, <2>2, <2>3 DEF o
  <2> QED BY <1>0, <1>1, <2>4
<1>16. \A p : p \in FreePages(new) <=> p \in Int /\ K + o(MaxOrder) <= p /\ p < K + T
  BY <1>0, <1>1, <1>11, <1>15
<1> QED BY <1>11, <1>12, <1>13, <1>14, <1>16 DEF Good, new, o, q

\* The constructor's fill loop covers the managed memory, each page once.
LEMMA InitialPages == Good(InitialFreeList) /\ FreePages(InitialFreeList) = Pages
<1> DEFINE M == MaxOrder
           P == 2^M
           T == TotalPages
           K == KernelPages
           n == T \div P
           e == n * P
           b == [start |-> K, end |-> (K + e) - 1]
           first == [Nothing EXCEPT ![M] = Chunks(b, M)]
           fl == InitialFreeList
<1>0. M \in Orders /\ K \in Nat /\ T \in Nat /\ K + T = MemoryPages /\ MemoryPages \in Nat
  BY OrderType DEF TotalPages
<1>1. P \in Nat \ {0} /\ P \in Nat /\ P > 0 BY <1>0, Powers
<1>2. n \in Nat /\ e \in Nat /\ e <= T
  <2>1. n \in Nat /\ e <= T
    <3> HIDE DEF P, T
    <3> QED BY <1>0, <1>1, Division
  <2> HIDE DEF n, P
  <2>2. n * P \in Nat BY <1>1, <2>1
  <2> QED BY <2>1, <2>2
<1>3. b \in Blocks /\ b.start = K /\ BlockSize(b) = e
  <2> HIDE DEF e
  <2> QED BY <1>0, <1>2 DEF Blocks, BlockSize
<1>4. \A p : p \in BlockPages(b) <=> p \in Int /\ K <= p /\ p < K + e
  <2> HIDE DEF e
  <2> QED BY <1>0, <1>2 DEF BlockPages
<1>5. AtMultiple(b, M)
  <2>1. b.start = KernelPages + 0 * P BY <1>0, <1>1
  <2> QED BY <2>1 DEF AtMultiple
<1>6. Chunks(b, M) = [j \in 1..n |-> Block(K + (j - 1) * P, M)]
  <2>1. BlockSize(b) \div P = n
    <3> HIDE DEF n, P
    <3>1. n * P \in Nat /\ n * P <= n * P /\ n * P < n * P + P BY <1>1, <1>2
    <3>2. BlockSize(b) = n * P BY <1>3
    <3> HIDE DEF b
    <3> QED BY <1>1, <1>2, <3>1, <3>2, Quotient
  <2> QED BY <1>3, <2>1 DEF Chunks
<1>7. Good(first) /\ FreePages(first) = BlockPages(b)
  <2>1. BlockSize(b) = n * 2^M BY <1>3
  <2> HIDE DEF b, n, first, M
  <2>2. first = [Nothing EXCEPT ![M] = Chunks(b, M)] BY DEF first
  <2>3. n \in Nat BY <1>2
  <2> QED BY <1>0, <1>3, <1>5, <2>1, <2>2, <2>3, ChunkPages
<1>8. Good(Remainder) /\ \A p : p \in FreePages(Remainder) <=> p \in Int /\ K + e <= p /\ p < K + T
  BY RemainderPages
<1>9. fl[M] = Chunks(b, M) BY <1>0, <1>6 DEF InitialFreeList
<1>10. ASSUME NEW k \in Orders, k # M PROVE fl[k] = Remainder[k]
  BY <1>10 DEF InitialFreeList, Remainder
<1>11. Remainder[M] = <<>> BY <1>0 DEF Remainder
<1>12. first[M] = Chunks(b, M) /\ \A k \in Orders : k # M => first[k] = <<>> BY <1>0 DEF Nothing
<1>13. fl = [k \in Orders |-> fl[k]] BY DEF InitialFreeList
<1> HIDE DEF first, fl, e, b
<1>14. \A k \in Orders : first[k] \in Seq(Blocks) /\ Remainder[k] \in Seq(Blocks)
  BY <1>7, <1>8, ListType DEF Good
<1>15. ASSUME NEW k \in Orders PROVE fl[k] = first[k] \o Remainder[k]
  <2>1. CASE k = M
    <3>1. first[M] \o <<>> = first[M] BY <1>0, <1>14, ConcatEmptySeq
    <3> QED BY <1>9, <1>11, <1>12, <2>1, <3>1
  <2>2. CASE k # M
    <3>1. <<>> \o Remainder[k] = Remainder[k] BY <1>14, ConcatEmptySeq
    <3> QED BY <1>10, <1>12, <2>2, <3>1
  <2> QED BY <2>1, <2>2
<1>16. fl = Join(first, Remainder) BY <1>13, <1>15 DEF Join
<1>17. FreePages(first) \cap FreePages(Remainder) = {} BY <1>0, <1>2, <1>4, <1>7, <1>8
<1>18. Good(fl) /\ FreePages(fl) = FreePages(first) \cup FreePages(Remainder)
  BY <1>7, <1>8, <1>16, <1>17, Combined
<1>19. ASSUME NEW p PROVE p \in FreePages(fl) <=> p \in Pages
  <2>1. p \in FreePages(fl) <=> p \in Int /\ K <= p /\ p < K + T
    BY <1>0, <1>2, <1>4, <1>7, <1>8, <1>18
  <2> QED BY <1>0, <2>1 DEF Pages
<1> QED BY <1>18, <1>19 DEF fl

----------------------------------------------------------------------------
(* Well-formed lists *)

\* Well-formed lists satisfy the invariant of the operations.
LEMMA WellFormedGood ==
    ASSUME NEW fl, WellFormed(fl)
    PROVE  Good(fl) /\ FreePages(fl) \subseteq Pages
<1>0. Pages \subseteq Int /\ \A p \in Pages : p >= KernelPages BY OrderType DEF Pages
<1>1. ASSUME NEW k \in Orders
      PROVE  /\ fl[k] \in Seq(Blocks)
             /\ \A j \in DOMAIN fl[k] : fl[k][j].start \in Pages /\ fl[k][j].end \in Pages
  <2> DEFINE B == [start : Pages, end : Pages]
  <2>1. fl[k] \in Seq(B)
    <3>1. fl \in [Orders -> Seq(B)] BY DEF WellFormed
    <3> HIDE DEF B
    <3> QED BY <3>1
  <2>2. \A b \in B : b \in Blocks /\ b.start \in Pages /\ b.end \in Pages BY <1>0 DEF Blocks
  <2> HIDE DEF B
  <2>3. \A j \in DOMAIN fl[k] : fl[k][j] \in B BY <2>1
  <2>4. fl[k] \in Seq(Blocks)
    <3>1. \A n \in 1..Len(fl[k]) : fl[k][n] \in Blocks BY <2>1, <2>2, <2>3
    <3> QED BY <2>1, <3>1
  <2> QED BY <2>2, <2>3, <2>4
<1>2. fl \in FreeLists
  <2>1. fl = [k \in Orders |-> fl[k]] BY DEF WellFormed
  <2> QED BY <1>1, <2>1 DEF FreeLists
<1>3. Separate(fl)
  <2>1. SUFFICES ASSUME NEW k \in Orders, NEW l \in Orders, NEW i \in DOMAIN fl[k], NEW j \in DOMAIN fl[l],
                        NEW p, p \in BlockPages(fl[k][i]), p \in BlockPages(fl[l][j])
                 PROVE  k = l /\ i = j
    BY DEF Separate
  <2>2. k # l \/ i # j => BlockPages(fl[k][i]) \cap BlockPages(fl[l][j]) = {} BY DEF WellFormed
  <2> QED BY <2>1, <2>2
<1>4. Fits(fl) BY DEF WellFormed, Fits
<1>5. ASSUME NEW k \in HugeOrder..MaxOrder, NEW j \in DOMAIN fl[k] PROVE AtMultiple(fl[k][j], k)
  <2>1. k \in Orders /\ k >= HugeOrder BY OrderType DEF Orders
  <2> DEFINE o == fl[k][j].start - KernelPages
             P == 2^k
  <2>2. o % P = 0 BY <2>1 DEF WellFormed
  <2> DEFINE x == fl[k][j].start
  <2>x. x \in Int /\ x >= KernelPages /\ KernelPages \in Nat
    <3>1. x \in Pages BY <1>1, <2>1
    <3> HIDE DEF x
    <3> QED BY <1>0, <3>1, OrderType
  <2>3. o \in Nat /\ P \in Nat \ {0}
    <3>1. P \in Nat \ {0} BY <2>1, Powers
    <3>2. o = x - KernelPages OBVIOUS
    <3> HIDE DEF x, o, P
    <3> QED BY <2>x, <3>1, <3>2
  <2>5. fl[k][j].start = KernelPages + o
    <3>1. o = x - KernelPages OBVIOUS
    <3> HIDE DEF x, o
    <3>2. x = KernelPages + o BY <2>x, <3>1
    <3> QED BY <3>2 DEF x
  <2> HIDE DEF o, P, x
  <2>4. o \div P \in Nat /\ o = (o \div P) * P BY <2>2, <2>3, Division
  <2>6. fl[k][j].start = KernelPages + (o \div P) * P BY <2>4, <2>5
  <2> QED BY <2>4, <2>6 DEF AtMultiple, P
<1>6. Aligned(fl) BY <1>5 DEF Aligned
<1>7. ASSUME NEW p \in FreePages(fl) PROVE p \in Pages
  <2>1. PICK k \in Orders : \E n \in DOMAIN fl[k] : p \in BlockPages(fl[k][n]) BY PageFree
  <2>2. PICK n \in DOMAIN fl[k] : p \in BlockPages(fl[k][n]) BY <2>1
  <2>3. fl[k][n].start \in Pages /\ fl[k][n].end \in Pages BY <1>1
  <2> QED BY <2>2, <2>3, OrderType DEF BlockPages, Pages
<1> QED BY <1>2, <1>3, <1>4, <1>6, <1>7 DEF Good

\* Lists that satisfy it within the memory are well formed.
LEMMA GoodWellFormed ==
    ASSUME NEW fl, Good(fl), FreePages(fl) \subseteq Pages
    PROVE  WellFormed(fl)
<1> DEFINE B == [start : Pages, end : Pages]
<1>0. fl \in FreeLists /\ Separate(fl) /\ Fits(fl) /\ Aligned(fl) BY DEF Good
<1>1. ASSUME NEW k \in Orders, NEW j \in DOMAIN fl[k]
      PROVE  fl[k][j] \in B /\ BlockSize(fl[k][j]) = 2^k
  <2> DEFINE b == fl[k][j]
  <2>1. b \in Blocks /\ BlockSize(b) = 2^k /\ 2^k \in Nat /\ 2^k > 0 BY <1>0, ListType, Powers DEF Fits
  <2> HIDE DEF b
  <2>2. b.start \in Int /\ b.end \in Int /\ b.start <= b.end BY <2>1, BlockFacts
  <2>3. b.start \in BlockPages(b) /\ b.end \in BlockPages(b) BY <2>1, <2>2, BlockFacts
  <2>4. BlockPages(b) \subseteq Pages BY PageFree DEF b
  <2>5. b = [start |-> b.start, end |-> b.end] BY <2>1 DEF Blocks
  <2>6. b \in B BY <2>3, <2>4, <2>5
  <2> QED BY <2>1, <2>6 DEF b
<1> HIDE DEF B
<1>2. fl \in [Orders -> Seq(B)]
  <2>1. \A k \in Orders : fl[k] \in Seq(Blocks) BY <1>0, ListType
  <2>2. \A k \in Orders : fl[k] \in Seq(B) BY <1>1, <2>1
  <2>3. fl = [k \in Orders |-> fl[k]] BY <1>0 DEF FreeLists
  <2> QED BY <2>2, <2>3
<1>3. ASSUME NEW k \in Orders, NEW i \in DOMAIN fl[k], NEW l \in Orders, NEW j \in DOMAIN fl[l],
             k # l \/ i # j
      PROVE  BlockPages(fl[k][i]) \cap BlockPages(fl[l][j]) = {}
  BY <1>0, <1>3 DEF Separate
<1>4. ASSUME NEW k \in Orders, NEW i \in DOMAIN fl[k], k >= HugeOrder
      PROVE  (fl[k][i].start - KernelPages) % 2^k = 0
  <2> DEFINE P == 2^k
             o == fl[k][i].start - KernelPages
  <2>1. k \in HugeOrder..MaxOrder BY <1>4, OrderType
  <2>2. PICK n \in Nat : fl[k][i].start = KernelPages + n * P BY <1>0, <2>1 DEF Aligned, AtMultiple
  <2>3. P \in Nat \ {0} BY Powers
  <2> HIDE DEF P
  <2>4. o = n * P
    <3> DEFINE x == n * P
    <3>1. x \in Nat BY <2>3
    <3> HIDE DEF x
    <3>2. fl[k][i].start = KernelPages + x BY <2>2 DEF x
    <3>3. o = x BY <3>1, <3>2, OrderType
    <3> QED BY <3>3 DEF x
  <2>5. (n * P) % P = 0
    <3> DEFINE x == n * P
    <3>1. x \in Nat BY <2>3
    <3>2. x = n * P /\ n * P \in Nat BY <3>1
    <3> HIDE DEF x
    <3>3. n * P <= x /\ x < n * P + P BY <2>3, <3>1, <3>2
    <3>4. x % P = x - n * P BY <2>3, <3>1, <3>3, Quotient
    <3>5. x % P = 0 BY <3>1, <3>2, <3>4
    <3> QED BY <3>2, <3>5
  <2> QED BY <2>4, <2>5 DEF P
<1> QED BY <1>1, <1>2, <1>3, <1>4 DEF WellFormed, B
=============================================================================
