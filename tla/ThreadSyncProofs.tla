-------------------------- MODULE ThreadSyncProofs --------------------------
(***************************************************************************)
(* Proofs about threads that wait for each other, for any number of        *)
(* threads, mutexes, conditions and futexes and any barrier count.         *)
(***************************************************************************)
EXTENDS ThreadSync, SequenceTheorems, FiniteSetTheorems, WellFoundedInduction, TLAPS

-----------------------------------------------------------------------------
(* Induction over the naturals in a form that needs no operator parameter:  *)
(* what is to be shown of every n is that n belongs to a set.               *)

\* A non-empty set of naturals has a least element.
LEMMA LeastNatural ==
    ASSUME NEW T, T \subseteq Nat, T # {}
    PROVE  \E x \in T : \A y \in T : x <= y
<1>1. PICK x \in T : \A y \in T : ~(<<y, x>> \in OpToRel(<, Nat))
  BY NatLessThanWellFounded, WFMin
<1>2. ASSUME NEW y \in T PROVE x <= y
  <2>1. x \in Nat /\ y \in Nat OBVIOUS
  <2>2. y < x => <<y, x>> \in OpToRel(<, Nat) BY <2>1 DEF OpToRel
  <2>3. ~(y < x) BY <1>1, <2>2
  <2> QED BY <2>1, <2>3
<1> QED BY <1>2

\* A set that holds 0 and with each natural its successor holds them all.
LEMMA NatSetInduction ==
    ASSUME NEW S, 0 \in S, \A n \in Nat : n \in S => n + 1 \in S
    PROVE  \A n \in Nat : n \in S
<1> DEFINE T == Nat \ S
<1>1. SUFFICES ASSUME T # {} PROVE FALSE OBVIOUS
<1>2. PICK x \in T : \A y \in T : x <= y
  <2>1. T \subseteq Nat OBVIOUS
  <2> HIDE DEF T
  <2> QED BY <1>1, <2>1, LeastNatural
<1>3. x # 0 /\ x \in Nat OBVIOUS
<1>4. x - 1 \in Nat /\ ~(x <= x - 1) /\ x - 1 + 1 = x BY <1>3
<1>5. x - 1 \in S BY <1>2, <1>4
<1> QED BY <1>4, <1>5

(* The inductive invariant, over any queues q and joiners w, so that the   *)
(* states in the middle of a call can be spoken of as well.                *)

\* A waiter's record, and the queues: a condition's waiters name their mutex.
Records == [thread : Threads, timeout : Timeouts, mutex : Mutexes \cup {None}]

Queues == {q \in [Places -> Seq(Records)] :
              \A c \in Conds : \A i \in DOMAIN q[c] : q[c][i].mutex \in Mutexes}

\* t has an entry in the queue of place p.
In(q, p, t) == \E i \in DOMAIN q[p] : q[p][i].thread = t

Queued(q, t) == \E p \in Places : In(q, p, t)

\* No thread has two entries.
Distinct(q) == \A p, r \in Places : \A i \in DOMAIN q[p], j \in DOMAIN q[r] :
                  q[p][i].thread = q[r][j].thread => p = r /\ i = j

\* t waits on a condition and will want the mutex m again.
ReturnsAt(q, c, t, m) == \E i \in DOMAIN q[c] : q[c][i].thread = t /\ q[c][i].mutex = m

ReturnsTo(q, t, m) == \E c \in Conds : ReturnsAt(q, c, t, m)

\* The mutex t waits for now or, in a condition wait, will lock again.
Wants(q, t, m) == In(q, m, t) \/ ReturnsTo(q, t, m)

\* Each waiting thread has one entry in a queue or joins on one thread.
Registered(q, w, h) ==
    /\ Distinct(q)
    /\ \A t \in Threads : h[t] = "wait" <=> (Queued(q, t) \/ \E u \in Threads : w[u] = t)
    /\ \A t, u \in Threads : w[u] = t => ~Queued(q, t)
    /\ \A u, v \in Threads : w[u] = w[v] /\ w[u] # None => u = v

(* A thread owns the mutexes it holds except for the one it waits for,     *)
(* which it counts as its own already; a mutex waited for has an owner.    *)
Owned(o, q, hd) ==
    \A m \in Mutexes :
       /\ \A t \in Threads : IF Wants(q, t, m) THEN m \in hd[t]
                                               ELSE m \in hd[t] <=> o[m] = t
       /\ o[m] = None => \A t \in Threads : ~In(q, m, t)

(* The states of the thread manager and of the host thread agree, except   *)
(* for the joiners that were let go.                                       *)
StatusOK(s, h, lg) ==
    \A t \in Threads : /\ h[t] = "wait" => s[t] = "stalled" /\ t \notin lg
                       /\ h[t] = "run" => s[t] = (IF t \in lg THEN "stalled" ELSE "running")
                       /\ h[t] = "none" => s[t] \in {"none", "initializing", "idle"} /\ t \notin lg

Statuses == {"none", "initializing", "running", "stalled", "idle"}

Hosts == {"none", "run", "wait"}

TypeOK == /\ status \in [Threads -> Statuses]
          /\ host \in [Threads -> Hosts]
          /\ waiter \in [Threads -> Threads \cup {None}]
          /\ owner \in [Mutexes -> Threads \cup {None}]
          /\ queue \in Queues
          /\ holds \in [Threads -> SUBSET Mutexes]
          /\ letGo \subseteq Threads

Inv == /\ TypeOK
       /\ Registered(queue, waiter, host)
       /\ Owned(owner, queue, holds)
       /\ StatusOK(status, host, letGo)
       /\ \A t \in Threads : host[t] = "none" => holds[t] = {}
       /\ JoinNotStranded

----------------------------------------------------------------------------
(* One queue *)

\* No thread has two entries in s.
Unique(s) == \A i, j \in DOMAIN s : s[i].thread = s[j].thread => i = j

\* s2 is s without the entries of the threads in D; timeouts may differ.
Less(s, s2, D) ==
    /\ s2 \in Seq(Records)
    /\ Unique(s2)
    /\ D \subseteq InQueue(s)
    /\ \A i \in DOMAIN s2 : \E j \in DOMAIN s :
          s2[i].thread = s[j].thread /\ s2[i].mutex = s[j].mutex /\ s[j].thread \notin D
    /\ \A j \in DOMAIN s : s[j].thread \notin D =>
          \E i \in DOMAIN s2 : s2[i].thread = s[j].thread /\ s2[i].mutex = s[j].mutex

LEMMA RecordType ==
    ASSUME NEW s \in Seq(Records), NEW i \in DOMAIN s
    PROVE  /\ s[i] \in Records /\ s[i].thread \in Threads
           /\ s[i].timeout \in Timeouts /\ s[i].mutex \in Mutexes \cup {None}
<1>1. DOMAIN s = 1..Len(s) /\ s \in [1..Len(s) -> Records] BY LenProperties
<1> QED BY <1>1 DEF Records

LEMMA LessNothing ==
    ASSUME NEW s \in Seq(Records), Unique(s)
    PROVE  Less(s, s, {})
BY DEF Less

LEMMA LessAll ==
    ASSUME NEW s \in Seq(Records)
    PROVE  Less(s, <<>>, InQueue(s))
<1>1. <<>> \in Seq(Records) /\ DOMAIN <<>> = {} OBVIOUS
<1> QED BY <1>1 DEF Less, Unique, InQueue

(* The first n entries, or all there are, are taken off.                   *)
LEMMA LessFirst ==
    ASSUME NEW s \in Seq(Records), Unique(s), NEW n \in Nat
    PROVE  Less(s, SubSeq(s, n + 1, Len(s)), InQueue(SubSeq(s, 1, Least(n, Len(s)))))
<1> DEFINE s2 == SubSeq(s, n + 1, Len(s))
           l == Least(n, Len(s))
           f == SubSeq(s, 1, l)
<1>1. Len(s) \in Nat /\ DOMAIN s = 1..Len(s) /\ s \in [1..Len(s) -> Records]
  BY LenProperties
<1>2. l \in Nat /\ l <= n /\ l <= Len(s) /\ (l = n \/ l = Len(s)) BY <1>1 DEF Least
<1>3. f \in Seq(Records) /\ DOMAIN f = 1..l /\ \A i \in 1..l : f[i] = s[i]
  BY <1>1, <1>2, SubSeqProperties
<1>4. CASE n >= Len(s)
  <2>1. s2 = <<>> BY <1>1, <1>4, SubSeqProperties
  <2>2. l = Len(s) BY <1>1, <1>2, <1>4
  <2>3. InQueue(f) = InQueue(s) BY <1>1, <1>3, <2>2 DEF InQueue
  <2> QED BY <2>1, <2>3, LessAll
<1>5. CASE n < Len(s)
  <2>1. l = n BY <1>1, <1>5 DEF Least
  <2>2. /\ s2 \in Seq(Records) /\ DOMAIN s2 = 1..(Len(s) - n)
        /\ \A i \in 1..(Len(s) - n) : s2[i] = s[n + i]
    BY <1>1, <1>5, SubSeqProperties
  <2> HIDE DEF s2, f, l
  <2>3. ASSUME NEW i \in DOMAIN s2 PROVE n + i \in DOMAIN s /\ s2[i] = s[n + i]
    BY <1>1, <1>5, <2>2
  <2>4. ASSUME NEW i \in DOMAIN s2 PROVE s[n + i].thread \notin InQueue(f)
    <3>1. SUFFICES ASSUME NEW j \in 1..n, s[n + i].thread = s[j].thread PROVE FALSE
      BY <1>3, <2>1 DEF InQueue
    <3>2. j \in DOMAIN s /\ j # n + i BY <1>1, <1>5, <2>2
    <3> QED BY <2>3, <3>1, <3>2 DEF Unique
  <2>5. Unique(s2)
    <3>1. SUFFICES ASSUME NEW i \in DOMAIN s2, NEW j \in DOMAIN s2,
                          s2[i].thread = s2[j].thread
                   PROVE  i = j
      BY DEF Unique
    <3>2. n + i = n + j BY <2>3, <3>1 DEF Unique
    <3> QED BY <2>2, <3>2
  <2>6. InQueue(f) \subseteq InQueue(s)
    <3>1. ASSUME NEW i \in 1..l PROVE i \in DOMAIN s /\ f[i] = s[i]
      <4>1. i \in 1..n BY <2>1
      <4>3. i \in 1..Len(s) BY <1>1, <1>5, <4>1
      <4>2. f[i] = s[i] BY <1>3
      <4> QED BY <1>1, <4>2, <4>3
    <3> QED BY <1>3, <3>1 DEF InQueue
  <2>7. ASSUME NEW j \in DOMAIN s, s[j].thread \notin InQueue(f)
        PROVE  \E i \in DOMAIN s2 : s2[i] = s[j]
    <3>1. ~(j \in 1..n) BY <1>3, <2>1, <2>7 DEF InQueue
    <3>2. j - n \in DOMAIN s2 /\ n + (j - n) = j BY <1>1, <2>2, <3>1
    <3> QED BY <2>3, <3>2
  <2>8. \A i \in DOMAIN s2 : \E j \in DOMAIN s :
          s2[i].thread = s[j].thread /\ s2[i].mutex = s[j].mutex /\ s[j].thread \notin InQueue(f)
    BY <2>3, <2>4
  <2>9. \A j \in DOMAIN s : s[j].thread \notin InQueue(f) =>
          \E i \in DOMAIN s2 : s2[i].thread = s[j].thread /\ s2[i].mutex = s[j].mutex
    BY <2>7
  <2>10. Less(s, s2, InQueue(f)) BY <2>2, <2>5, <2>6, <2>8, <2>9 DEF Less
  <2> QED BY <2>10 DEF s2, f, l
<1> QED BY <1>1, <1>4, <1>5

\* The first entry is taken off.
LEMMA LessHead ==
    ASSUME NEW s \in Seq(Records), Unique(s), s # <<>>
    PROVE  /\ Less(s, Tail(s), {Head(s).thread})
           /\ Head(s) = s[1] /\ 1 \in DOMAIN s
<1>1. Len(s) \in Nat /\ Len(s) # 0 /\ DOMAIN s = 1..Len(s) BY LenProperties, EmptySeq
<1>2. 1 \in DOMAIN s /\ Head(s) = s[1] BY <1>1
<1>3. Tail(s) = SubSeq(s, 1 + 1, Len(s)) BY TailIsSubSeq
<1>4. Least(1, Len(s)) = 1 BY <1>1 DEF Least
<1> DEFINE f == SubSeq(s, 1, 1)
<1>5. f \in Seq(Records) /\ DOMAIN f = 1..1 /\ f[1] = s[1]
  <2>1. \A i \in 1..1 : s[i] \in Records BY <1>2, RecordType
  <2> QED BY <2>1, SubSeqProperties, LenProperties
<1>6. InQueue(f) = {Head(s).thread}
  <2> HIDE DEF f
  <2> QED BY <1>2, <1>5 DEF InQueue
<1>7. Less(s, SubSeq(s, 1 + 1, Len(s)), InQueue(f)) BY <1>4, LessFirst
<1> QED BY <1>2, <1>3, <1>6, <1>7

\* The entry at k is taken out.
LEMMA LessAt ==
    ASSUME NEW s \in Seq(Records), Unique(s), NEW k \in DOMAIN s
    PROVE  Less(s, RemoveAt(s, k), {s[k].thread})
<1> DEFINE a == SubSeq(s, 1, k - 1)
           b == SubSeq(s, k + 1, Len(s))
           s2 == a \o b
<1>1. /\ Len(s) \in Nat /\ DOMAIN s = 1..Len(s) /\ s \in [1..Len(s) -> Records]
      /\ k \in Nat /\ k >= 1 /\ k <= Len(s)
  BY LenProperties
<1>2. a \in Seq(Records) /\ Len(a) = k - 1 /\ \A i \in 1..(k - 1) : a[i] = s[i]
  <2>1. \A i \in 1..(k - 1) : s[i] \in Records BY <1>1
  <2> QED BY <1>1, <2>1, SubSeqProperties
<1>3. b \in Seq(Records) /\ Len(b) = Len(s) - k /\ \A i \in 1..(Len(s) - k) : b[i] = s[k + i]
  <2>1. \A i \in (k + 1)..Len(s) : s[i] \in Records BY <1>1
  <2> QED BY <1>1, <2>1, SubSeqProperties
<1> HIDE DEF a, b
<1>4. /\ s2 \in Seq(Records) /\ Len(s2) = Len(s) - 1 /\ DOMAIN s2 = 1..(Len(s) - 1)
      /\ \A i \in 1..(Len(s) - 1) : s2[i] = IF i <= k - 1 THEN a[i] ELSE b[i - (k - 1)]
  <2>1. Len(a) + Len(b) = Len(s) - 1 BY <1>1, <1>2, <1>3
  <2>2. /\ s2 \in Seq(Records) /\ Len(s2) = Len(a) + Len(b)
        /\ \A i \in 1..(Len(a) + Len(b)) : s2[i] = IF i <= Len(a) THEN a[i] ELSE b[i - Len(a)]
    BY <1>2, <1>3, ConcatProperties
  <2>3. DOMAIN s2 = 1..Len(s2) BY <2>2, LenProperties
  <2> HIDE DEF s2
  <2> QED BY <1>2, <2>1, <2>2, <2>3
<1>5. ASSUME NEW i \in 1..(Len(s) - 1)
      PROVE  s2[i] = IF i < k THEN s[i] ELSE s[i + 1]
  <2>1. CASE i < k
    <3>1. i \in 1..(k - 1) /\ i <= k - 1 BY <1>1, <2>1
    <3> QED BY <1>2, <1>4, <2>1, <3>1
  <2>2. CASE ~(i < k)
    <3>1. i - (k - 1) \in 1..(Len(s) - k) /\ ~(i <= k - 1) /\ k + (i - (k - 1)) = i + 1
      BY <1>1, <2>2
    <3> QED BY <1>3, <1>4, <2>2, <3>1
  <2> QED BY <2>1, <2>2
<1> HIDE DEF s2
<1> DEFINE at(i) == IF i < k THEN i ELSE i + 1
<1>6. ASSUME NEW i \in DOMAIN s2
      PROVE  at(i) \in DOMAIN s /\ at(i) # k /\ s2[i] = s[at(i)]
  BY <1>1, <1>4, <1>5
<1>7. ASSUME NEW i \in DOMAIN s2, NEW j \in DOMAIN s2, at(i) = at(j) PROVE i = j
  BY <1>1, <1>4, <1>7
<1>8. ASSUME NEW j \in DOMAIN s, j # k PROVE \E i \in DOMAIN s2 : at(i) = j
  <2>1. CASE j < k BY <1>1, <1>4, <2>1
  <2>2. CASE ~(j < k)
    <3>1. j - 1 \in DOMAIN s2 /\ at(j - 1) = j BY <1>1, <1>4, <1>8, <2>2
    <3> QED BY <3>1
  <2> QED BY <2>1, <2>2
<1> HIDE DEF at
<1>9. Unique(s2) BY <1>6, <1>7 DEF Unique
<1>10. {s[k].thread} \subseteq InQueue(s) BY DEF InQueue
<1>11. \A i \in DOMAIN s2 : \E j \in DOMAIN s :
          s2[i].thread = s[j].thread /\ s2[i].mutex = s[j].mutex /\ s[j].thread \notin {s[k].thread}
  BY <1>6 DEF Unique
<1>12. \A j \in DOMAIN s : s[j].thread \notin {s[k].thread} =>
          \E i \in DOMAIN s2 : s2[i].thread = s[j].thread /\ s2[i].mutex = s[j].mutex
  BY <1>6, <1>8
<1>13. Less(s, s2, {s[k].thread}) BY <1>4, <1>9, <1>10, <1>11, <1>12 DEF Less
<1> QED BY <1>13 DEF RemoveAt, s2, a, b

----------------------------------------------------------------------------
(* All queues *)

LEMMA QueueType ==
    ASSUME NEW q \in Queues, NEW p \in Places
    PROVE  /\ q[p] \in Seq(Records)
           /\ Distinct(q) => Unique(q[p])
           /\ \A t : In(q, p, t) => t \in Threads
<1>1. q \in [Places -> Seq(Records)] BY DEF Queues
<1>2. q[p] \in Seq(Records) BY <1>1
<1>3. Distinct(q) => Unique(q[p]) BY DEF Distinct, Unique
<1>4. \A t : In(q, p, t) => t \in Threads BY <1>2, RecordType DEF In
<1> QED BY <1>2, <1>3, <1>4

\* The kinds of places differ.
LEMMA PlacesDiffer ==
    /\ \A m \in Mutexes : m \in Places /\ m \notin Conds /\ m \notin Timed /\ m # AtBarrier
    /\ \A c \in Conds : c \in Places /\ c \notin Mutexes /\ c \notin Timed /\ c # AtBarrier
    /\ Timed \subseteq Places /\ Futexes \subseteq Timed /\ Sleeping \in Timed
    /\ AtBarrier \in Places /\ AtBarrier \notin Timed
<1>1. AtBarrier # Sleeping BY DEF AtBarrier, Sleeping
<1> QED BY <1>1, SyncConstants DEF Places, Timed

\* Entries are taken out of several queues at once.
LEMMA LessQueues ==
    ASSUME NEW q \in Queues, Distinct(q),
           NEW q2, q2 = [p \in Places |-> q2[p]],
           NEW D \in [Places -> SUBSET Threads],
           \A p \in Places : Less(q[p], q2[p], D[p])
    PROVE  /\ q2 \in Queues /\ Distinct(q2)
           /\ \A p \in Places, t \in Threads :
                 /\ In(q2, p, t) <=> In(q, p, t) /\ t \notin D[p]
                 /\ t \in D[p] => In(q, p, t)
           /\ \A c \in Conds, t \in Threads, m \in Mutexes :
                 ReturnsAt(q2, c, t, m) <=> ReturnsAt(q, c, t, m) /\ t \notin D[c]
<1>1. ASSUME NEW p \in Places PROVE q2[p] \in Seq(Records) /\ Unique(q2[p]) BY DEF Less
<1>2. ASSUME NEW p \in Places, NEW i \in DOMAIN q2[p]
      PROVE  \E j \in DOMAIN q[p] : /\ q2[p][i].thread = q[p][j].thread
                                    /\ q2[p][i].mutex = q[p][j].mutex
                                    /\ q[p][j].thread \notin D[p]
  BY DEF Less
<1>3. ASSUME NEW p \in Places, NEW j \in DOMAIN q[p], q[p][j].thread \notin D[p]
      PROVE  \E i \in DOMAIN q2[p] : /\ q2[p][i].thread = q[p][j].thread
                                     /\ q2[p][i].mutex = q[p][j].mutex
  BY <1>3 DEF Less
<1>4. q2 \in Queues
  <2>1. q2 \in [Places -> Seq(Records)] BY <1>1
  <2>2. ASSUME NEW c \in Conds, NEW i \in DOMAIN q2[c] PROVE q2[c][i].mutex \in Mutexes
    BY <1>2, PlacesDiffer DEF Queues
  <2> QED BY <2>1, <2>2 DEF Queues
<1>5. Distinct(q2)
  <2>1. SUFFICES ASSUME NEW p \in Places, NEW r \in Places,
                        NEW i \in DOMAIN q2[p], NEW j \in DOMAIN q2[r],
                        q2[p][i].thread = q2[r][j].thread
                 PROVE  p = r /\ i = j
    BY DEF Distinct
  <2>2. p = r BY <1>2, <2>1 DEF Distinct
  <2> QED BY <1>1, <2>1, <2>2 DEF Unique
<1>6. ASSUME NEW p \in Places, NEW t \in Threads
      PROVE  /\ In(q2, p, t) <=> In(q, p, t) /\ t \notin D[p]
             /\ t \in D[p] => In(q, p, t)
  <2>1. In(q2, p, t) => In(q, p, t) /\ t \notin D[p] BY <1>2 DEF In
  <2>2. In(q, p, t) /\ t \notin D[p] => In(q2, p, t) BY <1>3 DEF In
  <2>3. t \in D[p] => In(q, p, t) BY DEF Less, In, InQueue
  <2> QED BY <2>1, <2>2, <2>3
<1>7. ASSUME NEW c \in Conds, NEW t \in Threads, NEW m \in Mutexes
      PROVE  ReturnsAt(q2, c, t, m) <=> ReturnsAt(q, c, t, m) /\ t \notin D[c]
  <2>1. c \in Places BY PlacesDiffer
  <2>2. ReturnsAt(q2, c, t, m) => ReturnsAt(q, c, t, m) /\ t \notin D[c]
    BY <1>2, <2>1 DEF ReturnsAt
  <2>3. ReturnsAt(q, c, t, m) /\ t \notin D[c] => ReturnsAt(q2, c, t, m)
    BY <1>3, <2>1 DEF ReturnsAt
  <2> QED BY <2>2, <2>3
<1> QED BY <1>4, <1>5, <1>6, <1>7

\* q2 is q without the threads in W.
Leaves(q, q2, W) ==
    /\ q2 \in Queues /\ Distinct(q2)
    /\ W \subseteq Threads
    /\ \A t \in W : Queued(q, t)
    /\ \A t \in Threads : Queued(q2, t) <=> Queued(q, t) /\ t \notin W

\* The same, and they waited for no mutex.
Takes(q, q2, W) ==
    /\ Leaves(q, q2, W)
    /\ \A t \in Threads, m \in Mutexes : In(q2, m, t) <=> In(q, m, t)
    /\ \A t \in Threads, m \in Mutexes : ReturnsTo(q2, t, m) <=> ReturnsTo(q, t, m)

LEMMA TakesLess ==
    ASSUME NEW q \in Queues, Distinct(q),
           NEW q2, q2 = [p \in Places |-> q2[p]],
           NEW D \in [Places -> SUBSET Threads],
           \A p \in Places : Less(q[p], q2[p], D[p]),
           \A p \in Mutexes \cup Conds : D[p] = {},
           NEW W, \A t : t \in W <=> \E p \in Places : t \in D[p]
    PROVE  Takes(q, q2, W)
<1>1. /\ q2 \in Queues /\ Distinct(q2)
      /\ \A p \in Places, t \in Threads :
            /\ In(q2, p, t) <=> In(q, p, t) /\ t \notin D[p]
            /\ t \in D[p] => In(q, p, t)
      /\ \A c \in Conds, t \in Threads, m \in Mutexes :
            ReturnsAt(q2, c, t, m) <=> ReturnsAt(q, c, t, m) /\ t \notin D[c]
  BY LessQueues
<1>2. ASSUME NEW t \in W PROVE t \in Threads /\ Queued(q, t) BY <1>1 DEF Queued
<1>3. ASSUME NEW t \in Threads PROVE Queued(q2, t) <=> Queued(q, t) /\ t \notin W
  <2>1. ASSUME Queued(q, t), t \notin W PROVE Queued(q2, t) BY <1>1, <2>1 DEF Queued
  <2>2. ASSUME Queued(q2, t) PROVE Queued(q, t) /\ t \notin W
    <3>1. PICK p \in Places : In(q2, p, t) BY <2>2 DEF Queued
    <3>2. In(q, p, t) /\ t \notin D[p] BY <1>1, <3>1
    <3>3. ASSUME NEW r \in Places, t \in D[r] PROVE FALSE
      <4>1. In(q, r, t) BY <1>1, <3>3
      <4>2. p = r BY <3>2, <4>1 DEF In, Distinct
      <4> QED BY <3>2, <3>3, <4>2
    <3> QED BY <3>2, <3>3 DEF Queued
  <2> QED BY <2>1, <2>2
<1>4. ASSUME NEW t \in Threads, NEW m \in Mutexes
      PROVE  /\ In(q2, m, t) <=> In(q, m, t)
             /\ ReturnsTo(q2, t, m) <=> ReturnsTo(q, t, m)
  <2>1. In(q2, m, t) <=> In(q, m, t) BY <1>1, PlacesDiffer
  <2>2. ReturnsTo(q2, t, m) <=> ReturnsTo(q, t, m) BY <1>1 DEF ReturnsTo
  <2> QED BY <2>1, <2>2
<1> QED BY <1>1, <1>2, <1>3, <1>4 DEF Takes, Leaves

LEMMA TakesTakes ==
    ASSUME NEW q, NEW q1, NEW q2, NEW V, NEW W, Takes(q, q1, V), Takes(q1, q2, W)
    PROVE  Takes(q, q2, V \cup W)
<1>1. q2 \in Queues /\ Distinct(q2) /\ V \cup W \subseteq Threads BY DEF Takes, Leaves
<1>2. ASSUME NEW t \in V \cup W PROVE Queued(q, t) BY DEF Takes, Leaves
<1>3. ASSUME NEW t \in Threads PROVE Queued(q2, t) <=> Queued(q, t) /\ t \notin V \cup W
  <2>1. Queued(q1, t) <=> Queued(q, t) /\ t \notin V BY DEF Takes, Leaves
  <2>2. Queued(q2, t) <=> Queued(q1, t) /\ t \notin W BY DEF Takes, Leaves
  <2> QED BY <2>1, <2>2
<1>4. ASSUME NEW t \in Threads, NEW m \in Mutexes
      PROVE  /\ In(q2, m, t) <=> In(q, m, t)
             /\ ReturnsTo(q2, t, m) <=> ReturnsTo(q, t, m)
  <2>1. In(q1, m, t) <=> In(q, m, t) BY DEF Takes, Leaves
  <2>2. In(q2, m, t) <=> In(q1, m, t) BY DEF Takes, Leaves
  <2>3. ReturnsTo(q1, t, m) <=> ReturnsTo(q, t, m) BY DEF Takes, Leaves
  <2>4. ReturnsTo(q2, t, m) <=> ReturnsTo(q1, t, m) BY DEF Takes, Leaves
  <2> QED BY <2>1, <2>2, <2>3, <2>4
<1> QED BY <1>1, <1>2, <1>3, <1>4 DEF Takes, Leaves

\* Entries leave the queue of one place that is neither a mutex nor a condition.
LEMMA TakesFrom ==
    ASSUME NEW q \in Queues, Distinct(q), NEW p \in Places \ (Mutexes \cup Conds),
           NEW s, NEW W, W \subseteq Threads, Less(q[p], s, W)
    PROVE  Takes(q, [q EXCEPT ![p] = s], W)
<1> DEFINE q2 == [q EXCEPT ![p] = s]
           D == [r \in Places |-> IF r = p THEN W ELSE {}]
<1>1. DOMAIN q = Places BY DEF Queues
<1>2. q2 = [r \in Places |-> q2[r]] BY <1>1
<1>3. D \in [Places -> SUBSET Threads] OBVIOUS
<1>4. ASSUME NEW r \in Places PROVE Less(q[r], q2[r], D[r])
  <2>1. CASE r = p BY <1>1, <2>1
  <2>2. CASE r # p
    <3>1. q2[r] = q[r] /\ D[r] = {} BY <1>1, <2>2
    <3> QED BY <3>1, QueueType, LessNothing
  <2> QED BY <2>1, <2>2
<1>5. \A r \in Mutexes \cup Conds : D[r] = {} BY PlacesDiffer
<1>6. \A t : t \in W <=> \E r \in Places : t \in D[r] OBVIOUS
<1> HIDE DEF q2, D
<1>7. Takes(q, q2, W) BY <1>2, <1>3, <1>4, <1>5, <1>6, TakesLess
<1> QED BY <1>7 DEF q2

(* dequeueWaiter, n times, on a futex.                                     *)
LEMMA TakesDequeued ==
    ASSUME NEW q \in Queues, Distinct(q), NEW f \in Futexes, NEW n \in Nat
    PROVE  Takes(q, Dequeued(q, f, n), DequeuedThreads(q, f, n))
<1>1. f \in Places \ (Mutexes \cup Conds) BY SyncConstants DEF Places
<1>2. q[f] \in Seq(Records) /\ Unique(q[f]) BY <1>1, QueueType
<1>3. Less(q[f], SubSeq(q[f], n + 1, Len(q[f])), DequeuedThreads(q, f, n))
  BY <1>2, LessFirst DEF DequeuedThreads
<1>4. DequeuedThreads(q, f, n) \subseteq Threads
  <2>1. DequeuedThreads(q, f, n) \subseteq InQueue(q[f]) BY <1>3 DEF Less
  <2>2. InQueue(q[f]) \subseteq Threads BY <1>2, RecordType DEF InQueue
  <2> QED BY <2>1, <2>2
<1>5. DOMAIN q = Places BY DEF Queues
<1>6. Dequeued(q, f, n) = [q EXCEPT ![f] = SubSeq(q[f], n + 1, Len(q[f]))]
  BY <1>1, <1>5 DEF Dequeued
<1> DEFINE s == SubSeq(q[f], n + 1, Len(q[f]))
           W == DequeuedThreads(q, f, n)
<1> HIDE DEF s, W
<1>7. Less(q[f], s, W) /\ W \subseteq Threads BY <1>3, <1>4 DEF s, W
<1>8. Takes(q, [q EXCEPT ![f] = s], W) BY <1>1, <1>7, TakesFrom
<1> QED BY <1>6, <1>8 DEF s, W

\* The barrier lets everybody go.
LEMMA TakesBarrier ==
    ASSUME NEW q \in Queues, Distinct(q)
    PROVE  Takes(q, [q EXCEPT ![AtBarrier] = <<>>], InQueue(q[AtBarrier]))
<1>1. AtBarrier \in Places \ (Mutexes \cup Conds) BY PlacesDiffer
<1>2. q[AtBarrier] \in Seq(Records) BY <1>1, QueueType
<1>3. InQueue(q[AtBarrier]) \subseteq Threads BY <1>2, RecordType DEF InQueue
<1> QED BY <1>1, <1>2, <1>3, LessAll, TakesFrom

\* Two queues without a common thread, one behind the other.
LEMMA JoinedQueues ==
    ASSUME NEW a \in Seq(Records), NEW b \in Seq(Records)
    PROVE  /\ a \o b \in Seq(Records)
           /\ InQueue(a \o b) = InQueue(a) \cup InQueue(b)
           /\ Unique(a) /\ Unique(b) /\ InQueue(a) \cap InQueue(b) = {} => Unique(a \o b)
<1> DEFINE s == a \o b
           k == Len(a)
           l == Len(b)
<1>1. k \in Nat /\ l \in Nat /\ DOMAIN a = 1..k /\ DOMAIN b = 1..l BY LenProperties
<1>2. /\ s \in Seq(Records) /\ DOMAIN s = 1..(k + l)
      /\ \A i \in 1..(k + l) : s[i] = IF i <= k THEN a[i] ELSE b[i - k]
  BY ConcatProperties, LenProperties
<1> HIDE DEF s, k, l
<1>3. ASSUME NEW i \in DOMAIN s
      PROVE  \/ i <= k /\ i \in DOMAIN a /\ s[i] = a[i]
             \/ ~(i <= k) /\ i - k \in DOMAIN b /\ s[i] = b[i - k]
  BY <1>1, <1>2
<1>4. ASSUME NEW j \in DOMAIN a PROVE j \in DOMAIN s /\ s[j] = a[j] BY <1>1, <1>2
<1>5. ASSUME NEW j \in DOMAIN b PROVE j + k \in DOMAIN s /\ s[j + k] = b[j]
  <2>1. j + k \in 1..(k + l) /\ ~(j + k <= k) /\ (j + k) - k = j BY <1>1
  <2>2. s[j + k] = b[(j + k) - k] BY <1>2, <2>1
  <2>3. s[j + k] = b[j] BY <2>1, <2>2
  <2> QED BY <1>2, <2>1, <2>3
<1>6. InQueue(s) = InQueue(a) \cup InQueue(b)
  <2>1. InQueue(s) \subseteq InQueue(a) \cup InQueue(b) BY <1>3 DEF InQueue
  <2>2. InQueue(a) \subseteq InQueue(s) BY <1>4 DEF InQueue
  <2>3. InQueue(b) \subseteq InQueue(s) BY <1>5 DEF InQueue
  <2> QED BY <2>1, <2>2, <2>3
<1>7. ASSUME Unique(a), Unique(b), InQueue(a) \cap InQueue(b) = {} PROVE Unique(s)
  <2>1. SUFFICES ASSUME NEW i \in DOMAIN s, NEW j \in DOMAIN s, s[i].thread = s[j].thread
                 PROVE  i = j
    BY DEF Unique
  <2>2. ASSUME NEW e \in DOMAIN a, NEW f \in DOMAIN b PROVE a[e].thread # b[f].thread
    BY <1>7 DEF InQueue
  <2>3. i \in Nat /\ j \in Nat BY <1>1, <1>2
  <2>4. CASE i <= k /\ j <= k
    <3>1. i \in DOMAIN a /\ j \in DOMAIN a /\ a[i].thread = a[j].thread BY <1>3, <2>1, <2>4
    <3> QED BY <1>7, <3>1 DEF Unique
  <2>5. CASE ~(i <= k) /\ ~(j <= k)
    <3>1. i - k \in DOMAIN b /\ j - k \in DOMAIN b /\ b[i - k].thread = b[j - k].thread
      BY <1>3, <2>1, <2>5
    <3>2. i - k = j - k BY <1>7, <3>1 DEF Unique
    <3> QED BY <1>1, <2>3, <3>2
  <2>6. CASE i <= k /\ ~(j <= k) BY <1>3, <2>1, <2>2, <2>6
  <2>7. CASE ~(i <= k) /\ j <= k BY <1>3, <2>1, <2>2, <2>7
  <2> QED BY <2>4, <2>5, <2>6, <2>7
<1> QED BY <1>2, <1>6, <1>7 DEF s

\* The rest of the queue of futex f moves to the end of that of g.
LEMMA TakesRequeue ==
    ASSUME NEW q \in Queues, Distinct(q), NEW f \in Futexes, NEW g \in Futexes, f # g
    PROVE  Takes(q, [q EXCEPT ![f] = <<>>, ![g] = @ \o q[f]], {})
<1> DEFINE s == q[g] \o q[f]
           q2 == [q EXCEPT ![f] = <<>>, ![g] = @ \o q[f]]
<1>1. f \in Places /\ g \in Places /\ DOMAIN q = Places BY PlacesDiffer DEF Queues
<1>2. /\ q2[f] = <<>> /\ q2[g] = s /\ DOMAIN q2 = Places
      /\ \A p \in Places \ {f, g} : q2[p] = q[p]
  BY <1>1
<1>3. q[f] \in Seq(Records) /\ q[g] \in Seq(Records) /\ Unique(q[f]) /\ Unique(q[g])
  BY <1>1, QueueType
<1>4. InQueue(q[g]) \cap InQueue(q[f]) = {} BY <1>1 DEF InQueue, Distinct
<1>5. s \in Seq(Records) /\ Unique(s) /\ InQueue(s) = InQueue(q[g]) \cup InQueue(q[f])
  BY <1>3, <1>4, JoinedQueues
<1> HIDE DEF s, q2
<1>6. q2 \in Queues
  <2>1. ASSUME NEW p \in Places PROVE q2[p] \in Seq(Records)
    BY <1>2, <1>5, QueueType, EmptySeq
  <2>2. q2 \in [Places -> Seq(Records)]
    <3>1. q2 = [p \in Places |-> q2[p]] BY <1>1 DEF q2
    <3> QED BY <2>1, <3>1
  <2>3. \A c \in Conds : c \in Places \ {f, g} BY PlacesDiffer
  <2>4. \A c \in Conds : q2[c] = q[c] BY <1>2, <2>3
  <2> QED BY <2>2, <2>4 DEF Queues
<1>7. ASSUME NEW p \in Places, NEW t
      PROVE  In(q2, p, t) <=> IF p = g THEN In(q, g, t) \/ In(q, f, t)
                                       ELSE p # f /\ In(q, p, t)
  <2>1. CASE p = g
    <3>1. In(q2, g, t) <=> t \in InQueue(s) BY <1>2 DEF In, InQueue
    <3>2. In(q, g, t) <=> t \in InQueue(q[g]) BY DEF In, InQueue
    <3>3. In(q, f, t) <=> t \in InQueue(q[f]) BY DEF In, InQueue
    <3> QED BY <1>5, <2>1, <3>1, <3>2, <3>3
  <2>2. CASE p = f BY <1>2, <2>2 DEF In
  <2>3. CASE p # f /\ p # g BY <1>2, <2>3 DEF In
  <2> QED BY <2>1, <2>2, <2>3
<1>8. ASSUME NEW p \in Places PROVE Unique(q2[p])
  <2>1. CASE p = g BY <1>2, <1>5, <2>1
  <2>2. CASE p = f BY <1>2, <2>2 DEF Unique
  <2>3. CASE p # f /\ p # g BY <1>2, <2>3, QueueType
  <2> QED BY <2>1, <2>2, <2>3
<1>9. ASSUME NEW p \in Places, NEW r \in Places, NEW t, In(q, p, t), In(q, r, t) PROVE p = r
  BY <1>9 DEF In, Distinct
<1>10. ASSUME NEW p \in Places, NEW r \in Places, NEW t, In(q2, p, t), In(q2, r, t) PROVE p = r
  BY <1>1, <1>7, <1>9, <1>10
<1>11. Distinct(q2)
  <2>1. SUFFICES ASSUME NEW p \in Places, NEW r \in Places,
                        NEW i \in DOMAIN q2[p], NEW j \in DOMAIN q2[r],
                        q2[p][i].thread = q2[r][j].thread
                 PROVE  p = r /\ i = j
    BY DEF Distinct
  <2>2. In(q2, p, q2[p][i].thread) /\ In(q2, r, q2[p][i].thread) BY <2>1 DEF In
  <2>3. p = r BY <1>10, <2>2
  <2> QED BY <1>8, <2>1, <2>3 DEF Unique
<1>12. ASSUME NEW t \in Threads PROVE Queued(q2, t) <=> Queued(q, t)
  <2>1. ASSUME Queued(q2, t) PROVE Queued(q, t) BY <1>1, <1>7, <2>1 DEF Queued
  <2>2. ASSUME Queued(q, t) PROVE Queued(q2, t)
    <3>1. PICK p \in Places : In(q, p, t) BY <2>2 DEF Queued
    <3>2. CASE p \in {f, g} BY <1>1, <1>7, <3>1, <3>2 DEF Queued
    <3>3. CASE p \notin {f, g} BY <1>7, <3>1, <3>3 DEF Queued
    <3> QED BY <3>2, <3>3
  <2> QED BY <2>1, <2>2
<1>13. ASSUME NEW t \in Threads, NEW m \in Mutexes
       PROVE  /\ In(q2, m, t) <=> In(q, m, t)
              /\ ReturnsTo(q2, t, m) <=> ReturnsTo(q, t, m)
  <2>1. m \in Places \ {f, g} /\ \A c \in Conds : c \in Places \ {f, g} BY PlacesDiffer
  <2>2. q2[m] = q[m] /\ \A c \in Conds : q2[c] = q[c] BY <1>2, <2>1
  <2> QED BY <2>2 DEF In, ReturnsTo, ReturnsAt
<1>14. Takes(q, q2, {}) BY <1>6, <1>11, <1>12, <1>13 DEF Takes, Leaves
<1> QED BY <1>14 DEF q2

\* FirstPassed is 0 or the place of an entry.
LEMMA FirstPassedInQueue ==
    ASSUME NEW s \in Seq(Records), FirstPassed(s) # 0
    PROVE  FirstPassed(s) \in DOMAIN s
<1> DEFINE I == {i \in 1..Len(s) : s[i].timeout = "passed"}
<1>1. Len(s) \in Nat /\ DOMAIN s = 1..Len(s) BY LenProperties
<1>2. FirstPassed(s) = IF I # {} THEN Min(I) ELSE 0 BY DEF FirstPassed, SelectInSeq
<1>3. I # {} /\ I \subseteq Nat BY <1>1, <1>2
<1>4. \E x \in I : \A y \in I : x <= y
  <2> HIDE DEF I
  <2> QED BY <1>3, LeastNatural
<1>5. Min(I) \in I
  <2> HIDE DEF I
  <2> QED BY <1>4 DEF Min
<1> QED BY <1>1, <1>2, <1>3, <1>5

\* A record whose timeout passes stays a record of the same thread and mutex.
LEMMA TimeoutPasses ==
    ASSUME NEW r \in Records
    PROVE  /\ [r EXCEPT !.timeout = "passed"] \in Records
           /\ [r EXCEPT !.timeout = "passed"].thread = r.thread
           /\ [r EXCEPT !.timeout = "passed"].mutex = r.mutex
BY DEF Records, Timeouts

\* Time passes: entries only change their timeouts.
LEMMA TakesPassing ==
    ASSUME NEW q \in Queues, Distinct(q), NEW S
    PROVE  Takes(q, Passing(q, S), {})
<1> DEFINE q2 == Passing(q, S)
           D == [p \in Places |-> {}]
<1>1. q2 = [p \in Places |-> q2[p]] BY DEF Passing
<1>2. ASSUME NEW p \in Places PROVE Less(q[p], q2[p], D[p])
  <2> DEFINE s == q[p]
             s2 == [i \in DOMAIN s |-> IF s[i].thread \in S
                                       THEN [s[i] EXCEPT !.timeout = "passed"] ELSE s[i]]
  <2>1. q2[p] = s2 BY DEF Passing
  <2>2. s \in Seq(Records) /\ Unique(s) BY QueueType
  <2>3. Len(s) \in Nat /\ DOMAIN s = 1..Len(s) BY <2>2, LenProperties
  <2>4. ASSUME NEW i \in DOMAIN s
        PROVE  s2[i] \in Records /\ s2[i].thread = s[i].thread /\ s2[i].mutex = s[i].mutex
    <3>1. s[i] \in Records BY <2>2, RecordType
    <3>2. s2[i] = IF s[i].thread \in S THEN [s[i] EXCEPT !.timeout = "passed"] ELSE s[i]
      OBVIOUS
    <3> HIDE DEF s2, s
    <3> QED BY <3>1, <3>2, TimeoutPasses
  <2>5. s2 \in Seq(Records)
    <3>1. s2 \in [1..Len(s) -> Records] BY <2>3, <2>4
    <3> HIDE DEF s2, s
    <3> QED BY <2>3, <3>1
  <2>6. DOMAIN s2 = DOMAIN s OBVIOUS
  <2> HIDE DEF s2
  <2>7. Unique(s2) BY <2>2, <2>4, <2>6 DEF Unique
  <2>8. Less(s, s2, {}) BY <2>4, <2>5, <2>6, <2>7 DEF Less
  <2> QED BY <2>1, <2>8
<1>3. D \in [Places -> SUBSET Threads] /\ \A p \in Mutexes \cup Conds : D[p] = {}
  BY PlacesDiffer
<1>4. \A t : t \in {} <=> \E p \in Places : t \in D[p] OBVIOUS
<1> HIDE DEF q2, D
<1>5. Takes(q, q2, {}) BY <1>1, <1>2, <1>3, <1>4, TakesLess
<1> QED BY <1>5 DEF q2

\* The hook takes one waiter whose timeout has passed from each timed queue.
LEMMA TakesPeriodic ==
    ASSUME NEW q \in Queues, Distinct(q)
    PROVE  Takes(q, AfterPeriodic(q), TimedOut(q))
<1> DEFINE q2 == AfterPeriodic(q)
           W == TimedOut(q)
           D == [p \in Places |-> IF p \in Timed /\ FirstPassed(q[p]) # 0
                                  THEN {q[p][FirstPassed(q[p])].thread} ELSE {}]
<1>1. q2 = [p \in Places |-> q2[p]] BY DEF AfterPeriodic
<1>2. ASSUME NEW p \in Places PROVE Less(q[p], q2[p], D[p]) /\ D[p] \subseteq Threads
  <2>1. q[p] \in Seq(Records) /\ Unique(q[p]) BY QueueType
  <2>2. CASE p \in Timed /\ FirstPassed(q[p]) # 0
    <3>1. FirstPassed(q[p]) \in DOMAIN q[p] BY <2>1, <2>2, FirstPassedInQueue
    <3>2. q2[p] = RemoveAt(q[p], FirstPassed(q[p])) BY <2>2 DEF AfterPeriodic
    <3>3. D[p] = {q[p][FirstPassed(q[p])].thread} BY <2>2
    <3>4. q[p][FirstPassed(q[p])].thread \in Threads BY <2>1, <3>1, RecordType
    <3>5. Less(q[p], RemoveAt(q[p], FirstPassed(q[p])), {q[p][FirstPassed(q[p])].thread})
      BY <2>1, <3>1, LessAt
    <3> QED BY <3>2, <3>3, <3>4, <3>5
  <2>3. CASE ~(p \in Timed /\ FirstPassed(q[p]) # 0)
    <3>1. q2[p] = q[p] /\ D[p] = {} BY <2>3 DEF AfterPeriodic
    <3> QED BY <2>1, <3>1, LessNothing
  <2> QED BY <2>2, <2>3
<1>3. D \in [Places -> SUBSET Threads] BY <1>2
<1>4. \A p \in Mutexes \cup Conds : D[p] = {} BY PlacesDiffer
<1>5. \A t : t \in W <=> \E p \in Places : t \in D[p] BY PlacesDiffer DEF TimedOut
<1> HIDE DEF q2, D, W
<1>6. Takes(q, q2, W) BY <1>1, <1>2, <1>3, <1>4, <1>5, TakesLess
<1> QED BY <1>6 DEF q2, W

\* The hook when the timeouts of the threads in S have passed.
LEMMA TakesHook ==
    ASSUME NEW q \in Queues, Distinct(q), NEW S
    PROVE  Takes(q, AfterPeriodic(Passing(q, S)), TimedOut(Passing(q, S)))
<1> DEFINE q1 == Passing(q, S)
<1>1. Takes(q, q1, {}) BY TakesPassing
<1> HIDE DEF q1
<1>2. q1 \in Queues /\ Distinct(q1) BY <1>1 DEF Takes, Leaves
<1>3. Takes(q1, AfterPeriodic(q1), TimedOut(q1)) BY <1>2, TakesPeriodic
<1>4. Takes(q, AfterPeriodic(q1), {} \cup TimedOut(q1)) BY <1>1, <1>3, TakesTakes
<1>5. {} \cup TimedOut(q1) = TimedOut(q1) OBVIOUS
<1> QED BY <1>4, <1>5 DEF q1

\* A thread that waits nowhere joins the queue of p.
LEMMA EnqueuedQueues ==
    ASSUME NEW q \in Queues, Distinct(q), NEW p \in Places, NEW w \in Records,
           p \in Conds => w.mutex \in Mutexes, ~Queued(q, w.thread)
    PROVE  LET q2 == Enqueue(q, p, w)
           IN  /\ q2 \in Queues /\ Distinct(q2)
               /\ \A r \in Places, t \in Threads :
                     In(q2, r, t) <=> In(q, r, t) \/ (r = p /\ t = w.thread)
               /\ \A c \in Conds, t \in Threads, m \in Mutexes :
                     ReturnsAt(q2, c, t, m) <=> \/ ReturnsAt(q, c, t, m)
                                                \/ c = p /\ t = w.thread /\ m = w.mutex
<1> DEFINE q2 == Enqueue(q, p, w)
           s == q[p]
           s2 == Append(s, w)
           k == Len(s)
<1>1. DOMAIN q = Places /\ q \in [Places -> Seq(Records)] BY DEF Queues
<1>2. q2[p] = s2 /\ DOMAIN q2 = Places /\ \A r \in Places \ {p} : q2[r] = q[r]
  BY <1>1 DEF Enqueue
<1>3. s \in Seq(Records) /\ k \in Nat /\ DOMAIN s = 1..k BY QueueType, LenProperties
<1>4. /\ s2 \in Seq(Records) /\ DOMAIN s2 = 1..(k + 1)
      /\ \A i \in 1..k : s2[i] = s[i]
      /\ s2[k + 1] = w
  BY <1>3, AppendProperties, LenProperties
<1>5. q2 = [r \in Places |-> q2[r]] BY <1>1 DEF Enqueue
<1> HIDE DEF q2, s2, k
<1>6. ASSUME NEW r \in Places, NEW i \in DOMAIN q2[r]
      PROVE  \/ i \in DOMAIN q[r] /\ q2[r][i] = q[r][i]
             \/ r = p /\ i = k + 1 /\ q2[r][i] = w
  <2>1. CASE r = p
    <3>1. i \in 1..(k + 1) BY <1>2, <1>4, <2>1
    <3>2. i \in 1..k \/ i = k + 1 BY <1>3, <3>1
    <3> QED BY <1>2, <1>3, <1>4, <2>1, <3>2
  <2>2. CASE r # p BY <1>2, <2>2
  <2> QED BY <2>1, <2>2
<1>7. ASSUME NEW r \in Places, NEW i \in DOMAIN q[r]
      PROVE  i \in DOMAIN q2[r] /\ q2[r][i] = q[r][i]
  <2>1. CASE r = p
    <3>1. i \in 1..k /\ i \in 1..(k + 1) BY <1>3, <2>1
    <3> QED BY <1>2, <1>4, <2>1, <3>1
  <2>2. CASE r # p BY <1>2, <2>2
  <2> QED BY <2>1, <2>2
<1>8. k + 1 \in DOMAIN q2[p] /\ q2[p][k + 1] = w
  <2>1. k + 1 \in 1..(k + 1) BY <1>3
  <2> QED BY <1>2, <1>4, <2>1
<1>9. q2 \in Queues
  <2>1. ASSUME NEW r \in Places PROVE q2[r] \in Seq(Records) BY <1>1, <1>2, <1>4
  <2>2. q2 \in [Places -> Seq(Records)] BY <1>5, <2>1
  <2>3. ASSUME NEW c \in Conds, NEW i \in DOMAIN q2[c] PROVE q2[c][i].mutex \in Mutexes
    <3>1. c \in Places BY PlacesDiffer
    <3> QED BY <1>6, <3>1 DEF Queues
  <2> QED BY <2>2, <2>3 DEF Queues
<1>10. Distinct(q2)
  <2>1. SUFFICES ASSUME NEW a \in Places, NEW r \in Places,
                        NEW i \in DOMAIN q2[a], NEW j \in DOMAIN q2[r],
                        q2[a][i].thread = q2[r][j].thread
                 PROVE  a = r /\ i = j
    BY DEF Distinct
  <2>2. ASSUME NEW b \in Places, NEW l \in DOMAIN q[b] PROVE q[b][l].thread # w.thread
    BY DEF Queued, In
  <2>3. CASE i \in DOMAIN q[a] /\ q2[a][i] = q[a][i] /\ j \in DOMAIN q[r] /\ q2[r][j] = q[r][j]
    BY <2>1, <2>3 DEF Distinct
  <2> QED BY <1>6, <2>1, <2>2, <2>3
<1>11. ASSUME NEW r \in Places, NEW t \in Threads
       PROVE  In(q2, r, t) <=> In(q, r, t) \/ (r = p /\ t = w.thread)
  <2>1. In(q2, r, t) => In(q, r, t) \/ (r = p /\ t = w.thread) BY <1>6 DEF In
  <2>2. In(q, r, t) => In(q2, r, t) BY <1>7 DEF In
  <2>3. r = p /\ t = w.thread => In(q2, r, t) BY <1>8 DEF In
  <2> QED BY <2>1, <2>2, <2>3
<1>12. ASSUME NEW c \in Conds, NEW t \in Threads, NEW m \in Mutexes
       PROVE  ReturnsAt(q2, c, t, m) <=> \/ ReturnsAt(q, c, t, m)
                                         \/ c = p /\ t = w.thread /\ m = w.mutex
  <2>0. c \in Places BY PlacesDiffer
  <2>1. ReturnsAt(q2, c, t, m) => ReturnsAt(q, c, t, m) \/ (c = p /\ t = w.thread /\ m = w.mutex)
    BY <1>6, <2>0 DEF ReturnsAt
  <2>2. ReturnsAt(q, c, t, m) => ReturnsAt(q2, c, t, m) BY <1>7, <2>0 DEF ReturnsAt
  <2>3. c = p /\ t = w.thread /\ m = w.mutex => ReturnsAt(q2, c, t, m) BY <1>8 DEF ReturnsAt
  <2> QED BY <2>1, <2>2, <2>3
<1>13. /\ \A r \in Places, t \in Threads :
            In(q2, r, t) <=> In(q, r, t) \/ (r = p /\ t = w.thread)
       /\ \A c \in Conds, t \in Threads, m \in Mutexes :
            ReturnsAt(q2, c, t, m) <=> \/ ReturnsAt(q, c, t, m)
                                       \/ c = p /\ t = w.thread /\ m = w.mutex
  BY <1>11, <1>12
<1> QED BY <1>9, <1>10, <1>13 DEF q2

\* The first entry of one queue is popped.
LEMMA PoppedQueues ==
    ASSUME NEW q \in Queues, Distinct(q), NEW p \in Places, q[p] # <<>>
    PROVE  LET q2 == [q EXCEPT ![p] = Tail(@)]
               x == Head(q[p]).thread
           IN  /\ Leaves(q, q2, {x}) /\ In(q, p, x) /\ x \in Threads /\ Head(q[p]) \in Records
               /\ p \in Conds => Head(q[p]).mutex \in Mutexes /\ ReturnsAt(q, p, x, Head(q[p]).mutex)
               /\ \A r \in Places, t \in Threads :
                     In(q2, r, t) <=> In(q, r, t) /\ t # x
               /\ \A c \in Conds, t \in Threads, m \in Mutexes :
                     ReturnsAt(q2, c, t, m) <=> ReturnsAt(q, c, t, m) /\ t # x
<1> DEFINE q2 == [q EXCEPT ![p] = Tail(@)]
           x == Head(q[p]).thread
           D == [r \in Places |-> IF r = p THEN {x} ELSE {}]
<1>1. DOMAIN q = Places /\ q[p] \in Seq(Records) /\ Unique(q[p]) BY QueueType DEF Queues
<1>2. Less(q[p], Tail(q[p]), {x}) /\ Head(q[p]) = q[p][1] /\ 1 \in DOMAIN q[p]
  BY <1>1, LessHead
<1>3. q2 = [r \in Places |-> q2[r]] BY <1>1
<1>4. q2[p] = Tail(q[p]) /\ \A r \in Places \ {p} : q2[r] = q[r] BY <1>1
<1>5. x \in Threads /\ Head(q[p]) \in Records BY <1>1, <1>2, RecordType
<1>6. In(q, p, x) BY <1>2 DEF In
<1>7. p \in Conds => Head(q[p]).mutex \in Mutexes /\ ReturnsAt(q, p, x, Head(q[p]).mutex)
  BY <1>2 DEF Queues, ReturnsAt
<1>8. D \in [Places -> SUBSET Threads] BY <1>5
<1>9. ASSUME NEW r \in Places PROVE Less(q[r], q2[r], D[r])
  <2>1. CASE r = p BY <1>2, <1>4, <2>1
  <2>2. CASE r # p
    <3>1. q2[r] = q[r] /\ D[r] = {} BY <1>4, <2>2
    <3> QED BY <3>1, QueueType, LessNothing
  <2> QED BY <2>1, <2>2
<1>10. \A r \in Places : D[r] = IF r = p THEN {x} ELSE {} OBVIOUS
<1> HIDE DEF q2, D, x
<1>11. /\ q2 \in Queues /\ Distinct(q2)
       /\ \A r \in Places, t \in Threads :
             /\ In(q2, r, t) <=> In(q, r, t) /\ t \notin D[r]
             /\ t \in D[r] => In(q, r, t)
       /\ \A c \in Conds, t \in Threads, m \in Mutexes :
             ReturnsAt(q2, c, t, m) <=> ReturnsAt(q, c, t, m) /\ t \notin D[c]
  BY <1>3, <1>8, <1>9, LessQueues
<1>12. ASSUME NEW r \in Places, In(q, r, x) PROVE r = p BY <1>6, <1>12 DEF In, Distinct
<1>13. ASSUME NEW r \in Places, NEW t \in Threads
       PROVE  In(q2, r, t) <=> In(q, r, t) /\ t # x
  BY <1>10, <1>11, <1>12
<1>14. ASSUME NEW c \in Conds, NEW t \in Threads, NEW m \in Mutexes
       PROVE  ReturnsAt(q2, c, t, m) <=> ReturnsAt(q, c, t, m) /\ t # x
  <2>1. c \in Places /\ (ReturnsAt(q, c, t, m) => In(q, c, t)) BY PlacesDiffer DEF ReturnsAt, In
  <2> QED BY <1>10, <1>11, <1>12, <2>1
<1>15. Leaves(q, q2, {x})
  <2>1. Queued(q, x) BY <1>6 DEF Queued
  <2>2. ASSUME NEW t \in Threads PROVE Queued(q2, t) <=> Queued(q, t) /\ t \notin {x}
    BY <1>13 DEF Queued
  <2> QED BY <1>5, <1>11, <2>1, <2>2 DEF Leaves
<1>16. /\ \A r \in Places, t \in Threads : In(q2, r, t) <=> In(q, r, t) /\ t # x
       /\ \A c \in Conds, t \in Threads, m \in Mutexes :
             ReturnsAt(q2, c, t, m) <=> ReturnsAt(q, c, t, m) /\ t # x
  BY <1>13, <1>14
<1> QED BY <1>5, <1>6, <1>7, <1>15, <1>16 DEF q2, x

----------------------------------------------------------------------------
(* Registration, ownership and status.  h2 is what becomes of h.           *)

\* Those in W run instead of waiting.
Released(h, h2, W) == \A t \in Threads : h2[t] = "wait" <=> h[t] = "wait" /\ t \notin W

\* Threads in W leave the queues and run.
LEMMA RegisteredLeaves ==
    ASSUME NEW q, NEW q2, NEW w, NEW h, NEW h2, NEW W,
           Registered(q, w, h), Leaves(q, q2, W), Released(h, h2, W)
    PROVE  Registered(q2, w, h2) /\ \A t \in W : h[t] = "wait"
<1>1. Distinct(q2) BY DEF Leaves
<1>2. ASSUME NEW t \in W PROVE h[t] = "wait" BY DEF Leaves, Registered
<1>3. ASSUME NEW t \in Threads
      PROVE  h2[t] = "wait" <=> (Queued(q2, t) \/ \E u \in Threads : w[u] = t)
  <2>1. Queued(q2, t) <=> Queued(q, t) /\ t \notin W BY DEF Leaves
  <2>2. t \in W => Queued(q, t) BY DEF Leaves
  <2>3. h[t] = "wait" <=> (Queued(q, t) \/ \E u \in Threads : w[u] = t) BY DEF Registered
  <2>4. (\E u \in Threads : w[u] = t) => ~Queued(q, t) BY DEF Registered
  <2> QED BY <2>1, <2>2, <2>3, <2>4 DEF Released
<1>4. ASSUME NEW t \in Threads, NEW u \in Threads, w[u] = t PROVE ~Queued(q2, t)
  BY <1>4 DEF Leaves, Registered
<1>5. \A u, v \in Threads : w[u] = w[v] /\ w[u] # None => u = v BY DEF Registered
<1> QED BY <1>1, <1>2, <1>3, <1>4, <1>5 DEF Registered

\* t waits, too.
Sleeps(h, h2, t) == \A u \in Threads : h2[u] = "wait" <=> h[u] = "wait" \/ u = t

\* Nobody else than t enters a queue.
Enters(q, q2, t) == /\ q2 \in Queues /\ Distinct(q2)
                    /\ \A u \in Threads : Queued(q2, u) <=> Queued(q, u) \/ u = t

\* A running thread enters a queue and waits.
LEMMA RegisteredEnters ==
    ASSUME NEW q, NEW q2, NEW w, NEW h, NEW h2, NEW t \in Threads,
           Registered(q, w, h), h[t] # "wait", Enters(q, q2, t), Sleeps(h, h2, t)
    PROVE  Registered(q2, w, h2)
<1>1. ASSUME NEW u \in Threads
      PROVE  h2[u] = "wait" <=> (Queued(q2, u) \/ \E v \in Threads : w[v] = u)
  BY DEF Registered, Enters, Sleeps
<1>2. ASSUME NEW u \in Threads, NEW v \in Threads, w[v] = u PROVE ~Queued(q2, u)
  BY <1>2 DEF Registered, Enters
<1>3. \A u, v \in Threads : w[u] = w[v] /\ w[u] # None => u = v BY DEF Registered
<1> QED BY <1>1, <1>2, <1>3 DEF Registered, Enters

\* A running thread joins on u and waits.
LEMMA RegisteredJoins ==
    ASSUME NEW q, NEW w \in [Threads -> Threads \cup {None}], NEW h, NEW h2,
           NEW t \in Threads, NEW u \in Threads,
           Registered(q, w, h), h[t] # "wait", w[u] = None, Sleeps(h, h2, t)
    PROVE  Registered(q, [w EXCEPT ![u] = t], h2)
<1> DEFINE w2 == [w EXCEPT ![u] = t]
<1>0. None \notin Threads BY SyncConstants
<1>1. w2[u] = t /\ \A v \in Threads \ {u} : w2[v] = w[v] OBVIOUS
<1>2. ~Queued(q, t) /\ \A v \in Threads : w[v] # t BY DEF Registered
<1> HIDE DEF w2
<1>3. ASSUME NEW v \in Threads
      PROVE  h2[v] = "wait" <=> (Queued(q, v) \/ \E x \in Threads : w2[x] = v)
  <2>1. CASE v = t BY <1>1, <2>1 DEF Sleeps
  <2>2. CASE v # t
    <3>1. (\E x \in Threads : w2[x] = v) <=> \E x \in Threads : w[x] = v
      BY <1>0, <1>1, <2>2
    <3>2. h[v] = "wait" <=> (Queued(q, v) \/ \E x \in Threads : w[x] = v) BY DEF Registered
    <3> QED BY <2>2, <3>1, <3>2 DEF Sleeps
  <2> QED BY <2>1, <2>2
<1>4. ASSUME NEW v \in Threads, NEW x \in Threads, w2[x] = v PROVE ~Queued(q, v)
  BY <1>1, <1>2, <1>4 DEF Registered
<1>5. ASSUME NEW v \in Threads, NEW x \in Threads, w2[v] = w2[x], w2[v] # None PROVE v = x
  BY <1>1, <1>2, <1>5 DEF Registered
<1>6. Distinct(q) BY DEF Registered
<1>7. Registered(q, w2, h2) BY <1>3, <1>4, <1>5, <1>6 DEF Registered
<1> QED BY <1>7 DEF w2

\* Whoever joins on t runs again.
LEMMA RegisteredJoined ==
    ASSUME NEW q, NEW w \in [Threads -> Threads \cup {None}], NEW h, NEW h2,
           NEW t \in Threads, Registered(q, w, h), Released(h, h2, {w[t]})
    PROVE  /\ Registered(q, [w EXCEPT ![t] = None], h2)
           /\ \A v \in {w[t]} \ {None} : v \in Threads /\ h[v] = "wait" /\ ~Queued(q, v)
<1> DEFINE w2 == [w EXCEPT ![t] = None]
<1>0. None \notin Threads BY SyncConstants
<1>1. w2[t] = None /\ \A v \in Threads \ {t} : w2[v] = w[v] OBVIOUS
<1>2. ASSUME NEW v \in {w[t]} \ {None} PROVE v \in Threads /\ h[v] = "wait" /\ ~Queued(q, v)
  <2>1. v \in Threads /\ w[t] = v OBVIOUS
  <2> QED BY <2>1 DEF Registered
<1> HIDE DEF w2
<1>3. ASSUME NEW v \in Threads
      PROVE  h2[v] = "wait" <=> (Queued(q, v) \/ \E x \in Threads : w2[x] = v)
  <2>1. h[v] = "wait" <=> (Queued(q, v) \/ \E x \in Threads : w[x] = v) BY DEF Registered
  <2>2. CASE v = w[t]
    <3>1. ~Queued(q, v) BY <2>2 DEF Registered
    <3>2. \A x \in Threads : w2[x] # v BY <1>0, <1>1, <2>2 DEF Registered
    <3> QED BY <2>2, <3>1, <3>2 DEF Released
  <2>3. CASE v # w[t]
    <3>1. (\E x \in Threads : w2[x] = v) <=> \E x \in Threads : w[x] = v
      BY <1>0, <1>1, <2>3
    <3> QED BY <2>1, <2>3, <3>1 DEF Released
  <2> QED BY <2>2, <2>3
<1>4. ASSUME NEW v \in Threads, NEW x \in Threads, w2[x] = v PROVE ~Queued(q, v)
  BY <1>0, <1>1, <1>4 DEF Registered
<1>5. ASSUME NEW v \in Threads, NEW x \in Threads, w2[v] = w2[x], w2[v] # None PROVE v = x
  BY <1>1, <1>5 DEF Registered
<1>6. Distinct(q) BY DEF Registered
<1>7. Registered(q, w2, h2) BY <1>3, <1>4, <1>5, <1>6 DEF Registered
<1> QED BY <1>2, <1>7 DEF w2

\* Nobody comes to wait or stops waiting.
LEMMA RegisteredSame ==
    ASSUME NEW q, NEW w, NEW h, NEW h2, Registered(q, w, h),
           \A t \in Threads : h2[t] = "wait" <=> h[t] = "wait"
    PROVE  Registered(q, w, h2)
BY DEF Registered

\* The mutexes are not concerned.
LEMMA OwnedTakes ==
    ASSUME NEW q, NEW q2, NEW o, NEW hd, NEW W, Owned(o, q, hd), Takes(q, q2, W)
    PROVE  Owned(o, q2, hd)
<1>1. ASSUME NEW m \in Mutexes, NEW t \in Threads
      PROVE  (In(q2, m, t) <=> In(q, m, t)) /\ (Wants(q2, t, m) <=> Wants(q, t, m))
  BY DEF Takes, Wants
<1>2. ASSUME NEW m \in Mutexes, NEW t \in Threads
      PROVE  IF Wants(q2, t, m) THEN m \in hd[t] ELSE m \in hd[t] <=> o[m] = t
  <2>1. IF Wants(q, t, m) THEN m \in hd[t] ELSE m \in hd[t] <=> o[m] = t BY DEF Owned
  <2> QED BY <1>1, <2>1
<1>3. ASSUME NEW m \in Mutexes, NEW t \in Threads, o[m] = None PROVE ~In(q2, m, t)
  BY <1>1, <1>3 DEF Owned
<1> QED BY <1>2, <1>3 DEF Owned

\* Threads that waited are marked as running.
LEMMA StatusResumed ==
    ASSUME NEW s \in [Threads -> Statuses], NEW h \in [Threads -> Hosts],
           NEW lg, NEW W \in SUBSET Threads, StatusOK(s, h, lg), \A t \in W : h[t] = "wait"
    PROVE  StatusOK(Marked(s, W, "running"), Marked(h, W, "run"), lg \ W)
BY DEF StatusOK, Marked

\* Marking keeps the types and what it does not mark.
LEMMA MarkedType ==
    ASSUME NEW S, NEW V, NEW f \in [S -> V], NEW W, NEW v \in V
    PROVE  /\ Marked(f, W, v) \in [S -> V]
           /\ \A x \in S : Marked(f, W, v)[x] = IF x \in W THEN v ELSE f[x]
BY DEF Marked

----------------------------------------------------------------------------
(* stallThread and resumeThread *)

(* The state after a call in which the joiners are w, the owners o and the *)
(* mutexes held hd: all of the invariant but the end of threads.           *)
After(w, o, hd) ==
    /\ status' \in [Threads -> Statuses]
    /\ host' \in [Threads -> Hosts]
    /\ queue' \in Queues
    /\ letGo' \subseteq Threads
    /\ Registered(queue', w, host')
    /\ Owned(o, queue', hd)
    /\ StatusOK(status', host', letGo')
    /\ \A u \in Threads : host'[u] = "none" <=> host[u] = "none"
    /\ \A u \in Threads : status'[u] = "idle" => status[u] = "idle"

(* The caller t is on its way to sleep, those in R were resumed, q are the *)
(* queues: a state in the middle of stallThread.                           *)
Stalling(t, q, R, w, o, hd) ==
    /\ q \in Queues
    /\ R \subseteq Threads /\ t \notin R /\ host[t] = "run"
    /\ \A u \in R : host[u] = "wait"
    /\ Registered(q, w, [Marked(host, R, "run") EXCEPT ![t] = "wait"])
    /\ Owned(o, q, hd)

\* The threads in W are woken and the caller waits, unless it is one of them.
LEMMA WakeStep ==
    ASSUME status \in [Threads -> Statuses], host \in [Threads -> Hosts], letGo \subseteq Threads,
           StatusOK(status, host, letGo),
           NEW t \in Threads, NEW q, NEW R, NEW w, NEW o, NEW hd, Stalling(t, q, R, w, o, hd),
           NEW W, Takes(q, queue', W),
           status' = Marked([Marked(status, R, "running") EXCEPT ![t] = "stalled"], W, "running"),
           host' = [Marked(host, R \cup W, "run") EXCEPT ![t] = WaitOrReturn(t, W)],
           letGo' = letGo \ (R \cup W \cup {t})
    PROVE  After(w, o, hd)
<1> DEFINE h1 == [Marked(host, R, "run") EXCEPT ![t] = "wait"]
<1>1. /\ R \subseteq Threads /\ t \notin R /\ host[t] = "run" /\ \A u \in R : host[u] = "wait"
      /\ Registered(q, w, h1) /\ Owned(o, q, hd)
  BY DEF Stalling
<1>2. Leaves(q, queue', W) /\ W \subseteq Threads BY DEF Takes, Leaves
<1>3. ASSUME NEW u \in Threads
      PROVE  /\ h1[u] = IF u = t THEN "wait" ELSE IF u \in R THEN "run" ELSE host[u]
             /\ host'[u] = IF u = t THEN IF t \in W THEN "run" ELSE "wait"
                           ELSE IF u \in R \cup W THEN "run" ELSE host[u]
             /\ status'[u] = IF u \in W THEN "running" ELSE IF u = t THEN "stalled"
                             ELSE IF u \in R THEN "running" ELSE status[u]
  <2>1. h1[u] = IF u = t THEN "wait" ELSE IF u \in R THEN "run" ELSE host[u]
    BY DEF Marked
  <2>2. host'[u] = IF u = t THEN IF t \in W THEN "run" ELSE "wait"
                   ELSE IF u \in R \cup W THEN "run" ELSE host[u]
    BY DEF Marked, WaitOrReturn
  <2>3. Marked(status, R, "running") = [x \in Threads |-> IF x \in R THEN "running" ELSE status[x]]
    BY DEF Marked
  <2> DEFINE st == [Marked(status, R, "running") EXCEPT ![t] = "stalled"]
  <2>4. DOMAIN st = Threads /\ st[u] = IF u = t THEN "stalled"
                                       ELSE IF u \in R THEN "running" ELSE status[u]
    BY <2>3
  <2> HIDE DEF st
  <2>5. status'[u] = IF u \in W THEN "running" ELSE st[u]
    <3>1. status' = Marked(st, W, "running") BY DEF st
    <3> QED BY <2>4, <3>1 DEF Marked
  <2> HIDE DEF h1
  <2>6. status'[u] = IF u \in W THEN "running" ELSE IF u = t THEN "stalled"
                     ELSE IF u \in R THEN "running" ELSE status[u]
    <3>1. CASE u \in W BY <2>5, <3>1
    <3>2. CASE u \notin W BY <2>4, <2>5, <3>2
    <3> QED BY <3>1, <3>2
  <2> QED BY <2>1, <2>2, <2>6
<1>4. DOMAIN host' = Threads /\ DOMAIN status' = Threads BY DEF Marked
<1> HIDE DEF h1
<1>5. Released(h1, host', W) BY <1>1, <1>3 DEF Released
<1>6. Registered(queue', w, host') /\ \A u \in W : h1[u] = "wait"
  BY <1>1, <1>2, <1>5, RegisteredLeaves
<1>7. \A u \in W : u = t \/ (u \notin R /\ host[u] = "wait") BY <1>2, <1>3, <1>6
<1>8. host' \in [Threads -> Hosts]
  <2>1. host' = [u \in Threads |-> host'[u]] BY DEF Marked
  <2>2. \A u \in Threads : host'[u] \in Hosts BY <1>3 DEF Hosts
  <2> QED BY <2>1, <2>2
<1>9. status' \in [Threads -> Statuses]
  <2>1. status' = [u \in Threads |-> status'[u]] BY DEF Marked
  <2>2. \A u \in Threads : status'[u] \in Statuses BY <1>3 DEF Statuses
  <2> QED BY <2>1, <2>2
<1>10. StatusOK(status', host', letGo')
  <2>1. SUFFICES ASSUME NEW u \in Threads
                 PROVE  /\ host'[u] = "wait" => status'[u] = "stalled" /\ u \notin letGo'
                        /\ host'[u] = "run" =>
                              status'[u] = (IF u \in letGo' THEN "stalled" ELSE "running")
                        /\ host'[u] = "none" =>
                              status'[u] \in {"none", "initializing", "idle"} /\ u \notin letGo'
    BY DEF StatusOK
  <2>2. CASE u = t
    <3>1. u \notin letGo' BY <2>2
    <3>2. CASE t \in W
      <4>1. host'[u] = "run" BY <1>3, <2>2, <3>2
      <4>2. status'[u] = "running" BY <1>3, <2>2, <3>2
      <4> QED BY <3>1, <4>1, <4>2
    <3>3. CASE t \notin W
      <4>1. host'[u] = "wait" BY <1>3, <2>2, <3>3
      <4>2. status'[u] = "stalled" BY <1>3, <2>2, <3>3
      <4> QED BY <3>1, <4>1, <4>2
    <3> QED BY <3>2, <3>3
  <2>3. CASE u # t /\ u \in R \cup W
    <3>1. u \notin letGo' BY <2>3
    <3>2. host'[u] = "run" /\ status'[u] = "running" BY <1>3, <2>3
    <3> QED BY <3>1, <3>2
  <2>4. CASE u # t /\ u \notin R \cup W BY <1>3, <2>4 DEF StatusOK
  <2> QED BY <2>2, <2>3, <2>4
<1>11. Owned(o, queue', hd) BY <1>1, OwnedTakes
<1>12. \A u \in Threads : host'[u] = "none" <=> host[u] = "none" BY <1>1, <1>3, <1>7
<1>13. \A u \in Threads : status'[u] = "idle" => status[u] = "idle" BY <1>3
<1> QED BY <1>2, <1>6, <1>8, <1>9, <1>10, <1>11, <1>12, <1>13 DEF After, Leaves

\* Nothing is taken.
LEMMA TakesNothing ==
    ASSUME NEW q \in Queues, Distinct(q)
    PROVE  Takes(q, q, {})
BY DEF Takes, Leaves

\* All ways through stallThread.
LEMMA StallStep ==
    ASSUME TypeOK, StatusOK(status, host, letGo),
           NEW t \in Threads, NEW q, NEW R, NEW w, NEW o, NEW hd, Stalling(t, q, R, w, o, hd),
           Stall(t, q, R)
    PROVE  After(w, o, hd)
<1> DEFINE st == [Marked(status, R, "running") EXCEPT ![t] = "stalled"]
           Wake(q2, W) == /\ queue' = q2
                          /\ status' = Marked(st, W, "running")
                          /\ host' = [Marked(host, R \cup W, "run") EXCEPT ![t] = WaitOrReturn(t, W)]
                          /\ letGo' = letGo \ (R \cup W \cup {t})
<1>1. status \in [Threads -> Statuses] /\ host \in [Threads -> Hosts] /\ letGo \subseteq Threads
  BY DEF TypeOK
<1>2. q \in Queues /\ Distinct(q) BY DEF Stalling, Registered
<1>3. ASSUME NEW q2, NEW W, Takes(q, q2, W), Wake(q2, W) PROVE After(w, o, hd)
  BY <1>1, <1>3, WakeStep
<1>4. ASSUME NEW S, Wake(AfterPeriodic(Passing(q, S)), TimedOut(Passing(q, S)))
      PROVE  After(w, o, hd)
  BY <1>2, <1>3, <1>4, TakesHook
<1>5. ASSUME /\ queue' = q /\ status' = st
             /\ host' = [Marked(host, R, "run") EXCEPT ![t] = "wait"]
             /\ letGo' = letGo \ {t}
             /\ ~\E u \in Threads : st[u] \in {"running", "initializing"}
      PROVE  After(w, o, hd)
  <2>1. R = {}
    <3>1. ASSUME NEW u \in R PROVE FALSE
      <4>1. u \in Threads /\ u # t BY DEF Stalling
      <4>2. st[u] = "running" BY <1>1, <4>1 DEF Marked
      <4> QED BY <1>5, <4>1, <4>2
    <3> QED BY <3>1
  <2>2. Marked(st, {}, "running") = st BY <1>1 DEF Marked
  <2>3. WaitOrReturn(t, {}) = "wait" BY DEF WaitOrReturn
  <2>4. R \cup {} = R /\ letGo \ (R \cup {} \cup {t}) = letGo \ {t} BY <2>1
  <2>5. Wake(q, {}) BY <1>5, <2>2, <2>3, <2>4
  <2> QED BY <1>2, <1>3, <2>5, TakesNothing
<1>6. CASE \E u \in Threads : st[u] \in {"running", "initializing"}
  <2>1. Wake(q, {}) \/ \E S : Wake(AfterPeriodic(Passing(q, S)), TimedOut(Passing(q, S)))
    BY <1>6 DEF Stall
  <2> QED BY <1>2, <1>3, <1>4, <2>1, TakesNothing
<1>7. CASE ~\E u \in Threads : st[u] \in {"running", "initializing"}
  <2>1. \/ \E S : Wake(AfterPeriodic(Passing(q, S)), TimedOut(Passing(q, S)))
        \/ /\ queue' = q /\ status' = st
           /\ host' = [Marked(host, R, "run") EXCEPT ![t] = "wait"]
           /\ letGo' = letGo \ {t}
    BY <1>7 DEF Stall
  <2> QED BY <1>4, <1>5, <1>7, <2>1
<1> QED BY <1>6, <1>7

(* resumeThread, by a thread that goes on, of threads that left the        *)
(* queues.                                                                 *)
LEMMA ResumeStep ==
    ASSUME TypeOK, StatusOK(status, host, letGo),
           NEW W, NEW w, NEW o, NEW hd,
           Registered(queue, w, host), Leaves(queue, queue', W), Resume(W),
           Owned(o, queue', hd)
    PROVE  After(w, o, hd)
<1>1. /\ status \in [Threads -> Statuses] /\ host \in [Threads -> Hosts] /\ letGo \subseteq Threads
      /\ W \subseteq Threads /\ queue' \in Queues
  BY DEF TypeOK, Leaves
<1>2. /\ status' = Marked(status, W, "running") /\ host' = Marked(host, W, "run")
      /\ letGo' = letGo \ W
  BY DEF Resume
<1>3. status' \in [Threads -> Statuses] /\ host' \in [Threads -> Hosts]
  <2>1. "running" \in Statuses /\ "run" \in Hosts BY DEF Statuses, Hosts
  <2>2. status' \in [Threads -> Statuses] BY <1>1, <1>2, <2>1, MarkedType
  <2>3. host' \in [Threads -> Hosts] BY <1>1, <1>2, <2>1 DEF Marked
  <2> QED BY <2>2, <2>3
<1>4. ASSUME NEW u \in Threads
      PROVE  /\ host'[u] = IF u \in W THEN "run" ELSE host[u]
             /\ status'[u] = IF u \in W THEN "running" ELSE status[u]
  BY <1>1, <1>2 DEF Marked
<1>5. Released(host, host', W) BY <1>4 DEF Released
<1>6. Registered(queue', w, host') /\ \A t \in W : host[t] = "wait"
  BY <1>5, RegisteredLeaves
<1>7. StatusOK(status', host', letGo') BY <1>1, <1>2, <1>6, StatusResumed
<1>8. \A u \in Threads : host'[u] = "none" <=> host[u] = "none" BY <1>1, <1>4, <1>6
<1>9. \A u \in Threads : status'[u] = "idle" => status[u] = "idle" BY <1>4
<1> QED BY <1>1, <1>2, <1>3, <1>6, <1>7, <1>8, <1>9 DEF After

----------------------------------------------------------------------------
(* The calls, one by one *)

\* A call that leaves the joiners alone keeps the invariant.
LEMMA AfterCall ==
    ASSUME Inv, waiter' = waiter,
           owner' \in [Mutexes -> Threads \cup {None}], holds' \in [Threads -> SUBSET Mutexes],
           \A t \in Threads : host[t] = "none" => holds'[t] = {},
           After(waiter, owner', holds')
    PROVE  Inv'
<1>1. TypeOK' BY DEF Inv, TypeOK, After
<1>2. \A t \in Threads : host'[t] = "none" => holds'[t] = {} BY DEF After
<1>3. JoinNotStranded' BY DEF Inv, JoinNotStranded, After
<1> QED BY <1>1, <1>2, <1>3 DEF Inv, After

\* Threads that waited for no mutex are taken from the queues and resumed.
LEMMA TakeAndResume ==
    ASSUME Inv, NEW W, Takes(queue, queue', W), Resume(W), UNCHANGED <<waiter, owner, holds>>
    PROVE  Inv'
<1>1. TypeOK /\ StatusOK(status, host, letGo) /\ Registered(queue, waiter, host) BY DEF Inv
<1>2. Leaves(queue, queue', W) BY DEF Takes
<1>3. Owned(owner, queue', holds) BY OwnedTakes DEF Inv
<1>4. After(waiter, owner, holds) BY <1>1, <1>2, <1>3, ResumeStep
<1> QED BY <1>4, AfterCall DEF Inv, TypeOK

LEMMA PeriodicInv ==
    ASSUME Inv, Periodic
    PROVE  Inv'
<1>1. PICK S : queue' = AfterPeriodic(Passing(queue, S)) /\ Resume(TimedOut(Passing(queue, S)))
  BY DEF Periodic
<1>2. queue \in Queues /\ Distinct(queue) BY DEF Inv, TypeOK, Registered
<1>3. Takes(queue, queue', TimedOut(Passing(queue, S))) BY <1>1, <1>2, TakesHook
<1>4. UNCHANGED <<waiter, owner, holds>> BY DEF Periodic
<1> QED BY <1>1, <1>3, <1>4, TakeAndResume

LEMMA FutexWakeInv ==
    ASSUME Inv, NEW t \in Threads, NEW f \in Futexes, NEW n \in Nat, FutexWake(t, f, n)
    PROVE  Inv'
<1>1. queue \in Queues /\ Distinct(queue) BY DEF Inv, TypeOK, Registered
<1>2. Takes(queue, queue', DequeuedThreads(queue, f, n)) BY <1>1, TakesDequeued DEF FutexWake
<1> QED BY <1>2, TakeAndResume DEF FutexWake

LEMMA FutexWakeOpInv ==
    ASSUME Inv, NEW t \in Threads, NEW f \in Futexes, NEW n \in Nat,
           NEW g \in Futexes, NEW k \in Nat, FutexWakeOp(t, f, n, g, k)
    PROVE  Inv'
<1> DEFINE q == Dequeued(queue, f, n)
           V == DequeuedThreads(queue, f, n)
           W == DequeuedThreads(q, g, k)
<1>1. queue \in Queues /\ Distinct(queue) BY DEF Inv, TypeOK, Registered
<1>2. Takes(queue, q, V) BY <1>1, TakesDequeued
<1>3. UNCHANGED <<waiter, owner, holds>> BY DEF FutexWakeOp
<1>4. \/ queue' = q /\ Resume(V)
      \/ queue' = Dequeued(q, g, k) /\ Resume(V \cup W)
  BY DEF FutexWakeOp
<1> HIDE DEF q, V
<1>5. q \in Queues /\ Distinct(q) BY <1>2 DEF Takes, Leaves
<1>6. Takes(q, Dequeued(q, g, k), W) BY <1>5, TakesDequeued
<1> HIDE DEF W
<1>7. Takes(queue, Dequeued(q, g, k), V \cup W) BY <1>2, <1>6, TakesTakes
<1> QED BY <1>2, <1>3, <1>4, <1>7, TakeAndResume

LEMMA FutexCmpRequeueInv ==
    ASSUME Inv, NEW t \in Threads, NEW f \in Futexes, NEW n \in Nat, NEW g \in Futexes,
           FutexCmpRequeue(t, f, n, g)
    PROVE  Inv'
<1> DEFINE q == Dequeued(queue, f, n)
           V == DequeuedThreads(queue, f, n)
           q2 == [q EXCEPT ![f] = <<>>, ![g] = @ \o q[f]]
<1>1. queue \in Queues /\ Distinct(queue) BY DEF Inv, TypeOK, Registered
<1>2. Takes(queue, q, V) BY <1>1, TakesDequeued
<1>3. f # g /\ Resume(V) /\ UNCHANGED <<waiter, owner, holds>> BY DEF FutexCmpRequeue
<1>4. queue' = q2
  <2>1. DOMAIN queue = Places /\ f \in Places /\ g \in Places
    BY <1>1, PlacesDiffer DEF Queues
  <2>2. queue' = [queue EXCEPT ![f] = <<>>, ![g] = @ \o q[f]] BY DEF FutexCmpRequeue
  <2>3. q = [queue EXCEPT ![f] = q[f]] BY <2>1 DEF Dequeued
  <2> HIDE DEF q
  <2> QED BY <1>3, <2>1, <2>2, <2>3
<1> HIDE DEF q, V
<1>5. q \in Queues /\ Distinct(q) BY <1>2 DEF Takes, Leaves
<1>6. Takes(q, q2, {}) BY <1>3, <1>5, TakesRequeue
<1> HIDE DEF q2
<1>7. Takes(queue, q2, V \cup {}) BY <1>2, <1>6, TakesTakes
<1>8. V \cup {} = V OBVIOUS
<1> QED BY <1>3, <1>4, <1>7, <1>8, TakeAndResume

\* A running thread has no entry anywhere and nobody's joiner is it.
LEMMA RunningNowhere ==
    ASSUME Inv, NEW t \in Threads, Running(t)
    PROVE  /\ host[t] = "run" /\ ~Queued(queue, t)
           /\ \A m \in Mutexes : ~Wants(queue, t, m) /\ (m \in holds[t] <=> owner[m] = t)
<1>1. host[t] = "run" BY DEF Running
<1>2. ~Queued(queue, t) BY <1>1 DEF Inv, Registered
<1>3. ASSUME NEW m \in Mutexes PROVE ~Wants(queue, t, m)
  <2>1. ~In(queue, m, t) BY <1>2, PlacesDiffer DEF Queued
  <2>2. \A c \in Conds : ~ReturnsAt(queue, c, t, m)
    BY <1>2, PlacesDiffer DEF Queued, In, ReturnsAt
  <2> QED BY <2>1, <2>2 DEF Wants, ReturnsTo
<1>4. ASSUME NEW m \in Mutexes PROVE m \in holds[t] <=> owner[m] = t
  BY <1>3 DEF Inv, Owned
<1> QED BY <1>1, <1>2, <1>3, <1>4

LEMMA WaiterType ==
    ASSUME NEW t \in Threads, NEW out \in Timeouts, NEW m \in Mutexes \cup {None}
    PROVE  /\ Waiter(t, out, m) \in Records
           /\ Waiter(t, out, m).thread = t /\ Waiter(t, out, m).mutex = m
BY DEF Waiter, Records

\* The caller, alone, is on its way to sleep in the queue of p.
LEMMA EntersQueue ==
    ASSUME NEW q \in Queues, Distinct(q), NEW t \in Threads, ~Queued(q, t),
           NEW p \in Places, NEW out \in Timeouts, NEW m \in Mutexes \cup {None},
           p \in Conds => m \in Mutexes
    PROVE  LET q2 == Enqueue(q, p, Waiter(t, out, m))
           IN  /\ Enters(q, q2, t)
               /\ \A r \in Places, u \in Threads : In(q2, r, u) <=> In(q, r, u) \/ (r = p /\ u = t)
               /\ \A u \in Threads, x \in Mutexes :
                     ReturnsTo(q2, u, x) <=> ReturnsTo(q, u, x) \/ (p \in Conds /\ u = t /\ x = m)
<1> DEFINE w == Waiter(t, out, m)
           q2 == Enqueue(q, p, w)
<1>1. w \in Records /\ w.thread = t /\ w.mutex = m BY WaiterType
<1> HIDE DEF w
<1>2. /\ q2 \in Queues /\ Distinct(q2)
      /\ \A r \in Places, u \in Threads : In(q2, r, u) <=> In(q, r, u) \/ (r = p /\ u = t)
      /\ \A c \in Conds, u \in Threads, x \in Mutexes :
            ReturnsAt(q2, c, u, x) <=> ReturnsAt(q, c, u, x) \/ (c = p /\ u = t /\ x = m)
  BY <1>1, EnqueuedQueues
<1> HIDE DEF q2
<1>3. ASSUME NEW u \in Threads PROVE Queued(q2, u) <=> Queued(q, u) \/ u = t
  BY <1>2 DEF Queued
<1>4. ASSUME NEW u \in Threads, NEW x \in Mutexes
      PROVE  ReturnsTo(q2, u, x) <=> ReturnsTo(q, u, x) \/ (p \in Conds /\ u = t /\ x = m)
  BY <1>2 DEF ReturnsTo
<1>5. Enters(q, q2, t) BY <1>2, <1>3 DEF Enters
<1>6. \A u \in Threads, x \in Mutexes :
         ReturnsTo(q2, u, x) <=> ReturnsTo(q, u, x) \/ (p \in Conds /\ u = t /\ x = m)
  BY <1>4
<1> QED BY <1>2, <1>5, <1>6 DEF q2, w

(* A caller that queued up in q2 after the threads in R left the queues    *)
(* is on its way to sleep.                                                 *)
LEMMA StallingQueued ==
    ASSUME Inv, NEW t \in Threads, host[t] = "run",
           NEW q, NEW q2, NEW R, NEW o, NEW hd,
           Leaves(queue, q, R), Enters(q, q2, t), Owned(o, q2, hd)
    PROVE  Stalling(t, q2, R, waiter, o, hd)
<1> DEFINE h == Marked(host, R, "run")
           h1 == [Marked(host, R, "run") EXCEPT ![t] = "wait"]
<1>1. host \in [Threads -> Hosts] /\ Registered(queue, waiter, host) /\ R \subseteq Threads
  BY DEF Inv, TypeOK, Leaves
<1>2. ASSUME NEW u \in Threads
      PROVE  /\ h[u] = IF u \in R THEN "run" ELSE host[u]
             /\ h1[u] = IF u = t THEN "wait" ELSE IF u \in R THEN "run" ELSE host[u]
  BY <1>1 DEF Marked
<1> HIDE DEF h, h1
<1>3. Released(host, h, R) BY <1>2 DEF Released
<1>4. Registered(q, waiter, h) /\ \A u \in R : host[u] = "wait"
  BY <1>1, <1>3, RegisteredLeaves
<1>5. t \notin R /\ h[t] # "wait" BY <1>2, <1>4
<1>6. Sleeps(h, h1, t) BY <1>2 DEF Sleeps
<1>7. Registered(q2, waiter, h1) BY <1>4, <1>5, <1>6, RegisteredEnters
<1> QED BY <1>1, <1>4, <1>5, <1>7 DEF Stalling, Enters, h1

\* A thread waits in a queue that is neither a mutex's nor a condition's.
LEMMA WaitInv ==
    ASSUME Inv, NEW t \in Threads, Running(t), NEW p \in Places \ (Mutexes \cup Conds),
           NEW out \in Timeouts, Stall(t, Enqueue(queue, p, Waiter(t, out, None)), {}),
           UNCHANGED <<waiter, owner, holds>>
    PROVE  Inv'
<1> DEFINE q2 == Enqueue(queue, p, Waiter(t, out, None))
<1>1. host[t] = "run" /\ ~Queued(queue, t) BY RunningNowhere
<1>2. queue \in Queues /\ Distinct(queue) BY DEF Inv, TypeOK, Registered
<1>3. /\ Enters(queue, q2, t)
      /\ \A r \in Places, u \in Threads : In(q2, r, u) <=> In(queue, r, u) \/ (r = p /\ u = t)
      /\ \A u \in Threads, x \in Mutexes :
            ReturnsTo(q2, u, x) <=> ReturnsTo(queue, u, x) \/ (p \in Conds /\ u = t /\ x = None)
  BY <1>1, <1>2, EntersQueue
<1> HIDE DEF q2
<1>4. Owned(owner, q2, holds)
  <2>1. ASSUME NEW m \in Mutexes, NEW u \in Threads
        PROVE  (In(q2, m, u) <=> In(queue, m, u)) /\ (Wants(q2, u, m) <=> Wants(queue, u, m))
    BY <1>3, PlacesDiffer DEF Wants
  <2>2. Owned(owner, queue, holds) BY DEF Inv
  <2>3. ASSUME NEW m \in Mutexes, NEW u \in Threads
        PROVE  /\ IF Wants(q2, u, m) THEN m \in holds[u] ELSE m \in holds[u] <=> owner[m] = u
               /\ owner[m] = None => ~In(q2, m, u)
    BY <2>1, <2>2 DEF Owned
  <2> QED BY <2>3 DEF Owned
<1>5. Leaves(queue, queue, {}) BY <1>2 DEF Leaves
<1>6. Stalling(t, q2, {}, waiter, owner, holds) BY <1>1, <1>3, <1>4, <1>5, StallingQueued
<1>7. Stall(t, q2, {}) BY DEF q2
<1>8. After(waiter, owner, holds) BY <1>6, <1>7, StallStep DEF Inv
<1> QED BY <1>8, AfterCall DEF Inv, TypeOK

LEMMA SleepInv ==
    ASSUME Inv, NEW t \in Threads, Sleep(t)
    PROVE  Inv'
<1>1. Sleeping \in Places \ (Mutexes \cup Conds) /\ "ahead" \in Timeouts
  BY PlacesDiffer DEF Timeouts
<1> QED BY <1>1, WaitInv DEF Sleep

LEMMA FutexWaitInv ==
    ASSUME Inv, NEW t \in Threads, NEW f \in Futexes, NEW out \in {"never", "ahead"},
           FutexWait(t, f, out)
    PROVE  Inv'
<1>1. f \in Places \ (Mutexes \cup Conds) /\ out \in Timeouts BY PlacesDiffer DEF Timeouts
<1> QED BY <1>1, WaitInv DEF FutexWait

LEMMA BarrierWaitInv ==
    ASSUME Inv, NEW t \in Threads, BarrierWait(t)
    PROVE  Inv'
<1>1. CASE LastToCome
  <2>1. queue \in Queues /\ Distinct(queue) BY DEF Inv, TypeOK, Registered
  <2>2. Takes(queue, queue', InQueue(queue[AtBarrier]))
    BY <1>1, <2>1, TakesBarrier DEF BarrierWait
  <2> QED BY <1>1, <2>2, TakeAndResume DEF BarrierWait
<1>2. CASE ~LastToCome
  <2>1. AtBarrier \in Places \ (Mutexes \cup Conds) /\ "never" \in Timeouts
    BY PlacesDiffer DEF Timeouts
  <2> QED BY <1>2, <2>1, WaitInv DEF BarrierWait
<1> QED BY <1>1, <1>2

LEMMA MutexLockInv ==
    ASSUME Inv, NEW t \in Threads, NEW m \in Mutexes, MutexLock(t, m)
    PROVE  Inv'
<1>1. Running(t) /\ waiter' = waiter /\ holds' = [holds EXCEPT ![t] = @ \cup {m}]
  BY DEF MutexLock
<1>2. host[t] = "run" /\ ~Queued(queue, t) BY <1>1, RunningNowhere
<1>3. \A x \in Mutexes : ~Wants(queue, t, x) /\ (x \in holds[t] <=> owner[x] = t)
  BY <1>1, RunningNowhere
<1>4. queue \in Queues /\ Distinct(queue) /\ Owned(owner, queue, holds)
  BY DEF Inv, TypeOK, Registered
<1>5. /\ holds \in [Threads -> SUBSET Mutexes] /\ owner \in [Mutexes -> Threads \cup {None}]
      /\ None \notin Threads
  BY SyncConstants DEF Inv, TypeOK
<1>6. holds' \in [Threads -> SUBSET Mutexes] BY <1>1, <1>5
<1>7. ASSUME NEW u \in Threads, NEW x \in Mutexes
      PROVE  x \in holds'[u] <=> x \in holds[u] \/ (u = t /\ x = m)
  BY <1>1, <1>5
<1>8. ASSUME NEW u \in Threads, host[u] = "none" PROVE holds'[u] = {}
  <2>1. u # t /\ holds[u] = {} BY <1>2, <1>8 DEF Inv
  <2> QED BY <1>1, <1>5, <2>1
<1>9. CASE owner[m] = None
  <2>1. owner' = [owner EXCEPT ![m] = t] /\ UNCHANGED <<status, host, queue, letGo>>
    BY <1>9 DEF MutexLock
  <2>2. owner' \in [Mutexes -> Threads \cup {None}] BY <1>5, <2>1
  <2>3. owner'[m] = t /\ \A x \in Mutexes \ {m} : owner'[x] = owner[x] BY <1>5, <2>1
  <2>4. ASSUME NEW x \in Mutexes, NEW u \in Threads
        PROVE  /\ IF Wants(queue, u, x) THEN x \in holds'[u]
                                        ELSE x \in holds'[u] <=> owner'[x] = u
               /\ owner'[x] = None => ~In(queue, x, u)
    <3>1. /\ IF Wants(queue, u, x) THEN x \in holds[u] ELSE x \in holds[u] <=> owner[x] = u
          /\ owner[x] = None => ~In(queue, x, u)
      BY <1>4 DEF Owned
    <3>2. CASE x = m BY <1>3, <1>5, <1>7, <1>9, <2>3, <3>1, <3>2
    <3>3. CASE x # m BY <1>7, <2>3, <3>1, <3>3
    <3> QED BY <3>2, <3>3
  <2>5. Owned(owner', queue, holds') BY <2>4 DEF Owned
  <2>6. TypeOK' BY <1>1, <1>6, <2>1, <2>2 DEF Inv, TypeOK
  <2>7. Registered(queue', waiter', host') /\ StatusOK(status', host', letGo')
    BY <1>1, <2>1 DEF Inv
  <2>8. JoinNotStranded' BY <1>1, <2>1 DEF Inv, JoinNotStranded
  <2>9. \A u \in Threads : host'[u] = "none" => holds'[u] = {} BY <1>8, <2>1
  <2> QED BY <2>1, <2>5, <2>6, <2>7, <2>8, <2>9 DEF Inv
<1>10. CASE owner[m] # None
  <2> DEFINE q2 == Enqueue(queue, m, Waiter(t, "never", None))
  <2>1. owner' = owner /\ Stall(t, q2, {}) BY <1>10 DEF MutexLock
  <2>2. "never" \in Timeouts /\ m \in Places /\ m \notin Conds BY PlacesDiffer DEF Timeouts
  <2>3. /\ Enters(queue, q2, t)
        /\ \A r \in Places, u \in Threads : In(q2, r, u) <=> In(queue, r, u) \/ (r = m /\ u = t)
        /\ \A u \in Threads, x \in Mutexes :
              ReturnsTo(q2, u, x) <=> ReturnsTo(queue, u, x) \/ (m \in Conds /\ u = t /\ x = None)
    BY <1>2, <1>4, <2>2, EntersQueue
  <2> HIDE DEF q2
  <2>4. Owned(owner, q2, holds')
    <3>1. ASSUME NEW x \in Mutexes, NEW u \in Threads
          PROVE  /\ In(q2, x, u) <=> In(queue, x, u) \/ (x = m /\ u = t)
                 /\ Wants(q2, u, x) <=> Wants(queue, u, x) \/ (x = m /\ u = t)
      BY <2>2, <2>3, PlacesDiffer DEF Wants
    <3>2. ASSUME NEW x \in Mutexes, NEW u \in Threads
          PROVE  /\ IF Wants(q2, u, x) THEN x \in holds'[u]
                                       ELSE x \in holds'[u] <=> owner[x] = u
                 /\ owner[x] = None => ~In(q2, x, u)
      <4>1. /\ IF Wants(queue, u, x) THEN x \in holds[u] ELSE x \in holds[u] <=> owner[x] = u
            /\ owner[x] = None => ~In(queue, x, u)
        BY <1>4 DEF Owned
      <4>2. CASE x = m /\ u = t BY <1>7, <1>10, <3>1, <4>2
      <4>3. CASE ~(x = m /\ u = t) BY <1>7, <3>1, <4>1, <4>3
      <4> QED BY <4>2, <4>3
    <3> QED BY <3>2 DEF Owned
  <2>5. Leaves(queue, queue, {}) BY <1>4 DEF Leaves
  <2>6. Stalling(t, q2, {}, waiter, owner, holds') BY <1>2, <2>3, <2>4, <2>5, StallingQueued
  <2>7. After(waiter, owner, holds') BY <2>1, <2>6, StallStep DEF Inv
  <2> QED BY <1>1, <1>5, <1>6, <1>8, <2>1, <2>7, AfterCall
<1> QED BY <1>9, <1>10

(* Whoever is popped off a mutex's or a condition's queue wanted one       *)
(* mutex, and wants none any more.                                         *)
LEMMA PoppedWants ==
    ASSUME NEW q \in Queues, Distinct(q), NEW p \in Mutexes \cup Conds, q[p] # <<>>
    PROVE  LET q2 == [q EXCEPT ![p] = Tail(@)]
               x == Head(q[p]).thread
               m == IF p \in Mutexes THEN p ELSE Head(q[p]).mutex
           IN  /\ m \in Mutexes
               /\ \A y \in Mutexes : Wants(q, x, y) <=> y = m
               /\ \A u \in Threads, y \in Mutexes : Wants(q2, u, y) <=> Wants(q, u, y) /\ u # x
<1> DEFINE q2 == [q EXCEPT ![p] = Tail(@)]
           x == Head(q[p]).thread
           m == IF p \in Mutexes THEN p ELSE Head(q[p]).mutex
<1>0. p \in Places BY PlacesDiffer
<1>1. /\ In(q, p, x) /\ x \in Threads
      /\ p \in Conds => Head(q[p]).mutex \in Mutexes /\ ReturnsAt(q, p, x, Head(q[p]).mutex)
      /\ \A r \in Places, t \in Threads : In(q2, r, t) <=> In(q, r, t) /\ t # x
      /\ \A c \in Conds, t \in Threads, y \in Mutexes :
            ReturnsAt(q2, c, t, y) <=> ReturnsAt(q, c, t, y) /\ t # x
  BY <1>0, PoppedQueues
<1>2. p \in Conds => m \in Mutexes /\ ReturnsAt(q, p, x, m) BY <1>1, PlacesDiffer
<1>3. p \in Mutexes => m = p OBVIOUS
<1> HIDE DEF q2, x, m
<1>4. m \in Mutexes BY <1>2, <1>3
<1>5. ASSUME NEW r \in Places, In(q, r, x) PROVE r = p BY <1>0, <1>1, <1>5 DEF In, Distinct
<1>6. ASSUME NEW c \in Conds, NEW y \in Mutexes, ReturnsAt(q, c, x, y) PROVE c = p /\ y = m
  <2>1. In(q, c, x) BY <1>6 DEF ReturnsAt, In
  <2>2. c = p BY <1>5, <2>1, PlacesDiffer
  <2>3. ReturnsAt(q, p, x, m) /\ ReturnsAt(q, p, x, y) BY <1>2, <1>6, <2>2
  <2>4. y = m BY <1>0, <2>3 DEF ReturnsAt, Distinct
  <2> QED BY <2>2, <2>4
<1>7. ASSUME NEW y \in Mutexes PROVE Wants(q, x, y) <=> y = m
  <2>1. ASSUME Wants(q, x, y) PROVE y = m
    <3>1. CASE In(q, y, x) BY <1>3, <1>5, <3>1, PlacesDiffer
    <3>2. CASE ReturnsTo(q, x, y) BY <1>6, <3>2 DEF ReturnsTo
    <3> QED BY <2>1, <3>1, <3>2 DEF Wants
  <2>2. Wants(q, x, m)
    <3>1. CASE p \in Mutexes BY <1>1, <1>3, <3>1 DEF Wants
    <3>2. CASE p \in Conds BY <1>2, <3>2 DEF Wants, ReturnsTo
    <3> QED BY <3>1, <3>2
  <2> QED BY <2>1, <2>2
<1>8. ASSUME NEW u \in Threads, NEW y \in Mutexes
      PROVE  Wants(q2, u, y) <=> Wants(q, u, y) /\ u # x
  <2>1. In(q2, y, u) <=> In(q, y, u) /\ u # x BY <1>1, PlacesDiffer
  <2>2. ReturnsTo(q2, u, y) <=> ReturnsTo(q, u, y) /\ u # x BY <1>1 DEF ReturnsTo
  <2> QED BY <2>1, <2>2 DEF Wants
<1> QED BY <1>4, <1>7, <1>8 DEF q2, x, m

(* SimMutex::unlock by the owner: the queue shrinks by the next owner, and *)
(* everybody owns what is his, the caller the mutex no more.               *)
LEMMA UnlockedQueues ==
    ASSUME Inv, NEW t \in Threads, NEW m \in Mutexes, Running(t), m \in holds[t]
    PROVE  LET u == Unlocked(m)
           IN  /\ u.owner \in [Mutexes -> Threads \cup {None}]
               /\ Leaves(queue, u.queue, u.woken)
               /\ Owned(u.owner, u.queue, [holds EXCEPT ![t] = @ \ {m}])
<1> DEFINE hd == [holds EXCEPT ![t] = @ \ {m}]
           o == [owner EXCEPT ![m] = NextOwner(m)]
<1>1. ~Queued(queue, t) /\ \A y \in Mutexes : ~Wants(queue, t, y) BY RunningNowhere
<1>2. owner[m] = t BY RunningNowhere
<1>3. /\ queue \in Queues /\ Distinct(queue) /\ Owned(owner, queue, holds)
      /\ owner \in [Mutexes -> Threads \cup {None}] /\ holds \in [Threads -> SUBSET Mutexes]
      /\ None \notin Threads /\ m \in Places
  BY SyncConstants, PlacesDiffer DEF Inv, TypeOK, Registered
<1>4. ASSUME NEW u \in Threads, NEW y \in Mutexes
      PROVE  y \in hd[u] <=> y \in holds[u] /\ ~(u = t /\ y = m)
  BY <1>3
<1>5. o[m] = NextOwner(m) /\ \A y \in Mutexes \ {m} : o[y] = owner[y] BY <1>3
<1>6. ASSUME NEW u \in Threads, NEW y \in Mutexes
      PROVE  /\ IF Wants(queue, u, y) THEN y \in holds[u] ELSE y \in holds[u] <=> owner[y] = u
             /\ owner[y] = None => ~In(queue, y, u)
  BY <1>3 DEF Owned
<1> DEFINE q2 == IF queue[m] = <<>> THEN queue ELSE [queue EXCEPT ![m] = Tail(@)]
           W == {NextOwner(m)} \ {None}
<1>7. Unlocked(m).owner = o /\ Unlocked(m).queue = q2 /\ Unlocked(m).woken = W BY DEF Unlocked
<1>8. CASE queue[m] = <<>>
  <2>1. NextOwner(m) = None /\ q2 = queue /\ W = {} BY <1>8 DEF NextOwner
  <2>2. ASSUME NEW u \in Threads PROVE ~In(queue, m, u)
    <3>1. DOMAIN queue[m] = {} BY <1>8
    <3> QED BY <3>1 DEF In
  <2>3. o \in [Mutexes -> Threads \cup {None}] BY <1>3, <2>1
  <2>4. Leaves(queue, queue, {}) BY <1>3 DEF Leaves
  <2> HIDE DEF o, hd
  <2>5. ASSUME NEW u \in Threads, NEW y \in Mutexes
        PROVE  /\ IF Wants(queue, u, y) THEN y \in hd[u] ELSE y \in hd[u] <=> o[y] = u
               /\ o[y] = None => ~In(queue, y, u)
    <3>1. CASE y = m BY <1>1, <1>2, <1>3, <1>4, <1>5, <1>6, <2>1, <2>2, <3>1
    <3>2. CASE y # m BY <1>4, <1>5, <1>6, <3>2
    <3> QED BY <3>1, <3>2
  <2>6. Owned(o, queue, hd) BY <2>5 DEF Owned
  <2> QED BY <1>7, <2>1, <2>3, <2>4, <2>6 DEF hd
<1>9. CASE queue[m] # <<>>
  <2> DEFINE x == Head(queue[m]).thread
             q3 == [queue EXCEPT ![m] = Tail(@)]
  <2>1. Leaves(queue, q3, {x}) /\ x \in Threads /\ In(queue, m, x)
    BY <1>3, <1>9, PoppedQueues
  <2>2. \A r \in Places, u \in Threads : In(q3, r, u) <=> In(queue, r, u) /\ u # x
    BY <1>3, <1>9, PoppedQueues
  <2>3. /\ \A y \in Mutexes : Wants(queue, x, y) <=> y = m
        /\ \A u \in Threads, y \in Mutexes : Wants(q3, u, y) <=> Wants(queue, u, y) /\ u # x
    BY <1>3, <1>9, PoppedWants
  <2>4. NextOwner(m) = x /\ q2 = q3 BY <1>9 DEF NextOwner
  <2>5. W = {x} BY <1>3, <2>1, <2>4
  <2>6. o \in [Mutexes -> Threads \cup {None}] BY <1>3, <2>1, <2>4
  <2> HIDE DEF o, hd, x, q3, q2, W
  <2>7. x # t BY <1>1, <2>3
  <2>8. ASSUME NEW u \in Threads, NEW y \in Mutexes
        PROVE  /\ IF Wants(q3, u, y) THEN y \in hd[u] ELSE y \in hd[u] <=> o[y] = u
               /\ o[y] = None => ~In(q3, y, u)
    <3>0. (In(q3, y, u) <=> In(queue, y, u) /\ u # x) /\ (Wants(q3, u, y) <=> Wants(queue, u, y) /\ u # x)
      BY <2>2, <2>3, PlacesDiffer
    <3>1. CASE y = m /\ u = x
      <4>1. ~Wants(q3, u, y) /\ y \in holds[u] BY <1>6, <2>3, <3>0, <3>1
      <4> QED BY <1>4, <1>5, <2>4, <2>7, <3>0, <3>1, <4>1
    <3>2. CASE y = m /\ u # x
      <4>1. o[y] # u /\ o[y] # None BY <1>3, <1>5, <2>1, <2>4, <3>2
      <4>2. CASE Wants(queue, u, y) BY <1>1, <1>4, <1>6, <3>0, <3>2, <4>1, <4>2
      <4>3. CASE ~Wants(queue, u, y) BY <1>2, <1>4, <1>6, <3>0, <3>2, <4>1, <4>3
      <4> QED BY <4>2, <4>3
    <3>3. CASE y # m /\ u = x
      <4>1. ~Wants(queue, u, y) BY <2>3, <3>3
      <4> QED BY <1>4, <1>5, <1>6, <3>0, <3>3, <4>1
    <3>4. CASE y # m /\ u # x BY <1>4, <1>5, <1>6, <3>0, <3>4
    <3> QED BY <3>1, <3>2, <3>3, <3>4
  <2>9. Owned(o, q3, hd) BY <2>8 DEF Owned
  <2> QED BY <1>7, <2>1, <2>4, <2>5, <2>6, <2>9 DEF hd
<1> QED BY <1>8, <1>9

LEMMA MutexUnlockInv ==
    ASSUME Inv, NEW t \in Threads, NEW m \in Mutexes, MutexUnlock(t, m)
    PROVE  Inv'
<1>1. /\ Running(t) /\ m \in holds[t] /\ waiter' = waiter
      /\ owner' = Unlocked(m).owner /\ queue' = Unlocked(m).queue /\ Resume(Unlocked(m).woken)
      /\ holds' = [holds EXCEPT ![t] = @ \ {m}]
  BY DEF MutexUnlock
<1> DEFINE W == Unlocked(m).woken
<1>2. /\ owner' \in [Mutexes -> Threads \cup {None}]
      /\ Leaves(queue, queue', W) /\ Owned(owner', queue', holds')
  BY <1>1, UnlockedQueues
<1>3. Resume(W) BY <1>1
<1> HIDE DEF W
<1>4. TypeOK /\ StatusOK(status, host, letGo) /\ Registered(queue, waiter, host) BY DEF Inv
<1>5. After(waiter, owner', holds') BY <1>2, <1>3, <1>4, ResumeStep
<1>6. holds' \in [Threads -> SUBSET Mutexes] BY <1>1, <1>4 DEF TypeOK
<1>7. ASSUME NEW u \in Threads, host[u] = "none" PROVE holds'[u] = {}
  <2>1. holds[u] = {} BY <1>7 DEF Inv
  <2> QED BY <1>1, <1>4, <2>1 DEF TypeOK
<1> QED BY <1>1, <1>2, <1>5, <1>6, <1>7, AfterCall

LEMMA CondWaitInv ==
    ASSUME Inv, NEW t \in Threads, NEW c \in Conds, NEW m \in Mutexes, CondWait(t, c, m)
    PROVE  Inv'
<1> DEFINE o == Unlocked(m).owner
           q == Unlocked(m).queue
           R == Unlocked(m).woken
           q2 == Enqueue(q, c, Waiter(t, "never", m))
           hd == [holds EXCEPT ![t] = @ \ {m}]
<1>1. /\ Running(t) /\ m \in holds[t] /\ owner' = o /\ Stall(t, q2, R)
      /\ UNCHANGED <<waiter, holds>>
  BY DEF CondWait
<1>2. /\ o \in [Mutexes -> Threads \cup {None}] /\ Leaves(queue, q, R) /\ Owned(o, q, hd)
  BY <1>1, UnlockedQueues
<1> HIDE DEF o, q, R
<1>3. host[t] = "run" /\ ~Queued(queue, t) BY <1>1, RunningNowhere
<1>4. q \in Queues /\ Distinct(q) /\ ~Queued(q, t) BY <1>2, <1>3 DEF Leaves
<1>5. c \in Places /\ c \notin Mutexes /\ "never" \in Timeouts BY PlacesDiffer DEF Timeouts
<1>6. /\ Enters(q, q2, t)
      /\ \A r \in Places, u \in Threads : In(q2, r, u) <=> In(q, r, u) \/ (r = c /\ u = t)
      /\ \A u \in Threads, x \in Mutexes :
            ReturnsTo(q2, u, x) <=> ReturnsTo(q, u, x) \/ (c \in Conds /\ u = t /\ x = m)
  BY <1>4, <1>5, EntersQueue
<1>7. holds \in [Threads -> SUBSET Mutexes] BY DEF Inv, TypeOK
<1>8. ASSUME NEW u \in Threads, NEW y \in Mutexes
      PROVE  y \in hd[u] <=> y \in holds[u] /\ ~(u = t /\ y = m)
  BY <1>7
<1> HIDE DEF q2, hd
<1>9. ASSUME NEW u \in Threads, NEW y \in Mutexes
      PROVE  /\ In(q2, y, u) <=> In(q, y, u)
             /\ Wants(q2, u, y) <=> Wants(q, u, y) \/ (u = t /\ y = m)
  BY <1>5, <1>6, PlacesDiffer DEF Wants
<1>10. ASSUME NEW u \in Threads, NEW y \in Mutexes
       PROVE  /\ IF Wants(q2, u, y) THEN y \in holds[u] ELSE y \in holds[u] <=> o[y] = u
              /\ o[y] = None => ~In(q2, y, u)
  <2>1. /\ IF Wants(q, u, y) THEN y \in hd[u] ELSE y \in hd[u] <=> o[y] = u
        /\ o[y] = None => ~In(q, y, u)
    BY <1>2 DEF Owned
  <2>2. CASE u = t /\ y = m BY <1>1, <1>9, <2>1, <2>2
  <2>3. CASE ~(u = t /\ y = m) BY <1>8, <1>9, <2>1, <2>3
  <2> QED BY <2>2, <2>3
<1>11. Owned(o, q2, holds) BY <1>10 DEF Owned
<1>12. Stalling(t, q2, R, waiter, o, holds) BY <1>2, <1>3, <1>6, <1>11, StallingQueued
<1>13. After(waiter, o, holds) BY <1>1, <1>12, StallStep DEF Inv
<1> QED BY <1>1, <1>2, <1>13, AfterCall DEF Inv, TypeOK

----------------------------------------------------------------------------
(* Signal and broadcast *)

LEMMA LeavesLeaves ==
    ASSUME NEW q, NEW q1, NEW q2, NEW V, NEW W, Leaves(q, q1, V), Leaves(q1, q2, W)
    PROVE  Leaves(q, q2, V \cup W)
<1>1. q2 \in Queues /\ Distinct(q2) /\ V \cup W \subseteq Threads BY DEF Leaves
<1>2. ASSUME NEW t \in V \cup W PROVE Queued(q, t) BY DEF Leaves
<1>3. ASSUME NEW t \in Threads PROVE Queued(q2, t) <=> Queued(q, t) /\ t \notin V \cup W
  <2>1. Queued(q1, t) <=> Queued(q, t) /\ t \notin V BY DEF Leaves
  <2>2. Queued(q2, t) <=> Queued(q1, t) /\ t \notin W BY DEF Leaves
  <2> QED BY <2>1, <2>2
<1> QED BY <1>1, <1>2, <1>3 DEF Leaves

(* The state between two turns of SimCond::broadcast's loop: those woken   *)
(* have left the queues, and ownership is in order.                        *)
WakeStates == [owner : [Mutexes -> Threads \cup {None}], queue : Queues, woken : SUBSET Threads]

Waking(s) == /\ s \in WakeStates
             /\ Leaves(queue, s.queue, s.woken)
             /\ Owned(s.owner, s.queue, holds)

\* What one turn leaves behind.
LEMMA WakeFirstFields ==
    ASSUME NEW s \in WakeStates, NEW c \in Conds
    PROVE  LET w == Head(s.queue[c])
               q == [s.queue EXCEPT ![c] = Tail(@)]
               s2 == WakeFirst(s, c)
           IN  /\ s.owner[w.mutex] = None =>
                     s2 = [owner |-> [s.owner EXCEPT ![w.mutex] = w.thread], queue |-> q,
                           woken |-> s.woken \cup {w.thread}]
               /\ s.owner[w.mutex] # None =>
                     s2 = [owner |-> s.owner, woken |-> s.woken,
                           queue |-> Enqueue(q, w.mutex, Waiter(w.thread, "never", None))]
<1> DEFINE w == Head(s.queue[c])
           q == [s.queue EXCEPT ![c] = Tail(@)]
           s1 == [s EXCEPT !.queue[c] = Tail(@)]
<1>1. s = [owner |-> s.owner, queue |-> s.queue, woken |-> s.woken] BY DEF WakeStates
<1>2. s1 = [owner |-> s.owner, queue |-> q, woken |-> s.woken]
  <2>1. ASSUME NEW r, NEW a, NEW b, NEW d, r = [owner |-> a, queue |-> b, woken |-> d], NEW y
        PROVE  [r EXCEPT !.queue[c] = y] = [owner |-> a, queue |-> [b EXCEPT ![c] = y], woken |-> d]
    BY <2>1
  <2> DEFINE y == Tail(s.queue[c])
  <2>2. s1 = [s EXCEPT !.queue[c] = y] OBVIOUS
  <2>3. q = [s.queue EXCEPT ![c] = y] OBVIOUS
  <2> HIDE DEF y, s1, q
  <2> QED BY <1>1, <2>1, <2>2, <2>3
<1>3. WakeFirst(s, c) = LockAsync(s1, w) BY DEF WakeFirst
<1> HIDE DEF w, q, s1
<1>4. ASSUME s.owner[w.mutex] = None
      PROVE  LockAsync(s1, w) = [owner |-> [s.owner EXCEPT ![w.mutex] = w.thread], queue |-> q,
                                 woken |-> s.woken \cup {w.thread}]
  <2>1. s1.owner = s.owner /\ s1.woken = s.woken BY <1>2
  <2>2. LockAsync(s1, w) = [s1 EXCEPT !.owner[w.mutex] = w.thread, !.woken = @ \cup {w.thread}]
    BY <1>4, <2>1 DEF LockAsync
  <2> QED BY <1>2, <2>2
<1>5. ASSUME s.owner[w.mutex] # None
      PROVE  LockAsync(s1, w) = [owner |-> s.owner, woken |-> s.woken,
                                 queue |-> Enqueue(q, w.mutex, Waiter(w.thread, "never", None))]
  <2>1. s1.owner = s.owner /\ s1.queue = q BY <1>2
  <2>2. LockAsync(s1, w) =
           [s1 EXCEPT !.queue = Enqueue(@, w.mutex, Waiter(w.thread, "never", None))]
    BY <1>5, <2>1 DEF LockAsync
  <2> QED BY <1>2, <2>2
<1> QED BY <1>3, <1>4, <1>5 DEF w, q

\* One turn: the first waiter runs with its mutex, or waits for it.
LEMMA WakeTurn ==
    ASSUME NEW s, Waking(s), NEW c \in Conds, s.queue[c] # <<>>
    PROVE  /\ Waking(WakeFirst(s, c))
           /\ Len(WakeFirst(s, c).queue[c]) = Len(s.queue[c]) - 1
<1> DEFINE q == s.queue
           o == s.owner
           x == Head(q[c]).thread
           m == Head(q[c]).mutex
           q1 == [q EXCEPT ![c] = Tail(@)]
           q2 == Enqueue(q1, m, Waiter(x, "never", None))
           s2 == WakeFirst(s, c)
<1>1. /\ q \in Queues /\ o \in [Mutexes -> Threads \cup {None}] /\ s.woken \subseteq Threads
      /\ Leaves(queue, q, s.woken) /\ Owned(o, q, holds) /\ None \notin Threads
  BY SyncConstants DEF Waking, WakeStates
<1>2. Distinct(q) /\ c \in Places /\ c \in Mutexes \cup Conds /\ c \notin Mutexes
  BY <1>1, PlacesDiffer DEF Leaves
<1>3. /\ o[m] = None => s2 = [owner |-> [o EXCEPT ![m] = x], queue |-> q1,
                              woken |-> s.woken \cup {x}]
      /\ o[m] # None => s2 = [owner |-> o, woken |-> s.woken, queue |-> q2]
  BY WakeFirstFields DEF Waking
<1>4. /\ Leaves(q, q1, {x}) /\ x \in Threads /\ In(q, c, x)
      /\ \A r \in Places, u \in Threads : In(q1, r, u) <=> In(q, r, u) /\ u # x
  BY <1>1, <1>2, PoppedQueues
<1>5. /\ m \in Mutexes
      /\ \A y \in Mutexes : Wants(q, x, y) <=> y = m
      /\ \A u \in Threads, y \in Mutexes : Wants(q1, u, y) <=> Wants(q, u, y) /\ u # x
  BY <1>1, <1>2, PoppedWants
<1>6. Len(q1[c]) = Len(q[c]) - 1 /\ c \in DOMAIN q
  <2>1. c \in DOMAIN q /\ q[c] \in Seq(Records) BY <1>1, <1>2, QueueType DEF Queues
  <2>2. q1[c] = Tail(q[c]) BY <2>1
  <2>3. Len(Tail(q[c])) = Len(q[c]) - 1 BY <2>1, HeadTailProperties
  <2> QED BY <2>1, <2>2, <2>3
<1>7. ASSUME NEW u \in Threads, NEW y \in Mutexes
      PROVE  /\ IF Wants(q, u, y) THEN y \in holds[u] ELSE y \in holds[u] <=> o[y] = u
             /\ o[y] = None => ~In(q, y, u)
  BY <1>1 DEF Owned
<1>8. DOMAIN q1 = Places /\ q1 \in Queues /\ Distinct(q1) /\ ~Queued(q1, x)
  BY <1>4 DEF Leaves, Queues
<1>9. "never" \in Timeouts /\ m \in Places /\ m \notin Conds
  BY <1>5, PlacesDiffer DEF Timeouts
<1>10. /\ Enters(q1, q2, x)
       /\ \A r \in Places, u \in Threads : In(q2, r, u) <=> In(q1, r, u) \/ (r = m /\ u = x)
       /\ \A u \in Threads, y \in Mutexes :
             ReturnsTo(q2, u, y) <=> ReturnsTo(q1, u, y) \/ (m \in Conds /\ u = x /\ y = None)
  <2> HIDE DEF q1, x, m
  <2> QED BY <1>4, <1>8, <1>9, EntersQueue
<1>11. q2[c] = q1[c]
  <2>1. c # m BY <1>2, <1>5
  <2> HIDE DEF q1, x, m
  <2> QED BY <1>2, <1>8, <2>1 DEF Enqueue
<1> DEFINE o2 == [o EXCEPT ![m] = x]
<1>12. o2 \in [Mutexes -> Threads \cup {None}] /\ o2[m] = x /\ \A y \in Mutexes \ {m} : o2[y] = o[y]
  <2> HIDE DEF x, m, o
  <2> QED BY <1>1, <1>4, <1>5
<1> HIDE DEF o, x, m, q1, q2, o2, s2
<1>13. CASE o[m] = None
  <2>1. s2 = [owner |-> o2, queue |-> q1, woken |-> s.woken \cup {x}] BY <1>3, <1>13 DEF o2
  <2>2. Leaves(queue, q1, s.woken \cup {x}) BY <1>1, <1>4, LeavesLeaves DEF q
  <2>3. ASSUME NEW u \in Threads, NEW y \in Mutexes
        PROVE  /\ IF Wants(q1, u, y) THEN y \in holds[u] ELSE y \in holds[u] <=> o2[y] = u
               /\ o2[y] = None => ~In(q1, y, u)
    <3>0. /\ In(q1, y, u) <=> In(q, y, u) /\ u # x
          /\ Wants(q1, u, y) <=> Wants(q, u, y) /\ u # x
      BY <1>4, <1>5, PlacesDiffer
    <3>1. CASE y = m /\ u = x BY <1>1, <1>4, <1>5, <1>7, <1>12, <3>0, <3>1
    <3>2. CASE y = m /\ u # x
      <4>1. o2[y] # u /\ o2[y] # None /\ o[y] # u BY <1>1, <1>4, <1>12, <1>13, <3>2
      <4> QED BY <1>7, <3>0, <3>2, <4>1
    <3>3. CASE y # m /\ u = x
      <4>1. ~Wants(q, u, y) BY <1>5, <3>3
      <4> QED BY <1>7, <1>12, <3>0, <3>3, <4>1
    <3>4. CASE y # m /\ u # x BY <1>7, <1>12, <3>0, <3>4
    <3> QED BY <3>1, <3>2, <3>3, <3>4
  <2>4. Owned(o2, q1, holds) BY <2>3 DEF Owned
  <2>5. s2 \in WakeStates BY <1>1, <1>4, <1>8, <1>12, <2>1 DEF WakeStates
  <2>6. s2.owner = o2 /\ s2.queue = q1 /\ s2.woken = s.woken \cup {x} BY <2>1
  <2>7. Waking(s2) BY <2>2, <2>4, <2>5, <2>6 DEF Waking
  <2> QED BY <1>6, <2>6, <2>7 DEF s2, q
<1>14. CASE o[m] # None
  <2>1. s2 = [owner |-> o, woken |-> s.woken, queue |-> q2] BY <1>3, <1>14
  <2>2. Leaves(queue, q2, s.woken)
    <3>1. q2 \in Queues /\ Distinct(q2) BY <1>10 DEF Enters
    <3>2. ASSUME NEW u \in Threads PROVE Queued(q2, u) <=> Queued(q, u)
      BY <1>4, <1>10 DEF Enters, Leaves
    <3> QED BY <1>1, <3>1, <3>2 DEF Leaves
  <2>3. ASSUME NEW u \in Threads, NEW y \in Mutexes
        PROVE  /\ IF Wants(q2, u, y) THEN y \in holds[u] ELSE y \in holds[u] <=> o[y] = u
               /\ o[y] = None => ~In(q2, y, u)
    <3>0. /\ In(q2, y, u) <=> (In(q, y, u) /\ u # x) \/ (y = m /\ u = x)
          /\ ReturnsTo(q2, u, y) <=> ReturnsTo(q1, u, y)
      BY <1>4, <1>9, <1>10, PlacesDiffer
    <3>1. Wants(q2, u, y) <=> Wants(q1, u, y) \/ (y = m /\ u = x)
      BY <1>9, <1>10, PlacesDiffer DEF Wants
    <3>2. Wants(q2, u, y) <=> Wants(q, u, y) BY <1>5, <3>1
    <3>3. CASE y = m /\ u = x BY <1>7, <1>14, <3>2, <3>3
    <3>4. CASE ~(y = m /\ u = x) BY <1>7, <3>0, <3>2, <3>4
    <3> QED BY <3>3, <3>4
  <2>4. Owned(o, q2, holds) BY <2>3 DEF Owned
  <2>5. s2 \in WakeStates BY <1>1, <2>1, <2>2 DEF WakeStates, Leaves
  <2>6. s2.owner = o /\ s2.queue = q2 /\ s2.woken = s.woken BY <2>1
  <2>7. Waking(s2) BY <2>2, <2>4, <2>5, <2>6 DEF Waking
  <2> QED BY <1>6, <1>11, <2>6, <2>7 DEF s2, q
<1> QED BY <1>13, <1>14

\* The recursive definition of the turns has a solution.
LEMMA TurnsExist ==
    \A c, a : \A n \in Nat :
       \E g : g = [i \in 0..n |-> IF i = 0 THEN a ELSE WakeFirst(g[i - 1], c)]
<1> SUFFICES ASSUME NEW c, NEW a
             PROVE  \A n \in Nat : \E g : g = [i \in 0..n |-> IF i = 0 THEN a
                                                             ELSE WakeFirst(g[i - 1], c)]
  OBVIOUS
<1> DEFINE S == {n \in Nat : \E g : g = [i \in 0..n |-> IF i = 0 THEN a ELSE WakeFirst(g[i - 1], c)]}
<1>1. 0 \in S
  <2> DEFINE g == [i \in 0..0 |-> a]
  <2>1. g = [i \in 0..0 |-> IF i = 0 THEN a ELSE WakeFirst(g[i - 1], c)] OBVIOUS
  <2> QED BY <2>1
<1>2. ASSUME NEW n \in Nat, n \in S PROVE n + 1 \in S
  <2>1. PICK g : g = [i \in 0..n |-> IF i = 0 THEN a ELSE WakeFirst(g[i - 1], c)] BY <1>2
  <2> DEFINE h == [i \in 0..(n + 1) |-> IF i = n + 1 THEN WakeFirst(g[n], c) ELSE g[i]]
  <2>2. ASSUME NEW i \in 0..(n + 1) PROVE h[i] = IF i = 0 THEN a ELSE WakeFirst(h[i - 1], c)
    <3>1. CASE i = n + 1
      <4>1. i # 0 /\ i - 1 = n /\ n \in 0..(n + 1) /\ n # n + 1 BY <3>1
      <4>2. h[n] = g[n] BY <4>1
      <4>3. h[i] = WakeFirst(g[n], c) BY <3>1
      <4> QED BY <4>1, <4>2, <4>3
    <3>2. CASE i # n + 1
      <4>1. i \in 0..n BY <3>2
      <4>2. h[i] = g[i] BY <3>2
      <4>3. g[i] = IF i = 0 THEN a ELSE WakeFirst(g[i - 1], c) BY <2>1, <4>1
      <4>4. i # 0 => i - 1 \in 0..(n + 1) /\ i - 1 # n + 1 BY <4>1
      <4>5. i # 0 => h[i - 1] = g[i - 1] BY <4>4
      <4> QED BY <4>2, <4>3, <4>5
    <3> QED BY <3>1, <3>2
  <2>3. h = [i \in 0..(n + 1) |-> h[i]] OBVIOUS
  <2> HIDE DEF h
  <2>4. h = [i \in 0..(n + 1) |-> IF i = 0 THEN a ELSE WakeFirst(h[i - 1], c)] BY <2>2, <2>3
  <2> QED BY <2>4
<1> HIDE DEF S
<1>3. \A n \in Nat : n \in S BY <1>1, <1>2, NatSetInduction
<1> QED BY <1>3 DEF S

\* As many turns as there are waiters leave ownership in order.
LEMMA WokenWaking ==
    ASSUME Inv, NEW c \in Conds, NEW n \in Nat, n <= Len(queue[c])
    PROVE  Waking(Woken(c, n))
<1> DEFINE a == [owner |-> owner, queue |-> queue, woken |-> {}]
           s[i \in 0..n] == IF i = 0 THEN a ELSE WakeFirst(s[i - 1], c)
           S == {i \in Nat : i <= n => Waking(s[i]) /\ Len(s[i].queue[c]) = Len(queue[c]) - i}
<1>1. Woken(c, n) = s[n] BY DEF Woken
<1>2. s = [i \in 0..n |-> IF i = 0 THEN a ELSE WakeFirst(s[i - 1], c)]
  <2> HIDE DEF a
  <2>1. \A k \in Nat : \E g : g = [i \in 0..k |-> IF i = 0 THEN a ELSE WakeFirst(g[i - 1], c)]
    <3> HIDE DEF s, S
    <3>1. \A b : \A k \in Nat :
             \E g : g = [i \in 0..k |-> IF i = 0 THEN b ELSE WakeFirst(g[i - 1], c)]
      BY TurnsExist, Zenon
    <3> QED BY <3>1, Zenon
  <2>2. \E g : g = [i \in 0..n |-> IF i = 0 THEN a ELSE WakeFirst(g[i - 1], c)] BY <2>1
  <2> QED BY <2>2
<1>3. ASSUME NEW i \in 0..n PROVE s[i] = IF i = 0 THEN a ELSE WakeFirst(s[i - 1], c)
  <2> HIDE DEF a, s, S
  <2> QED BY <1>2
<1>4. queue \in Queues /\ Distinct(queue) /\ TypeOK /\ Owned(owner, queue, holds)
  BY DEF Inv, TypeOK, Registered
<1>5. queue[c] \in Seq(Records) /\ Len(queue[c]) \in Nat
  BY <1>4, QueueType, PlacesDiffer, LenProperties
<1>6. Waking(a)
  <2>1. a.owner = owner /\ a.queue = queue /\ a.woken = {} OBVIOUS
  <2>2. a \in WakeStates BY <1>4 DEF WakeStates, TypeOK
  <2>3. Leaves(queue, queue, {}) BY <1>4 DEF Leaves
  <2> QED BY <1>4, <2>1, <2>2, <2>3 DEF Waking
<1>7. 0 \in S
  <2>1. 0 \in 0..n OBVIOUS
  <2>2. s[0] = a BY <1>3, <2>1
  <2>3. a.queue = queue /\ Len(queue[c]) = Len(queue[c]) - 0 BY <1>5
  <2> HIDE DEF a, s
  <2> QED BY <1>6, <2>2, <2>3
<1>8. ASSUME NEW i \in Nat, i \in S PROVE i + 1 \in S
  <2>1. SUFFICES ASSUME i + 1 <= n
                 PROVE  Waking(s[i + 1]) /\ Len(s[i + 1].queue[c]) = Len(queue[c]) - (i + 1)
    OBVIOUS
  <2> HIDE DEF a, s
  <2>2. Waking(s[i]) /\ Len(s[i].queue[c]) = Len(queue[c]) - i BY <1>8, <2>1
  <2>3. i + 1 \in 0..n /\ i + 1 # 0 /\ i + 1 - 1 = i BY <2>1
  <2>4. s[i + 1] = WakeFirst(s[i], c) BY <1>3, <2>3
  <2>5. Len(s[i].queue[c]) # 0 BY <1>5, <2>1, <2>2
  <2>6. s[i].queue[c] # <<>> BY <2>5
  <2>7. Waking(WakeFirst(s[i], c)) /\ Len(WakeFirst(s[i], c).queue[c]) = Len(s[i].queue[c]) - 1
    BY <2>2, <2>6, WakeTurn
  <2>8. Len(queue[c]) - i - 1 = Len(queue[c]) - (i + 1) BY <1>5
  <2> QED BY <2>2, <2>4, <2>7, <2>8
<1> HIDE DEF s, a
<1>9. n \in S
  <2> HIDE DEF S
  <2> QED BY <1>7, <1>8, NatSetInduction
<1> QED BY <1>1, <1>9

\* n of those that wait on a condition are woken.
LEMMA WakeWaitersInv ==
    ASSUME Inv, NEW t, NEW c \in Conds, NEW n \in Nat, n <= Len(queue[c]), WakeWaiters(t, c, n)
    PROVE  Inv'
<1> DEFINE s == Woken(c, n)
<1>1. /\ owner' = s.owner /\ queue' = s.queue /\ Resume(s.woken)
      /\ waiter' = waiter /\ holds' = holds
  BY DEF WakeWaiters
<1>2. Waking(s) BY WokenWaking
<1> HIDE DEF s
<1>3. /\ owner' \in [Mutexes -> Threads \cup {None}]
      /\ Leaves(queue, queue', s.woken) /\ Owned(owner', queue', holds')
  BY <1>1, <1>2 DEF Waking, WakeStates
<1>4. TypeOK /\ StatusOK(status, host, letGo) /\ Registered(queue, waiter, host) BY DEF Inv
<1>5. After(waiter, owner', holds') BY <1>1, <1>3, <1>4, ResumeStep
<1> QED BY <1>1, <1>3, <1>5, AfterCall DEF Inv, TypeOK

LEMMA CondSignalInv ==
    ASSUME Inv, NEW t \in Threads, NEW c \in Conds, CondSignal(t, c)
    PROVE  Inv'
<1>1. queue[c] \in Seq(Records) BY QueueType, PlacesDiffer DEF Inv, TypeOK
<1>2. 1 <= Len(queue[c])
  <2>1. Len(queue[c]) \in Nat /\ Len(queue[c]) # 0
    BY <1>1, LenProperties, EmptySeq DEF CondSignal
  <2> QED BY <2>1
<1> QED BY <1>2, WakeWaitersInv DEF CondSignal

LEMMA CondBroadcastInv ==
    ASSUME Inv, NEW t \in Threads, NEW c \in Conds, CondBroadcast(t, c)
    PROVE  Inv'
<1>1. queue[c] \in Seq(Records) BY QueueType, PlacesDiffer DEF Inv, TypeOK
<1>2. Len(queue[c]) \in Nat /\ Len(queue[c]) <= Len(queue[c]) BY <1>1, LenProperties
<1> QED BY <1>2, WakeWaitersInv DEF CondBroadcast

----------------------------------------------------------------------------
(* The life of a thread *)

LEMMA CreateInv ==
    ASSUME Inv, NEW t \in Threads, NEW u \in Threads, Create(t, u)
    PROVE  Inv'
<1>1. /\ status[u] = "none" /\ status' = [status EXCEPT ![u] = "initializing"]
      /\ UNCHANGED <<host, waiter, owner, queue, holds, letGo>>
  BY DEF Create
<1>2. status \in [Threads -> Statuses] /\ host \in [Threads -> Hosts] BY DEF Inv, TypeOK
<1>3. host[u] = "none" /\ u \notin letGo BY <1>1, <1>2 DEF Inv, StatusOK, Hosts
<1>4. \A v \in Threads : status'[v] = IF v = u THEN "initializing" ELSE status[v] BY <1>1, <1>2
<1>5. TypeOK' BY <1>1 DEF Inv, TypeOK, Statuses
<1>6. StatusOK(status', host', letGo')
  <2>1. ASSUME NEW v \in Threads
        PROVE  /\ host[v] = "wait" => status'[v] = "stalled" /\ v \notin letGo
               /\ host[v] = "run" => status'[v] = (IF v \in letGo THEN "stalled" ELSE "running")
               /\ host[v] = "none" => status'[v] \in {"none", "initializing", "idle"} /\ v \notin letGo
    <3>1. CASE v = u BY <1>3, <1>4, <3>1
    <3>2. CASE v # u BY <1>4, <3>2 DEF Inv, StatusOK
    <3> QED BY <3>1, <3>2
  <2> QED BY <1>1, <2>1 DEF StatusOK
<1>7. JoinNotStranded' BY <1>1, <1>4 DEF Inv, JoinNotStranded
<1> QED BY <1>1, <1>5, <1>6, <1>7 DEF Inv

LEMMA StartInv ==
    ASSUME Inv, NEW t \in Threads, Start(t)
    PROVE  Inv'
<1> DEFINE W == {waiter[t]} \ {None}
<1>1. /\ status[t] = "initializing" /\ status' = [status EXCEPT ![t] = "running"]
      /\ host' = [Marked(host, W, "run") EXCEPT ![t] = "run"]
      /\ waiter' = [waiter EXCEPT ![t] = None] /\ letGo' = letGo \cup W
      /\ UNCHANGED <<owner, queue, holds>>
  BY DEF Start
<1>2. /\ status \in [Threads -> Statuses] /\ host \in [Threads -> Hosts]
      /\ waiter \in [Threads -> Threads \cup {None}] /\ letGo \subseteq Threads
      /\ None \notin Threads /\ Registered(queue, waiter, host) /\ StatusOK(status, host, letGo)
  BY SyncConstants DEF Inv, TypeOK
<1>3. host[t] = "none" /\ t \notin letGo BY <1>1, <1>2 DEF StatusOK, Hosts
<1>4. ASSUME NEW u \in Threads
      PROVE  /\ status'[u] = IF u = t THEN "running" ELSE status[u]
             /\ host'[u] = IF u = t \/ u = waiter[t] THEN "run" ELSE host[u]
  <2>1. status'[u] = IF u = t THEN "running" ELSE status[u] BY <1>1, <1>2
  <2>2. host'[u] = IF u = t \/ u = waiter[t] THEN "run" ELSE host[u] BY <1>1, <1>2 DEF Marked
  <2> QED BY <2>1, <2>2
<1>5. DOMAIN host' = Threads BY <1>1, <1>2 DEF Marked
<1>6. Released(host, host', {waiter[t]}) BY <1>3, <1>4 DEF Released
<1>7. /\ Registered(queue, waiter', host')
      /\ \A v \in W : v \in Threads /\ host[v] = "wait"
  <2>1. Registered(queue, [waiter EXCEPT ![t] = None], host') BY <1>2, <1>6, RegisteredJoined
  <2>2. \A v \in {waiter[t]} \ {None} : v \in Threads /\ host[v] = "wait" /\ ~Queued(queue, v)
    BY <1>2, <1>6, RegisteredJoined
  <2> QED BY <1>1, <2>1, <2>2
<1>8. t \notin W BY <1>3, <1>7
<1>9. TypeOK'
  <2>1. status' \in [Threads -> Statuses] BY <1>1, <1>2 DEF Statuses
  <2>2. host' \in [Threads -> Hosts]
    <3>1. host' = [u \in Threads |-> host'[u]] BY <1>1, <1>2 DEF Marked
    <3>2. \A u \in Threads : host'[u] \in Hosts BY <1>2, <1>4 DEF Hosts
    <3> QED BY <3>1, <3>2
  <2>3. waiter' \in [Threads -> Threads \cup {None}] BY <1>1, <1>2
  <2>4. letGo' \subseteq Threads BY <1>1, <1>2, <1>7
  <2> QED BY <1>1, <2>1, <2>2, <2>3, <2>4 DEF Inv, TypeOK
<1>10. StatusOK(status', host', letGo')
  <2>1. ASSUME NEW u \in Threads
        PROVE  /\ host'[u] = "wait" => status'[u] = "stalled" /\ u \notin letGo'
               /\ host'[u] = "run" => status'[u] = (IF u \in letGo' THEN "stalled" ELSE "running")
               /\ host'[u] = "none" => status'[u] \in {"none", "initializing", "idle"} /\ u \notin letGo'
    <3>1. CASE u = t
      <4>1. u \notin letGo' /\ host'[u] = "run" /\ status'[u] = "running"
        BY <1>1, <1>3, <1>4, <1>8, <3>1
      <4> QED BY <4>1
    <3>2. CASE u # t /\ u \in W
      <4>1. status[u] = "stalled" BY <1>2, <1>7, <3>2 DEF StatusOK
      <4>2. u \in letGo' /\ host'[u] = "run" /\ status'[u] = "stalled" BY <1>1, <1>4, <3>2, <4>1
      <4> QED BY <4>2
    <3>3. CASE u # t /\ u \notin W
      <4>1. u # waiter[t] BY <1>2, <3>3
      <4>2. host'[u] = host[u] /\ status'[u] = status[u] /\ (u \in letGo' <=> u \in letGo)
        BY <1>1, <1>4, <3>3, <4>1
      <4> QED BY <1>2, <4>2 DEF StatusOK
    <3> QED BY <3>1, <3>2, <3>3
  <2> QED BY <2>1 DEF StatusOK
<1>11. JoinNotStranded' BY <1>1, <1>2, <1>4 DEF Inv, JoinNotStranded
<1>12. \A u \in Threads : host'[u] = "none" => holds'[u] = {} BY <1>1, <1>4 DEF Inv
<1> QED BY <1>1, <1>7, <1>9, <1>10, <1>11, <1>12 DEF Inv

LEMMA JoinInv ==
    ASSUME Inv, NEW t \in Threads, NEW u \in Threads, Join(t, u)
    PROVE  Inv'
<1>1. /\ Running(t) /\ status[u] # "idle" /\ waiter[u] = None
      /\ waiter' = [waiter EXCEPT ![u] = t] /\ Stall(t, queue, {})
      /\ UNCHANGED <<owner, holds>>
  BY DEF Join
<1>2. /\ host \in [Threads -> Hosts] /\ waiter \in [Threads -> Threads \cup {None}]
      /\ queue \in Queues /\ Registered(queue, waiter, host) /\ Owned(owner, queue, holds)
  BY DEF Inv, TypeOK
<1>3. host[t] = "run" BY <1>1, RunningNowhere
<1> DEFINE h == [Marked(host, {}, "run") EXCEPT ![t] = "wait"]
<1>4. \A v \in Threads : h[v] = IF v = t THEN "wait" ELSE host[v] BY <1>2 DEF Marked
<1> HIDE DEF h
<1>5. Sleeps(host, h, t) BY <1>4 DEF Sleeps
<1>6. Registered(queue, waiter', h) BY <1>1, <1>2, <1>3, <1>5, RegisteredJoins
<1>7. Stalling(t, queue, {}, waiter', owner, holds) BY <1>2, <1>3, <1>6 DEF Stalling, h
<1>8. After(waiter', owner, holds)
  <2>1. TypeOK /\ StatusOK(status, host, letGo) BY DEF Inv
  <2> QED BY <1>1, <1>7, <2>1, StallStep
<1>9. waiter' \in [Threads -> Threads \cup {None}] BY <1>1, <1>2
<1>10. TypeOK' BY <1>1, <1>8, <1>9 DEF Inv, TypeOK, After
<1>11. JoinNotStranded'
  <2>1. ASSUME NEW v \in Threads, status'[v] = "idle" PROVE waiter'[v] = None
    <3>1. status[v] = "idle" BY <1>8, <2>1 DEF After
    <3>2. waiter[v] = None /\ v # u BY <1>1, <3>1 DEF Inv, JoinNotStranded
    <3> QED BY <1>1, <1>2, <3>2
  <2> QED BY <2>1 DEF JoinNotStranded
<1>12. \A v \in Threads : host'[v] = "none" => holds'[v] = {} BY <1>1, <1>8 DEF Inv, After
<1> QED BY <1>1, <1>8, <1>10, <1>11, <1>12 DEF Inv, After

LEMMA ExitInv ==
    ASSUME Inv, NEW t \in Threads, Exit(t)
    PROVE  Inv'
<1>1. /\ Running(t) /\ holds[t] = {} /\ status[t] = "running"
      /\ waiter' = [waiter EXCEPT ![t] = None] /\ UNCHANGED <<owner, holds>>
  BY DEF Exit
<1>2. /\ status \in [Threads -> Statuses] /\ host \in [Threads -> Hosts]
      /\ waiter \in [Threads -> Threads \cup {None}] /\ letGo \subseteq Threads
      /\ queue \in Queues /\ Distinct(queue) /\ None \notin Threads
      /\ Registered(queue, waiter, host) /\ StatusOK(status, host, letGo)
      /\ Owned(owner, queue, holds)
  BY SyncConstants DEF Inv, TypeOK, Registered
<1>3. host[t] = "run" /\ t \notin letGo BY <1>1, <1>2, RunningNowhere DEF StatusOK
<1>4. PICK V : LET W == ({waiter[t]} \ {None}) \cup V
               IN  /\ Takes(queue, queue', V)
                   /\ status' = [Marked(status, W, "running") EXCEPT ![t] = "idle"]
                   /\ host' = [Marked(host, W, "run") EXCEPT ![t] = "none"]
                   /\ letGo' = letGo \ W
  <2>1. PICK f \in Futexes \cup {None} :
           LET W == ({waiter[t]} \ {None})
                    \cup (IF f = None THEN {} ELSE DequeuedThreads(queue, f, 1))
           IN  /\ queue' = IF f = None THEN queue ELSE Dequeued(queue, f, 1)
               /\ status' = [Marked(status, W, "running") EXCEPT ![t] = "idle"]
               /\ host' = [Marked(host, W, "run") EXCEPT ![t] = "none"]
               /\ letGo' = letGo \ W
    BY DEF Exit
  <2>2. CASE f = None
    <3>1. Takes(queue, queue', {}) BY <1>2, <2>1, <2>2, TakesNothing
    <3> QED BY <2>1, <2>2, <3>1
  <2>3. CASE f # None
    <3>1. Takes(queue, queue', DequeuedThreads(queue, f, 1)) BY <1>2, <2>1, <2>3, TakesDequeued
    <3> QED BY <2>1, <2>3, <3>1
  <2> QED BY <2>2, <2>3
<1> DEFINE W == ({waiter[t]} \ {None}) \cup V
           h == Marked(host, V, "run")
<1>5. /\ status' = [Marked(status, W, "running") EXCEPT ![t] = "idle"]
      /\ host' = [Marked(host, W, "run") EXCEPT ![t] = "none"]
      /\ letGo' = letGo \ W
      /\ Leaves(queue, queue', V) /\ V \subseteq Threads
  BY <1>4 DEF Takes, Leaves
<1>6. ASSUME NEW u \in Threads
      PROVE  /\ h[u] = IF u \in V THEN "run" ELSE host[u]
             /\ host'[u] = IF u = t THEN "none" ELSE IF u \in W THEN "run" ELSE host[u]
             /\ status'[u] = IF u = t THEN "idle" ELSE IF u \in W THEN "running" ELSE status[u]
  <2> HIDE DEF W
  <2>1. h[u] = IF u \in V THEN "run" ELSE host[u] BY <1>2 DEF Marked
  <2>2. host'[u] = IF u = t THEN "none" ELSE IF u \in W THEN "run" ELSE host[u]
    BY <1>2, <1>5 DEF Marked
  <2>3. status'[u] = IF u = t THEN "idle" ELSE IF u \in W THEN "running" ELSE status[u]
    BY <1>2, <1>5 DEF Marked
  <2> QED BY <2>1, <2>2, <2>3
<1>7. \A u \in Threads : u \in W <=> u = waiter[t] \/ u \in V BY <1>2
<1> HIDE DEF h
<1>8. Released(host, h, V) BY <1>6 DEF Released
<1>9. Registered(queue', waiter, h) /\ \A u \in V : host[u] = "wait"
  BY <1>2, <1>5, <1>8, RegisteredLeaves
<1>10. Released(h, host', {waiter[t]})
  <2>1. t \notin V BY <1>3, <1>9
  <2> HIDE DEF W
  <2> QED BY <1>3, <1>6, <1>7, <2>1 DEF Released
<1>11. /\ Registered(queue', waiter', host')
       /\ \A v \in {waiter[t]} \ {None} : v \in Threads /\ h[v] = "wait"
  <2>1. Registered(queue', [waiter EXCEPT ![t] = None], host')
    BY <1>2, <1>9, <1>10, RegisteredJoined
  <2>2. \A v \in {waiter[t]} \ {None} : v \in Threads /\ h[v] = "wait" /\ ~Queued(queue', v)
    BY <1>2, <1>9, <1>10, RegisteredJoined
  <2> QED BY <1>1, <2>1, <2>2
<1>12. W \subseteq Threads /\ \A u \in W : host[u] = "wait" BY <1>5, <1>6, <1>9, <1>11
<1> HIDE DEF W
<1>13. t \notin W BY <1>3, <1>12
<1>14. TypeOK'
  <2>1. status' \in [Threads -> Statuses]
    <3>1. status' = [u \in Threads |-> status'[u]] BY <1>2, <1>5 DEF Marked
    <3>2. \A u \in Threads : status'[u] \in Statuses BY <1>2, <1>6 DEF Statuses
    <3> QED BY <3>1, <3>2
  <2>2. host' \in [Threads -> Hosts]
    <3>1. host' = [u \in Threads |-> host'[u]] BY <1>2, <1>5 DEF Marked
    <3>2. \A u \in Threads : host'[u] \in Hosts BY <1>2, <1>6 DEF Hosts
    <3> QED BY <3>1, <3>2
  <2>3. waiter' \in [Threads -> Threads \cup {None}] BY <1>1, <1>2
  <2>4. queue' \in Queues /\ letGo' \subseteq Threads BY <1>2, <1>5 DEF Leaves
  <2> QED BY <1>1, <2>1, <2>2, <2>3, <2>4 DEF Inv, TypeOK
<1>15. StatusOK(status', host', letGo')
  <2>1. ASSUME NEW u \in Threads
        PROVE  /\ host'[u] = "wait" => status'[u] = "stalled" /\ u \notin letGo'
               /\ host'[u] = "run" => status'[u] = (IF u \in letGo' THEN "stalled" ELSE "running")
               /\ host'[u] = "none" => status'[u] \in {"none", "initializing", "idle"} /\ u \notin letGo'
    <3>1. CASE u = t
      <4>1. u \notin letGo' /\ host'[u] = "none" /\ status'[u] = "idle" BY <1>3, <1>5, <1>6, <3>1
      <4> QED BY <4>1
    <3>2. CASE u # t /\ u \in W
      <4>1. u \notin letGo' /\ host'[u] = "run" /\ status'[u] = "running" BY <1>5, <1>6, <3>2
      <4> QED BY <4>1
    <3>3. CASE u # t /\ u \notin W
      <4>1. host'[u] = host[u] /\ status'[u] = status[u] /\ (u \in letGo' <=> u \in letGo)
        BY <1>5, <1>6, <3>3
      <4> QED BY <1>2, <4>1 DEF StatusOK
    <3> QED BY <3>1, <3>2, <3>3
  <2> QED BY <2>1 DEF StatusOK
<1>16. Owned(owner', queue', holds') BY <1>1, <1>2, <1>4, OwnedTakes
<1>17. JoinNotStranded' BY <1>1, <1>2, <1>6 DEF Inv, JoinNotStranded
<1>18. \A u \in Threads : host'[u] = "none" => holds'[u] = {} BY <1>1, <1>6 DEF Inv
<1> QED BY <1>11, <1>14, <1>15, <1>16, <1>17, <1>18 DEF Inv

----------------------------------------------------------------------------
(* The specification *)

\* Before the main thread has started nothing is registered anywhere.
LEMMA InitInv == Init => Inv
<1>1. SUFFICES ASSUME Init PROVE Inv OBVIOUS
<1>2. None \notin Threads /\ Main \in Threads BY SyncConstants
<1>3. queue = [p \in Places |-> <<>>] /\ \A p \in Places : DOMAIN queue[p] = {} BY <1>1 DEF Init
<1>4. queue \in Queues /\ Distinct(queue) BY <1>3, PlacesDiffer DEF Queues, Distinct
<1>5. ASSUME NEW p \in Places, NEW t PROVE ~In(queue, p, t) BY <1>3 DEF In
<1>6. ASSUME NEW t PROVE ~Queued(queue, t) BY <1>5 DEF Queued
<1>7. ASSUME NEW m \in Mutexes, NEW t PROVE ~Wants(queue, t, m)
  <2>1. ~In(queue, m, t) BY <1>5, PlacesDiffer
  <2>2. \A c \in Conds : ~ReturnsAt(queue, c, t, m) BY <1>3, PlacesDiffer DEF ReturnsAt
  <2> QED BY <2>1, <2>2 DEF Wants, ReturnsTo
<1>8. TypeOK BY <1>1, <1>4 DEF Init, TypeOK, Statuses, Hosts
<1>9. Registered(queue, waiter, host) BY <1>1, <1>2, <1>4, <1>6 DEF Registered, Init
<1>10. Owned(owner, queue, holds)
  <2>1. ASSUME NEW m \in Mutexes, NEW t \in Threads
        PROVE  /\ IF Wants(queue, t, m) THEN m \in holds[t] ELSE m \in holds[t] <=> owner[m] = t
               /\ ~In(queue, m, t)
    BY <1>1, <1>2, <1>5, <1>7, PlacesDiffer DEF Init
  <2> QED BY <2>1 DEF Owned
<1>11. StatusOK(status, host, letGo) BY <1>1 DEF StatusOK, Init
<1>12. JoinNotStranded /\ \A t \in Threads : host[t] = "none" => holds[t] = {}
  BY <1>1 DEF JoinNotStranded, Init
<1> QED BY <1>8, <1>9, <1>10, <1>11, <1>12 DEF Inv

\* Every call keeps the invariant.
LEMMA NextInv == Inv /\ [Next]_vars => Inv'
<1>1. SUFFICES ASSUME Inv, [Next]_vars PROVE Inv' OBVIOUS
<1>2. CASE UNCHANGED vars
  <2>1. UNCHANGED <<status, host, waiter, owner, queue, holds, letGo>> BY <1>2 DEF vars
  <2>2. TypeOK' BY <1>1, <2>1 DEF Inv, TypeOK
  <2>3. JoinNotStranded' BY <1>1, <2>1 DEF Inv, JoinNotStranded
  <2> QED BY <1>1, <2>1, <2>2, <2>3 DEF Inv
<1>3. CASE Periodic BY <1>1, <1>3, PeriodicInv
<1>4. ASSUME NEW t \in Threads, Step(t) PROVE Inv'
  <2>1. CASE \E m \in Mutexes : MutexLock(t, m) \/ MutexTryLock(t, m)
    BY <1>1, <2>1, MutexLockInv DEF MutexTryLock
  <2>2. CASE \E m \in Mutexes : MutexUnlock(t, m) BY <1>1, <2>2, MutexUnlockInv
  <2>3. CASE \E m \in Mutexes, c \in Conds : CondWait(t, c, m) BY <1>1, <2>3, CondWaitInv
  <2>4. CASE \E c \in Conds : CondSignal(t, c) BY <1>1, <2>4, CondSignalInv
  <2>5. CASE \E c \in Conds : CondBroadcast(t, c) BY <1>1, <2>5, CondBroadcastInv
  <2>6. CASE BarrierWait(t) BY <1>1, <2>6, BarrierWaitInv
  <2>7. CASE Sleep(t) BY <1>1, <2>7, SleepInv
  <2>8. CASE \E f \in Futexes, out \in {"never", "ahead"} : FutexWait(t, f, out)
    BY <1>1, <2>8, FutexWaitInv
  <2>9. CASE \E f \in Futexes, n \in 1..Cardinality(Threads) : FutexWake(t, f, n)
    <3>1. PICK f \in Futexes, n \in 1..Cardinality(Threads) : FutexWake(t, f, n) BY <2>9
    <3>2. Cardinality(Threads) \in Nat BY FS_CardinalityType, SyncConstants
    <3>3. n \in Nat BY <3>2
    <3> QED BY <1>1, <3>1, <3>3, FutexWakeInv
  <2>10. CASE \E f, g \in Futexes : FutexWakeOp(t, f, 1, g, 1)
    <3>1. 1 \in Nat OBVIOUS
    <3> QED BY <1>1, <2>10, <3>1, FutexWakeOpInv
  <2>11. CASE \E f, g \in Futexes : FutexCmpRequeue(t, f, 1, g)
    <3>1. 1 \in Nat OBVIOUS
    <3> QED BY <1>1, <2>11, <3>1, FutexCmpRequeueInv
  <2>12. CASE Start(t) BY <1>1, <2>12, StartInv
  <2>13. CASE \E u \in Threads : Create(t, u) BY <1>1, <2>13, CreateInv
  <2>14. CASE \E u \in Threads : Join(t, u) BY <1>1, <2>14, JoinInv
  <2>15. CASE Exit(t) BY <1>1, <2>15, ExitInv
  <2>16. CASE ExitStalled(t)
    <3>1. UNCHANGED <<status, host, waiter, owner, queue, holds, letGo>>
      BY <2>16 DEF ExitStalled
    <3>2. TypeOK' BY <1>1, <3>1 DEF Inv, TypeOK
    <3>3. JoinNotStranded' BY <1>1, <3>1 DEF Inv, JoinNotStranded
    <3> QED BY <1>1, <3>1, <3>2, <3>3 DEF Inv
  <2> QED BY <1>4, <2>1, <2>2, <2>3, <2>4, <2>5, <2>6, <2>7, <2>8, <2>9, <2>10, <2>11, <2>12,
             <2>13, <2>14, <2>15, <2>16 DEF Step
<1> QED BY <1>1, <1>2, <1>3, <1>4 DEF Next

(* The invariant holds in every reachable state: each waiting thread is    *)
(* registered once, mutexes belong to those that hold them, and the thread *)
(* manager's status agrees with what the host threads do.                  *)
THEOREM ThreadSyncInvariance == Spec => []Inv
<1>1. Init => Inv BY InitInv
<1>2. Inv /\ [Next]_vars => Inv' BY NextInv
<1> QED BY <1>1, <1>2, PTL DEF Spec

(* The thread manager's status tells waiting threads from running ones,    *)
(* but for joiners let go by the start of the thread they join on          *)
(* (stallThread, resumeThread, onThreadStart, onThreadExit).               *)
THEOREM ThreadStatusKnown == Spec => []StatusKnown
<1>1. Inv => StatusKnown BY DEF Inv, StatusOK, StatusKnown
<1> QED BY <1>1, ThreadSyncInvariance, PTL

(* Nobody waits in joinThread for a thread that has ended: joinThread does *)
(* not wait for an idle thread and onThreadExit resumes the joiner.        *)
THEOREM ThreadJoinNotStranded == Spec => []JoinNotStranded
<1>1. Inv => JoinNotStranded BY DEF Inv
<1> QED BY <1>1, ThreadSyncInvariance, PTL

(* A running thread owns exactly the mutexes it has locked, and a mutex    *)
(* waited for has an owner that has not ended: SimMutex::unlock hands the  *)
(* mutex on, SimCond::signal and broadcast give a woken thread its mutex   *)
(* or queue it there.                                                      *)
THEOREM ThreadHoldersOwn == Spec => []HoldersOwn
<1>1. Inv => HoldersOwn
  <2>1. SUFFICES ASSUME Inv, NEW m \in Mutexes
                 PROVE  /\ \A t \in Threads : host[t] = "run" => (m \in holds[t] <=> owner[m] = t)
                        /\ queue[m] # <<>> => owner[m] # None /\ host[owner[m]] # "none"
    BY DEF HoldersOwn
  <2>2. /\ Registered(queue, waiter, host) /\ Owned(owner, queue, holds) /\ queue \in Queues
        /\ owner \in [Mutexes -> Threads \cup {None}]
    BY <2>1 DEF Inv, TypeOK
  <2>3. ASSUME NEW t \in Threads, host[t] # "wait" PROVE m \in holds[t] <=> owner[m] = t
    <3>1. ~Queued(queue, t) BY <2>2, <2>3 DEF Registered
    <3>2. ~In(queue, m, t) BY <3>1, PlacesDiffer DEF Queued
    <3>3. \A c \in Conds : ~ReturnsAt(queue, c, t, m)
      BY <3>1, PlacesDiffer DEF Queued, In, ReturnsAt
    <3>4. ~Wants(queue, t, m) BY <3>2, <3>3 DEF Wants, ReturnsTo
    <3> QED BY <2>2, <3>4 DEF Owned
  <2>4. ASSUME queue[m] # <<>> PROVE owner[m] # None /\ host[owner[m]] # "none"
    <3>1. queue[m] \in Seq(Records) BY <2>2, QueueType, PlacesDiffer
    <3>2. 1 \in DOMAIN queue[m]
      <4>1. Len(queue[m]) \in Nat /\ Len(queue[m]) # 0 /\ DOMAIN queue[m] = 1..Len(queue[m])
        BY <2>4, <3>1, LenProperties, EmptySeq
      <4> QED BY <4>1
    <3>3. PICK x \in Threads : In(queue, m, x) BY <3>1, <3>2, RecordType DEF In
    <3>4. owner[m] # None BY <2>2, <3>3 DEF Owned
    <3>5. owner[m] \in Threads BY <2>2, <3>4
    <3>6. host[owner[m]] # "none"
      <4>1. ASSUME host[owner[m]] = "none" PROVE FALSE
        <5>1. holds[owner[m]] = {} BY <2>1, <3>5, <4>1 DEF Inv
        <5>2. m \in holds[owner[m]] BY <2>3, <3>5, <4>1
        <5> QED BY <5>1, <5>2
      <4> QED BY <4>1
    <3> QED BY <3>4, <3>6
  <2>5. \A t \in Threads : host[t] = "run" => (m \in holds[t] <=> owner[m] = t) BY <2>3
  <2> QED BY <2>4, <2>5
<1> QED BY <1>1, ThreadSyncInvariance, PTL

(* A waiting thread is registered in one place and a running one in none:  *)
(* no wake-up, timeout, requeue or signal leaves a stale entry behind or   *)
(* loses the only one.                                                     *)
THEOREM ThreadInOnePlace == Spec => []InOnePlace
<1>1. Inv => InOnePlace
  <2>1. SUFFICES ASSUME Inv, NEW t \in Threads
                 PROVE  Cardinality(PlacesOf(t)) = IF host[t] = "wait" THEN 1 ELSE 0
    BY DEF InOnePlace
  <2>2. Registered(queue, waiter, host) BY <2>1 DEF Inv
  <2> DEFINE At(p) == {i \in DOMAIN queue[p] : queue[p][i].thread = t}
             Q == UNION {{p} \X At(p) : p \in Places}
             J == {u \in Threads : waiter[u] = t} \X {0}
  <2>0. PlacesOf(t) = Q \cup J BY DEF PlacesOf
  <2>3. ASSUME NEW x \in PlacesOf(t)
        PROVE  \/ \E p \in Places : \E i \in DOMAIN queue[p] : queue[p][i].thread = t /\ x = <<p, i>>
               \/ \E u \in Threads : waiter[u] = t /\ x = <<u, 0>>
    <3>1. CASE x \in J BY <3>1
    <3>2. CASE x \in Q
      <4>1. PICK p \in Places : x \in {p} \X At(p) BY <3>2
      <4>2. PICK i \in At(p) : x = <<p, i>> BY <4>1
      <4> QED BY <4>2
    <3> HIDE DEF Q, J
    <3> QED BY <2>0, <3>1, <3>2
  <2>4. ASSUME NEW p \in Places, NEW i \in DOMAIN queue[p], queue[p][i].thread = t
        PROVE  <<p, i>> \in PlacesOf(t)
    <3>1. <<p, i>> \in {p} \X At(p) BY <2>4
    <3> HIDE DEF At, J
    <3> QED BY <2>0, <3>1
  <2>5. ASSUME NEW u \in Threads, waiter[u] = t PROVE <<u, 0>> \in PlacesOf(t)
    <3>1. <<u, 0>> \in J BY <2>5
    <3> HIDE DEF Q, J
    <3> QED BY <2>0, <3>1
  <2>6. CASE host[t] # "wait"
    <3>1. ~Queued(queue, t) /\ \A u \in Threads : waiter[u] # t BY <2>2, <2>6 DEF Registered
    <3>2. PlacesOf(t) = {} BY <2>3, <3>1 DEF Queued, In
    <3> QED BY <2>6, <3>2, FS_EmptySet
  <2>7. CASE host[t] = "wait" /\ Queued(queue, t)
    <3>0. PICK p \in Places : In(queue, p, t) BY <2>7 DEF Queued
    <3>1. PICK i \in DOMAIN queue[p] : queue[p][i].thread = t BY <3>0 DEF In
    <3>2. \A u \in Threads : waiter[u] # t BY <2>2, <2>7 DEF Registered
    <3>3. \A r \in Places : \A j \in DOMAIN queue[r] : queue[r][j].thread = t => r = p /\ j = i
      BY <2>2, <3>1 DEF Registered, Distinct
    <3>4. ASSUME NEW x \in PlacesOf(t) PROVE x = <<p, i>> BY <2>3, <3>2, <3>3
    <3>5. PlacesOf(t) = {<<p, i>>} BY <2>4, <3>1, <3>4
    <3> QED BY <2>7, <3>5, FS_Singleton
  <2>8. CASE host[t] = "wait" /\ ~Queued(queue, t)
    <3>1. PICK u \in Threads : waiter[u] = t BY <2>2, <2>8 DEF Registered
    <3>2. t # None BY SyncConstants
    <3>3. \A v \in Threads : waiter[v] = t => v = u BY <2>2, <3>1, <3>2 DEF Registered
    <3>4. ASSUME NEW x \in PlacesOf(t) PROVE x = <<u, 0>>
      BY <2>3, <2>8, <3>3 DEF Queued, In
    <3>5. PlacesOf(t) = {<<u, 0>>} BY <2>5, <3>1, <3>4
    <3> QED BY <2>8, <3>5, FS_Singleton
  <2> QED BY <2>6, <2>7, <2>8
<1> QED BY <1>1, ThreadSyncInvariance, PTL
=============================================================================
