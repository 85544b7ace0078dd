-------------------------- MODULE CoherenceProofs ---------------------------
(***************************************************************************)
(* The directory protocol for any machine: any nodes and cores, any lines, *)
(* any number of ways and of sharers an entry can hold.  As long as no     *)
(* assertion has fired, the directory knows every copy, a node that may    *)
(* write a line is alone with it, the hierarchy is inclusive and a         *)
(* modified line keeps the last write.                                     *)
(***************************************************************************)
EXTENDS Coherence, SequenceTheorems, TLAPS

-----------------------------------------------------------------------------
(* Messages of one line in a queue.                                        *)

\* q holds a message about a of a type in T.
Has(q, a, T) == \E i \in DOMAIN q : q[i].addr = a /\ q[i].type \in T

\* q holds one of a type in T and, behind it, one of a type in U.
Then(q, a, T, U) ==
  \E i, j \in DOMAIN q :
    /\ i < j /\ q[i].addr = a /\ q[j].addr = a
    /\ q[i].type \in T /\ q[j].type \in U

\* ... and behind that one of a type in V.
Then3(q, a, T, U, V) ==
  \E i, j, k \in DOMAIN q :
    /\ i < j /\ j < k /\ q[i].addr = a /\ q[j].addr = a /\ q[k].addr = a
    /\ q[i].type \in T /\ q[j].type \in U /\ q[k].type \in V

\* m is about a and of a type in T.
Is(m, a, T) == m.addr = a /\ m.type \in T

\* Two queues hold the same messages about a, in the same order.
Alike(q, p, a) ==
  /\ \A T : Has(q, a, T) <=> Has(p, a, T)
  /\ \A T, U : Then(q, a, T, U) <=> Then(p, a, T, U)
  /\ \A T, U, V : Then3(q, a, T, U, V) <=> Then3(p, a, T, U, V)

\* p is q with a message of type t about a at its end, as far as a is concerned.
Longer(q, p, a, t) ==
  /\ \A T : Has(p, a, T) <=> Has(q, a, T) \/ t \in T
  /\ \A T, U : Then(p, a, T, U) <=> Then(q, a, T, U) \/ (Has(q, a, T) /\ t \in U)
  /\ \A T, U, V :
       Then3(p, a, T, U, V) <=> Then3(q, a, T, U, V) \/ (Then(q, a, T, U) /\ t \in V)

\* p is q without the message of type t about a at its head.
Shorter(q, p, a, t) ==
  /\ \A T : Has(q, a, T) <=> t \in T \/ Has(p, a, T)
  /\ \A T, U : Then(q, a, T, U) <=> (t \in T /\ Has(p, a, U)) \/ Then(p, a, T, U)
  /\ \A T, U, V :
       Then3(q, a, T, U, V) <=> (t \in T /\ Then(p, a, U, V)) \/ Then3(p, a, T, U, V)

\* An appended message.
LEMMA AppendView ==
  ASSUME NEW M, NEW q \in Seq(M), NEW m \in M, NEW a
  PROVE  LET p == Append(q, m) IN
         /\ \A T : Has(p, a, T) <=> Has(q, a, T) \/ Is(m, a, T)
         /\ \A T, U : Then(p, a, T, U) <=> Then(q, a, T, U) \/ (Has(q, a, T) /\ Is(m, a, U))
         /\ \A T, U, V :
              Then3(p, a, T, U, V) <=> Then3(q, a, T, U, V) \/ (Then(q, a, T, U) /\ Is(m, a, V))
<1>1. PICK p, n : p = Append(q, m) /\ n = Len(q) OBVIOUS
<1>2. /\ n \in Nat /\ DOMAIN q = 1..n /\ DOMAIN p = 1..(n + 1) /\ p[n + 1] = m
      /\ \A i \in 1..n : p[i] = q[i]
  BY <1>1
<1>3. ASSUME NEW i \in 1..(n + 1) PROVE i \in 1..n \/ (i = n + 1 /\ ~(i \in 1..n))
  BY <1>2
<1>4. \A T : Has(p, a, T) <=> Has(q, a, T) \/ Is(m, a, T)
  <2> TAKE T
  <2>1. ASSUME Has(p, a, T) PROVE Has(q, a, T) \/ Is(m, a, T)
    BY <1>2, <1>3, <2>1 DEF Has, Is
  <2>2. ASSUME Has(q, a, T) PROVE Has(p, a, T) BY <1>2, <2>2 DEF Has
  <2>3. ASSUME Is(m, a, T) PROVE Has(p, a, T)
    <3>1. n + 1 \in DOMAIN p BY <1>2
    <3> QED BY <1>2, <2>3, <3>1 DEF Has, Is
  <2> QED BY <2>1, <2>2, <2>3
<1>5. \A T, U : Then(p, a, T, U) <=> Then(q, a, T, U) \/ (Has(q, a, T) /\ Is(m, a, U))
  <2> TAKE T, U
  <2>1. ASSUME Then(p, a, T, U) PROVE Then(q, a, T, U) \/ (Has(q, a, T) /\ Is(m, a, U))
    <3>1. PICK i, j \in DOMAIN p : /\ i < j /\ p[i].addr = a /\ p[j].addr = a
                                   /\ p[i].type \in T /\ p[j].type \in U
      BY <2>1 DEF Then
    <3>2. i \in 1..n BY <1>2, <3>1
    <3>3. CASE j \in 1..n
      <4>1. Then(q, a, T, U) BY <1>2, <3>1, <3>2, <3>3 DEF Then
      <4> QED BY <4>1
    <3>4. CASE j = n + 1 BY <1>2, <3>1, <3>2, <3>4 DEF Has, Is
    <3> QED BY <1>2, <1>3, <3>3, <3>4
  <2>2. ASSUME Then(q, a, T, U) PROVE Then(p, a, T, U) BY <1>2, <2>2 DEF Then
  <2>3. ASSUME Has(q, a, T), Is(m, a, U) PROVE Then(p, a, T, U)
    <3>1. PICK i \in DOMAIN q : q[i].addr = a /\ q[i].type \in T BY <2>3 DEF Has
    <3>2. PICK j : j = n + 1 OBVIOUS
    <3>3. i \in DOMAIN p /\ j \in DOMAIN p /\ i < j /\ p[i] = q[i] /\ p[j] = m BY <1>2, <3>1, <3>2
    <3> QED BY <2>3, <3>1, <3>3 DEF Then, Is
  <2> QED BY <2>1, <2>2, <2>3
<1>6. \A T, U, V :
        Then3(p, a, T, U, V) <=> Then3(q, a, T, U, V) \/ (Then(q, a, T, U) /\ Is(m, a, V))
  <2> TAKE T, U, V
  <2>1. ASSUME Then3(p, a, T, U, V)
        PROVE  Then3(q, a, T, U, V) \/ (Then(q, a, T, U) /\ Is(m, a, V))
    <3>1. PICK i, j, k \in DOMAIN p :
            /\ i < j /\ j < k /\ p[i].addr = a /\ p[j].addr = a /\ p[k].addr = a
            /\ p[i].type \in T /\ p[j].type \in U /\ p[k].type \in V
      BY <2>1 DEF Then3
    <3>2. i \in 1..n /\ j \in 1..n BY <1>2, <3>1
    <3>3. i \in DOMAIN q /\ j \in DOMAIN q /\ p[i] = q[i] /\ p[j] = q[j] BY <1>2, <3>2
    <3>4. CASE k \in 1..n
      <4>1. k \in DOMAIN q /\ p[k] = q[k] BY <1>2, <3>4
      <4> QED BY <3>1, <3>3, <4>1 DEF Then3
    <3>5. CASE k = n + 1 BY <1>2, <3>1, <3>3, <3>5 DEF Then, Is
    <3> QED BY <1>2, <1>3, <3>4, <3>5
  <2>2. ASSUME Then3(q, a, T, U, V) PROVE Then3(p, a, T, U, V)
    <3>1. PICK i, j, k \in DOMAIN q :
            /\ i < j /\ j < k /\ q[i].addr = a /\ q[j].addr = a /\ q[k].addr = a
            /\ q[i].type \in T /\ q[j].type \in U /\ q[k].type \in V
      BY <2>2 DEF Then3
    <3>2. i \in DOMAIN p /\ j \in DOMAIN p /\ k \in DOMAIN p
          /\ p[i] = q[i] /\ p[j] = q[j] /\ p[k] = q[k]
      BY <1>2
    <3> QED BY <3>1, <3>2 DEF Then3
  <2>3. ASSUME Then(q, a, T, U), Is(m, a, V) PROVE Then3(p, a, T, U, V)
    <3>1. PICK i, j \in DOMAIN q : /\ i < j /\ q[i].addr = a /\ q[j].addr = a
                                   /\ q[i].type \in T /\ q[j].type \in U
      BY <2>3 DEF Then
    <3>2. PICK k : k = n + 1 OBVIOUS
    <3>3. i \in DOMAIN p /\ j \in DOMAIN p /\ k \in DOMAIN p /\ j < k
          /\ p[i] = q[i] /\ p[j] = q[j] /\ p[k] = m
      BY <1>2, <3>1, <3>2
    <3> QED BY <2>3, <3>1, <3>3 DEF Then3, Is
  <2> QED BY <2>1, <2>2, <2>3
<1> QED BY <1>1, <1>4, <1>5, <1>6

\* The queue behind its first message.
LEMMA TailView ==
  ASSUME NEW M, NEW q \in Seq(M), q # <<>>, NEW a
  PROVE  LET p == Tail(q)
             m == Head(q) IN
         /\ \A T : Has(q, a, T) <=> Is(m, a, T) \/ Has(p, a, T)
         /\ \A T, U : Then(q, a, T, U) <=> (Is(m, a, T) /\ Has(p, a, U)) \/ Then(p, a, T, U)
         /\ \A T, U, V :
              Then3(q, a, T, U, V) <=> (Is(m, a, T) /\ Then(p, a, U, V)) \/ Then3(p, a, T, U, V)
<1>1. PICK p, m, n : p = Tail(q) /\ m = Head(q) /\ n = Len(q) - 1 OBVIOUS
<1>2. /\ n \in Nat /\ DOMAIN q = 1..(n + 1) /\ DOMAIN p = 1..n /\ q[1] = m
      /\ \A i \in 1..n : p[i] = q[i + 1]
  BY <1>1, HeadTailProperties
<1>3. ASSUME NEW i \in 1..(n + 1), i # 1 PROVE i - 1 \in DOMAIN p /\ p[i - 1] = q[i]
  <2>1. i - 1 \in 1..n /\ (i - 1) + 1 = i BY <1>2, <1>3
  <2> QED BY <1>2, <2>1
<1>4. ASSUME NEW i \in DOMAIN p PROVE i \in Nat /\ i + 1 \in DOMAIN q /\ p[i] = q[i + 1] /\ 1 < i + 1
  BY <1>2
<1>5. 1 \in DOMAIN q /\ \A i \in DOMAIN q : i \in Nat /\ i >= 1 BY <1>2
<1>6. \A T : Has(q, a, T) <=> Is(m, a, T) \/ Has(p, a, T)
  <2> TAKE T
  <2>1. ASSUME Has(q, a, T) PROVE Is(m, a, T) \/ Has(p, a, T)
    <3>1. PICK i \in DOMAIN q : q[i].addr = a /\ q[i].type \in T BY <2>1 DEF Has
    <3>2. CASE i = 1 BY <1>2, <3>1, <3>2 DEF Is
    <3>3. CASE i # 1
      <4>1. i - 1 \in DOMAIN p /\ p[i - 1] = q[i] BY <1>2, <1>3, <3>3
      <4> QED BY <3>1, <4>1 DEF Has
    <3> QED BY <3>2, <3>3
  <2>2. ASSUME Is(m, a, T) PROVE Has(q, a, T) BY <1>2, <1>5, <2>2 DEF Has, Is
  <2>3. ASSUME Has(p, a, T) PROVE Has(q, a, T) BY <1>4, <2>3 DEF Has
  <2> QED BY <2>1, <2>2, <2>3
<1>7. \A T, U : Then(q, a, T, U) <=> (Is(m, a, T) /\ Has(p, a, U)) \/ Then(p, a, T, U)
  <2> TAKE T, U
  <2>1. ASSUME Then(q, a, T, U) PROVE (Is(m, a, T) /\ Has(p, a, U)) \/ Then(p, a, T, U)
    <3>1. PICK i, j \in DOMAIN q : /\ i < j /\ q[i].addr = a /\ q[j].addr = a
                                   /\ q[i].type \in T /\ q[j].type \in U
      BY <2>1 DEF Then
    <3>2. j # 1 BY <1>5, <3>1
    <3>3. PICK l : l = j - 1 OBVIOUS
    <3>4. l \in DOMAIN p /\ p[l] = q[j] BY <1>2, <1>3, <3>2, <3>3
    <3>5. CASE i = 1 BY <1>2, <3>1, <3>4, <3>5 DEF Is, Has
    <3>6. CASE i # 1
      <4>1. PICK k : k = i - 1 OBVIOUS
      <4>2. k \in DOMAIN p /\ p[k] = q[i] /\ k < l BY <1>2, <1>3, <1>5, <3>1, <3>3, <3>6, <4>1
      <4> QED BY <3>1, <3>4, <4>2 DEF Then
    <3> QED BY <3>5, <3>6
  <2>2. ASSUME Is(m, a, T), Has(p, a, U) PROVE Then(q, a, T, U)
    <3>1. PICK i \in DOMAIN p : p[i].addr = a /\ p[i].type \in U BY <2>2 DEF Has
    <3>2. PICK j : j = i + 1 OBVIOUS
    <3>3. j \in DOMAIN q /\ q[j] = p[i] /\ 1 < j BY <1>4, <3>2
    <3> QED BY <1>2, <1>5, <2>2, <3>1, <3>3 DEF Then, Is
  <2>3. ASSUME Then(p, a, T, U) PROVE Then(q, a, T, U)
    <3>1. PICK i, j \in DOMAIN p : /\ i < j /\ p[i].addr = a /\ p[j].addr = a
                                   /\ p[i].type \in T /\ p[j].type \in U
      BY <2>3 DEF Then
    <3>2. PICK k, l : k = i + 1 /\ l = j + 1 OBVIOUS
    <3>3. k \in DOMAIN q /\ l \in DOMAIN q /\ k < l /\ q[k] = p[i] /\ q[l] = p[j]
      BY <1>4, <3>1, <3>2
    <3> QED BY <3>1, <3>3 DEF Then
  <2> QED BY <2>1, <2>2, <2>3
<1>8. \A T, U, V :
        Then3(q, a, T, U, V) <=> (Is(m, a, T) /\ Then(p, a, U, V)) \/ Then3(p, a, T, U, V)
  <2> TAKE T, U, V
  <2>1. ASSUME Then3(q, a, T, U, V)
        PROVE  (Is(m, a, T) /\ Then(p, a, U, V)) \/ Then3(p, a, T, U, V)
    <3>1. PICK i, j, k \in DOMAIN q :
            /\ i < j /\ j < k /\ q[i].addr = a /\ q[j].addr = a /\ q[k].addr = a
            /\ q[i].type \in T /\ q[j].type \in U /\ q[k].type \in V
      BY <2>1 DEF Then3
    <3>2. j # 1 /\ k # 1 BY <1>5, <3>1
    <3>3. PICK y, z : y = j - 1 /\ z = k - 1 OBVIOUS
    <3>4. y \in DOMAIN p /\ p[y] = q[j] /\ z \in DOMAIN p /\ p[z] = q[k]
      BY <1>2, <1>3, <3>1, <3>2, <3>3
    <3>7. i \in Nat /\ j \in Nat /\ k \in Nat BY <1>5, <3>1
    <3>8. y < z BY <3>1, <3>3, <3>7
    <3>5. CASE i = 1 BY <1>2, <3>1, <3>4, <3>5, <3>8 DEF Is, Then
    <3>6. CASE i # 1
      <4>1. PICK x : x = i - 1 OBVIOUS
      <4>2. x \in DOMAIN p /\ p[x] = q[i] BY <1>2, <1>3, <3>1, <3>6, <4>1
      <4>3. x < y BY <3>1, <3>3, <3>7, <4>1
      <4> QED BY <3>1, <3>4, <3>8, <4>2, <4>3 DEF Then3
    <3> QED BY <3>5, <3>6
  <2>2. ASSUME Is(m, a, T), Then(p, a, U, V) PROVE Then3(q, a, T, U, V)
    <3>1. PICK i, j \in DOMAIN p : /\ i < j /\ p[i].addr = a /\ p[j].addr = a
                                   /\ p[i].type \in U /\ p[j].type \in V
      BY <2>2 DEF Then
    <3>2. PICK k, l : k = i + 1 /\ l = j + 1 OBVIOUS
    <3>3. k \in DOMAIN q /\ l \in DOMAIN q /\ 1 < k /\ k < l /\ q[k] = p[i] /\ q[l] = p[j]
      BY <1>4, <3>1, <3>2
    <3> QED BY <1>2, <1>5, <2>2, <3>1, <3>3 DEF Then3, Is
  <2>3. ASSUME Then3(p, a, T, U, V) PROVE Then3(q, a, T, U, V)
    <3>1. PICK i, j, k \in DOMAIN p :
            /\ i < j /\ j < k /\ p[i].addr = a /\ p[j].addr = a /\ p[k].addr = a
            /\ p[i].type \in T /\ p[j].type \in U /\ p[k].type \in V
      BY <2>3 DEF Then3
    <3>2. PICK x, y, z : x = i + 1 /\ y = j + 1 /\ z = k + 1 OBVIOUS
    <3>3. /\ x \in DOMAIN q /\ y \in DOMAIN q /\ z \in DOMAIN q /\ x < y /\ y < z
          /\ q[x] = p[i] /\ q[y] = p[j] /\ q[z] = p[k]
      BY <1>4, <3>1, <3>2
    <3> QED BY <3>1, <3>3 DEF Then3
  <2> QED BY <2>1, <2>2, <2>3
<1> QED BY <1>1, <1>6, <1>7, <1>8


\* The same two, for a message about a and for one about another line.
LEMMA Appended ==
  ASSUME NEW M, NEW q \in Seq(M), NEW m \in M, NEW a, m.addr = a,
         NEW t, t = m.type, NEW p, p = Append(q, m)
  PROVE  Longer(q, p, a, t)
<1>1. \A T : Is(m, a, T) <=> t \in T BY DEF Is
<1> QED BY <1>1, AppendView DEF Longer
LEMMA AppendedOther ==
  ASSUME NEW M, NEW q \in Seq(M), NEW m \in M, NEW a, m.addr # a, NEW p, p = Append(q, m)
  PROVE  Alike(q, p, a)
<1>1. \A T : ~Is(m, a, T) BY DEF Is
<1> QED BY <1>1, AppendView DEF Alike
LEMMA Removed ==
  ASSUME NEW M, NEW q \in Seq(M), q # <<>>, NEW a, Head(q).addr = a,
         NEW t, t = Head(q).type, NEW p, p = Tail(q)
  PROVE  Shorter(q, p, a, t)
<1>1. \A T : Is(Head(q), a, T) <=> t \in T BY DEF Is
<1> QED BY <1>1, TailView DEF Shorter
LEMMA RemovedOther ==
  ASSUME NEW M, NEW q \in Seq(M), q # <<>>, NEW a, Head(q).addr # a, NEW p, p = Tail(q)
  PROVE  Alike(q, p, a)
<1>1. \A T : ~Is(Head(q), a, T) BY DEF Is
<1> QED BY <1>1, TailView DEF Alike

\* What is implied whatever the types are.
LEMMA ThenHas ==
  ASSUME NEW q, NEW a, NEW T, NEW U, Then(q, a, T, U)
  PROVE  Has(q, a, T) /\ Has(q, a, U)
BY DEF Then, Has
LEMMA HasMore ==
  ASSUME NEW q, NEW a, NEW T, NEW U, T \subseteq U, Has(q, a, T)
  PROVE  Has(q, a, U)
BY DEF Has
LEMMA HasUnion ==
  ASSUME NEW q, NEW a, NEW T, NEW U
  PROVE  Has(q, a, T \cup U) <=> Has(q, a, T) \/ Has(q, a, U)
BY DEF Has
LEMMA ThenMore ==
  ASSUME NEW q, NEW a, NEW T, NEW U, NEW S, NEW V, T \subseteq S, U \subseteq V, Then(q, a, T, U)
  PROVE  Then(q, a, S, V)
BY DEF Then
LEMMA AlikeRefl == ASSUME NEW q, NEW a PROVE Alike(q, q, a)
BY DEF Alike
LEMMA AlikeTrans ==
  ASSUME NEW q, NEW p, NEW r, NEW a, Alike(q, p, a), Alike(p, r, a)
  PROVE  Alike(q, r, a)
BY DEF Alike
LEMMA ShorterAlike ==
  ASSUME NEW q, NEW p, NEW r, NEW a, NEW t, Shorter(q, p, a, t), Alike(p, r, a)
  PROVE  Shorter(q, r, a, t)
BY DEF Alike, Shorter

\* Messages and what they carry, as loosely as the proofs need it.
AnyData == Data \cup {NoData}
Types == Requests \cup {"INV_REP", "FLUSH_REP", "WB_REP"} \cup Replies
           \cup {"INV_REQ", "FLUSH_REQ", "WB_REQ"}
LEMMA MsgType ==
  ASSUME NEW t, NEW a, NEW d
  PROVE  /\ Msg(t, a, d).type = t /\ Msg(t, a, d).addr = a
         /\ t \in Types /\ a \in Addr /\ d \in AnyData => Msg(t, a, d) \in ShmemMsg
BY DEF Msg, ShmemMsg, Types, AnyData

\* Aging leaves types and lines alone.
LEMMA AgedView ==
  ASSUME NEW q \in Seq(ShmemMsg), NEW b
  PROVE  AgedQueue(q, b) \in Seq(ShmemMsg) /\ \A a : Alike(q, AgedQueue(q, b), a)
<1>1. PICK p : p = AgedQueue(q, b) OBVIOUS
<1>2. PICK n \in Nat : DOMAIN q = 1..n /\ n = Len(q) OBVIOUS
<1>3. ASSUME NEW i \in DOMAIN q
      PROVE  q[i] \in ShmemMsg /\ p[i] \in ShmemMsg /\ p[i].addr = q[i].addr /\ p[i].type = q[i].type
  <2>1. q[i] \in ShmemMsg BY <1>2
  <2>2. p[i] = IF q[i].addr = b THEN [q[i] EXCEPT !.data = Aged(@)] ELSE q[i]
    BY <1>1, <1>2 DEF AgedQueue
  <2>3. Aged(q[i].data) \in AnyData BY <2>1 DEF Aged, ShmemMsg, AnyData, Data, NoData
  <2> QED BY <2>1, <2>2, <2>3 DEF ShmemMsg, AnyData
<1>4. DOMAIN p = DOMAIN q /\ p \in [1..n -> ShmemMsg] BY <1>1, <1>2, <1>3 DEF AgedQueue
<1>5. p \in Seq(ShmemMsg) BY <1>2, <1>4
<1>6. ASSUME NEW a PROVE Alike(q, p, a)
  <2>1. \A T : Has(q, a, T) <=> Has(p, a, T) BY <1>3, <1>4 DEF Has
  <2>2. \A T, U : Then(q, a, T, U) <=> Then(p, a, T, U) BY <1>3, <1>4 DEF Then
  <2>3. ASSUME NEW T, NEW U, NEW V PROVE Then3(q, a, T, U, V) <=> Then3(p, a, T, U, V)
    <3>1. \A S : \A i \in DOMAIN q : (q[i].addr = a /\ q[i].type \in S) <=> (p[i].addr = a /\ p[i].type \in S)
      BY <1>3
    <3>2. DOMAIN p = DOMAIN q BY <1>4
    <3>3. Then3(q, a, T, U, V) => Then3(p, a, T, U, V) BY <3>1, <3>2 DEF Then3
    <3>4. Then3(p, a, T, U, V) => Then3(q, a, T, U, V) BY <3>1, <3>2 DEF Then3
    <3> QED BY <3>3, <3>4
  <2> QED BY <2>1, <2>2, <2>3 DEF Alike
<1> QED BY <1>1, <1>5, <1>6

-----------------------------------------------------------------------------
(* Requests of one node in the directory's queue of a line.                *)

\* Node n has a request of a type in T in q; it has two requests in q.
ReqOf(q, n, T) == \E i \in DOMAIN q : q[i].from = n /\ q[i].type \in T
TwoReqs(q, n) ==
  \E i, j \in DOMAIN q :
    /\ i < j /\ q[i].from = n /\ q[j].from = n
    /\ q[i].type \in Requests /\ q[j].type \in Requests

\* Requests behind the first have not been looked at.
Untouched(q) == \A i \in DOMAIN q : i > 1 => ~q[i].wait /\ q[i].fwd = Nobody

\* p is q with r at its end, q without its first request, or q with the first
\* request changed to r.
ReqAdded(q, r, p) ==
  /\ p # <<>> /\ (q # <<>> => Head(p) = Head(q)) /\ (q = <<>> => Head(p) = r)
  /\ Untouched(q) /\ ~r.wait /\ r.fwd = Nobody => Untouched(p)
  /\ \A n, T : ReqOf(p, n, T) <=> ReqOf(q, n, T) \/ (r.from = n /\ r.type \in T)
  /\ \A n : TwoReqs(p, n) <=>
       TwoReqs(q, n) \/ (ReqOf(q, n, Requests) /\ r.from = n /\ r.type \in Requests)
ReqGone(q, p) ==
  /\ Len(q) > 1 <=> p # <<>>
  /\ Untouched(q) => Untouched(p) /\ (p # <<>> => ~Head(p).wait /\ Head(p).fwd = Nobody)
  /\ \A n, T : ReqOf(q, n, T) <=> (Head(q).from = n /\ Head(q).type \in T) \/ ReqOf(p, n, T)
  /\ \A n : TwoReqs(q, n) <=>
       (Head(q).from = n /\ Head(q).type \in Requests /\ ReqOf(p, n, Requests)) \/ TwoReqs(p, n)
ReqSwapped(q, r, p) ==
  /\ p # <<>> /\ Head(p) = r
  /\ Untouched(q) => Untouched(p)
  /\ \A n, T : ReqOf(q, n, T) <=> ReqOf(p, n, T)
  /\ \A n : TwoReqs(q, n) <=> TwoReqs(p, n)

LEMMA ReqAppended ==
  ASSUME NEW M, NEW q \in Seq(M), NEW r \in M, NEW p, p = Append(q, r)
  PROVE  ReqAdded(q, r, p) /\ p \in Seq(M)
<1>1. PICK k : k = Len(q) OBVIOUS
<1>2. /\ k \in Nat /\ DOMAIN q = 1..k /\ DOMAIN p = 1..(k + 1) /\ p[k + 1] = r
      /\ \A i \in 1..k : p[i] = q[i]
  BY <1>1
<1>3. ASSUME NEW i \in 1..(k + 1) PROVE i \in 1..k \/ (i = k + 1 /\ ~(i \in 1..k))
  BY <1>2
<1>4. p # <<>> /\ (q # <<>> => Head(p) = Head(q)) /\ (q = <<>> => Head(p) = r)
  OBVIOUS
<1>5. Untouched(q) /\ ~r.wait /\ r.fwd = Nobody => Untouched(p)
  BY <1>2, <1>3 DEF Untouched
<1>6. ASSUME NEW n, NEW T
      PROVE  ReqOf(p, n, T) <=> ReqOf(q, n, T) \/ (r.from = n /\ r.type \in T)
  <2>1. ReqOf(p, n, T) => ReqOf(q, n, T) \/ (r.from = n /\ r.type \in T)
    BY <1>2, <1>3 DEF ReqOf
  <2>2. ReqOf(q, n, T) => ReqOf(p, n, T) BY <1>2 DEF ReqOf
  <2>3. k + 1 \in DOMAIN p BY <1>2
  <2>4. r.from = n /\ r.type \in T => ReqOf(p, n, T) BY <1>2, <2>3 DEF ReqOf
  <2> QED BY <2>1, <2>2, <2>4
<1>7. ASSUME NEW n
      PROVE  TwoReqs(p, n) <=>
               TwoReqs(q, n) \/ (ReqOf(q, n, Requests) /\ r.from = n /\ r.type \in Requests)
  <2>1. ASSUME TwoReqs(p, n)
        PROVE  TwoReqs(q, n) \/ (ReqOf(q, n, Requests) /\ r.from = n /\ r.type \in Requests)
    <3>1. PICK i, j \in DOMAIN p :
            /\ i < j /\ p[i].from = n /\ p[j].from = n
            /\ p[i].type \in Requests /\ p[j].type \in Requests
      BY <2>1 DEF TwoReqs
    <3>2. i \in 1..k BY <1>2, <3>1
    <3>3. i \in DOMAIN q /\ p[i] = q[i] BY <1>2, <3>2
    <3>4. CASE j \in 1..k
      <4>1. j \in DOMAIN q /\ p[j] = q[j] BY <1>2, <3>4
      <4> QED BY <3>1, <3>3, <4>1 DEF TwoReqs
    <3>5. CASE j = k + 1 BY <1>2, <3>1, <3>3, <3>5 DEF ReqOf
    <3> QED BY <1>2, <1>3, <3>4, <3>5
  <2>2. TwoReqs(q, n) => TwoReqs(p, n)
    <3>1. SUFFICES ASSUME NEW i \in DOMAIN q, NEW j \in DOMAIN q,
                          i < j, q[i].from = n, q[j].from = n,
                          q[i].type \in Requests, q[j].type \in Requests
                   PROVE  TwoReqs(p, n)
      BY DEF TwoReqs
    <3>2. i \in DOMAIN p /\ j \in DOMAIN p /\ p[i] = q[i] /\ p[j] = q[j] BY <1>2
    <3> QED BY <3>1, <3>2 DEF TwoReqs
  <2>3. ASSUME ReqOf(q, n, Requests), r.from = n, r.type \in Requests PROVE TwoReqs(p, n)
    <3>1. PICK i \in DOMAIN q : q[i].from = n /\ q[i].type \in Requests BY <2>3 DEF ReqOf
    <3>2. PICK j : j = k + 1 OBVIOUS
    <3>3. i \in DOMAIN p /\ j \in DOMAIN p /\ i < j /\ p[i] = q[i] /\ p[j] = r
      BY <1>2, <3>1, <3>2
    <3> QED BY <2>3, <3>1, <3>3 DEF TwoReqs
  <2> QED BY <2>1, <2>2, <2>3
<1>8. p \in Seq(M) OBVIOUS
<1> QED BY <1>4, <1>5, <1>6, <1>7, <1>8 DEF ReqAdded

LEMMA ReqRemoved ==
  ASSUME NEW M, NEW q \in Seq(M), q # <<>>, NEW p, p = Tail(q)
  PROVE  ReqGone(q, p) /\ p \in Seq(M)
<1>1. PICK r, k : r = Head(q) /\ k = Len(q) - 1 OBVIOUS
<1>2. /\ k \in Nat /\ Len(q) = k + 1 /\ DOMAIN q = 1..(k + 1) /\ DOMAIN p = 1..k /\ q[1] = r
      /\ Len(p) = k /\ p \in Seq(M) /\ \A i \in 1..k : p[i] = q[i + 1]
  BY <1>1, HeadTailProperties
<1>3. ASSUME NEW i \in 1..(k + 1), i # 1 PROVE i - 1 \in DOMAIN p /\ p[i - 1] = q[i]
  <2>1. i - 1 \in 1..k /\ (i - 1) + 1 = i BY <1>2, <1>3
  <2> QED BY <1>2, <2>1
<1>4. ASSUME NEW i \in DOMAIN p
      PROVE  i \in Nat /\ i + 1 \in DOMAIN q /\ p[i] = q[i + 1] /\ i + 1 > 1
  BY <1>2
<1>5. 1 \in DOMAIN q /\ \A i \in DOMAIN q : i \in Nat /\ i >= 1 BY <1>2
<1>6. Len(q) > 1 <=> p # <<>>
  <2>1. p # <<>> <=> k # 0 BY <1>2, EmptySeq
  <2> QED BY <1>2, <2>1
<1>7. Untouched(q) => Untouched(p) BY <1>4 DEF Untouched
<1>8. ASSUME Untouched(q), p # <<>> PROVE ~Head(p).wait /\ Head(p).fwd = Nobody
  <2>1. 1 \in DOMAIN p /\ Head(p) = p[1] BY <1>2, <1>8
  <2> QED BY <1>4, <1>8, <2>1 DEF Untouched
<1>9. ASSUME NEW n, NEW T
      PROVE  ReqOf(q, n, T) <=> (r.from = n /\ r.type \in T) \/ ReqOf(p, n, T)
  <2>1. ASSUME ReqOf(q, n, T) PROVE (r.from = n /\ r.type \in T) \/ ReqOf(p, n, T)
    <3>1. PICK i \in DOMAIN q : q[i].from = n /\ q[i].type \in T BY <2>1 DEF ReqOf
    <3>2. CASE i = 1 BY <1>2, <3>1, <3>2
    <3>3. CASE i # 1
      <4>1. i - 1 \in DOMAIN p /\ p[i - 1] = q[i] BY <1>2, <1>3, <3>3
      <4> QED BY <3>1, <4>1 DEF ReqOf
    <3> QED BY <3>2, <3>3
  <2>2. r.from = n /\ r.type \in T => ReqOf(q, n, T) BY <1>2, <1>5 DEF ReqOf
  <2>3. ReqOf(p, n, T) => ReqOf(q, n, T) BY <1>4 DEF ReqOf
  <2> QED BY <2>1, <2>2, <2>3
<1>10. ASSUME NEW n
       PROVE  TwoReqs(q, n) <=>
                (r.from = n /\ r.type \in Requests /\ ReqOf(p, n, Requests)) \/ TwoReqs(p, n)
  <2>1. ASSUME TwoReqs(q, n)
        PROVE  (r.from = n /\ r.type \in Requests /\ ReqOf(p, n, Requests)) \/ TwoReqs(p, n)
    <3>1. PICK i, j \in DOMAIN q :
            /\ i < j /\ q[i].from = n /\ q[j].from = n
            /\ q[i].type \in Requests /\ q[j].type \in Requests
      BY <2>1 DEF TwoReqs
    <3>2. j # 1 /\ i \in Nat /\ j \in Nat BY <1>5, <3>1
    <3>3. PICK l : l = j - 1 OBVIOUS
    <3>4. l \in DOMAIN p /\ p[l] = q[j] BY <1>2, <1>3, <3>2, <3>3
    <3>5. CASE i = 1 BY <1>2, <3>1, <3>4, <3>5 DEF ReqOf
    <3>6. CASE i # 1
      <4>1. PICK h : h = i - 1 OBVIOUS
      <4>2. h \in DOMAIN p /\ p[h] = q[i] BY <1>2, <1>3, <3>6, <4>1
      <4>3. h < l BY <3>1, <3>2, <3>3, <4>1
      <4> QED BY <3>1, <3>4, <4>2, <4>3 DEF TwoReqs
    <3> QED BY <3>5, <3>6
  <2>2. ASSUME r.from = n, r.type \in Requests, ReqOf(p, n, Requests) PROVE TwoReqs(q, n)
    <3>1. PICK i \in DOMAIN p : p[i].from = n /\ p[i].type \in Requests BY <2>2 DEF ReqOf
    <3>2. PICK j : j = i + 1 OBVIOUS
    <3>3. j \in DOMAIN q /\ q[j] = p[i] /\ 1 < j BY <1>4, <3>2
    <3> QED BY <1>2, <1>5, <2>2, <3>1, <3>3 DEF TwoReqs
  <2>3. ASSUME TwoReqs(p, n) PROVE TwoReqs(q, n)
    <3>1. PICK i, j \in DOMAIN p :
            /\ i < j /\ p[i].from = n /\ p[j].from = n
            /\ p[i].type \in Requests /\ p[j].type \in Requests
      BY <2>3 DEF TwoReqs
    <3>2. PICK h, l : h = i + 1 /\ l = j + 1 OBVIOUS
    <3>3. h \in DOMAIN q /\ l \in DOMAIN q /\ q[h] = p[i] /\ q[l] = p[j] BY <1>4, <3>2
    <3>4. h < l BY <1>4, <3>1, <3>2
    <3> QED BY <3>1, <3>3, <3>4 DEF TwoReqs
  <2> QED BY <2>1, <2>2, <2>3
<1> QED BY <1>1, <1>2, <1>6, <1>7, <1>8, <1>9, <1>10 DEF ReqGone

\* The first request is changed, but not whose and of what kind it is.
LEMMA ReqChanged ==
  ASSUME NEW M, NEW q \in Seq(M), q # <<>>, NEW r \in M,
         r.from = Head(q).from, r.type = Head(q).type, NEW p, p = [q EXCEPT ![1] = r]
  PROVE  ReqSwapped(q, r, p) /\ p \in Seq(M)
<1>1. PICK k : k = Len(q) OBVIOUS
<1>2. k \in Nat /\ DOMAIN q = 1..k /\ 1 \in DOMAIN q /\ Head(q) = q[1] BY <1>1
<1>3. DOMAIN p = 1..k /\ p[1] = r /\ \A i \in 1..k : i # 1 => p[i] = q[i]
  BY <1>2
<1>4. p \in [1..k -> M] BY <1>1, <1>2
<1>5. p \in Seq(M) /\ p # <<>> /\ Head(p) = r BY <1>2, <1>3, <1>4
<1>6. \A i \in 1..k : p[i].from = q[i].from /\ p[i].type = q[i].type BY <1>2, <1>3
<1>7. \A n, T : ReqOf(q, n, T) <=> ReqOf(p, n, T) BY <1>2, <1>3, <1>6 DEF ReqOf
<1>8. \A n : TwoReqs(q, n) <=> TwoReqs(p, n) BY <1>2, <1>3, <1>6 DEF TwoReqs
<1>9. Untouched(q) => Untouched(p) BY <1>2, <1>3 DEF Untouched
<1> QED BY <1>5, <1>7, <1>8, <1>9 DEF ReqSwapped

-----------------------------------------------------------------------------
(* The invariant.                                                          *)

Fresh == {"EX_REQ", "SH_REQ"}
Gives == {"INV_REP", "FLUSH_REP"}
Inserts == {"EX_REP", "SH_REP"}

AnyLine == [st : {"I", "S", "U", "E", "M"}, data : AnyData]
StackOf(C) == [l1 : [C -> AnyLine], llc : AnyLine]
MsgsTyped == toDir \in [Node -> Seq(ShmemMsg)] /\ toCache \in [Node -> Seq(ShmemMsg)]
MemoryTyped ==
  /\ dram \in [Addr -> AnyData]
  /\ fromDram \in Seq([addr : Addr, data : AnyData])
  /\ todo \in [addr : Addr \cup {Nobody}, data : AnyData]
  /\ todo = Idle \/ todo.addr \in Addr
StackTyped ==
  /\ DOMAIN stack = Node
  /\ \A n \in Node : /\ DOMAIN stack[n] = Addr
                     /\ \A a \in Addr : stack[n][a] \in StackOf(CoresOf(n))
WaitersTyped ==
  /\ DOMAIN waiters = Node
  /\ \A n \in Node : waiters[n] \in [Addr -> Seq(Waiter(n))]
  /\ serving \in [Node -> Addr \cup {Nobody}]
HomeTyped == tags \in [Addr -> Entry] /\ reqs \in [Addr -> Seq(Req)]
TypeOK ==
  /\ machine \in Machines
  /\ MsgsTyped /\ MemoryTyped /\ StackTyped /\ WaitersTyped /\ HomeTyped

\* The state of node n's last-level copy.
L(n, a) == stack[n][a].llc.st

\* The request the directory serves first; whether it waits for memory, and
\* whether it is node n's.
First(a) == Head(reqs[a])
Waits(a) == reqs[a] # <<>> /\ First(a).wait
Pend(n, a) == Waits(a) /\ First(a).from = n

\* The entry fits its state, and the directory is not in the middle of a
\* request that waits.
EntryOK(a) ==
  /\ tags[a].where = "absent" => tags[a] = NoEntry
  /\ tags[a].st = "U" => tags[a].sharers = {}
  /\ tags[a].st \in {"E", "M"} => tags[a].sharers = {tags[a].owner}
  /\ Untouched(reqs[a])
  /\ Waits(a) => First(a).type \in Requests
  /\ reqs[a] # <<>> /\ First(a).fwd # Nobody /\ ~First(a).wait => tags[a].st \in {"S", "U"}
  /\ todo.addr = a => reqs[a] # <<>> /\ ~First(a).wait

\* Memory reads a line for the first request only, and once.
InDram(a) == \E i \in DOMAIN fromDram : fromDram[i].addr = a
DramOK(a) ==
  /\ InDram(a) => Waits(a) /\ todo.addr # a
  /\ \A i, j \in DOMAIN fromDram : fromDram[i].addr = a /\ fromDram[j].addr = a => i = j

\* A node has one request or one reply under way, and a core waits for it.
Asked(n, a) ==
  Has(toDir[n], a, Requests) \/ ReqOf(reqs[a], n, Requests) \/ Has(toCache[n], a, Replies)
OneRequest(n, a) ==
  /\ ~Then(toDir[n], a, Requests, Requests)
  /\ ~TwoReqs(reqs[a], n)
  /\ ~Then(toCache[n], a, Replies, Replies)
  /\ Has(toDir[n], a, Requests) => ~ReqOf(reqs[a], n, Requests) /\ ~Has(toCache[n], a, Replies)
  /\ ReqOf(reqs[a], n, Requests) => ~Has(toCache[n], a, Replies)
  /\ Asked(n, a) => L(n, a) \in {"I", "U"}
  /\ Asked(n, a) \/ L(n, a) = "U" => waiters[n][a] # <<>> /\ serving[n] # a
  /\ serving[n] = a => waiters[n][a] # <<>>

\* A copy is in one place: in the cache, on its way to it, or given back.
OneToken(n, a) ==
  /\ Has(toDir[n], a, Gives) =>
       L(n, a) = "I" /\ ~Has(toCache[n], a, Inserts) /\ ~Then(toDir[n], a, Gives, Gives)
  /\ Has(toCache[n], a, Inserts) => L(n, a) = "I"
  /\ Has(toDir[n], a, Fresh) => L(n, a) = "I" /\ ~Then(toDir[n], a, Fresh, Gives)
  /\ ReqOf(reqs[a], n, Fresh) \/ Pend(n, a) => L(n, a) = "I" /\ ~Has(toDir[n], a, Gives)

\* Wherever it is, the directory counts the node as a sharer.
Holds(n, a) ==
  L(n, a) # "I" \/ Has(toDir[n], a, Gives) \/ Has(toCache[n], a, Inserts) \/ Pend(n, a)
Known(n, a) == Holds(n, a) => n \in tags[a].sharers

\* A copy that may be written is the directory's E or M; a shared one its S,
\* but for a write-back or the grant of an upgrade under way.
Exclusive(n, a) ==
  /\ \/ L(n, a) \in {"E", "M"}
     \/ Has(toCache[n], a, {"EX_REP"})
     \/ Pend(n, a) /\ First(a).type # "SH_REQ"
     => tags[a].st \in {"E", "M"}
  /\ Has(toCache[n], a, {"UPGRADE_REP"}) /\ L(n, a) = "U" => tags[a].st = "M" /\ tags[a].owner = n
  /\ L(n, a) \in {"S", "U"} \/ Has(toCache[n], a, {"SH_REP"}) =>
       \/ tags[a].st = "S"
       \/ Has(toDir[n], a, {"WB_REP"})
       \/ Has(toCache[n], a, {"UPGRADE_REP"})

\* A reader waits for what node n writes back.
Reading(n, a) ==
  /\ reqs[a] # <<>> /\ todo.addr # a /\ First(a).type = "SH_REQ" /\ ~First(a).wait
  /\ \/ First(a).fwd = n
     \/ First(a).fwd = Nobody /\ tags[a].st \in {"E", "M"} /\ tags[a].owner = n

\* A write-back is on its way only as long as the reader waits for it, and a
\* demand for one that nobody waits for any more finds no copy.
WbOK(n, a) ==
  /\ Has(toDir[n], a, {"WB_REP"}) =>
       /\ Reading(n, a)
       /\ L(n, a) \notin {"E", "M"}
       /\ ~Has(toCache[n], a, {"EX_REP"}) /\ ~Has(toCache[n], a, {"UPGRADE_REP"})
       /\ ~Has(toCache[n], a, {"WB_REQ"})
       /\ ~Then(toDir[n], a, {"WB_REP"}, {"WB_REP"}) /\ ~Then(toDir[n], a, Gives, {"WB_REP"})
       /\ ~Has(toDir[n], a, {"FLUSH_REP"})
  /\ Has(toCache[n], a, {"WB_REQ"}) /\ ~Reading(n, a) =>
       L(n, a) = "I" /\ ~Then(toCache[n], a, Inserts, {"WB_REQ"})
  /\ Then(toCache[n], a, {"WB_REQ"}, {"WB_REQ"}) => L(n, a) = "I"
  /\ ~Then3(toCache[n], a, Inserts, {"WB_REQ"}, {"WB_REQ"})
  /\ Then(toCache[n], a, {"WB_REQ"}, {"UPGRADE_REP"}) => L(n, a) = "I"

\* An upgrade collects all copies, its node having lost its own; a request
\* waits for what the owner n flushes.
Collecting(a) ==
  /\ reqs[a] # <<>> /\ todo.addr # a /\ First(a).type = "UPGRADE_REQ"
  /\ tags[a].st = "S" /\ First(a).from \notin tags[a].sharers
Flushing(n, a) ==
  \/ Collecting(a)
  \/ /\ reqs[a] # <<>> /\ todo.addr # a
     /\ First(a).type \in {"EX_REQ", "UPGRADE_REQ", "NULLIFY_REQ"} /\ ~First(a).wait
     /\ tags[a].st \in {"E", "M"} /\ tags[a].owner = n

\* The same for flushed data; a modified line may also be given up unasked.
FlushOK(n, a) ==
  /\ Has(toDir[n], a, {"FLUSH_REP"}) => Collecting(a) \/ tags[a].st \in {"E", "M"}
  /\ Has(toCache[n], a, {"FLUSH_REQ"}) /\ ~Flushing(n, a) =>
       L(n, a) = "I" /\ ~Then(toCache[n], a, Inserts, {"FLUSH_REQ"})

\* Within a node: the first levels have at most one modified copy, which holds
\* the last write; waiting cores hold nothing but for the one being served.
UpgradeOf(n, a) ==
  \/ Has(toDir[n], a, {"UPGRADE_REQ"})
  \/ ReqOf(reqs[a], n, {"UPGRADE_REQ"})
  \/ Has(toCache[n], a, {"UPGRADE_REP"})
Alone(k) == \A c, d \in DOMAIN k.l1 : k.l1[c].st = "M" /\ k.l1[d].st = "M" => c = d
Included(k) ==
  \A c \in DOMAIN k.l1 : /\ k.l1[c].st # "U"
                         /\ k.l1[c].st # "I" => k.llc.st # "I"
                         /\ k.l1[c].st = "M" => k.llc.st = "M"
Written(k) == k.llc.st = "M" => Newest(k) = "last"
Queued(k, w, s, a) ==
  /\ \A i, j \in DOMAIN w : w[i].core = w[j].core => i = j
  /\ \A i \in DOMAIN w : k.l1[w[i].core].st = "I" \/ (s = a /\ i = 1)
LocalOK(n, a) ==
  /\ Alone(stack[n][a]) /\ Included(stack[n][a]) /\ Written(stack[n][a])
  /\ Queued(stack[n][a], waiters[n][a], serving[n], a)
  /\ UpgradeOf(n, a) => Head(waiters[n][a]).exclusive

HomeOK(a) == EntryOK(a) /\ DramOK(a)
NodeOK(n, a) ==
  /\ OneRequest(n, a) /\ OneToken(n, a) /\ Known(n, a)
  /\ Exclusive(n, a) /\ WbOK(n, a) /\ FlushOK(n, a)
Sound ==
  /\ TypeOK
  /\ \A a \in Addr : HomeOK(a)
  /\ \A n \in Node, a \in Addr : NodeOK(n, a)
  /\ \A n \in Node, a \in Addr : LocalOK(n, a)
Inv == Running => Sound

-----------------------------------------------------------------------------
(* What a step leaves alone.                                               *)

SameEntry(a) ==
  tags'[a].st = tags[a].st /\ tags'[a].sharers = tags[a].sharers /\ tags'[a].owner = tags[a].owner
SameHome(a) ==
  /\ SameEntry(a) /\ reqs'[a] = reqs[a]
  /\ todo'.addr = a <=> todo.addr = a
SameView(n, a) ==
  /\ L(n, a)' = L(n, a)
  /\ waiters'[n][a] = waiters[n][a]
  /\ serving'[n] = a <=> serving[n] = a
  /\ Alike(toDir[n], toDir'[n], a) /\ Alike(toCache[n], toCache'[n], a)

\* The home's predicates depend on the home only.
LEMMA HomeFrame ==
  ASSUME NEW a, SameHome(a)
  PROVE  /\ First(a)' = First(a)
         /\ Waits(a)' <=> Waits(a)
         /\ Collecting(a)' <=> Collecting(a)
         /\ \A n, T : ReqOf(reqs'[a], n, T) <=> ReqOf(reqs[a], n, T)
         /\ \A n : TwoReqs(reqs'[a], n) <=> TwoReqs(reqs[a], n)
         /\ \A n : /\ Pend(n, a)' <=> Pend(n, a)
                   /\ Reading(n, a)' <=> Reading(n, a)
                   /\ Flushing(n, a)' <=> Flushing(n, a)
<1>1. First(a)' = First(a) BY DEF SameHome, First
<1>2. Waits(a)' <=> Waits(a) BY <1>1 DEF SameHome, Waits
<1>3. Collecting(a)' <=> Collecting(a) BY <1>1 DEF SameHome, SameEntry, Collecting
<1>4. /\ \A n, T : ReqOf(reqs'[a], n, T) <=> ReqOf(reqs[a], n, T)
      /\ \A n : TwoReqs(reqs'[a], n) <=> TwoReqs(reqs[a], n)
  BY DEF SameHome
<1>5. \A n : Pend(n, a)' <=> Pend(n, a) BY <1>1, <1>2 DEF Pend
<1>6. \A n : Reading(n, a)' <=> Reading(n, a) BY <1>1 DEF SameHome, SameEntry, Reading
<1>7. \A n : Flushing(n, a)' <=> Flushing(n, a) BY <1>1, <1>3 DEF SameHome, SameEntry, Flushing
<1> QED BY <1>1, <1>2, <1>3, <1>4, <1>5, <1>6, <1>7

\* A node that is not concerned.
LEMMA NodeFrame ==
  ASSUME NEW n, NEW a, NodeOK(n, a), SameHome(a), SameView(n, a)
  PROVE  NodeOK(n, a)'
<1> USE HomeFrame DEF SameHome, SameEntry, SameView, Alike
<1>1. OneRequest(n, a)' BY DEF NodeOK, OneRequest, Asked
<1>2. OneToken(n, a)' BY DEF NodeOK, OneToken
<1>3. Known(n, a)' BY DEF NodeOK, Known, Holds
<1>4. Exclusive(n, a)' BY DEF NodeOK, Exclusive
<1>5. WbOK(n, a)' BY DEF NodeOK, WbOK
<1>6. FlushOK(n, a)' BY DEF NodeOK, FlushOK
<1> QED BY <1>1, <1>2, <1>3, <1>4, <1>5, <1>6 DEF NodeOK

-----------------------------------------------------------------------------
(* Steps of a cache, seen from its own line.                               *)

\* How the kinds of messages are related.
LEMMA Kinds ==
  ASSUME NEW q, NEW a
  PROVE  /\ Has(q, a, Requests) <=> Has(q, a, Fresh) \/ Has(q, a, {"UPGRADE_REQ"})
         /\ Has(q, a, Gives) <=> Has(q, a, {"INV_REP"}) \/ Has(q, a, {"FLUSH_REP"})
         /\ Has(q, a, Inserts) <=> Has(q, a, {"EX_REP"}) \/ Has(q, a, {"SH_REP"})
         /\ Has(q, a, Replies) <=> Has(q, a, Inserts) \/ Has(q, a, {"UPGRADE_REP"})
BY DEF Has, Requests, Fresh, Gives, Inserts, Replies
LEMMA ReqKinds ==
  ASSUME NEW q, NEW n
  PROVE  ReqOf(q, n, Requests) <=> ReqOf(q, n, Fresh) \/ ReqOf(q, n, {"UPGRADE_REQ"})
BY DEF ReqOf, Requests, Fresh

\* A node that waits for memory has a request in the queue.
LEMMA PendAsked ==
  ASSUME NEW n, NEW a, EntryOK(a), reqs[a] \in Seq(Req), Pend(n, a)
  PROVE  ReqOf(reqs[a], n, Requests)
<1>1. reqs[a] # <<>> /\ First(a).from = n /\ First(a).type \in Requests
  BY DEF Pend, Waits, EntryOK
<1>2. 1 \in DOMAIN reqs[a] /\ reqs[a][1] = First(a) BY <1>1 DEF First
<1> QED BY <1>1, <1>2 DEF ReqOf

\* Nothing is sent or received; a writable copy may change between E and M.
LEMMA KeepStep ==
  ASSUME NEW n, NEW a, NodeOK(n, a), SameHome(a),
         Alike(toDir[n], toDir'[n], a), Alike(toCache[n], toCache'[n], a),
         L(n, a)' = L(n, a) \/ (L(n, a) \in {"E", "M"} /\ L(n, a)' \in {"E", "M"}),
         Asked(n, a) \/ L(n, a) = "U" => waiters'[n][a] # <<>> /\ serving'[n] # a,
         serving'[n] = a => waiters'[n][a] # <<>>
  PROVE  NodeOK(n, a)'
<1> USE HomeFrame DEF SameHome, SameEntry, Alike
<1>1. OneRequest(n, a)' BY DEF NodeOK, OneRequest, Asked
<1>2. OneToken(n, a)' BY DEF NodeOK, OneToken
<1>3. Known(n, a)' BY DEF NodeOK, Known, Holds
<1>4. Exclusive(n, a)' BY DEF NodeOK, Exclusive
<1>5. WbOK(n, a)' BY DEF NodeOK, WbOK
<1>6. FlushOK(n, a)' BY DEF NodeOK, FlushOK
<1> QED BY <1>1, <1>2, <1>3, <1>4, <1>5, <1>6 DEF NodeOK

\* The first waiter asks the directory.
LEMMA AskStep ==
  ASSUME NEW n, NEW a, NodeOK(n, a), SameHome(a), NEW t,
         Longer(toDir[n], toDir'[n], a, t), Alike(toCache[n], toCache'[n], a),
         ~Asked(n, a), waiters'[n][a] # <<>>, serving'[n] # a,
         \/ t \in Fresh /\ L(n, a) = "I" /\ L(n, a)' = "I"
         \/ t = "UPGRADE_REQ" /\ L(n, a) = "S" /\ L(n, a)' = "U"
  PROVE  NodeOK(n, a)'
<1> USE HomeFrame, Kinds, ReqKinds, ThenHas DEF SameHome, SameEntry, Alike, Longer, Requests, Replies, Fresh, Gives, Inserts
<1>1. OneRequest(n, a)' BY DEF NodeOK, OneRequest, Asked
<1>2. OneToken(n, a)' BY DEF NodeOK, OneToken, OneRequest, Asked
<1>3. Known(n, a)' BY DEF NodeOK, Known, Holds
<1>4. Exclusive(n, a)' BY DEF NodeOK, Exclusive, Asked, OneRequest
<1>5. WbOK(n, a)' BY DEF NodeOK, WbOK
<1>6. FlushOK(n, a)' BY DEF NodeOK, FlushOK
<1> QED BY <1>1, <1>2, <1>3, <1>4, <1>5, <1>6 DEF NodeOK

\* A reply is taken.
LEMMA ReplyStep ==
  ASSUME NEW n, NEW a, NodeOK(n, a), SameHome(a), NEW t,
         Pend(n, a) => ReqOf(reqs[a], n, Requests),
         Alike(toDir[n], toDir'[n], a), Shorter(toCache[n], toCache'[n], a, t),
         serving'[n] = a => waiters'[n][a] # <<>>,
         \/ t = "EX_REP" /\ L(n, a) = "I" /\ L(n, a)' \in {"E", "M"}
         \/ t = "SH_REP" /\ L(n, a) = "I" /\ L(n, a)' = "S"
         \/ t = "UPGRADE_REP" /\ L(n, a) = "U" /\ L(n, a)' = "M"
  PROVE  NodeOK(n, a)'
<1> USE HomeFrame, Kinds, ReqKinds, ThenHas DEF SameHome, SameEntry, Alike, Shorter, Requests, Replies, Fresh, Gives, Inserts
<1>1. OneRequest(n, a)' BY DEF NodeOK, OneRequest, Asked
<1>2. OneToken(n, a)' BY DEF NodeOK, OneToken, OneRequest
<1>3. Known(n, a)' BY DEF NodeOK, Known, Holds
<1>4. Exclusive(n, a)' BY DEF NodeOK, Exclusive, OneRequest
<1>5. WbOK(n, a)' BY DEF NodeOK, WbOK, OneRequest
<1>6. FlushOK(n, a)' BY DEF NodeOK, FlushOK
<1> QED BY <1>1, <1>2, <1>3, <1>4, <1>5, <1>6 DEF NodeOK

\* A shared reply is taken and the next waiter wants to write.
LEMMA ReplyAskStep ==
  ASSUME NEW n, NEW a, NodeOK(n, a), SameHome(a),
         Pend(n, a) => ReqOf(reqs[a], n, Requests),
         Longer(toDir[n], toDir'[n], a, "UPGRADE_REQ"),
         Shorter(toCache[n], toCache'[n], a, "SH_REP"),
         waiters'[n][a] # <<>>, serving'[n] # a, L(n, a) = "I", L(n, a)' = "U"
  PROVE  NodeOK(n, a)'
<1> USE HomeFrame, Kinds, ReqKinds, ThenHas
    DEF SameHome, SameEntry, Longer, Shorter, Requests, Replies, Fresh, Gives, Inserts
<1>1. OneRequest(n, a)' BY DEF NodeOK, OneRequest, Asked
<1>2. OneToken(n, a)' BY DEF NodeOK, OneToken, OneRequest
<1>3. Known(n, a)' BY DEF NodeOK, Known, Holds
<1>4. Exclusive(n, a)' BY DEF NodeOK, Exclusive, OneRequest
<1>5. WbOK(n, a)' BY DEF NodeOK, WbOK, OneRequest
<1>6. FlushOK(n, a)' BY DEF NodeOK, FlushOK
<1> QED BY <1>1, <1>2, <1>3, <1>4, <1>5, <1>6 DEF NodeOK

\* A demand finds no copy.
LEMMA IgnoreStep ==
  ASSUME NEW n, NEW a, NodeOK(n, a), SameHome(a), NEW t \in {"INV_REQ", "FLUSH_REQ", "WB_REQ"},
         Alike(toDir[n], toDir'[n], a), Shorter(toCache[n], toCache'[n], a, t),
         waiters'[n][a] = waiters[n][a], serving'[n] = serving[n],
         L(n, a) = "I", L(n, a)' = "I"
  PROVE  NodeOK(n, a)'
<1> USE HomeFrame, Kinds, ReqKinds, ThenHas
    DEF SameHome, SameEntry, Alike, Shorter, Requests, Replies, Fresh, Gives, Inserts
<1>1. OneRequest(n, a)' BY DEF NodeOK, OneRequest, Asked
<1>2. OneToken(n, a)' BY DEF NodeOK, OneToken, OneRequest
<1>3. Known(n, a)' BY DEF NodeOK, Known, Holds
<1>4. Exclusive(n, a)' BY DEF NodeOK, Exclusive
<1>5. WbOK(n, a)' BY DEF NodeOK, WbOK
<1>6. FlushOK(n, a)' BY DEF NodeOK, FlushOK
<1> QED BY <1>1, <1>2, <1>3, <1>4, <1>5, <1>6 DEF NodeOK

\* A copy is given up, asked for or not.
LEMMA GiveStep ==
  ASSUME NEW n, NEW a, NodeOK(n, a), SameHome(a), NEW t,
         Longer(toDir[n], toDir'[n], a, t),
         \/ Alike(toCache[n], toCache'[n], a)
         \/ Shorter(toCache[n], toCache'[n], a, "INV_REQ")
         \/ Shorter(toCache[n], toCache'[n], a, "FLUSH_REQ"),
         waiters'[n][a] = waiters[n][a], serving'[n] = serving[n],
         L(n, a) # "I", L(n, a)' = "I",
         \/ t = "INV_REP"
         \/ t = "FLUSH_REP" /\ (L(n, a) = "M" \/ Has(toCache[n], a, {"FLUSH_REQ"}))
  PROVE  NodeOK(n, a)'
<1> USE HomeFrame, Kinds, ReqKinds, ThenHas
    DEF SameHome, SameEntry, Longer, Requests, Replies, Fresh, Gives, Inserts
<1>0. /\ Has(toCache'[n], a, {"WB_REQ"}) => Has(toCache[n], a, {"WB_REQ"})
      /\ Has(toCache'[n], a, {"FLUSH_REQ"}) => Has(toCache[n], a, {"FLUSH_REQ"})
      /\ \A T : "INV_REQ" \notin T /\ "FLUSH_REQ" \notin T =>
           /\ Has(toCache'[n], a, T) <=> Has(toCache[n], a, T)
           /\ \A U : Then(toCache'[n], a, T, U) <=> Then(toCache[n], a, T, U)
           /\ \A U, V : Then3(toCache'[n], a, T, U, V) <=> Then3(toCache[n], a, T, U, V)
  BY DEF Alike, Shorter
<1>1. OneRequest(n, a)' BY <1>0 DEF NodeOK, OneRequest, Asked
<1>2. OneToken(n, a)' BY <1>0 DEF NodeOK, OneToken, OneRequest
<1>3. Known(n, a)' BY <1>0 DEF NodeOK, Known, Holds
<1>4. Exclusive(n, a)' BY <1>0 DEF NodeOK, Exclusive, OneToken
<1>5. WbOK(n, a)' BY <1>0 DEF NodeOK, WbOK, OneToken, FlushOK, Flushing, Collecting, Reading
<1>6. FlushOK(n, a)' BY <1>0 DEF NodeOK, FlushOK, Flushing, Exclusive, OneToken
<1> QED BY <1>1, <1>2, <1>3, <1>4, <1>5, <1>6 DEF NodeOK

\* A copy is written back and kept.
LEMMA WriteBackStep ==
  ASSUME NEW n, NEW a, NodeOK(n, a), SameHome(a),
         Longer(toDir[n], toDir'[n], a, "WB_REP"),
         Shorter(toCache[n], toCache'[n], a, "WB_REQ"),
         waiters'[n][a] = waiters[n][a], serving'[n] = serving[n],
         L(n, a) # "I", L(n, a)' = IF L(n, a) = "U" THEN "U" ELSE "S"
  PROVE  NodeOK(n, a)'
<1> USE HomeFrame, Kinds, ReqKinds, ThenHas
    DEF SameHome, SameEntry, Longer, Shorter, Requests, Replies, Fresh, Gives, Inserts
<1>1. OneRequest(n, a)' BY DEF NodeOK, OneRequest, Asked
<1>2. OneToken(n, a)' BY DEF NodeOK, OneToken, OneRequest
<1>3. Known(n, a)' BY DEF NodeOK, Known, Holds
<1>4. Exclusive(n, a)' BY DEF NodeOK, Exclusive, OneToken
<1>5. WbOK(n, a)' BY DEF NodeOK, WbOK, OneToken
<1>6. FlushOK(n, a)' BY DEF NodeOK, FlushOK, OneToken
<1> QED BY <1>1, <1>2, <1>3, <1>4, <1>5, <1>6 DEF NodeOK

-----------------------------------------------------------------------------
(* Steps of the directory on line a, seen from a node.                     *)

SameCache(n, a) ==
  L(n, a)' = L(n, a) /\ waiters'[n][a] = waiters[n][a] /\ serving'[n] = serving[n]

\* Nothing of n is waited for on line a.
Unasked(n, a) == ~Reading(n, a) /\ ~Collecting(a) /\ ~Flushing(n, a)

\* A request of node p is queued.
LEMMA QueuedStep ==
  ASSUME NEW n, NEW a, NodeOK(n, a), SameCache(n, a), SameEntry(a),
         NEW p, NEW t \in Requests, NEW q, q = reqs[a],
         todo.addr # a,
         reqs[a] = <<>> => todo'.addr = a /\ reqs'[a] # <<>> /\ ~First(a)'.wait,
         reqs[a] # <<>> => todo'.addr # a /\ reqs'[a] # <<>> /\ First(a)' = First(a),
         \A m, T : ReqOf(reqs'[a], m, T) <=> ReqOf(q, m, T) \/ (p = m /\ t \in T),
         \A m : TwoReqs(reqs'[a], m) <=>
                  TwoReqs(q, m) \/ (ReqOf(q, m, Requests) /\ p = m),
         Alike(toCache[n], toCache'[n], a),
         n = p => Shorter(toDir[n], toDir'[n], a, t),
         n # p => Alike(toDir[n], toDir'[n], a)
  PROVE  NodeOK(n, a)'
<1> USE Kinds, ReqKinds, ThenHas DEF SameEntry, SameCache, Requests, Fresh, Gives
<1>1. /\ Waits(a)' <=> Waits(a)
      /\ Pend(n, a)' <=> Pend(n, a)
      /\ Pend(n, a) => First(a)' = First(a)
  BY DEF Waits, Pend
<1>2. Reading(n, a)' <=> Reading(n, a) BY DEF Reading
<1>3. Collecting(a)' <=> Collecting(a) BY DEF Collecting
<1>4. Flushing(n, a)' <=> Flushing(n, a) BY <1>3 DEF Flushing
<1> USE <1>1, <1>2, <1>3, <1>4
<1>5. /\ \A T : Has(toDir'[n], a, T) => Has(toDir[n], a, T)
      /\ \A T : t \notin T => (Has(toDir'[n], a, T) <=> Has(toDir[n], a, T))
      /\ \A T, U : Then(toDir'[n], a, T, U) => Then(toDir[n], a, T, U)
      /\ p = n => ~Has(toDir'[n], a, Requests) /\ Has(toDir[n], a, Requests)
      /\ p = n /\ t \in Fresh => ~Has(toDir'[n], a, Gives) /\ Has(toDir[n], a, Fresh)
  <2>1. CASE n = p BY <2>1 DEF Shorter, NodeOK, OneRequest, OneToken
  <2>2. CASE n # p BY <2>2 DEF Alike
  <2> QED BY <2>1, <2>2
<1> USE <1>5 DEF Alike
<1>11. OneRequest(n, a)' BY DEF NodeOK, OneRequest, Asked
<1>12. OneToken(n, a)' BY DEF NodeOK, OneToken, OneRequest
<1>13. Known(n, a)' BY DEF NodeOK, Known, Holds
<1>14. Exclusive(n, a)' BY DEF NodeOK, Exclusive
<1>15. WbOK(n, a)' BY DEF NodeOK, WbOK
<1>16. FlushOK(n, a)' BY DEF NodeOK, FlushOK
<1> QED BY <1>11, <1>12, <1>13, <1>14, <1>15, <1>16 DEF NodeOK

\* Copies are called back: the directory is done with the request for now.  It
\* may have entered the requester as a sharer.
LEMMA CallStep ==
  ASSUME NEW n, NEW a, NodeOK(n, a), SameCache(n, a),
         tags'[a].st = tags[a].st, tags[a].st = "M" => tags'[a].owner = tags[a].owner,
         tags[a].sharers \subseteq tags'[a].sharers,
         Unasked(n, a), ~Waits(a), ~Waits(a)',
         \A m : \A T \in {Requests, Fresh} : ReqOf(reqs'[a], m, T) <=> ReqOf(reqs[a], m, T),
         \A m : TwoReqs(reqs'[a], m) <=> TwoReqs(reqs[a], m),
         Alike(toDir[n], toDir'[n], a),
         \/ Alike(toCache[n], toCache'[n], a)
         \/ Longer(toCache[n], toCache'[n], a, "INV_REQ")
         \/ Longer(toCache[n], toCache'[n], a, "FLUSH_REQ") /\ Flushing(n, a)'
         \/ Longer(toCache[n], toCache'[n], a, "WB_REQ") /\ Reading(n, a)'
  PROVE  NodeOK(n, a)'
<1> USE Kinds, ThenHas DEF SameCache, Unasked, Pend, Alike, Longer, Requests, Fresh, Gives, Replies, Inserts
<1>11. OneRequest(n, a)' BY DEF NodeOK, OneRequest, Asked
<1>12. OneToken(n, a)' BY DEF NodeOK, OneToken
<1>13. Known(n, a)' BY DEF NodeOK, Known, Holds
<1>14. Exclusive(n, a)' BY DEF NodeOK, Exclusive
<1>15. WbOK(n, a)' BY DEF NodeOK, WbOK
<1>16. FlushOK(n, a)' BY DEF NodeOK, FlushOK
<1> QED BY <1>11, <1>12, <1>13, <1>14, <1>15, <1>16 DEF NodeOK

\* Node p has given up its copy: what this is for another node n ...
LEMMA GivenOther ==
  ASSUME NEW n, NEW a, NEW p, n # p, NodeOK(n, a), NodeOK(p, a), EntryOK(a), SameCache(n, a),
         p \in tags[a].sharers, tags[a].st \in {"U", "S", "E", "M"}, todo.addr # a,
         tags'[a].sharers = tags[a].sharers \ {p},
         tags[a].sharers \ {p} # {} => tags'[a].st = tags[a].st,
         reqs[a] # <<>> => /\ reqs'[a] # <<>>
                           /\ First(a)'.type = First(a).type /\ First(a)'.from = First(a).from
                           /\ First(a)'.wait = First(a).wait /\ First(a)'.fwd = First(a).fwd,
         reqs[a] = <<>> => reqs'[a] = <<>>,
         \A m, T : ReqOf(reqs'[a], m, T) <=> ReqOf(reqs[a], m, T),
         \A m : TwoReqs(reqs'[a], m) <=> TwoReqs(reqs[a], m),
         Reading(n, a) /\ First(a).fwd = n => todo'.addr # a,
         Collecting(a) /\ n \in tags[a].sharers => todo'.addr # a,
         Alike(toDir[n], toDir'[n], a), Alike(toCache[n], toCache'[n], a)
  PROVE  NodeOK(n, a)'
<1> USE Kinds, ThenHas DEF SameCache, Alike
<1>1. Pend(n, a)' <=> Pend(n, a) BY DEF Pend, Waits
<1>2. n \in tags[a].sharers => tags'[a].st = tags[a].st /\ tags[a].st = "S"
  <2>1. n \in tags[a].sharers => tags'[a].st = tags[a].st /\ tags[a].st \notin {"U", "E", "M"}
    BY DEF EntryOK
  <2> QED BY <2>1
<1>3. ~Holds(n, a) \/ n \in tags[a].sharers BY DEF NodeOK, Known
<1>4. Reading(n, a) => Reading(n, a)'
  <2>1. ASSUME Reading(n, a), First(a).fwd # n PROVE FALSE
    <3>1. tags[a].st \in {"E", "M"} /\ tags[a].owner = n BY <2>1 DEF Reading
    <3> QED BY <3>1 DEF EntryOK
  <2>2. ASSUME Reading(n, a), First(a).fwd = n PROVE Reading(n, a)'
    BY <2>2 DEF Reading
  <2> QED BY <2>1, <2>2
<1>5. n \in tags[a].sharers /\ Collecting(a) => Collecting(a)' BY <1>2 DEF Collecting
<1>6. n \in tags[a].sharers /\ Flushing(n, a) => Flushing(n, a)'
  <2>1. n \in tags[a].sharers /\ Flushing(n, a) => Collecting(a) BY <1>2 DEF Flushing
  <2> QED BY <1>5, <2>1 DEF Flushing
<1>11. OneRequest(n, a)' BY DEF NodeOK, OneRequest, Asked
<1>12. OneToken(n, a)' BY <1>1 DEF NodeOK, OneToken
<1>13. Known(n, a)' BY <1>1 DEF NodeOK, Known, Holds
<1>14. Exclusive(n, a)' BY <1>1, <1>2, <1>3 DEF NodeOK, Exclusive, Holds, Pend, Waits
<1>15. WbOK(n, a)' BY <1>4 DEF NodeOK, WbOK
<1>16. FlushOK(n, a)' BY <1>2, <1>3, <1>5, <1>6 DEF NodeOK, FlushOK, Holds
<1> QED BY <1>11, <1>12, <1>13, <1>14, <1>15, <1>16 DEF NodeOK

\* ... and for p itself.
LEMMA GivenOwn ==
  ASSUME NEW n, NEW a, NodeOK(n, a), SameCache(n, a), NEW t \in Gives,
         reqs[a] # <<>> => /\ reqs'[a] # <<>>
                           /\ First(a)'.type = First(a).type /\ First(a)'.from = First(a).from
                           /\ First(a)'.wait = First(a).wait,
         reqs[a] = <<>> => reqs'[a] = <<>>,
         \A m, T : ReqOf(reqs'[a], m, T) <=> ReqOf(reqs[a], m, T),
         \A m : TwoReqs(reqs'[a], m) <=> TwoReqs(reqs[a], m),
         Shorter(toDir[n], toDir'[n], a, t), Alike(toCache[n], toCache'[n], a)
  PROVE  NodeOK(n, a)'
<1> USE Kinds, ReqKinds, ThenHas
    DEF SameCache, Alike, Shorter, Gives, Fresh, Requests, Replies, Inserts
<1>1. Pend(n, a)' <=> Pend(n, a) BY DEF Pend, Waits
<1>2. Has(toDir[n], a, Gives) OBVIOUS
<1>3. ~Pend(n, a) /\ ~ReqOf(reqs[a], n, Fresh) /\ L(n, a) = "I" /\ ~Has(toCache[n], a, Inserts)
      /\ ~Has(toDir'[n], a, Gives)
  BY <1>2 DEF NodeOK, OneToken
<1>4. ~Has(toDir'[n], a, {"WB_REP"}) BY DEF NodeOK, WbOK
<1>11. OneRequest(n, a)' BY DEF NodeOK, OneRequest, Asked
<1>12. OneToken(n, a)' BY <1>1, <1>3 DEF NodeOK, OneToken
<1>13. Known(n, a)' BY <1>1, <1>3 DEF Known, Holds
<1>14. Exclusive(n, a)' BY <1>1, <1>3 DEF NodeOK, Exclusive
<1>15. WbOK(n, a)' BY <1>3, <1>4 DEF NodeOK, WbOK
<1>16. FlushOK(n, a)' BY <1>3 DEF NodeOK, FlushOK
<1> QED BY <1>11, <1>12, <1>13, <1>14, <1>15, <1>16 DEF NodeOK

\* Node p has written back.
LEMMA WrittenBackStep ==
  ASSUME NEW n, NEW a, NEW p, NodeOK(n, a), NodeOK(p, a), EntryOK(a), SameCache(n, a),
         n # Nobody, p # Nobody, p \in tags[a].sharers, Has(toDir[p], a, {"WB_REP"}),
         tags'[a].sharers = tags[a].sharers, tags'[a].st = "S",
         reqs'[a] = reqs[a],
         n = p => Shorter(toDir[n], toDir'[n], a, "WB_REP"),
         n # p => Alike(toDir[n], toDir'[n], a),
         Alike(toCache[n], toCache'[n], a)
  PROVE  NodeOK(n, a)'
<1> USE Kinds, ThenHas DEF SameCache, Gives, Fresh, Requests, Replies, Inserts
<1>1. Reading(p, a) BY DEF NodeOK, WbOK
<1>2. ~Waits(a) /\ ~Waits(a)' BY <1>1 DEF Reading, Waits, First
<1>3. /\ \A T : Has(toDir'[n], a, T) => Has(toDir[n], a, T)
      /\ \A T : "WB_REP" \notin T => (Has(toDir'[n], a, T) <=> Has(toDir[n], a, T))
      /\ \A T, U : Then(toDir'[n], a, T, U) => Then(toDir[n], a, T, U)
  BY DEF Shorter, Alike
<1>4. ~Has(toDir'[n], a, {"WB_REP"})
  <2>1. CASE n = p BY <2>1 DEF Shorter, NodeOK, WbOK
  <2>2. CASE n # p
    <3>1. ~Reading(n, a) BY <1>1, <2>2 DEF Reading, EntryOK
    <3> QED BY <1>3, <3>1 DEF NodeOK, WbOK
  <2> QED BY <2>1, <2>2
<1>5. tags[a].st \in {"E", "M"} /\ Holds(n, a) => n = p BY DEF NodeOK, Known, EntryOK
<1>6. ~Collecting(a) /\ ~Flushing(n, a) /\ (n # p => ~Reading(n, a))
  BY <1>1 DEF Collecting, Flushing, Reading
<1>11. OneRequest(n, a)' BY <1>3 DEF NodeOK, OneRequest, Asked, Alike
<1>12. OneToken(n, a)' BY <1>2, <1>3 DEF NodeOK, OneToken, Alike, Pend
<1>13. Known(n, a)' BY <1>2, <1>3 DEF NodeOK, Known, Holds, Alike, Pend
<1>14. Exclusive(n, a)'
  <2>1. tags[a].st \notin {"E", "M"} \/ n = p \/ ~Holds(n, a) BY <1>5
  <2>2. n = p => L(n, a) \notin {"E", "M"} /\ ~Has(toCache[n], a, {"EX_REP"})
                 /\ ~Has(toCache[n], a, {"UPGRADE_REP"})
    BY DEF NodeOK, WbOK
  <2> QED BY <1>2, <2>1, <2>2 DEF NodeOK, Exclusive, Holds, Alike, Pend
<1>15. WbOK(n, a)'
  <2>1. n = p => ~Has(toCache[n], a, {"WB_REQ"}) BY DEF NodeOK, WbOK
  <2> QED BY <1>4, <1>6, <2>1 DEF NodeOK, WbOK, Alike
<1>16. FlushOK(n, a)'
  <2>1. ~Has(toDir[n], a, {"FLUSH_REP"})
    <3>1. n = p => ~Has(toDir[n], a, {"FLUSH_REP"}) BY DEF NodeOK, WbOK
    <3> QED BY <1>5, <1>6, <3>1 DEF NodeOK, FlushOK, Holds
  <2> QED BY <1>3, <1>6, <2>1 DEF NodeOK, FlushOK, Alike
<1> QED BY <1>11, <1>12, <1>13, <1>14, <1>15, <1>16 DEF NodeOK

\* The first request of line a, r, leaves the queue.
Popped(a, r) ==
  /\ \A m, T : ReqOf(reqs[a], m, T) <=> (r.from = m /\ r.type \in T) \/ ReqOf(reqs'[a], m, T)
  /\ \A m : TwoReqs(reqs[a], m) <=>
       (r.from = m /\ r.type \in Requests /\ ReqOf(reqs'[a], m, Requests)) \/ TwoReqs(reqs'[a], m)
  /\ ~Waits(a)'

\* Memory's answer is passed on.
LEMMA AnswerStep ==
  ASSUME NEW n, NEW a, NEW r, NodeOK(n, a), SameCache(n, a), SameEntry(a),
         Waits(a), r = First(a), r.type \in Requests, Popped(a, r), Unasked(n, a)',
         NEW t, (t = "EX_REP" /\ tags[a].st \in {"E", "M"}) \/ (t = "SH_REP" /\ tags[a].st = "S"),
         Unasked(n, a),
         Alike(toDir[n], toDir'[n], a),
         n = r.from => Longer(toCache[n], toCache'[n], a, t),
         n # r.from => Alike(toCache[n], toCache'[n], a)
  PROVE  NodeOK(n, a)'
<1> USE Kinds, ReqKinds, ThenHas DEF SameCache, SameEntry, Unasked, Fresh, Requests, Replies, Inserts
<1>1. CASE n = r.from
  <2>1. Pend(n, a) BY <1>1 DEF Pend
  <2>2. L(n, a) = "I" /\ ~Has(toDir[n], a, Gives) BY <2>1 DEF NodeOK, OneToken
  <2>3. ReqOf(reqs[a], n, Requests) BY <1>1 DEF Popped
  <2>4. /\ ~ReqOf(reqs'[a], n, Requests) /\ ~TwoReqs(reqs'[a], n)
        /\ ~Has(toDir[n], a, Requests) /\ ~Has(toCache[n], a, Replies)
    BY <1>1, <2>3 DEF NodeOK, OneRequest, Popped
  <2>5. n \in tags[a].sharers BY <2>1 DEF NodeOK, Known, Holds
  <2>6. ~Has(toDir[n], a, {"WB_REP"}) BY DEF NodeOK, WbOK
  <2>7. ~Has(toCache[n], a, Inserts) BY <2>4
  <2>8. ~Pend(n, a)' BY DEF Popped, Pend
  <2> USE <1>1, <2>2, <2>4, <2>7, <2>8 DEF Longer, Alike
  <2>11. OneRequest(n, a)' BY <2>3 DEF NodeOK, OneRequest, Asked
  <2>12. OneToken(n, a)' BY DEF NodeOK, OneToken
  <2>13. Known(n, a)' BY <2>5 DEF Known
  <2>14. Exclusive(n, a)' BY DEF NodeOK, Exclusive
  <2>15. WbOK(n, a)' BY <2>6 DEF NodeOK, WbOK
  <2>16. FlushOK(n, a)' BY DEF NodeOK, FlushOK
  <2> QED BY <2>11, <2>12, <2>13, <2>14, <2>15, <2>16 DEF NodeOK
<1>2. CASE n # r.from
  <2>1. ~Pend(n, a) /\ ~Pend(n, a)' BY <1>2 DEF Popped, Pend
  <2>2. \A T : ReqOf(reqs'[a], n, T) <=> ReqOf(reqs[a], n, T) BY <1>2 DEF Popped
  <2>3. TwoReqs(reqs'[a], n) <=> TwoReqs(reqs[a], n) BY <1>2 DEF Popped
  <2> USE <1>2, <2>1, <2>2, <2>3 DEF Alike
  <2>11. OneRequest(n, a)' BY DEF NodeOK, OneRequest, Asked
  <2>12. OneToken(n, a)' BY DEF NodeOK, OneToken
  <2>13. Known(n, a)' BY DEF NodeOK, Known, Holds
  <2>14. Exclusive(n, a)' BY DEF NodeOK, Exclusive
  <2>15. WbOK(n, a)' BY DEF NodeOK, WbOK
  <2>16. FlushOK(n, a)' BY DEF NodeOK, FlushOK
  <2> QED BY <2>11, <2>12, <2>13, <2>14, <2>15, <2>16 DEF NodeOK
<1> QED BY <1>1, <1>2

\* The first request r gets its copy: it is entered as a sharer, alone or next
\* to others, and is sent a reply of type t or waits for memory.
Entered(a, r, t) ==
  \/ /\ tags[a].st = "U" /\ tags'[a].sharers = {r.from}
     /\ \/ tags'[a].st \in {"E", "M"} /\ t = "EX_REP"
        \/ tags'[a].st = "S" /\ t = "SH_REP" /\ r.type = "SH_REQ"
  \/ /\ tags[a].st = "S" /\ tags'[a].st = "S" /\ tags'[a].sharers = tags[a].sharers \cup {r.from}
     /\ t = "SH_REP" /\ r.type = "SH_REQ"

LEMMA EnteredOther ==
  ASSUME NEW n, NEW a, NEW r, NEW t, NodeOK(n, a), EntryOK(a), SameCache(n, a), Entered(a, r, t),
         n # r.from, ~Waits(a), ~Pend(n, a)', Unasked(n, a),
         \A T : ReqOf(reqs'[a], n, T) <=> ReqOf(reqs[a], n, T),
         TwoReqs(reqs'[a], n) <=> TwoReqs(reqs[a], n),
         Alike(toDir[n], toDir'[n], a), Alike(toCache[n], toCache'[n], a)
  PROVE  NodeOK(n, a)'
<1> USE Kinds, ThenHas DEF SameCache, Unasked, Alike
<1>1. ~Pend(n, a) BY DEF Pend
<1>2. tags[a].st = "U" => ~Holds(n, a) BY DEF NodeOK, Known, EntryOK
<1>3. tags[a].st = "U" \/ (tags[a].st = "S" /\ tags'[a].st = "S") BY DEF Entered
<1>4. n \in tags[a].sharers /\ tags[a].st = "S" => n \in tags'[a].sharers BY DEF Entered
<1>5. ~Has(toDir[n], a, {"WB_REP"}) BY DEF NodeOK, WbOK
<1>6. ~Has(toDir[n], a, {"FLUSH_REP"}) BY <1>2, <1>3 DEF NodeOK, FlushOK, Holds
<1>11. OneRequest(n, a)' BY DEF NodeOK, OneRequest, Asked
<1>12. OneToken(n, a)' BY <1>1 DEF NodeOK, OneToken
<1>13. Known(n, a)' BY <1>1, <1>2, <1>3, <1>4 DEF NodeOK, Known, Holds
<1>14. Exclusive(n, a)' BY <1>1, <1>2, <1>3 DEF NodeOK, Exclusive, Holds
<1>15. WbOK(n, a)' BY <1>5 DEF NodeOK, WbOK
<1>16. FlushOK(n, a)' BY <1>6 DEF NodeOK, FlushOK
<1> QED BY <1>11, <1>12, <1>13, <1>14, <1>15, <1>16 DEF NodeOK

LEMMA EnteredOwn ==
  ASSUME NEW n, NEW a, NEW r, NEW t, NodeOK(n, a), EntryOK(a), SameCache(n, a), Entered(a, r, t),
         n = r.from, r.type \in Requests, ~Waits(a), Unasked(n, a),
         \A T : r.type \in T => ReqOf(reqs[a], n, T),
         \/ /\ Longer(toCache[n], toCache'[n], a, t) /\ Popped(a, r)
         \/ /\ Alike(toCache[n], toCache'[n], a)
            /\ Pend(n, a)' /\ First(a)'.type = r.type
            /\ r.type # "SH_REQ" => tags'[a].st \in {"E", "M"}
            /\ \A T : ReqOf(reqs'[a], n, T) <=> ReqOf(reqs[a], n, T)
            /\ TwoReqs(reqs'[a], n) <=> TwoReqs(reqs[a], n),
         Alike(toDir[n], toDir'[n], a)
  PROVE  NodeOK(n, a)'
<1> USE Kinds, ReqKinds, ThenHas DEF SameCache, Unasked, Requests, Fresh, Replies, Inserts
<1>1. ~Pend(n, a) BY DEF Pend
<1>2. tags[a].st = "U" => ~Holds(n, a) BY DEF NodeOK, Known, EntryOK
<1>3. n \in tags'[a].sharers BY DEF Entered
<1>4. L(n, a) = "I" /\ ~Has(toDir[n], a, Gives)
  <2>1. CASE r.type \in Fresh BY <2>1 DEF NodeOK, OneToken
  <2>2. CASE r.type \notin Fresh
    <3>1. tags[a].st = "U" BY <2>2 DEF Entered
    <3> QED BY <1>2, <3>1 DEF Holds
  <2> QED BY <2>1, <2>2
<1>5. ~Has(toDir[n], a, {"WB_REP"}) BY DEF NodeOK, WbOK
<1>6. ~Has(toDir[n], a, Requests) /\ ~Has(toCache[n], a, Replies) BY DEF NodeOK, OneRequest
<1>7. ReqOf(reqs[a], n, Requests) OBVIOUS
<1>8. t \in Inserts BY DEF Entered
<1>9. (tags'[a].st \in {"E", "M"} /\ t = "EX_REP") \/ (tags'[a].st = "S" /\ t = "SH_REP") BY DEF Entered
<1>10. CASE Longer(toCache[n], toCache'[n], a, t) /\ Popped(a, r)
  <2>1. ~Pend(n, a)' BY <1>10 DEF Popped, Pend
  <2>2. ~ReqOf(reqs'[a], n, Requests) /\ ~TwoReqs(reqs'[a], n)
    BY <1>10, <1>7 DEF NodeOK, OneRequest, Popped
  <2> USE <1>10, <1>4, <1>6, <1>8, <2>1, <2>2 DEF Longer, Alike
  <2>11. OneRequest(n, a)' BY <1>7 DEF NodeOK, OneRequest, Asked
  <2>12. OneToken(n, a)' BY DEF NodeOK, OneToken
  <2>13. Known(n, a)' BY <1>3 DEF Known
  <2>14. Exclusive(n, a)' BY <1>9 DEF NodeOK, Exclusive
  <2>15. WbOK(n, a)' BY <1>5 DEF NodeOK, WbOK
  <2>16. FlushOK(n, a)' BY DEF NodeOK, FlushOK
  <2> QED BY <2>11, <2>12, <2>13, <2>14, <2>15, <2>16 DEF NodeOK
<1>20. CASE ~(Longer(toCache[n], toCache'[n], a, t) /\ Popped(a, r))
  <2> USE <1>20, <1>4, <1>6 DEF Alike
  <2>11. OneRequest(n, a)' BY DEF NodeOK, OneRequest, Asked
  <2>12. OneToken(n, a)' BY DEF NodeOK, OneToken
  <2>13. Known(n, a)' BY <1>3 DEF Known
  <2>14. Exclusive(n, a)' BY DEF NodeOK, Exclusive
  <2>15. WbOK(n, a)' BY <1>5 DEF NodeOK, WbOK
  <2>16. FlushOK(n, a)' BY DEF NodeOK, FlushOK
  <2> QED BY <2>11, <2>12, <2>13, <2>14, <2>15, <2>16 DEF NodeOK
<1> QED BY <1>10, <1>20

\* An upgrade of the only sharer is granted.
LEMMA GrantedStep ==
  ASSUME NEW n, NEW a, NEW r, NodeOK(n, a), SameCache(n, a),
         tags[a].sharers = {r.from}, tags'[a].sharers = {r.from},
         tags'[a].st = "M", tags'[a].owner = r.from,
         r.type = "UPGRADE_REQ", ~Waits(a), Unasked(n, a), Unasked(n, a)', Popped(a, r),
         Alike(toDir[n], toDir'[n], a),
         n = r.from => Longer(toCache[n], toCache'[n], a, "UPGRADE_REP"),
         n # r.from => Alike(toCache[n], toCache'[n], a)
  PROVE  NodeOK(n, a)'
<1> USE Kinds, ReqKinds, ThenHas DEF SameCache, Unasked, Requests, Fresh, Replies, Inserts
<1>1. ~Pend(n, a) /\ ~Pend(n, a)' BY DEF Pend, Popped
<1>5. ~Has(toDir[n], a, {"WB_REP"}) BY DEF NodeOK, WbOK
<1>10. CASE n = r.from
  <2>1. ReqOf(reqs[a], n, Requests) BY <1>10 DEF Popped
  <2>2. ~ReqOf(reqs'[a], n, Requests) /\ ~TwoReqs(reqs'[a], n)
    BY <1>10, <2>1 DEF NodeOK, OneRequest, Popped
  <2>3. ~Has(toDir[n], a, Requests) /\ ~Has(toCache[n], a, Replies)
    BY <2>1 DEF NodeOK, OneRequest
  <2> USE <1>10, <1>1, <2>2, <2>3 DEF Longer, Alike
  <2>11. OneRequest(n, a)' BY <2>1 DEF NodeOK, OneRequest, Asked
  <2>12. OneToken(n, a)' BY DEF NodeOK, OneToken
  <2>13. Known(n, a)' BY DEF Known
  <2>14. Exclusive(n, a)' BY DEF NodeOK, Exclusive
  <2>15. WbOK(n, a)' BY <1>5 DEF NodeOK, WbOK
  <2>16. FlushOK(n, a)' BY DEF NodeOK, FlushOK
  <2> QED BY <2>11, <2>12, <2>13, <2>14, <2>15, <2>16 DEF NodeOK
<1>20. CASE n # r.from
  <2>1. ~Holds(n, a) BY <1>20 DEF NodeOK, Known
  <2>2. \A T : ReqOf(reqs'[a], n, T) <=> ReqOf(reqs[a], n, T) BY <1>20 DEF Popped
  <2>3. TwoReqs(reqs'[a], n) <=> TwoReqs(reqs[a], n) BY <1>20 DEF Popped
  <2> USE <1>20, <1>1, <2>1, <2>2, <2>3 DEF Alike, Holds
  <2>11. OneRequest(n, a)' BY DEF NodeOK, OneRequest, Asked
  <2>12. OneToken(n, a)' BY DEF NodeOK, OneToken
  <2>13. Known(n, a)' BY DEF NodeOK, Known
  <2>14. Exclusive(n, a)' BY DEF NodeOK, Exclusive
  <2>15. WbOK(n, a)' BY <1>5 DEF NodeOK, WbOK
  <2>16. FlushOK(n, a)' BY DEF NodeOK, FlushOK
  <2> QED BY <2>11, <2>12, <2>13, <2>14, <2>15, <2>16 DEF NodeOK
<1> QED BY <1>10, <1>20

\* A replaced entry whose copies are gone is dropped.
LEMMA DroppedStep ==
  ASSUME NEW n, NEW a, NEW r, NodeOK(n, a), EntryOK(a), SameCache(n, a),
         tags[a].st = "U", tags'[a].sharers = {}, tags'[a].st = "U",
         r.type = "NULLIFY_REQ", ~Waits(a), Unasked(n, a), Popped(a, r),
         Alike(toDir[n], toDir'[n], a), Alike(toCache[n], toCache'[n], a)
  PROVE  NodeOK(n, a)'
<1> USE Kinds, ReqKinds, ThenHas DEF SameCache, Unasked, Requests, Fresh, Alike
<1>1. ~Pend(n, a) /\ ~Pend(n, a)' BY DEF Pend, Popped
<1>2. ~Holds(n, a) BY DEF NodeOK, Known, EntryOK
<1>3. ReqOf(reqs'[a], n, Requests) <=> ReqOf(reqs[a], n, Requests) BY DEF Popped
<1>4. ReqOf(reqs'[a], n, Fresh) <=> ReqOf(reqs[a], n, Fresh) BY DEF Popped
<1>5. TwoReqs(reqs'[a], n) <=> TwoReqs(reqs[a], n) BY DEF Popped
<1>6. ~Has(toDir[n], a, {"WB_REP"}) BY DEF NodeOK, WbOK
<1> USE <1>1, <1>2 DEF Holds
<1>11. OneRequest(n, a)' BY <1>3, <1>5 DEF NodeOK, OneRequest, Asked
<1>12. OneToken(n, a)' BY <1>4 DEF NodeOK, OneToken
<1>13. Known(n, a)' BY DEF NodeOK, Known
<1>14. Exclusive(n, a)' BY DEF NodeOK, Exclusive
<1>15. WbOK(n, a)' BY <1>6 DEF NodeOK, WbOK
<1>16. FlushOK(n, a)' BY DEF NodeOK, FlushOK
<1> QED BY <1>11, <1>12, <1>13, <1>14, <1>15, <1>16 DEF NodeOK

-----------------------------------------------------------------------------
(* Operations on a node's copies of a line.                                *)

\* The data of a modified first-level copy reaches the last level.
LEMMA UpdatePrevEffect ==
  ASSUME NEW X, NEW k \in StackOf(X), NEW C \in SUBSET X, NEW new \in {"I", "S", "M"},
         NEW p, p = UpdatePrev(k, C, new)
  PROVE  /\ p \in StackOf(X) /\ p.llc.st = k.llc.st
         /\ \A c \in X : c \notin C \/ k.l1[c].st = "I" => p.l1[c] = k.l1[c]
         /\ \A c \in C : k.l1[c].st # "I" => p.l1[c].st = new
         /\ (\A c \in C : k.l1[c].st # "M") => p.llc = k.llc
         /\ \A c \in C : k.l1[c].st = "M" /\ (\A d \in C : k.l1[d].st = "M" => d = c) =>
              p.llc.data = k.l1[c].data
<1> DEFINE dirty == {c \in C : k.l1[c].st = "M"}
           chosen == CHOOSE c \in dirty : TRUE
           lines == [c \in X |-> IF c \notin C \/ k.l1[c].st = "I" THEN k.l1[c]
                                 ELSE IF new = "I" THEN Invalid
                                 ELSE [k.l1[c] EXCEPT !.st = new]]
           last == IF dirty = {} THEN k.llc ELSE [k.llc EXCEPT !.data = k.l1[chosen].data]
<1>1. k.l1 \in [X -> AnyLine] /\ k.llc \in AnyLine /\ DOMAIN k.l1 = X BY DEF StackOf
<1>2. p = [l1 |-> lines, llc |-> last] BY <1>1 DEF UpdatePrev
<1>3. dirty # {} => chosen \in dirty OBVIOUS
<1>4. Invalid \in AnyLine /\ Invalid.st = "I" BY DEF Invalid, AnyLine, AnyData, Data
<1>5. ASSUME NEW c \in X PROVE [k.l1[c] EXCEPT !.st = new] \in AnyLine /\ [k.l1[c] EXCEPT !.st = new].st = new
  <2>1. k.l1[c] \in AnyLine BY <1>1
  <2> QED BY <2>1 DEF AnyLine
<1> HIDE DEF chosen
<1>6. lines \in [X -> AnyLine] BY <1>1, <1>4, <1>5
<1>7. last \in AnyLine /\ last.st = k.llc.st
  <2>1. CASE dirty = {} BY <1>1, <2>1
  <2>2. CASE dirty # {}
    <3>1. chosen \in X BY <1>3, <2>2
    <3>2. k.l1[chosen] \in AnyLine BY <1>1, <3>1
    <3>3. k.l1[chosen].data \in AnyData BY <3>2 DEF AnyLine
    <3> HIDE DEF dirty
    <3> QED BY <1>1, <2>2, <3>3 DEF AnyLine
  <2> QED BY <2>1, <2>2
<1>8. p \in StackOf(X) /\ p.llc.st = k.llc.st BY <1>2, <1>6, <1>7 DEF StackOf
<1>9. \A c \in X : c \notin C \/ k.l1[c].st = "I" => p.l1[c] = k.l1[c] BY <1>2
<1>10. ASSUME NEW c \in C, k.l1[c].st # "I" PROVE p.l1[c].st = new
  <2>1. p.l1[c] = IF new = "I" THEN Invalid ELSE [k.l1[c] EXCEPT !.st = new] BY <1>2, <1>10
  <2> QED BY <1>4, <1>5, <2>1
<1>11. (\A c \in C : k.l1[c].st # "M") => p.llc = k.llc
  <2>1. (\A c \in C : k.l1[c].st # "M") => dirty = {} OBVIOUS
  <2> QED BY <1>2, <2>1
<1>12. ASSUME NEW c \in C, k.l1[c].st = "M", \A d \in C : k.l1[d].st = "M" => d = c
       PROVE  p.llc.data = k.l1[c].data
  <2>1. c \in dirty BY <1>12
  <2>2. chosen = c BY <1>3, <1>12, <2>1
  <2>3. last = [k.llc EXCEPT !.data = k.l1[c].data] BY <2>1, <2>2
  <2> HIDE DEF last, dirty
  <2> QED BY <1>1, <1>2, <2>3 DEF AnyLine
<1> QED BY <1>8, <1>9, <1>10, <1>11, <1>12

\* The newest data, where a single first-level copy is modified or none is.
LEMMA NewestIs ==
  ASSUME NEW X, NEW k \in StackOf(X), Alone(k)
  PROVE  /\ Newest(k) \in AnyData
         /\ (\A c \in X : k.l1[c].st # "M") => Newest(k) = k.llc.data
         /\ \A c \in X : k.l1[c].st = "M" => Newest(k) = k.l1[c].data
<1>1. DOMAIN k.l1 = X BY DEF StackOf
<1>2. PICK p : p = UpdatePrev(k, X, "I") OBVIOUS
<1>3. Newest(k) = p.llc.data BY <1>1, <1>2 DEF Newest
<1>4. p.llc \in AnyLine BY <1>2, UpdatePrevEffect DEF StackOf
<1>5. (\A c \in X : k.l1[c].st # "M") => p.llc = k.llc BY <1>2, UpdatePrevEffect
<1>6. ASSUME NEW c \in X, k.l1[c].st = "M" PROVE p.llc.data = k.l1[c].data
  <2>1. \A d \in X : k.l1[d].st = "M" => d = c BY <1>1, <1>6 DEF Alone
  <2> QED BY <1>2, <1>6, <2>1, UpdatePrevEffect
<1> QED BY <1>3, <1>4, <1>5, <1>6 DEF AnyLine

Fine(k) == Alone(k) /\ Included(k) /\ Written(k)

\* A modified copy with the last data, the others gone.
LEMMA OneModified ==
  ASSUME NEW X, NEW k \in StackOf(X), NEW c \in X,
         k.llc.st = "M", k.l1[c].st = "M", k.l1[c].data = "last",
         \A d \in X : d # c => k.l1[d].st \notin {"M", "U"}
  PROVE  Fine(k)
<1>1. DOMAIN k.l1 = X BY DEF StackOf
<1>2. Alone(k) BY <1>1 DEF Alone
<1>3. Included(k) BY <1>1 DEF Included
<1>4. Newest(k) = "last" BY <1>2, NewestIs
<1> QED BY <1>2, <1>3, <1>4 DEF Fine, Written

\* A line that is not modified.
LEMMA NotModified ==
  ASSUME NEW X, NEW k \in StackOf(X), k.llc.st # "M",
         \A d \in X : k.l1[d].st \notin {"M", "U"} /\ (k.l1[d].st # "I" => k.llc.st # "I")
  PROVE  Fine(k)
<1>1. DOMAIN k.l1 = X BY DEF StackOf
<1> QED BY <1>1 DEF Fine, Alone, Included, Written

\* Two stacks whose lines are in the same states.
SameStates(k, j, X) == j.llc.st = k.llc.st /\ \A c \in X : j.l1[c].st = k.l1[c].st

LEMMA AgedLine ==
  ASSUME NEW l \in AnyLine
  PROVE  [l EXCEPT !.data = Aged(@)] \in AnyLine /\ [l EXCEPT !.data = Aged(@)].st = l.st
<1>1. Aged(l.data) \in AnyData BY DEF Aged, AnyLine, AnyData, Data, NoData
<1> QED BY <1>1 DEF AnyLine

LEMMA AgedStackIs ==
  ASSUME NEW X, NEW k \in StackOf(X), NEW j, j = AgedStack(k)
  PROVE  j \in StackOf(X) /\ SameStates(k, j, X)
<1>1. k.l1 \in [X -> AnyLine] /\ k.llc \in AnyLine /\ DOMAIN k.l1 = X BY DEF StackOf
<1>2. PICK g : g = [d \in X |-> [k.l1[d] EXCEPT !.data = Aged(@)]] OBVIOUS
<1>3. j = [l1 |-> g, llc |-> [k.llc EXCEPT !.data = Aged(@)]] BY <1>1, <1>2 DEF AgedStack
<1>4. g \in [X -> AnyLine] /\ \A d \in X : g[d].st = k.l1[d].st BY <1>1, <1>2, AgedLine
<1>5. [k.llc EXCEPT !.data = Aged(@)] \in AnyLine /\ [k.llc EXCEPT !.data = Aged(@)].st = k.llc.st
  BY <1>1, AgedLine
<1>6. j.l1 = g /\ j.llc = [k.llc EXCEPT !.data = Aged(@)] BY <1>3
<1>7. j \in StackOf(X) BY <1>3, <1>4, <1>5 DEF StackOf
<1> QED BY <1>4, <1>5, <1>6, <1>7 DEF SameStates

LEMMA StoredIs ==
  ASSUME NEW X, NEW k \in StackOf(X), NEW c \in X, NEW j, j = Stored(k, c)
  PROVE  j \in StackOf(X) /\ SameStates(k, j, X) /\ j.l1[c].data = "last"
<1>1. k.l1 \in [X -> AnyLine] /\ k.llc \in AnyLine /\ DOMAIN k.l1 = X BY DEF StackOf
<1>2. PICK g : g = [d \in X |-> IF d = c THEN [k.l1[d] EXCEPT !.data = "last"]
                                ELSE [k.l1[d] EXCEPT !.data = Aged(@)]] OBVIOUS
<1>3. j = [l1 |-> g, llc |-> [k.llc EXCEPT !.data = Aged(@)]] BY <1>1, <1>2 DEF Stored
<1>4. ASSUME NEW d \in X PROVE g[d] \in AnyLine /\ g[d].st = k.l1[d].st
  <2>1. k.l1[d] \in AnyLine BY <1>1
  <2>2. [k.l1[d] EXCEPT !.data = "last"] \in AnyLine /\ [k.l1[d] EXCEPT !.data = "last"].st = k.l1[d].st
    BY <2>1 DEF AnyLine, AnyData, Data
  <2> QED BY <1>2, <2>1, <2>2, AgedLine
<1>5. [k.llc EXCEPT !.data = Aged(@)] \in AnyLine /\ [k.llc EXCEPT !.data = Aged(@)].st = k.llc.st
  BY <1>1, AgedLine
<1>6. j.l1 = g /\ j.llc = [k.llc EXCEPT !.data = Aged(@)] BY <1>3
<1>7. g \in [X -> AnyLine] BY <1>2, <1>4
<1>8. j \in StackOf(X) BY <1>3, <1>5, <1>7 DEF StackOf
<1>9. g[c].data = "last"
  <2>1. k.l1[c] \in AnyLine BY <1>1
  <2> QED BY <1>2, <2>1 DEF AnyLine
<1> QED BY <1>4, <1>5, <1>6, <1>8, <1>9 DEF SameStates

\* A core that holds the line in M stores to it.
LEMMA StoreFine ==
  ASSUME NEW X, NEW k \in StackOf(X), NEW c \in X, Fine(k), k.l1[c].st = "M", NEW j, j = Stored(k, c)
  PROVE  Fine(j)
<1>1. j \in StackOf(X) /\ SameStates(k, j, X) /\ j.l1[c].data = "last" BY StoredIs
<1>2. DOMAIN k.l1 = X BY DEF StackOf
<1>3. k.llc.st = "M" /\ \A d \in X : d # c => k.l1[d].st \notin {"M", "U"}
  BY <1>2 DEF Fine, Alone, Included
<1> QED BY <1>1, <1>3, OneModified DEF SameStates

\* A copy in a first-level cache is dropped by the core that misses.
LEMMA DropOwnIs ==
  ASSUME NEW X, NEW k \in StackOf(X), NEW c \in X, NEW j, j = DropOwn(k, c)
  PROVE  /\ j \in StackOf(X) /\ j.llc = k.llc
         /\ j.l1[c].st = "I" /\ \A d \in X : d # c => j.l1[d] = k.l1[d]
<1>1. k.l1 \in [X -> AnyLine] /\ k.llc \in AnyLine /\ DOMAIN k.l1 = X BY DEF StackOf
<1>2. Invalid \in AnyLine /\ Invalid.st = "I" BY DEF Invalid, AnyLine, AnyData, Data
<1>3. PICK g : g = [k.l1 EXCEPT ![c] = Invalid] OBVIOUS
<1>4. j.l1 = g /\ j.llc = k.llc /\ j = [l1 |-> g, llc |-> k.llc] BY <1>3 DEF DropOwn, StackOf
<1>5. g \in [X -> AnyLine] /\ g[c] = Invalid /\ \A d \in X : d # c => g[d] = k.l1[d]
  BY <1>1, <1>2, <1>3
<1> QED BY <1>1, <1>2, <1>4, <1>5 DEF StackOf
LEMMA DropOwnFine ==
  ASSUME NEW X, NEW k \in StackOf(X), NEW c \in X, Fine(k), k.l1[c].st # "M", NEW j, j = DropOwn(k, c)
  PROVE  Fine(j)
<1>1. /\ j \in StackOf(X) /\ j.llc = k.llc
      /\ j.l1[c].st = "I" /\ \A d \in X : d # c => j.l1[d] = k.l1[d]
  BY DropOwnIs
<1>2. DOMAIN k.l1 = X /\ DOMAIN j.l1 = X BY <1>1 DEF StackOf
<1>3. Alone(j) BY <1>1, <1>2 DEF Fine, Alone
<1>4. Included(j) BY <1>1, <1>2 DEF Fine, Included
<1>5. ASSUME j.llc.st = "M" PROVE Newest(j) = "last"
  <2>1. Newest(k) = "last" BY <1>1, <1>5 DEF Fine, Written
  <2>2. Newest(j) = Newest(k)
    <3>1. CASE \A d \in X : k.l1[d].st # "M"
      <4>1. \A d \in X : j.l1[d].st # "M" BY <1>1, <3>1
      <4> QED BY <1>1, <1>3, <3>1, <4>1, NewestIs DEF Fine
    <3>2. CASE \E d \in X : k.l1[d].st = "M"
      <4>1. PICK d \in X : k.l1[d].st = "M" BY <3>2
      <4>2. d # c /\ j.l1[d] = k.l1[d] BY <1>1, <4>1
      <4> QED BY <1>1, <1>3, <4>1, <4>2, NewestIs DEF Fine
    <3> QED BY <3>1, <3>2
  <2> QED BY <2>1, <2>2
<1> QED BY <1>3, <1>4, <1>5 DEF Fine, Written

\* A first-level copy is evicted.
LEMMA EvictPrevFine ==
  ASSUME NEW X, NEW k \in StackOf(X), NEW c \in X, Fine(k), NEW j, j = UpdatePrev(k, {c}, "I")
  PROVE  Fine(j)
<1>1. /\ j \in StackOf(X) /\ j.llc.st = k.llc.st
      /\ \A d \in X : d # c => j.l1[d] = k.l1[d]
      /\ j.l1[c].st = "I"
      /\ k.l1[c].st # "M" => j.llc = k.llc
      /\ k.l1[c].st = "M" => j.llc.data = k.l1[c].data
  <2>1. {c} \in SUBSET X OBVIOUS
  <2>2. /\ j \in StackOf(X) /\ j.llc.st = k.llc.st
        /\ \A d \in X : d \notin {c} \/ k.l1[d].st = "I" => j.l1[d] = k.l1[d]
        /\ \A d \in {c} : k.l1[d].st # "I" => j.l1[d].st = "I"
        /\ (\A d \in {c} : k.l1[d].st # "M") => j.llc = k.llc
        /\ \A e \in {c} : k.l1[e].st = "M" /\ (\A d \in {c} : k.l1[d].st = "M" => d = e) =>
             j.llc.data = k.l1[e].data
    BY <2>1, UpdatePrevEffect
  <2> QED BY <2>2
<1>2. DOMAIN k.l1 = X /\ DOMAIN j.l1 = X BY <1>1 DEF StackOf
<1>3. Alone(j) BY <1>1, <1>2 DEF Fine, Alone
<1>4. Included(j) BY <1>1, <1>2 DEF Fine, Included
<1>5. ASSUME j.llc.st = "M" PROVE Newest(j) = "last"
  <2>1. Newest(k) = "last" BY <1>1, <1>5 DEF Fine, Written
  <2>2. Newest(j) = Newest(k)
    <3>1. CASE \A d \in X : k.l1[d].st # "M"
      <4>1. \A d \in X : j.l1[d].st # "M" BY <1>1, <3>1
      <4>2. j.llc = k.llc BY <1>1, <3>1
      <4>3. Newest(j) = j.llc.data BY <1>1, <1>3, <4>1, NewestIs
      <4>4. Newest(k) = k.llc.data BY <3>1, NewestIs DEF Fine
      <4> QED BY <4>2, <4>3, <4>4
    <3>2. CASE k.l1[c].st = "M"
      <4>1. \A d \in X : j.l1[d].st # "M" BY <1>1, <1>2, <3>2 DEF Fine, Alone
      <4> QED BY <1>1, <1>3, <3>2, <4>1, NewestIs DEF Fine
    <3>3. CASE k.l1[c].st # "M" /\ \E d \in X : k.l1[d].st = "M"
      <4>1. PICK d \in X : k.l1[d].st = "M" BY <3>3
      <4>2. d # c /\ j.l1[d] = k.l1[d] BY <1>1, <3>3, <4>1
      <4> QED BY <1>1, <1>3, <4>1, <4>2, NewestIs DEF Fine
    <3> QED BY <3>1, <3>2, <3>3
  <2> QED BY <2>1, <2>2
<1> QED BY <1>3, <1>4, <1>5 DEF Fine, Written

\* updateCacheBlock on the whole stack.
LEMMA UpdateStackIs ==
  ASSUME NEW X, NEW k \in StackOf(X), NEW new \in {"I", "S", "M"}, NEW j, j = UpdateStack(k, new)
  PROVE  /\ j \in StackOf(X) /\ j.llc.st = new
         /\ \A c \in X : j.l1[c].st = IF k.l1[c].st = "I" THEN "I" ELSE new
         /\ new # "M" => Fine(j)
<1>1. DOMAIN k.l1 = X /\ X \in SUBSET X BY DEF StackOf
<1>2. PICK p : p = UpdatePrev(k, X, new) OBVIOUS
<1>3. /\ p \in StackOf(X)
      /\ \A c \in X : k.l1[c].st = "I" => p.l1[c] = k.l1[c]
      /\ \A c \in X : k.l1[c].st # "I" => p.l1[c].st = new
  BY <1>1, <1>2, UpdatePrevEffect
<1>4. j = [p EXCEPT !.llc = IF new = "I" THEN Invalid ELSE [@ EXCEPT !.st = new]]
  BY <1>1, <1>2 DEF UpdateStack
<1>5. Invalid \in AnyLine /\ Invalid.st = "I" BY DEF Invalid, AnyLine, AnyData, Data
<1>6. p.llc \in AnyLine /\ p.l1 \in [X -> AnyLine] BY <1>3 DEF StackOf
<1>7. [p.llc EXCEPT !.st = new] \in AnyLine /\ [p.llc EXCEPT !.st = new].st = new BY <1>6 DEF AnyLine
<1>8. PICK l : l = IF new = "I" THEN Invalid ELSE [p.llc EXCEPT !.st = new] OBVIOUS
<1>9. l \in AnyLine /\ l.st = new BY <1>5, <1>7, <1>8
<1>10. j = [l1 |-> p.l1, llc |-> l] BY <1>3, <1>4, <1>8 DEF StackOf
<1>11. j \in StackOf(X) /\ j.llc.st = new /\ j.l1 = p.l1 BY <1>6, <1>9, <1>10 DEF StackOf
<1>12. \A c \in X : j.l1[c].st = IF k.l1[c].st = "I" THEN "I" ELSE new BY <1>3, <1>11
<1>13. new # "M" => Fine(j) BY <1>11, <1>12, NotModified
<1> QED BY <1>11, <1>12, <1>13

\* A core reads the line from the last level.
LEMMA FillRead ==
  ASSUME NEW X, NEW k \in StackOf(X), NEW c \in X, Fine(k), readable(k.llc), k.l1[c].st = "I",
         NEW ex \in BOOLEAN, ~ex, NEW j, j = Fill(k, c, ex)
  PROVE  /\ j \in StackOf(X) /\ j.llc.st = k.llc.st /\ Fine(j)
         /\ \A d \in X : d # c /\ k.l1[d].st = "I" => j.l1[d].st = "I"
<1>1. DOMAIN k.l1 = X /\ X \ {c} \in SUBSET X BY DEF StackOf
<1>2. PICK p : p = IF k.llc.st \in {"E", "M"} THEN UpdatePrev(k, X \ {c}, "S") ELSE k OBVIOUS
<1>3. j = [l1 |-> [p.l1 EXCEPT ![c] = p.llc], llc |-> p.llc] BY <1>1, <1>2 DEF Fill
<1>4. /\ p \in StackOf(X) /\ p.llc.st = k.llc.st
      /\ \A d \in X : d # c /\ k.l1[d].st = "I" => p.l1[d].st = "I"
      /\ \A d \in X : d # c => p.l1[d].st \notin {"M", "U"}
  <2>1. CASE k.llc.st \in {"E", "M"}
    <3>1. p = UpdatePrev(k, X \ {c}, "S") BY <1>2, <2>1
    <3>2. /\ p \in StackOf(X) /\ p.llc.st = k.llc.st
          /\ \A d \in X : d \notin X \ {c} \/ k.l1[d].st = "I" => p.l1[d] = k.l1[d]
          /\ \A d \in X \ {c} : k.l1[d].st # "I" => p.l1[d].st = "S"
      BY <1>1, <3>1, UpdatePrevEffect
    <3> QED BY <3>2
  <2>2. CASE k.llc.st \notin {"E", "M"}
    <3>1. p = k BY <1>2, <2>2
    <3>2. \A d \in X : k.l1[d].st \notin {"M", "U"} BY <1>1, <2>2 DEF Fine, Included
    <3> QED BY <3>1, <3>2
  <2> QED BY <2>1, <2>2
<1>5. p.llc \in AnyLine /\ p.l1 \in [X -> AnyLine] BY <1>4 DEF StackOf
<1>6. PICK g : g = [p.l1 EXCEPT ![c] = p.llc] OBVIOUS
<1>7. g \in [X -> AnyLine] /\ g[c] = p.llc /\ \A d \in X : d # c => g[d] = p.l1[d] BY <1>5, <1>6
<1>14. j = [l1 |-> g, llc |-> p.llc] BY <1>3, <1>6
<1>15. j \in StackOf(X) BY <1>5, <1>7, <1>14 DEF StackOf
<1>8. j.l1 = g /\ j.llc = p.llc /\ j \in StackOf(X) BY <1>14, <1>15
<1>9. \A d \in X : d # c /\ k.l1[d].st = "I" => j.l1[d].st = "I" BY <1>4, <1>7, <1>8
<1>10. \A d \in X : d # c => j.l1[d].st \notin {"M", "U"} BY <1>4, <1>7, <1>8
<1>11. j.llc.st \in {"S", "E", "M"} /\ j.l1[c] = j.llc BY <1>4, <1>7, <1>8 DEF readable
<1>12. CASE k.llc.st # "M"
  <2>1. \A d \in X : j.l1[d].st \notin {"M", "U"} BY <1>4, <1>8, <1>10, <1>11, <1>12
  <2>2. Fine(j) BY <1>4, <1>8, <1>11, <1>12, <2>1, NotModified
  <2> QED BY <1>4, <1>8, <1>9, <2>2
<1>13. CASE k.llc.st = "M"
  <2>1. p = UpdatePrev(k, X \ {c}, "S") BY <1>2, <1>13
  <2>2. Newest(k) = "last" BY <1>13 DEF Fine, Written
  <2>3. p.llc.data = "last"
    <3>1. CASE \A d \in X : k.l1[d].st # "M"
      <4>1. p.llc = k.llc BY <1>1, <2>1, <3>1, UpdatePrevEffect
      <4>2. Newest(k) = k.llc.data BY <3>1, NewestIs DEF Fine
      <4> QED BY <2>2, <4>1, <4>2
    <3>2. CASE \E d \in X : k.l1[d].st = "M"
      <4>1. PICK d \in X : k.l1[d].st = "M" BY <3>2
      <4>2. d \in X \ {c} /\ \A e \in X \ {c} : k.l1[e].st = "M" => e = d
        BY <1>1, <4>1 DEF Fine, Alone
      <4>3. p.llc.data = k.l1[d].data BY <1>1, <2>1, <4>1, <4>2, UpdatePrevEffect
      <4>4. Newest(k) = k.l1[d].data BY <4>1, NewestIs DEF Fine
      <4> QED BY <2>2, <4>3, <4>4
    <3> QED BY <3>1, <3>2
  <2>4. j.llc.st = "M" /\ j.l1[c].st = "M" /\ j.l1[c].data = "last" BY <1>4, <1>8, <1>11, <1>13, <2>3
  <2>5. Fine(j) BY <1>8, <1>10, <2>4, OneModified
  <2> QED BY <1>4, <1>8, <1>9, <2>5
<1> QED BY <1>12, <1>13

\* A core gets the line to itself and stores to it.
FillForWrite(k, c) ==
  LET p == UpdatePrev(k, DOMAIN k.l1 \ {c}, "I")
      last == [p.llc EXCEPT !.st = "M"]
  IN [l1 |-> [p.l1 EXCEPT ![c] = last], llc |-> last]
LEMMA FillWrite ==
  ASSUME NEW X, NEW k \in StackOf(X), NEW c \in X, NEW j, j = FillForWrite(k, c)
  PROVE  /\ j \in StackOf(X) /\ j.llc.st = "M" /\ Fine(Stored(j, c))
         /\ \A d \in X : d # c => j.l1[d].st = "I"
<1>1. DOMAIN k.l1 = X /\ X \ {c} \in SUBSET X BY DEF StackOf
<1>2. PICK p : p = UpdatePrev(k, X \ {c}, "I") OBVIOUS
<1>3. PICK last : last = [p.llc EXCEPT !.st = "M"] OBVIOUS
<1>4. j = [l1 |-> [p.l1 EXCEPT ![c] = last], llc |-> last] BY <1>1, <1>2, <1>3 DEF FillForWrite
<1>5. /\ p \in StackOf(X)
      /\ \A d \in X : d \notin X \ {c} \/ k.l1[d].st = "I" => p.l1[d] = k.l1[d]
      /\ \A d \in X \ {c} : k.l1[d].st # "I" => p.l1[d].st = "I"
  BY <1>1, <1>2, UpdatePrevEffect
<1>6. \A d \in X : d # c => p.l1[d].st = "I" BY <1>5
<1>7. p.llc \in AnyLine /\ p.l1 \in [X -> AnyLine] BY <1>5 DEF StackOf
<1>8. last \in AnyLine /\ last.st = "M" BY <1>3, <1>7 DEF AnyLine
<1>9. PICK g : g = [p.l1 EXCEPT ![c] = last] OBVIOUS
<1>10. g \in [X -> AnyLine] /\ g[c] = last /\ \A d \in X : d # c => g[d] = p.l1[d] BY <1>7, <1>8, <1>9
<1>16. j = [l1 |-> g, llc |-> last] BY <1>4, <1>9
<1>17. j \in StackOf(X) BY <1>8, <1>10, <1>16 DEF StackOf
<1>11. j.l1 = g /\ j.llc = last /\ j \in StackOf(X) BY <1>16, <1>17
<1>12. PICK s : s = Stored(j, c) OBVIOUS
<1>13. s \in StackOf(X) /\ SameStates(j, s, X) /\ s.l1[c].data = "last" BY <1>17, <1>12, StoredIs
<1>14. /\ s.llc.st = "M" /\ s.l1[c].st = "M" /\ \A d \in X : d # c => s.l1[d].st \notin {"M", "U"}
  BY <1>6, <1>8, <1>10, <1>11, <1>13 DEF SameStates
<1>15. Fine(s) BY <1>13, <1>14, OneModified
<1> QED BY <1>6, <1>8, <1>10, <1>11, <1>12, <1>15

\* A miss that goes to the directory.
Upgrading(k) == [k EXCEPT !.llc.st = "U"]
LEMMA UpgradingIs ==
  ASSUME NEW X, NEW k \in StackOf(X), NEW u, u = Upgrading(k)
  PROVE  u \in StackOf(X) /\ u.llc.st = "U" /\ u.l1 = k.l1
<1>1. k.llc \in AnyLine /\ k.l1 \in [X -> AnyLine] BY DEF StackOf
<1>2. PICK l, f : l = [k.llc EXCEPT !.st = "U"] /\ f = k.l1 OBVIOUS
<1>3. l \in AnyLine /\ l.st = "U" BY <1>1, <1>2 DEF AnyLine
<1>4. PICK v : v = [k EXCEPT !.llc.st = "U"] OBVIOUS
<1>5. v = [l1 |-> f, llc |-> l] BY <1>2, <1>4 DEF StackOf
<1>6. v \in StackOf(X) /\ v.llc = l /\ v.l1 = f BY <1>1, <1>2, <1>3, <1>5 DEF StackOf
<1> QED BY <1>2, <1>3, <1>4, <1>6 DEF Upgrading

LEMMA MissFine ==
  ASSUME NEW X, NEW k \in StackOf(X), NEW c \in X, Fine(k), k.llc.st \in {"I", "S", "U"},
         NEW d, d = DropOwn(k, c),
         NEW p, d.llc.st = "S" => p = UpdatePrev(d, X \ {c}, "I"), d.llc.st # "S" => p = d,
         NEW u, u = Upgrading(p)
  PROVE  /\ p \in StackOf(X) /\ p.llc.st = k.llc.st /\ p.l1[c].st = "I" /\ Fine(p)
         /\ \A e \in X : k.l1[e].st = "I" => p.l1[e].st = "I"
         /\ k.llc.st = "S" => Fine(u)
         /\ u \in StackOf(X)
         /\ u.llc.st = "U" /\ u.l1 = p.l1
<1>1. DOMAIN k.l1 = X /\ X \ {c} \in SUBSET X BY DEF StackOf
<1>2. /\ d \in StackOf(X) /\ d.llc = k.llc
      /\ d.l1[c].st = "I" /\ \A e \in X : e # c => d.l1[e] = k.l1[e]
  BY DropOwnIs
<1>3. \A e \in X : k.l1[e].st # "M" /\ k.l1[e].st # "U" BY <1>1 DEF Fine, Included
<1>4. \A e \in X : d.l1[e].st \notin {"M", "U"} /\ (d.l1[e].st # "I" => k.llc.st # "I")
  BY <1>1, <1>2, <1>3 DEF Fine, Included
<1>5. /\ p \in StackOf(X) /\ p.llc.st = k.llc.st /\ p.l1[c].st = "I"
      /\ \A e \in X : p.l1[e].st \notin {"M", "U"} /\ (p.l1[e].st # "I" => k.llc.st # "I")
      /\ \A e \in X : k.l1[e].st = "I" => p.l1[e].st = "I"
  <2>1. CASE d.llc.st = "S"
    <3>1. p = UpdatePrev(d, X \ {c}, "I") BY <2>1
    <3>2. /\ p \in StackOf(X) /\ p.llc.st = d.llc.st
          /\ \A e \in X : e \notin X \ {c} \/ d.l1[e].st = "I" => p.l1[e] = d.l1[e]
          /\ \A e \in X \ {c} : d.l1[e].st # "I" => p.l1[e].st = "I"
      BY <1>1, <1>2, <3>1, UpdatePrevEffect
    <3>3. ASSUME NEW e \in X PROVE p.l1[e].st = "I"
      <4>1. CASE e = c BY <1>2, <3>2, <4>1
      <4>2. CASE e # c /\ d.l1[e].st = "I" BY <3>2, <4>2
      <4>3. CASE e # c /\ d.l1[e].st # "I"
        <5>1. e \in X \ {c} BY <4>3
        <5> QED BY <3>2, <4>3, <5>1
      <4> QED BY <4>1, <4>2, <4>3
    <3> QED BY <1>2, <3>2, <3>3
  <2>2. CASE d.llc.st # "S" BY <1>2, <1>4, <2>2
  <2> QED BY <2>1, <2>2
<1>6. Fine(p) BY <1>5, NotModified
<1>7. p.llc \in AnyLine /\ p.l1 \in [X -> AnyLine] BY <1>5 DEF StackOf
<1>11. u \in StackOf(X) /\ u.llc.st = "U" /\ u.l1 = p.l1 BY <1>5, UpgradingIs
<1>12. Fine(u) BY <1>5, <1>11, NotModified
<1> QED BY <1>5, <1>6, <1>11, <1>12

\* The line is put into the state of an upgrade.
LEMMA UpgradingFine ==
  ASSUME NEW X, NEW k \in StackOf(X), Fine(k), k.llc.st = "S", NEW u, u = Upgrading(k)
  PROVE  u \in StackOf(X) /\ u.llc.st = "U" /\ u.l1 = k.l1 /\ Fine(u)
<1>1. DOMAIN k.l1 = X BY DEF StackOf
<1>4. u \in StackOf(X) /\ u.llc.st = "U" /\ u.l1 = k.l1 BY UpgradingIs
<1>5. \A e \in X : k.l1[e].st \notin {"M", "U"} BY <1>1 DEF Fine, Included
<1> QED BY <1>4, <1>5, NotModified

-----------------------------------------------------------------------------
(* From a step of one cache to the whole system.                           *)

\* The machine stays what it is.
LEMMA SameMachine ==
  ASSUME machine' = machine
  PROVE  /\ Node' = Node /\ Addr' = Addr /\ Core' = Core
         /\ ShmemMsg' = ShmemMsg /\ Entry' = Entry /\ Req' = Req
         /\ \A n : CoresOf(n)' = CoresOf(n) /\ Waiter(n)' = Waiter(n)
<1>1. Core' = Core BY DEF Core
<1>2. Node' = Node BY <1>1 DEF Node
<1>3. Addr' = Addr BY DEF Addr
<1>4. ShmemMsg' = ShmemMsg BY <1>3 DEF ShmemMsg
<1>5. Entry' = Entry /\ Req' = Req BY <1>2 DEF Entry, Req
<1>6. ASSUME NEW n PROVE CoresOf(n)' = CoresOf(n) BY <1>1 DEF CoresOf
<1>7. ASSUME NEW n PROVE Waiter(n)' = Waiter(n) BY <1>6 DEF Waiter
<1> QED BY <1>1, <1>2, <1>3, <1>4, <1>5, <1>6, <1>7

LEMMA NobodyElse ==
  ASSUME machine \in Machines
  PROVE  /\ Nobody \notin Addr /\ \A n \in Node : n # Nobody
         /\ \A c \in Core : machine.nodeOf[c] \in Node /\ c \in CoresOf(machine.nodeOf[c])
BY MachinesAssumption DEF Addr, Node, Core, CoresOf

LEMMA SoundPrime ==
  ASSUME machine' = machine, TypeOK',
         \A a \in Addr : HomeOK(a)',
         \A n \in Node, a \in Addr : NodeOK(n, a)' /\ LocalOK(n, a)'
  PROVE  Sound'
BY SameMachine DEF Sound

\* What a step of node n on line a does to the other copies.
Elsewhere(n, a) ==
  \A m \in Node, b \in Addr : m # n \/ b # a =>
    /\ SameView(m, b)
    /\ \/ stack'[m][b] = stack[m][b]
       \/ L(m, b) # "M" /\ stack'[m][b] = AgedStack(stack[m][b])
SameDram ==
  DOMAIN fromDram' = DOMAIN fromDram /\ \A i \in DOMAIN fromDram : fromDram'[i].addr = fromDram[i].addr

LEMMA LocalFrame ==
  ASSUME NEW n, NEW a, NEW X, stack[n][a] \in StackOf(X), LocalOK(n, a), SameView(n, a),
         reqs'[a] = reqs[a], waiters[n][a] \in Seq([core : X, exclusive : BOOLEAN]),
         \/ stack'[n][a] = stack[n][a]
         \/ L(n, a) # "M" /\ stack'[n][a] = AgedStack(stack[n][a])
  PROVE  LocalOK(n, a)'
<1>1. PICK k, j, w : k = stack[n][a] /\ j = stack'[n][a] /\ w = waiters[n][a] OBVIOUS
<1>2. UpgradeOf(n, a)' <=> UpgradeOf(n, a) BY DEF UpgradeOf, SameView, Alike
<1>3. waiters'[n][a] = w /\ (serving'[n] = a <=> serving[n] = a) BY <1>1 DEF SameView
<1>4. k \in StackOf(X) /\ w \in Seq([core : X, exclusive : BOOLEAN]) BY <1>1
<1>5. Alone(k) /\ Included(k) /\ Written(k) /\ Queued(k, w, serving[n], a) BY <1>1 DEF LocalOK
<1>6. j \in StackOf(X) /\ SameStates(k, j, X) /\ (j = k \/ j.llc.st # "M")
  <2>1. CASE j = k BY <1>4, <2>1 DEF SameStates
  <2>2. CASE j # k
    <3>1. j = AgedStack(k) /\ k.llc.st # "M" BY <1>1, <2>2 DEF L
    <3> QED BY <1>4, <3>1, AgedStackIs DEF SameStates
  <2> QED BY <2>1, <2>2
<1>7. DOMAIN k.l1 = X /\ DOMAIN j.l1 = X BY <1>4, <1>6 DEF StackOf
<1>8. Alone(j) BY <1>5, <1>6, <1>7 DEF Alone, SameStates
<1>9. Included(j) BY <1>5, <1>6, <1>7 DEF Included, SameStates
<1>10. Written(j) BY <1>5, <1>6 DEF Written
<1>11. ASSUME NEW i \in DOMAIN w PROVE w[i].core \in X
  <2>1. PICK W : W = [core : X, exclusive : BOOLEAN] OBVIOUS
  <2>2. w \in Seq(W) BY <1>4, <2>1
  <2>3. w[i] \in W BY <2>2
  <2> QED BY <2>1, <2>3
<1>12. Queued(j, w, serving'[n], a) BY <1>3, <1>5, <1>6, <1>11 DEF Queued, SameStates
<1> QED BY <1>1, <1>2, <1>3, <1>5, <1>8, <1>9, <1>10, <1>12 DEF LocalOK

LEMMA CacheAssemble ==
  ASSUME Sound, NEW n \in Node, NEW a \in Addr,
         machine' = machine, tags' = tags, reqs' = reqs, todo'.addr = todo.addr, SameDram,
         TypeOK', Elsewhere(n, a), NodeOK(n, a)', LocalOK(n, a)'
  PROVE  Sound'
<1>1. ASSUME NEW b \in Addr PROVE HomeOK(b)'
  <2>1. HomeOK(b) BY DEF Sound
  <2>2. EntryOK(b)' BY <2>1 DEF HomeOK, EntryOK, Waits, First
  <2>3. DramOK(b)' BY <2>1 DEF HomeOK, DramOK, InDram, Waits, First, SameDram
  <2> QED BY <2>2, <2>3 DEF HomeOK
<1>2. ASSUME NEW m \in Node, NEW b \in Addr PROVE NodeOK(m, b)' /\ LocalOK(m, b)'
  <2>1. CASE m = n /\ b = a BY <2>1
  <2>2. CASE m # n \/ b # a
    <3>1. NodeOK(m, b) /\ LocalOK(m, b) BY DEF Sound
    <3>2. SameHome(b) BY DEF SameHome, SameEntry
    <3>3. SameView(m, b) BY <2>2 DEF Elsewhere
    <3>4. NodeOK(m, b)' BY <3>1, <3>2, <3>3, NodeFrame
    <3>5. stack[m][b] \in StackOf(CoresOf(m)) BY DEF Sound, TypeOK, StackTyped
    <3>6. waiters[m][b] \in Seq([core : CoresOf(m), exclusive : BOOLEAN])
      BY DEF Sound, TypeOK, WaitersTyped, Waiter
    <3>7. \/ stack'[m][b] = stack[m][b]
          \/ L(m, b) # "M" /\ stack'[m][b] = AgedStack(stack[m][b])
      BY <2>2 DEF Elsewhere
    <3>8. LocalOK(m, b)' BY <3>1, <3>3, <3>5, <3>6, <3>7, LocalFrame
    <3> QED BY <3>4, <3>8
  <2> QED BY <2>1, <2>2
<1> QED BY <1>1, <1>2, SoundPrime

\* What a step of node n on line a does to its stack and to the queues, when
\* it stores nothing and when core c stores; td and tc are the queues before
\* aging.
Keeps(n, a, k, td, tc) ==
  /\ stack' = [stack EXCEPT ![n][a] = k]
  /\ toDir' = td /\ toCache' = tc
  /\ UNCHANGED <<fromDram, dram, todo>>
Stores(n, a, k, c, td, tc) ==
  /\ stack' = [m \in Node |-> [b \in Addr |->
                 IF b # a THEN stack[m][b]
                 ELSE IF m = n THEN Stored(k, c) ELSE AgedStack(stack[m][b])]]
  /\ toDir' = [m \in Node |-> AgedQueue(td[m], a)]
  /\ toCache' = [m \in Node |-> AgedQueue(tc[m], a)]
  /\ fromDram' = AgedQueue(fromDram, a)
  /\ dram' = [dram EXCEPT ![a] = Aged(@)]
  /\ todo' = IF todo.addr = a THEN [todo EXCEPT !.data = Aged(@)] ELSE todo

LEMMA SettleIs ==
  ASSUME NEW n, NEW a, NEW k, NEW c, NEW td, NEW tc
  PROVE  /\ Settle(n, a, k, TRUE, c, td, tc) => Stores(n, a, k, c, td, tc)
         /\ Settle(n, a, k, FALSE, c, td, tc) => Keeps(n, a, k, td, tc)
         /\ \A store \in BOOLEAN : Settle(n, a, k, store, c, td, tc) =>
              IF store THEN Stores(n, a, k, c, td, tc) ELSE Keeps(n, a, k, td, tc)
BY DEF Settle, Stores, Keeps

\* Either way the rest of the machine is as it was: aging changes data only.
Settled(n, a, td, tc) ==
  /\ MsgsTyped' /\ MemoryTyped' /\ StackTyped' /\ todo'.addr = todo.addr /\ SameDram
  /\ \A m \in Node : \A b : Alike(td[m], toDir'[m], b) /\ Alike(tc[m], toCache'[m], b)
  /\ \A m \in Node, b \in Addr : m # n \/ b # a =>
       \/ stack'[m][b] = stack[m][b]
       \/ L(m, b) # "M" /\ stack'[m][b] = AgedStack(stack[m][b])

LEMMA KeepsEffect ==
  ASSUME Sound, machine' = machine, NEW n \in Node, NEW a \in Addr,
         NEW k \in StackOf(CoresOf(n)),
         NEW td \in [Node -> Seq(ShmemMsg)], NEW tc \in [Node -> Seq(ShmemMsg)],
         Keeps(n, a, k, td, tc)
  PROVE  Settled(n, a, td, tc) /\ stack'[n][a] = k
<1>21. /\ Node' = Node /\ Addr' = Addr /\ ShmemMsg' = ShmemMsg /\ \A m : CoresOf(m)' = CoresOf(m)
  BY SameMachine
<1>22. TypeOK BY DEF Sound
<1>23. Nobody \notin Addr BY <1>22, NobodyElse DEF TypeOK
<1>24. \A m \in Node : \A b \in Addr : stack[m][b] \in StackOf(CoresOf(m))
  BY <1>22 DEF TypeOK, StackTyped
<1>1. /\ stack' = [stack EXCEPT ![n][a] = k]
      /\ toDir' = td /\ toCache' = tc
      /\ UNCHANGED <<fromDram, dram, todo>>
  BY DEF Keeps
<1>2. MsgsTyped' BY <1>21, <1>1 DEF MsgsTyped
<1>3. MemoryTyped' BY <1>21, <1>22, <1>1 DEF TypeOK, MemoryTyped
<1>4. DOMAIN stack = Node /\ \A m \in Node : DOMAIN stack[m] = Addr BY <1>22 DEF TypeOK, StackTyped
<1>5. /\ DOMAIN stack' = Node /\ \A m \in Node : DOMAIN stack'[m] = Addr
      /\ stack'[n][a] = k
      /\ \A m \in Node, b \in Addr : m # n \/ b # a => stack'[m][b] = stack[m][b]
  BY <1>1, <1>4
<1>6. StackTyped'
  <2>1. \A m \in Node : \A b \in Addr : stack'[m][b] \in StackOf(CoresOf(m)) BY <1>24, <1>5
  <2> QED BY <1>21, <1>5, <2>1 DEF StackTyped
<1> QED BY <1>1, <1>2, <1>3, <1>5, <1>6, AlikeRefl DEF SameDram, Settled

LEMMA StoresEffect ==
  ASSUME Sound, machine' = machine, NEW n \in Node, NEW a \in Addr,
         NEW k \in StackOf(CoresOf(n)), NEW c \in CoresOf(n),
         NEW td \in [Node -> Seq(ShmemMsg)], NEW tc \in [Node -> Seq(ShmemMsg)],
         Stores(n, a, k, c, td, tc),
         \A m \in Node \ {n} : L(m, a) # "M"
  PROVE  Settled(n, a, td, tc) /\ stack'[n][a] = Stored(k, c)
<1>21. /\ Node' = Node /\ Addr' = Addr /\ ShmemMsg' = ShmemMsg /\ \A m : CoresOf(m)' = CoresOf(m)
  BY SameMachine
<1>22. TypeOK BY DEF Sound
<1>23. Nobody \notin Addr BY <1>22, NobodyElse DEF TypeOK
<1>24. \A m \in Node : \A b \in Addr : stack[m][b] \in StackOf(CoresOf(m))
  BY <1>22 DEF TypeOK, StackTyped
<1>1. /\ stack' = [m \in Node |-> [b \in Addr |->
                    IF b # a THEN stack[m][b]
                    ELSE IF m = n THEN Stored(k, c) ELSE AgedStack(stack[m][b])]]
      /\ toDir' = [m \in Node |-> AgedQueue(td[m], a)]
      /\ toCache' = [m \in Node |-> AgedQueue(tc[m], a)]
      /\ fromDram' = AgedQueue(fromDram, a)
      /\ dram' = [dram EXCEPT ![a] = Aged(@)]
      /\ todo' = IF todo.addr = a THEN [todo EXCEPT !.data = Aged(@)] ELSE todo
  BY DEF Stores
<1>2. \A m \in Node : td[m] \in Seq(ShmemMsg) /\ tc[m] \in Seq(ShmemMsg) OBVIOUS
<1>3. MsgsTyped' BY <1>21, <1>1, <1>2, AgedView DEF MsgsTyped
<1>4. \A m \in Node : \A b : Alike(td[m], toDir'[m], b) /\ Alike(tc[m], toCache'[m], b)
  BY <1>1, <1>2, AgedView
<1>5. ASSUME NEW d \in AnyData PROVE Aged(d) \in AnyData BY DEF Aged, AnyData, Data, NoData
<1>6. /\ dram' \in [Addr -> AnyData]
      /\ todo' \in [addr : Addr \cup {Nobody}, data : AnyData]
      /\ todo'.addr = todo.addr /\ (todo' = Idle \/ todo'.addr \in Addr)
  <2>1. dram' \in [Addr -> AnyData] BY <1>22, <1>1, <1>5 DEF TypeOK, MemoryTyped
  <2>2. /\ todo' \in [addr : Addr \cup {Nobody}, data : AnyData] /\ todo'.addr = todo.addr
    BY <1>22, <1>1, <1>5 DEF TypeOK, MemoryTyped
  <2>3. todo = Idle => todo.addr = Nobody BY DEF Idle
  <2>4. todo' = Idle \/ todo'.addr \in Addr BY <1>22, <1>23, <1>1, <2>2, <2>3 DEF TypeOK, MemoryTyped
  <2> QED BY <2>1, <2>2, <2>4
<1>7. SameDram /\ fromDram' \in Seq([addr : Addr, data : AnyData])
  <2>1. PICK R : R = [addr : Addr, data : AnyData] OBVIOUS
  <2>2. fromDram \in Seq(R) BY <1>22, <2>1 DEF TypeOK, MemoryTyped
  <2>3. PICK l \in Nat : DOMAIN fromDram = 1..l BY <2>2
  <2>4. ASSUME NEW i \in 1..l PROVE fromDram'[i] \in R /\ fromDram'[i].addr = fromDram[i].addr
    <3>1. fromDram[i] \in R BY <2>2, <2>3
    <3>2. fromDram'[i] = IF fromDram[i].addr = a THEN [fromDram[i] EXCEPT !.data = Aged(@)]
                         ELSE fromDram[i]
      BY <1>1, <2>3 DEF AgedQueue
    <3> QED BY <1>5, <2>1, <3>1, <3>2
  <2>5. DOMAIN fromDram' = 1..l BY <1>1, <2>3 DEF AgedQueue
  <2>6. fromDram' \in [1..l -> R]
    <3>1. fromDram' = [i \in 1..l |-> fromDram'[i]] BY <1>1, <2>3 DEF AgedQueue
    <3> QED BY <2>4, <3>1
  <2>7. fromDram' \in Seq(R) BY <2>6
  <2>8. SameDram BY <2>3, <2>4, <2>5 DEF SameDram
  <2> QED BY <2>1, <2>7, <2>8
<1>8. MemoryTyped' BY <1>21, <1>6, <1>7 DEF MemoryTyped
<1>9. /\ DOMAIN stack' = Node /\ \A m \in Node : DOMAIN stack'[m] = Addr
      /\ stack'[n][a] = Stored(k, c)
      /\ \A m \in Node, b \in Addr : b # a => stack'[m][b] = stack[m][b]
      /\ \A m \in Node : m # n => stack'[m][a] = AgedStack(stack[m][a])
  BY <1>1
<1>10. StackTyped'
  <2>1. Stored(k, c) \in StackOf(CoresOf(n)) BY StoredIs
  <2>2. \A m \in Node : AgedStack(stack[m][a]) \in StackOf(CoresOf(m)) BY <1>24, AgedStackIs
  <2>3. ASSUME NEW m \in Node, NEW b \in Addr PROVE stack'[m][b] \in StackOf(CoresOf(m))
    <3>1. CASE b # a BY <1>24, <1>9, <3>1
    <3>2. CASE b = a /\ m = n BY <1>9, <2>1, <3>2
    <3>3. CASE b = a /\ m # n BY <1>9, <2>2, <3>3
    <3> QED BY <3>1, <3>2, <3>3
  <2> QED BY <1>21, <1>9, <2>3 DEF StackTyped
<1>11. \A m \in Node, b \in Addr : m # n \/ b # a =>
            \/ stack'[m][b] = stack[m][b]
            \/ L(m, b) # "M" /\ stack'[m][b] = AgedStack(stack[m][b])
  BY <1>9
<1> QED BY <1>3, <1>4, <1>6, <1>7, <1>8, <1>9, <1>10, <1>11 DEF Settled

\* The waiters of node n's line a are w now.
WaitersChange(n, a, w) ==
  /\ DOMAIN waiters' = Node /\ \A m \in Node : waiters'[m] \in [Addr -> Seq(Waiter(m))]
  /\ waiters'[n][a] = w
  /\ \A m \in Node, b \in Addr : m # n \/ b # a => waiters'[m][b] = waiters[m][b]
LEMMA WaitersChanged ==
  ASSUME TypeOK, NEW n \in Node, NEW a \in Addr, NEW w \in Seq(Waiter(n)),
         \/ waiters' = [waiters EXCEPT ![n][a] = w]
         \/ waiters' = waiters /\ w = waiters[n][a]
  PROVE  WaitersChange(n, a, w)
<1>1. DOMAIN waiters = Node /\ \A m \in Node : waiters[m] \in [Addr -> Seq(Waiter(m))]
  BY DEF TypeOK, WaitersTyped
<1>2. CASE waiters' = waiters /\ w = waiters[n][a] BY <1>1, <1>2 DEF WaitersChange
<1>3. CASE waiters' = [waiters EXCEPT ![n][a] = w]
  <2>1. DOMAIN waiters' = Node /\ waiters'[n][a] = w BY <1>1, <1>3
  <2>2. \A m \in Node, b \in Addr : m # n \/ b # a => waiters'[m][b] = waiters[m][b] BY <1>1, <1>3
  <2>3. ASSUME NEW m \in Node PROVE waiters'[m] \in [Addr -> Seq(Waiter(m))]
    <3>1. waiters[m] \in [Addr -> Seq(Waiter(m))] BY <1>1
    <3>2. CASE m = n
      <4>1. waiters'[m] = [waiters[m] EXCEPT ![a] = w] BY <1>1, <1>3, <3>2
      <4> QED BY <3>1, <3>2, <4>1
    <3>3. CASE m # n BY <1>1, <1>3, <3>1, <3>3
    <3> QED BY <3>2, <3>3
  <2> QED BY <2>1, <2>2, <2>3 DEF WaitersChange
<1> QED BY <1>2, <1>3

\* A step of node n on line a, put together.
LEMMA CacheStepSound ==
  ASSUME Sound, machine' = machine, tags' = tags, reqs' = reqs,
         NEW n \in Node, NEW a \in Addr,
         NEW td, NEW tc, Settled(n, a, td, tc),
         \A m \in Node \ {n} : td[m] = toDir[m] /\ tc[m] = toCache[m],
         \A b \in Addr \ {a} : Alike(toDir[n], td[n], b) /\ Alike(toCache[n], tc[n], b),
         NEW w, WaitersChange(n, a, w),
         NEW s \in Addr \cup {Nobody}, serving' = [serving EXCEPT ![n] = s],
         s = serving[n] \/ (s \in {a, Nobody} /\ serving[n] \in {a, Nobody}),
         NodeOK(n, a)', LocalOK(n, a)'
  PROVE  Sound'
<1>1. TypeOK BY DEF Sound
<1>2. Nobody \notin Addr BY <1>1, NobodyElse DEF TypeOK
<1>3. Node' = Node /\ Addr' = Addr /\ Entry' = Entry /\ Req' = Req /\ \A m : Waiter(m)' = Waiter(m)
  BY SameMachine
<1>4. /\ MsgsTyped' /\ MemoryTyped' /\ StackTyped' /\ todo'.addr = todo.addr /\ SameDram
      /\ \A m \in Node : \A b : Alike(td[m], toDir'[m], b) /\ Alike(tc[m], toCache'[m], b)
      /\ \A m \in Node, b \in Addr : m # n \/ b # a =>
           \/ stack'[m][b] = stack[m][b]
           \/ L(m, b) # "M" /\ stack'[m][b] = AgedStack(stack[m][b])
  BY DEF Settled
<1>6. /\ DOMAIN waiters' = Node /\ \A m \in Node : waiters'[m] \in [Addr -> Seq(Waiter(m))]
      /\ \A m \in Node, b \in Addr : m # n \/ b # a => waiters'[m][b] = waiters[m][b]
  BY DEF WaitersChange
<1>7. serving \in [Node -> Addr \cup {Nobody}] BY <1>1 DEF TypeOK, WaitersTyped
<1>8. serving' \in [Node -> Addr \cup {Nobody}] BY <1>7
<1>9. WaitersTyped' BY <1>3, <1>6, <1>8 DEF WaitersTyped
<1>10. HomeTyped' BY <1>1, <1>3 DEF TypeOK, HomeTyped
<1>11. TypeOK' BY <1>1, <1>4, <1>9, <1>10 DEF TypeOK
<1>12. ASSUME NEW m \in Node, NEW b \in Addr, m # n \/ b # a
       PROVE  SameView(m, b)
  <2>1. L(m, b)' = L(m, b)
    <3>1. stack[m][b] \in StackOf(CoresOf(m)) BY <1>1 DEF TypeOK, StackTyped
    <3>2. CASE stack'[m][b] = stack[m][b] BY <3>2 DEF L
    <3>3. CASE stack'[m][b] = AgedStack(stack[m][b])
      <4>1. SameStates(stack[m][b], stack'[m][b], CoresOf(m)) BY <3>1, <3>3, AgedStackIs
      <4> QED BY <4>1 DEF SameStates, L
    <3> QED BY <1>4, <1>12, <3>2, <3>3
  <2>2. waiters'[m][b] = waiters[m][b] BY <1>6, <1>12
  <2>3. serving'[m] = b <=> serving[m] = b
    <3>1. CASE m # n BY <1>7, <3>1
    <3>2. CASE m = n
      <4>1. serving'[n] = s BY <1>7
      <4>2. b # a /\ b # Nobody BY <1>2, <1>12, <3>2
      <4> QED BY <3>2, <4>1, <4>2
    <3> QED BY <3>1, <3>2
  <2>4. Alike(toDir[m], td[m], b) /\ Alike(toCache[m], tc[m], b)
    <3>1. CASE m # n BY <3>1, AlikeRefl
    <3>2. CASE m = n BY <1>12, <3>2
    <3> QED BY <3>1, <3>2
  <2>5. Alike(toDir[m], toDir'[m], b) /\ Alike(toCache[m], toCache'[m], b)
    BY <1>4, <2>4, AlikeTrans
  <2> QED BY <2>1, <2>2, <2>3, <2>5 DEF SameView
<1>13. Elsewhere(n, a) BY <1>4, <1>12 DEF Elsewhere
<1> QED BY <1>4, <1>11, <1>13, CacheAssemble

\* The owner of a line in E or M is alone with it.
LEMMA AloneWith ==
  ASSUME Sound, NEW n \in Node, NEW a \in Addr, tags[a].st \in {"E", "M"}, n \in tags[a].sharers
  PROVE  \A m \in Node \ {n} : L(m, a) = "I" /\ ~Holds(m, a)
<1>1. tags[a].sharers = {tags[a].owner} BY DEF Sound, HomeOK, EntryOK
<1>2. \A m \in Node \ {n} : ~Holds(m, a) BY <1>1 DEF Sound, NodeOK, Known
<1> QED BY <1>2 DEF Holds
LEMMA AloneWriter ==
  ASSUME Sound, NEW n \in Node, NEW a \in Addr, L(n, a) \in {"E", "M"}
  PROVE  \A m \in Node \ {n} : L(m, a) = "I"
<1>1. NodeOK(n, a) BY DEF Sound
<1>2. tags[a].st \in {"E", "M"} BY <1>1 DEF NodeOK, Exclusive
<1>3. n \in tags[a].sharers BY <1>1 DEF NodeOK, Known, Holds
<1> QED BY <1>2, <1>3, AloneWith

LEMMA LocalNew ==
  ASSUME NEW n, NEW a, NEW j, j = stack'[n][a], Fine(j), NEW w, w = waiters'[n][a],
         NEW s, s = serving'[n], Queued(j, w, s, a),
         UpgradeOf(n, a)' => Head(w).exclusive
  PROVE  LocalOK(n, a)'
<1>1. Queued(j, w, serving'[n], a) BY DEF Queued
<1> QED BY <1>1 DEF LocalOK, Fine

\* The queue of waiting cores.
LEMMA QueuedKeep ==
  ASSUME NEW k, NEW j, NEW w, NEW s, NEW a, Queued(k, w, s, a),
         \A i \in DOMAIN w : k.l1[w[i].core].st = "I" => j.l1[w[i].core].st = "I"
  PROVE  Queued(j, w, s, a)
BY DEF Queued
LEMMA QueuedAppend ==
  ASSUME NEW W, NEW k, NEW w \in Seq(W), NEW s, NEW a, Queued(k, w, s, a),
         NEW v \in W, k.l1[v.core].st = "I", \A i \in DOMAIN w : w[i].core # v.core,
         NEW x, x = Append(w, v)
  PROVE  Queued(k, x, s, a)
<1>1. PICK l : l = Len(w) OBVIOUS
<1>2. /\ l \in Nat /\ DOMAIN w = 1..l /\ DOMAIN x = 1..(l + 1) /\ x[l + 1] = v
      /\ \A i \in 1..l : x[i] = w[i]
  BY <1>1
<1>3. ASSUME NEW i \in 1..(l + 1) PROVE i \in 1..l \/ (i = l + 1 /\ i \notin 1..l) BY <1>2
<1>4. \A i, j \in DOMAIN x : x[i].core = x[j].core => i = j BY <1>2, <1>3 DEF Queued
<1>5. \A i \in DOMAIN x : k.l1[x[i].core].st = "I" \/ (s = a /\ i = 1) BY <1>2, <1>3 DEF Queued
<1> QED BY <1>4, <1>5 DEF Queued
LEMMA QueuedTail ==
  ASSUME NEW W, NEW k, NEW w \in Seq(W), w # <<>>, NEW s, NEW a, Queued(k, w, s, a),
         NEW x, x = Tail(w), NEW no
  PROVE  Queued(k, x, no, a)
<1>1. PICK l : l = Len(w) - 1 OBVIOUS
<1>2. /\ l \in Nat /\ DOMAIN w = 1..(l + 1) /\ DOMAIN x = 1..l /\ \A i \in 1..l : x[i] = w[i + 1]
  BY <1>1, HeadTailProperties
<1>3. ASSUME NEW i \in DOMAIN x
      PROVE  i \in Nat /\ i + 1 \in DOMAIN w /\ x[i] = w[i + 1] /\ i + 1 # 1
  BY <1>2
<1>4. ASSUME NEW i \in DOMAIN x, NEW j \in DOMAIN x, x[i].core = x[j].core PROVE i = j
  <2>1. i + 1 = j + 1 BY <1>3, <1>4 DEF Queued
  <2> QED BY <1>3, <2>1
<1>5. \A i \in DOMAIN x : k.l1[x[i].core].st = "I" BY <1>3 DEF Queued
<1> QED BY <1>4, <1>5 DEF Queued
LEMMA QueuedServe ==
  ASSUME NEW W, NEW k, NEW j, NEW w \in Seq(W), w # <<>>, NEW s, NEW a, s # a, Queued(k, w, s, a),
         \A i \in DOMAIN w : w[i].core # Head(w).core => j.l1[w[i].core].st = "I"
  PROVE  Queued(j, w, a, a)
<1>1. 1 \in DOMAIN w /\ Head(w) = w[1] OBVIOUS
<1>2. \A i \in DOMAIN w : i # 1 => w[i].core # Head(w).core BY <1>1 DEF Queued
<1> QED BY <1>2 DEF Queued

-----------------------------------------------------------------------------
(* The actions of a node.                                                  *)

LEMMA CacheFacts ==
  ASSUME Sound, NEW n \in Node, NEW a \in Addr
  PROVE  /\ stack[n][a] \in StackOf(CoresOf(n)) /\ Fine(stack[n][a])
         /\ waiters[n][a] \in Seq(Waiter(n)) /\ serving[n] \in Addr \cup {Nobody}
         /\ Queued(stack[n][a], waiters[n][a], serving[n], a)
         /\ UpgradeOf(n, a) => Head(waiters[n][a]).exclusive
         /\ NodeOK(n, a) /\ (Pend(n, a) => ReqOf(reqs[a], n, Requests))
         /\ toDir \in [Node -> Seq(ShmemMsg)] /\ toCache \in [Node -> Seq(ShmemMsg)]
         /\ serving = [serving EXCEPT ![n] = serving[n]]
<1>1. TypeOK BY DEF Sound
<1>2. /\ stack[n][a] \in StackOf(CoresOf(n)) /\ waiters[n][a] \in Seq(Waiter(n))
      /\ serving \in [Node -> Addr \cup {Nobody}] /\ reqs[a] \in Seq(Req)
      /\ toDir \in [Node -> Seq(ShmemMsg)] /\ toCache \in [Node -> Seq(ShmemMsg)]
  BY <1>1 DEF TypeOK, StackTyped, WaitersTyped, MsgsTyped, HomeTyped
<1>3. NodeOK(n, a) /\ LocalOK(n, a) /\ EntryOK(a) BY DEF Sound, HomeOK
<1>4. Pend(n, a) => ReqOf(reqs[a], n, Requests) BY <1>2, <1>3, PendAsked
<1> QED BY <1>2, <1>3, <1>4 DEF LocalOK, Fine

\* The cores in the queue are the node's.
LEMMA WaiterCores ==
  ASSUME NEW n, NEW w \in Seq(Waiter(n))
  PROVE  /\ \A i \in DOMAIN w : w[i].core \in CoresOf(n) /\ w[i].exclusive \in BOOLEAN
         /\ w # <<>> => Head(w).core \in CoresOf(n) /\ Head(w).exclusive \in BOOLEAN
<1>1. PICK W : W = Waiter(n) OBVIOUS
<1>2. w \in Seq(W) BY <1>1
<1>3. \A i \in DOMAIN w : w[i] \in W BY <1>2
<1>4. w # <<>> => Head(w) \in W BY <1>2
<1> QED BY <1>1, <1>3, <1>4 DEF Waiter

\* Steps that neither send nor receive.
LEMMA QuietStep ==
  ASSUME Sound, UNCHANGED <<machine, serving, tags, reqs>>, NEW n \in Node, NEW a \in Addr,
         Settled(n, a, toDir, toCache), NEW k, k = stack[n][a], NEW j, j = stack'[n][a], Fine(j),
         j.llc.st = k.llc.st \/ (j.llc.st \in {"E", "M"} /\ k.llc.st \in {"E", "M"}),
         NEW w, WaitersChange(n, a, w),
         waiters[n][a] # <<>> => w # <<>> /\ Head(w) = Head(waiters[n][a]),
         Queued(j, w, serving[n], a)
  PROVE  Sound'
<1>1. SameHome(a) BY DEF SameHome, SameEntry, Settled
<1>2. Alike(toDir[n], toDir'[n], a) /\ Alike(toCache[n], toCache'[n], a) BY DEF Settled
<1>4. waiters'[n][a] = w BY DEF WaitersChange
<1>5. NodeOK(n, a) BY CacheFacts
<1>6. Asked(n, a) \/ L(n, a) = "U" => waiters[n][a] # <<>> /\ serving[n] # a
  BY <1>5 DEF NodeOK, OneRequest
<1>7. serving[n] = a => waiters[n][a] # <<>> BY <1>5 DEF NodeOK, OneRequest
<1>8. NodeOK(n, a)'
  <2>1. L(n, a)' = L(n, a) \/ (L(n, a) \in {"E", "M"} /\ L(n, a)' \in {"E", "M"}) BY DEF L
  <2>2. serving'[n] = serving[n] OBVIOUS
  <2> QED BY <1>1, <1>2, <1>4, <1>5, <1>6, <1>7, <2>1, <2>2, KeepStep
<1>9. UpgradeOf(n, a)' => UpgradeOf(n, a) BY <1>2 DEF UpgradeOf, Alike
<1>10. UpgradeOf(n, a) => Asked(n, a) BY Kinds, ReqKinds DEF UpgradeOf, Asked
<1>11. UpgradeOf(n, a)' => Head(w).exclusive BY <1>6, <1>9, <1>10, CacheFacts
<1>12. LocalOK(n, a)' BY <1>4, <1>11, LocalNew
<1>13. serving' = [serving EXCEPT ![n] = serving[n]] /\ serving[n] \in Addr \cup {Nobody} BY CacheFacts
<1>14. /\ \A m \in Node \ {n} : toDir[m] = toDir[m] /\ toCache[m] = toCache[m]
       /\ \A b \in Addr \ {a} : Alike(toDir[n], toDir[n], b) /\ Alike(toCache[n], toCache[n], b)
  BY AlikeRefl
<1> QED BY <1>8, <1>12, <1>13, <1>14, CacheStepSound

LEMMA NotWaiting ==
  ASSUME Sound, NEW n \in Node, NEW a \in Addr, NEW c, ~Waiting(c)
  PROVE  \A i \in DOMAIN waiters[n][a] : waiters[n][a][i].core # c
BY DEF Waiting

LEMMA StoreHitSound ==
  ASSUME Sound, NEW c \in Core, NEW a \in Addr, StoreHit(c, a), UNCHANGED directory
  PROVE  Sound'
<1>1. PICK n : n = machine.nodeOf[c] OBVIOUS
<1>2. n \in Node /\ c \in CoresOf(n) BY <1>1, NobodyElse DEF Sound, TypeOK
<1>3. PICK k : k = stack[n][a] OBVIOUS
<1>4. k \in StackOf(CoresOf(n)) /\ Fine(k) BY <1>2, <1>3, CacheFacts
<1>5. UNCHANGED <<machine, serving, waiters, tags, reqs>> BY DEF StoreHit, directory
<1>6. k.l1[c].st = "M" BY <1>1, <1>3 DEF StoreHit, writable
<1>7. DOMAIN k.l1 = CoresOf(n) BY <1>4 DEF StackOf
<1>8. k.llc.st = "M" BY <1>2, <1>4, <1>6, <1>7 DEF Fine, Included
<1>9. \A m \in Node \ {n} : L(m, a) # "M"
  <2>1. L(n, a) \in {"E", "M"} BY <1>3, <1>8 DEF L
  <2>2. \A m \in Node \ {n} : L(m, a) = "I" BY <1>2, <2>1, AloneWriter
  <2> QED BY <2>2
<1>10. Stores(n, a, k, c, toDir, toCache) BY <1>1, <1>3 DEF StoreHit, Settle, Stores
<1>11. toDir \in [Node -> Seq(ShmemMsg)] /\ toCache \in [Node -> Seq(ShmemMsg)] BY <1>2, CacheFacts
<1>12. Settled(n, a, toDir, toCache) /\ stack'[n][a] = Stored(k, c)
  BY <1>2, <1>4, <1>5, <1>9, <1>10, <1>11, StoresEffect
<1>13. PICK j : j = stack'[n][a] OBVIOUS
<1>14. Fine(j) BY <1>2, <1>4, <1>6, <1>12, <1>13, StoreFine
<1>15. SameStates(k, j, CoresOf(n)) BY <1>2, <1>4, <1>12, <1>13, StoredIs
<1>16. PICK w : w = waiters[n][a] OBVIOUS
<1>17. w \in Seq(Waiter(n)) BY <1>2, <1>16, CacheFacts
<1>18. WaitersChange(n, a, w) BY <1>2, <1>5, <1>16, <1>17, WaitersChanged DEF Sound
<1>19. PICK s : s = serving[n] OBVIOUS
<1>20. Queued(j, w, s, a)
  <2>1. Queued(k, w, s, a) BY <1>2, <1>3, <1>16, <1>19, CacheFacts
  <2>2. \A i \in DOMAIN w : k.l1[w[i].core].st = "I" => j.l1[w[i].core].st = "I"
    BY <1>15, <1>17, WaiterCores DEF SameStates
  <2> QED BY <2>1, <2>2, QueuedKeep
<1>21. j.llc.st = k.llc.st BY <1>15 DEF SameStates
<1> QED BY <1>2, <1>3, <1>5, <1>12, <1>13, <1>14, <1>16, <1>17, <1>18, <1>19, <1>20, <1>21, QuietStep

LEMMA LastLevelHitSound ==
  ASSUME Sound, NEW c \in Core, NEW a \in Addr, NEW exclusive \in BOOLEAN,
         LastLevelHit(c, a, exclusive), UNCHANGED directory
  PROVE  Sound'
<1>1. PICK n : n = machine.nodeOf[c] OBVIOUS
<1>2. n \in Node /\ c \in CoresOf(n) BY <1>1, NobodyElse DEF Sound, TypeOK
<1>3. PICK k, X : k = stack[n][a] /\ X = CoresOf(n) OBVIOUS
<1>4. k \in StackOf(X) /\ Fine(k) /\ c \in X BY <1>2, <1>3, CacheFacts
<1>5. UNCHANGED <<machine, serving, waiters, tags, reqs>> BY DEF LastLevelHit, directory
<1>6. k.l1[c].st # "M" /\ ~Waiting(c)
  BY <1>1, <1>3 DEF LastLevelHit, Misses, writable, readable
<1>7. PICK d : d = DropOwn(k, c) OBVIOUS
<1>8. /\ d \in StackOf(X) /\ d.llc = k.llc
      /\ d.l1[c].st = "I" /\ \A e \in X : e # c => d.l1[e] = k.l1[e]
  BY <1>4, <1>7, DropOwnIs
<1>9. Fine(d) BY <1>4, <1>6, <1>7, DropOwnFine
<1>10. PICK f : f = Fill(d, c, exclusive) OBVIOUS
<1>11. Permits(d, exclusive) BY <1>1, <1>3, <1>7 DEF LastLevelHit
<1>12. Settle(n, a, f, exclusive, c, toDir, toCache)
  BY <1>1, <1>3, <1>7, <1>10 DEF LastLevelHit
<1>13. toDir \in [Node -> Seq(ShmemMsg)] /\ toCache \in [Node -> Seq(ShmemMsg)] BY <1>2, CacheFacts
<1>14. PICK j, w, s : j = stack'[n][a] /\ w = waiters[n][a] /\ s = serving[n] OBVIOUS
<1>15. w \in Seq(Waiter(n)) BY <1>2, <1>14, CacheFacts
<1>16. \A i \in DOMAIN w : w[i].core # c /\ w[i].core \in X
  BY <1>2, <1>3, <1>6, <1>14, <1>15, NotWaiting, WaiterCores
<1>17. Queued(k, w, s, a) BY <1>2, <1>3, <1>14, CacheFacts
<1>18. /\ Settled(n, a, toDir, toCache) /\ Fine(j)
       /\ j.llc.st = k.llc.st \/ (j.llc.st \in {"E", "M"} /\ k.llc.st \in {"E", "M"})
       /\ \A i \in DOMAIN w : k.l1[w[i].core].st = "I" => j.l1[w[i].core].st = "I"
  <2>1. CASE exclusive
    <3>1. d.llc.st \in {"E", "M"} BY <1>11, <2>1 DEF Permits
    <3>2. L(n, a) \in {"E", "M"} BY <1>3, <1>8, <3>1 DEF L
    <3>3. \A m \in Node \ {n} : L(m, a) = "I" BY <1>2, <3>2, AloneWriter
    <3>4. \A m \in Node \ {n} : L(m, a) # "M" BY <3>3
    <3>5. Stores(n, a, f, c, toDir, toCache) BY <1>12, <2>1 DEF Settle, Stores
    <3>6. f = FillForWrite(d, c) BY <1>10, <2>1 DEF Fill, FillForWrite
    <3>7. /\ f \in StackOf(X) /\ f.llc.st = "M" /\ Fine(Stored(f, c))
          /\ \A e \in X : e # c => f.l1[e].st = "I"
      BY <1>4, <1>8, <3>6, FillWrite
    <3>8. Settled(n, a, toDir, toCache) /\ j = Stored(f, c)
      BY <1>2, <1>3, <1>5, <1>13, <1>14, <3>4, <3>5, <3>7, StoresEffect
    <3>9. SameStates(f, j, X) BY <1>4, <3>7, <3>8, StoredIs
    <3> QED BY <1>8, <1>16, <3>1, <3>7, <3>8, <3>9 DEF SameStates
  <2>2. CASE ~exclusive
    <3>1. readable(d.llc) BY <1>11, <2>2 DEF Permits
    <3>2. Keeps(n, a, f, toDir, toCache) BY <1>12, <2>2 DEF Settle, Keeps
    <3>3. /\ f \in StackOf(X) /\ f.llc.st = d.llc.st /\ Fine(f)
          /\ \A e \in X : e # c /\ d.l1[e].st = "I" => f.l1[e].st = "I"
      BY <1>4, <1>8, <1>9, <1>10, <2>2, <3>1, FillRead
    <3>4. Settled(n, a, toDir, toCache) /\ j = f
      BY <1>2, <1>3, <1>5, <1>13, <1>14, <3>2, <3>3, KeepsEffect
    <3> QED BY <1>8, <1>16, <3>3, <3>4
  <2> QED BY <2>1, <2>2
<1>19. Queued(j, w, s, a) BY <1>17, <1>18, QueuedKeep
<1>20. WaitersChange(n, a, w) BY <1>2, <1>5, <1>14, <1>15, WaitersChanged DEF Sound
<1> QED BY <1>2, <1>3, <1>5, <1>14, <1>18, <1>19, <1>20, QuietStep

LEMMA EvictPrevSound ==
  ASSUME Sound, NEW c \in Core, NEW a \in Addr, EvictPrev(c, a), UNCHANGED directory
  PROVE  Sound'
<1>1. PICK n : n = machine.nodeOf[c] OBVIOUS
<1>2. n \in Node /\ c \in CoresOf(n) BY <1>1, NobodyElse DEF Sound, TypeOK
<1>3. PICK k, X : k = stack[n][a] /\ X = CoresOf(n) OBVIOUS
<1>4. k \in StackOf(X) /\ Fine(k) /\ c \in X BY <1>2, <1>3, CacheFacts
<1>5. UNCHANGED <<machine, serving, waiters, tags, reqs>> BY DEF EvictPrev, directory
<1>6. ~Waiting(c) BY DEF EvictPrev
<1>7. PICK f : f = UpdatePrev(k, {c}, "I") OBVIOUS
<1>8. Keeps(n, a, f, toDir, toCache)
  <2>1. stack' = [stack EXCEPT ![n][a] = f]
    <3>1. stack' = [stack EXCEPT ![n][a] = UpdatePrev(@, {c}, "I")] BY <1>1 DEF EvictPrev
    <3> QED BY <1>3, <1>7, <3>1
  <2> QED BY <2>1 DEF EvictPrev, Keeps
<1>9. /\ f \in StackOf(X) /\ f.llc.st = k.llc.st /\ Fine(f)
      /\ \A e \in X : e # c => f.l1[e] = k.l1[e]
  <2>1. Fine(f) BY <1>4, <1>7, EvictPrevFine
  <2>2. {c} \in SUBSET X BY <1>4
  <2> QED BY <1>4, <1>7, <2>1, <2>2, UpdatePrevEffect
<1>10. toDir \in [Node -> Seq(ShmemMsg)] /\ toCache \in [Node -> Seq(ShmemMsg)] BY <1>2, CacheFacts
<1>11. PICK j, w, s : j = stack'[n][a] /\ w = waiters[n][a] /\ s = serving[n] OBVIOUS
<1>12. w \in Seq(Waiter(n)) BY <1>2, <1>11, CacheFacts
<1>13. \A i \in DOMAIN w : w[i].core # c /\ w[i].core \in X
  BY <1>2, <1>3, <1>6, <1>11, <1>12, NotWaiting, WaiterCores
<1>14. Queued(k, w, s, a) BY <1>2, <1>3, <1>11, CacheFacts
<1>15. Settled(n, a, toDir, toCache) /\ j = f
  BY <1>2, <1>3, <1>5, <1>8, <1>9, <1>10, <1>11, KeepsEffect
<1>16. \A i \in DOMAIN w : k.l1[w[i].core].st = "I" => j.l1[w[i].core].st = "I"
  BY <1>9, <1>13, <1>15
<1>17. Queued(j, w, s, a) BY <1>14, <1>16, QueuedKeep
<1>18. WaitersChange(n, a, w) BY <1>2, <1>5, <1>11, <1>12, WaitersChanged DEF Sound
<1> QED BY <1>2, <1>3, <1>5, <1>9, <1>11, <1>15, <1>17, <1>18, QuietStep

\* Appending to the queue of node n.
Added(q, n, m) == [q EXCEPT ![n] = Append(@, m)]
LEMMA Sent ==
  ASSUME NEW q \in [Node -> Seq(ShmemMsg)], NEW n \in Node, NEW m \in ShmemMsg, NEW a, m.addr = a,
         NEW t, t = m.type, NEW p, p = Added(q, n, m)
  PROVE  /\ p \in [Node -> Seq(ShmemMsg)]
         /\ \A l \in Node \ {n} : p[l] = q[l]
         /\ Longer(q[n], p[n], a, t)
         /\ \A b \in Addr \ {a} : Alike(q[n], p[n], b)
<1>1. PICK Q : Q = Seq(ShmemMsg) OBVIOUS
<1>2. q \in [Node -> Q] /\ q[n] \in Q BY <1>1
<1>3. p[n] = Append(q[n], m) /\ \A l \in Node \ {n} : p[l] = q[l] BY <1>2 DEF Added
<1>4. p[n] \in Q BY <1>1, <1>2, <1>3
<1>5. p \in [Node -> Q] BY <1>2, <1>3, <1>4 DEF Added
<1>6. q[n] \in Seq(ShmemMsg) BY <1>1, <1>2
<1>7. Longer(q[n], p[n], a, t) BY <1>3, <1>6, Appended
<1>8. \A b \in Addr \ {a} : Alike(q[n], p[n], b) BY <1>3, <1>6, AppendedOther
<1> QED BY <1>1, <1>3, <1>5, <1>7, <1>8
LEMMA LongerAlike ==
  ASSUME NEW q, NEW p, NEW r, NEW a, NEW t, Longer(q, p, a, t), Alike(p, r, a)
  PROVE  Longer(q, r, a, t)
BY DEF Alike, Longer

LEMMA LastLevelMissSound ==
  ASSUME Sound, NEW c \in Core, NEW a \in Addr, NEW exclusive \in BOOLEAN,
         LastLevelMiss(c, a, exclusive), UNCHANGED directory
  PROVE  Sound'
<1>1. PICK n : n = machine.nodeOf[c] OBVIOUS
<1>2. n \in Node /\ c \in CoresOf(n) BY <1>1, NobodyElse DEF Sound, TypeOK
<1>3. PICK k, X : k = stack[n][a] /\ X = CoresOf(n) OBVIOUS
<1>4. k \in StackOf(X) /\ Fine(k) /\ c \in X BY <1>2, <1>3, CacheFacts
<1>5. UNCHANGED <<machine, serving, tags, reqs, toCache, fromDram, dram, todo>>
  BY DEF LastLevelMiss, directory
<1>6. ~Waiting(c) BY DEF LastLevelMiss, Misses
<1>7. PICK d, p, f, u, t :
        /\ d = DropOwn(k, c)
        /\ p = IF d.llc.st = "S" THEN UpdatePrev(d, DOMAIN d.l1 \ {c}, "I") ELSE d
        /\ t = RequestFor(p, exclusive)
        /\ u = [p EXCEPT !.llc.st = "U"]
        /\ f = IF waiters[n][a] = <<>> /\ t = "UPGRADE_REQ" THEN u ELSE p
  OBVIOUS
<1>8. d \in StackOf(X) /\ d.llc = k.llc BY <1>4, <1>7, DropOwnIs
<1>9. DOMAIN d.l1 = X BY <1>8 DEF StackOf
<1>10. ~Permits(d, exclusive) BY <1>1, <1>3, <1>7 DEF LastLevelMiss
<1>11. k.llc.st \in {"I", "S", "U"} /\ (~exclusive => k.llc.st # "S")
  <2>1. d.llc.st \in {"I", "S", "U", "E", "M"} BY <1>8 DEF StackOf, AnyLine
  <2> QED BY <1>8, <1>10, <2>1 DEF Permits, readable
<1>12. /\ p \in StackOf(X) /\ p.llc.st = k.llc.st /\ p.l1[c].st = "I" /\ Fine(p)
       /\ \A e \in X : k.l1[e].st = "I" => p.l1[e].st = "I"
       /\ k.llc.st = "S" => Fine(u)
       /\ u \in StackOf(X) /\ u.llc.st = "U" /\ u.l1 = p.l1
  <2>1. (d.llc.st = "S" => p = UpdatePrev(d, X \ {c}, "I")) /\ (d.llc.st # "S" => p = d)
    BY <1>7, <1>9
  <2>2. d = DropOwn(k, c) /\ u = Upgrading(p) BY <1>7 DEF Upgrading
  <2> QED BY <1>4, <1>11, <2>1, <2>2, MissFine
<1>13. PICK w, v, x, s : /\ w = waiters[n][a] /\ v = [core |-> c, exclusive |-> exclusive]
                         /\ x = Append(w, v) /\ s = serving[n]
  OBVIOUS
<1>14. w \in Seq(Waiter(n)) /\ v \in Waiter(n) BY <1>2, <1>13, CacheFacts DEF Waiter
<1>15. x \in Seq(Waiter(n)) /\ x # <<>> /\ (w # <<>> => Head(x) = Head(w)) /\ (w = <<>> => Head(x) = v)
  BY <1>13, <1>14, ReqAppended
<1>16. waiters' = [waiters EXCEPT ![n][a] = x] BY <1>1, <1>13 DEF LastLevelMiss
<1>17. WaitersChange(n, a, x) BY <1>2, <1>15, <1>16, WaitersChanged DEF Sound
<1>18. stack' = [stack EXCEPT ![n][a] = f] BY <1>1, <1>3, <1>7 DEF LastLevelMiss
<1>19. f \in StackOf(X) /\ f.l1 = p.l1 BY <1>7, <1>12
<1>20. toDir' = IF w = <<>> THEN [toDir EXCEPT ![n] = Append(@, Msg(t, a, NoData))] ELSE toDir
  BY <1>1, <1>3, <1>7, <1>13 DEF LastLevelMiss
<1>21. Queued(f, x, s, a)
  <2>1. Queued(k, w, s, a) BY <1>2, <1>3, <1>13, CacheFacts
  <2>2. \A i \in DOMAIN w : w[i].core # c /\ w[i].core \in X
    BY <1>2, <1>3, <1>6, <1>13, <1>14, NotWaiting, WaiterCores
  <2>3. \A i \in DOMAIN w : k.l1[w[i].core].st = "I" => f.l1[w[i].core].st = "I"
    BY <1>12, <1>19, <2>2
  <2>4. Queued(f, w, s, a) BY <2>1, <2>3, QueuedKeep
  <2>5. f.l1[v.core].st = "I" /\ \A i \in DOMAIN w : w[i].core # v.core BY <1>12, <1>13, <1>19, <2>2
  <2> QED BY <1>13, <1>14, <2>4, <2>5, QueuedAppend
<1>22. toDir \in [Node -> Seq(ShmemMsg)] /\ toCache \in [Node -> Seq(ShmemMsg)] BY <1>2, CacheFacts
<1>23. CASE w # <<>>
  <2>1. f = p /\ toDir' = toDir BY <1>7, <1>13, <1>20, <1>23
  <2>2. Keeps(n, a, f, toDir, toCache) BY <1>5, <1>18, <2>1 DEF Keeps
  <2>3. PICK j : j = stack'[n][a] OBVIOUS
  <2>4. Settled(n, a, toDir, toCache) /\ j = f
    BY <1>2, <1>3, <1>5, <1>19, <1>22, <2>2, <2>3, KeepsEffect
  <2>5. j.llc.st = k.llc.st /\ Fine(j) BY <1>12, <2>1, <2>4
  <2>6. Queued(j, x, serving[n], a) BY <1>13, <1>21, <2>4
  <2> QED BY <1>2, <1>3, <1>5, <1>13, <1>15, <1>17, <2>3, <2>4, <2>5, <2>6, QuietStep
<1>24. CASE w = <<>>
  <2>1. PICK m, td : m = Msg(t, a, NoData) /\ td = [toDir EXCEPT ![n] = Append(@, m)] OBVIOUS
  <2>2. NodeOK(n, a) BY <1>2, CacheFacts
  <2>3. ~Asked(n, a) /\ L(n, a) # "U" /\ s # a BY <1>13, <1>24, <2>2 DEF NodeOK, OneRequest
  <2>4. k.llc.st \in {"I", "S"} BY <1>3, <1>11, <2>3 DEF L
  <2>5. \/ t = "UPGRADE_REQ" /\ k.llc.st = "S" /\ exclusive
        \/ t \in Fresh /\ k.llc.st = "I"
    BY <1>7, <1>11, <1>12, <2>4 DEF RequestFor, Fresh
  <2>6. m \in ShmemMsg /\ m.addr = a /\ m.type = t
    BY <2>1, <2>5, MsgType DEF Fresh, Types, Requests, AnyData
  <2>7. /\ td \in [Node -> Seq(ShmemMsg)]
        /\ \A l \in Node \ {n} : td[l] = toDir[l]
        /\ Longer(toDir[n], td[n], a, t)
        /\ \A b \in Addr \ {a} : Alike(toDir[n], td[n], b)
    <3>1. td = Added(toDir, n, m) BY <2>1 DEF Added
    <3>2. t = m.type /\ a = m.addr /\ m \in ShmemMsg BY <2>6
    <3>3. toDir \in [Node -> Seq(ShmemMsg)] BY <1>22
    <3> QED BY <1>2, <3>1, <3>2, <3>3, Sent
  <2>8. Keeps(n, a, f, td, toCache) BY <1>5, <1>18, <1>20, <1>24, <2>1 DEF Keeps
  <2>9. Settled(n, a, td, toCache) /\ stack'[n][a] = f
    BY <1>2, <1>3, <1>5, <1>19, <1>22, <2>7, <2>8, KeepsEffect
  <2>10. PICK j : j = stack'[n][a] OBVIOUS
  <2>11. /\ Fine(j)
         /\ \/ t = "UPGRADE_REQ" /\ k.llc.st = "S" /\ j.llc.st = "U"
            \/ t \in Fresh /\ k.llc.st = "I" /\ j.llc.st = "I"
    <3>1. CASE t = "UPGRADE_REQ"
      <4>1. f = u BY <1>7, <1>13, <1>24, <3>1
      <4> QED BY <1>12, <2>5, <2>9, <2>10, <3>1, <4>1 DEF Fresh
    <3>2. CASE t # "UPGRADE_REQ"
      <4>1. f = p BY <1>7, <3>2
      <4> QED BY <1>12, <2>5, <2>9, <2>10, <3>2, <4>1
    <3> QED BY <3>1, <3>2
  <2>12. SameHome(a) BY <1>5 DEF SameHome, SameEntry
  <2>13. Longer(toDir[n], toDir'[n], a, t) /\ Alike(toCache[n], toCache'[n], a)
    <3>1. Alike(td[n], toDir'[n], a) /\ Alike(toCache[n], toCache'[n], a)
      BY <1>2, <2>9 DEF Settled
    <3> QED BY <2>7, <3>1, LongerAlike
  <2>14. waiters'[n][a] = x BY <1>17 DEF WaitersChange
  <2>15. NodeOK(n, a)'
    <3>1. \/ t \in Fresh /\ L(n, a) = "I" /\ L(n, a)' = "I"
          \/ t = "UPGRADE_REQ" /\ L(n, a) = "S" /\ L(n, a)' = "U"
      BY <1>3, <2>10, <2>11 DEF L
    <3> QED BY <1>5, <1>13, <1>15, <2>2, <2>3, <2>12, <2>13, <2>14, <3>1, AskStep
  <2>16. UpgradeOf(n, a)' => Head(x).exclusive
    <3>1. ~UpgradeOf(n, a) BY <2>3, Kinds, ReqKinds DEF UpgradeOf, Asked
    <3>2. UpgradeOf(n, a)' => t = "UPGRADE_REQ"
      BY <1>5, <2>13, <3>1 DEF UpgradeOf, Longer, Alike
    <3> QED BY <1>13, <1>15, <1>24, <2>5, <3>2 DEF Fresh
  <2>17. LocalOK(n, a)'
    <3>1. Queued(j, x, s, a) /\ s = serving'[n] BY <1>5, <1>13, <1>21, <2>9, <2>10
    <3> QED BY <2>10, <2>11, <2>14, <2>16, <3>1, LocalNew
  <2>18. serving' = [serving EXCEPT ![n] = s] /\ s \in Addr \cup {Nobody} /\ s = serving[n]
    BY <1>2, <1>5, <1>13, CacheFacts
  <2>19. /\ \A l \in Node \ {n} : td[l] = toDir[l] /\ toCache[l] = toCache[l]
         /\ \A b \in Addr \ {a} : Alike(toDir[n], td[n], b) /\ Alike(toCache[n], toCache[n], b)
    BY <2>7, AlikeRefl
  <2> QED BY <1>2, <1>5, <1>17, <2>9, <2>15, <2>17, <2>18, <2>19, CacheStepSound
<1> QED BY <1>23, <1>24

\* The four ways to go on with the waiters q of a line in state k.
Asks(n, a, k, q, tc) ==
  /\ q # <<>> /\ Head(q).exclusive /\ k.llc.st = "S"
  /\ serving' = [serving EXCEPT ![n] = Nobody]
  /\ Keeps(n, a, Upgrading(k), [toDir EXCEPT ![n] = Append(@, Msg("UPGRADE_REQ", a, NoData))], tc)
ServesWriter(n, a, k, q, tc) ==
  /\ q # <<>> /\ Head(q).exclusive /\ k.llc.st \in {"E", "M"}
  /\ serving' = [serving EXCEPT ![n] = a]
  /\ Stores(n, a, FillForWrite(k, Head(q).core), Head(q).core, toDir, tc)
ServesReader(n, a, k, q, tc) ==
  /\ q # <<>> /\ ~Head(q).exclusive /\ readable(k.llc)
  /\ serving' = [serving EXCEPT ![n] = a]
  /\ \E ex \in BOOLEAN : ~ex /\ Keeps(n, a, Fill(k, Head(q).core, ex), toDir, tc)
Sleeps(n, a, k, q, tc) ==
  q = <<>> /\ serving' = [serving EXCEPT ![n] = Nobody] /\ Keeps(n, a, k, toDir, tc)

LEMMA WakeIs ==
  ASSUME NEW n, NEW a, NEW k, NEW q, NEW tc, NEW checks, Wake(n, a, k, q, tc, checks), failed' = {},
         q # <<>> => Head(q).exclusive \in BOOLEAN
  PROVE  /\ waiters' = [waiters EXCEPT ![n][a] = q]
         /\ \/ Asks(n, a, k, q, tc) \/ ServesWriter(n, a, k, q, tc)
            \/ ServesReader(n, a, k, q, tc) \/ Sleeps(n, a, k, q, tc)
         /\ Broken(checks) = {}
<1> DEFINE w == Head(q)
           upgrade == q # <<>> /\ w.exclusive /\ k.llc.st = "S"
           wake == q # <<>> /\ ~upgrade /\ Permits(k, w.exclusive)
           rest == [data_already_gone |-> q = <<>> \/ upgrade \/ wake,
                    writeback_taken |-> wake => WritebackTaken(k, DOMAIN k.l1 \ {w.core})]
<1>1. /\ waiters' = [waiters EXCEPT ![n][a] = q]
      /\ serving' = [serving EXCEPT ![n] = IF wake THEN a ELSE Nobody]
      /\ failed' = failed \cup Broken(checks) \cup Broken(rest)
  BY DEF Wake
<1>2. Broken(checks) = {} /\ Broken(rest) = {} BY <1>1
<1>3. q = <<>> \/ upgrade \/ wake
  <2>1. "data_already_gone" \in DOMAIN rest
        /\ (rest["data_already_gone"] <=> q = <<>> \/ upgrade \/ wake)
    OBVIOUS
  <2> QED BY <1>2, <2>1 DEF Broken
<1>4. CASE upgrade
  <2>1. Keeps(n, a, [k EXCEPT !.llc.st = "U"], [toDir EXCEPT ![n] = Append(@, Msg("UPGRADE_REQ", a, NoData))], tc)
    BY <1>4 DEF Wake, Settle, Keeps
  <2>2. serving' = [serving EXCEPT ![n] = Nobody] BY <1>1, <1>4
  <2>3. Asks(n, a, k, q, tc) BY <1>4, <2>1, <2>2 DEF Asks, Upgrading
  <2> QED BY <1>1, <1>2, <2>3
<1>5. CASE wake
  <2>1. serving' = [serving EXCEPT ![n] = a] BY <1>1, <1>5
  <2>2. Settle(n, a, Fill(k, w.core, w.exclusive), w.exclusive, w.core, toDir, tc) BY <1>5 DEF Wake
  <2>3. w.exclusive \in BOOLEAN BY <1>5
  <2>4. CASE w.exclusive
    <3>1. k.llc.st \in {"E", "M"} BY <1>5, <2>4 DEF Permits
    <3>2. Stores(n, a, FillForWrite(k, w.core), w.core, toDir, tc)
      <4>1. Fill(k, w.core, w.exclusive) = FillForWrite(k, w.core) BY <2>4 DEF Fill, FillForWrite
      <4>2. PICK f : f = Fill(k, w.core, w.exclusive) OBVIOUS
      <4>3. Stores(n, a, f, w.core, toDir, tc) BY <2>2, <2>4, <4>2 DEF Settle, Stores
      <4> QED BY <4>1, <4>2, <4>3
    <3>3. ServesWriter(n, a, k, q, tc) BY <1>5, <2>1, <2>4, <3>1, <3>2 DEF ServesWriter
    <3> QED BY <1>1, <1>2, <3>3
  <2>5. CASE ~w.exclusive
    <3>1. readable(k.llc) BY <1>5, <2>5 DEF Permits
    <3>2. Keeps(n, a, Fill(k, w.core, w.exclusive), toDir, tc)
      <4>2. PICK f : f = Fill(k, w.core, w.exclusive) OBVIOUS
      <4>3. Keeps(n, a, f, toDir, tc) BY <2>2, <2>5, <4>2 DEF Settle, Keeps
      <4> QED BY <4>2, <4>3
    <3>3. ServesReader(n, a, k, q, tc) BY <1>5, <2>1, <2>3, <2>5, <3>1, <3>2 DEF ServesReader
    <3> QED BY <1>1, <1>2, <3>3
  <2> QED BY <2>3, <2>4, <2>5
<1>6. CASE q = <<>>
  <2>1. Keeps(n, a, k, toDir, tc) BY <1>6 DEF Wake, Settle, Keeps
  <2>2. serving' = [serving EXCEPT ![n] = Nobody] BY <1>1, <1>6
  <2>3. Sleeps(n, a, k, q, tc) BY <1>6, <2>1, <2>2 DEF Sleeps
  <2> QED BY <1>1, <1>2, <2>3
<1> QED BY <1>3, <1>4, <1>5, <1>6

\* What they have in common: the waiters are in order, and the node asks for
\* an upgrade or keeps the line as it is.
WokenTo(n, a, k, q, tc, td, e, j) ==
  /\ td \in [Node -> Seq(ShmemMsg)] /\ \A l \in Node \ {n} : td[l] = toDir[l]
  /\ \A b \in Addr \ {a} : Alike(toDir[n], td[n], b)
  /\ Settled(n, a, td, tc) /\ j = stack'[n][a] /\ Fine(j)
  /\ e \in {a, Nobody} /\ serving' = [serving EXCEPT ![n] = e] /\ Queued(j, q, e, a)
  /\ e = a => q # <<>>
  /\ \/ /\ Longer(toDir[n], td[n], a, "UPGRADE_REQ") /\ k.llc.st = "S" /\ j.llc.st = "U"
        /\ q # <<>> /\ Head(q).exclusive /\ e = Nobody
     \/ /\ td = toDir
        /\ j.llc.st = k.llc.st \/ (k.llc.st \in {"E", "M"} /\ j.llc.st = "M")

LEMMA WokenEffect ==
  ASSUME Sound, machine' = machine, NEW n \in Node, NEW a \in Addr,
         NEW k \in StackOf(CoresOf(n)), NEW q \in Seq(Waiter(n)), NEW tc \in [Node -> Seq(ShmemMsg)],
         Queued(k, q, Nobody, a),
         Fine(k) \/ (q # <<>> /\ Head(q).exclusive /\ k.llc.st = "M"),
         k.llc.st \in {"E", "M"} => \A m \in Node \ {n} : L(m, a) # "M",
         \/ Asks(n, a, k, q, tc) \/ ServesWriter(n, a, k, q, tc)
         \/ ServesReader(n, a, k, q, tc) \/ Sleeps(n, a, k, q, tc)
  PROVE  \E td, e, j : WokenTo(n, a, k, q, tc, td, e, j)
<1>1. PICK X, c, j : X = CoresOf(n) /\ c = Head(q).core /\ j = stack'[n][a] OBVIOUS
<1>2. k \in StackOf(X) BY <1>1
<1>3. Nobody # a BY NobodyElse DEF Sound, TypeOK
<1>4. toDir \in [Node -> Seq(ShmemMsg)] BY CacheFacts
<1>5. \A l \in Node \ {n} : toDir[l] = toDir[l] OBVIOUS
<1>6. \A b \in Addr \ {a} : Alike(toDir[n], toDir[n], b) BY AlikeRefl
<1>7. (\A i \in DOMAIN q : q[i].core \in X) /\ (q # <<>> => c \in X /\ Head(q).exclusive \in BOOLEAN)
  BY <1>1, WaiterCores
<1>8. \A i \in DOMAIN q : k.l1[q[i].core].st = "I" BY <1>3 DEF Queued
<1>9. CASE Asks(n, a, k, q, tc)
  <2>1. q # <<>> /\ Head(q).exclusive /\ k.llc.st = "S" BY <1>9 DEF Asks
  <2>2. Fine(k) BY <2>1
  <2>3. PICK u, td, m : /\ u = Upgrading(k) /\ m = Msg("UPGRADE_REQ", a, NoData)
                        /\ td = [toDir EXCEPT ![n] = Append(@, m)]
    OBVIOUS
  <2>4. Keeps(n, a, u, td, tc) /\ serving' = [serving EXCEPT ![n] = Nobody] BY <1>9, <2>3 DEF Asks
  <2>5. u \in StackOf(X) /\ u.llc.st = "U" /\ u.l1 = k.l1 /\ Fine(u)
    BY <1>2, <2>1, <2>2, <2>3, UpgradingFine
  <2>6. m \in ShmemMsg /\ m.addr = a /\ m.type = "UPGRADE_REQ"
    BY <2>3, MsgType DEF Types, Requests, AnyData
  <2>7. /\ td \in [Node -> Seq(ShmemMsg)]
        /\ \A l \in Node \ {n} : td[l] = toDir[l]
        /\ Longer(toDir[n], td[n], a, "UPGRADE_REQ")
        /\ \A b \in Addr \ {a} : Alike(toDir[n], td[n], b)
    <3>1. td = Added(toDir, n, m) BY <2>3 DEF Added
    <3>2. PICK t : t = "UPGRADE_REQ" OBVIOUS
    <3>3. t = m.type /\ a = m.addr /\ m \in ShmemMsg BY <2>6, <3>2
    <3>4. /\ td \in [Node -> Seq(ShmemMsg)]
          /\ \A l \in Node \ {n} : td[l] = toDir[l]
          /\ Longer(toDir[n], td[n], a, t)
          /\ \A b \in Addr \ {a} : Alike(toDir[n], td[n], b)
      BY <1>4, <3>1, <3>3, Sent
    <3> QED BY <3>2, <3>4
  <2>8. Settled(n, a, td, tc) /\ j = u BY <1>1, <2>4, <2>5, <2>7, KeepsEffect
  <2>9. Queued(j, q, Nobody, a)
    <3>1. \A i \in DOMAIN q : k.l1[q[i].core].st = "I" => j.l1[q[i].core].st = "I" BY <2>5, <2>8
    <3> QED BY <3>1, QueuedKeep
  <2>10. WokenTo(n, a, k, q, tc, td, Nobody, j)
    BY <1>1, <1>3, <2>1, <2>4, <2>5, <2>7, <2>8, <2>9 DEF WokenTo
  <2> QED BY <2>10
<1>10. CASE ServesWriter(n, a, k, q, tc)
  <2>1. q # <<>> /\ k.llc.st \in {"E", "M"} /\ serving' = [serving EXCEPT ![n] = a]
    BY <1>10 DEF ServesWriter
  <2>2. PICK f : f = FillForWrite(k, c) OBVIOUS
  <2>3. Stores(n, a, f, c, toDir, tc) BY <1>1, <1>10, <2>2 DEF ServesWriter
  <2>4. /\ f \in StackOf(X) /\ f.llc.st = "M" /\ Fine(Stored(f, c))
        /\ \A d \in X : d # c => f.l1[d].st = "I"
    BY <1>2, <1>7, <2>1, <2>2, FillWrite
  <2>5. \A m \in Node \ {n} : L(m, a) # "M" BY <2>1
  <2>6. Settled(n, a, toDir, tc) /\ j = Stored(f, c)
    BY <1>1, <1>4, <1>7, <2>1, <2>3, <2>4, <2>5, StoresEffect
  <2>7. SameStates(f, j, X) BY <1>7, <2>1, <2>4, <2>6, StoredIs
  <2>8. Queued(j, q, a, a)
    <3>1. \A i \in DOMAIN q : q[i].core # Head(q).core => j.l1[q[i].core].st = "I"
      BY <1>1, <1>7, <2>4, <2>7 DEF SameStates
    <3> QED BY <1>3, <2>1, <3>1, QueuedServe
  <2>9. Fine(j) /\ j.llc.st = "M" BY <2>4, <2>6, <2>7 DEF SameStates
  <2>10. WokenTo(n, a, k, q, tc, toDir, a, j)
    BY <1>1, <1>4, <1>5, <1>6, <2>1, <2>6, <2>8, <2>9 DEF WokenTo
  <2> QED BY <2>10
<1>11. CASE ServesReader(n, a, k, q, tc)
  <2>1. /\ q # <<>> /\ ~Head(q).exclusive /\ readable(k.llc) /\ serving' = [serving EXCEPT ![n] = a]
    BY <1>11 DEF ServesReader
  <2>2. PICK ex \in BOOLEAN : ~ex /\ Keeps(n, a, Fill(k, c, ex), toDir, tc)
    BY <1>1, <1>11 DEF ServesReader
  <2>3. PICK f : f = Fill(k, c, ex) OBVIOUS
  <2>4. Fine(k) BY <2>1
  <2>5. k.l1[c].st = "I"
    <3>1. 1 \in DOMAIN q /\ q[1] = Head(q) BY <2>1
    <3> QED BY <1>1, <1>8, <3>1
  <2>6. /\ f \in StackOf(X) /\ f.llc.st = k.llc.st /\ Fine(f)
        /\ \A d \in X : d # c /\ k.l1[d].st = "I" => f.l1[d].st = "I"
    BY <1>2, <1>7, <2>1, <2>2, <2>3, <2>4, <2>5, FillRead
  <2>7. Keeps(n, a, f, toDir, tc) BY <2>2, <2>3
  <2>8. Settled(n, a, toDir, tc) /\ j = f BY <1>1, <1>4, <2>6, <2>7, KeepsEffect
  <2>9. Queued(j, q, a, a)
    <3>1. \A i \in DOMAIN q : q[i].core # Head(q).core => j.l1[q[i].core].st = "I"
      BY <1>1, <1>7, <1>8, <2>6, <2>8
    <3> QED BY <1>3, <2>1, <3>1, QueuedServe
  <2>10. WokenTo(n, a, k, q, tc, toDir, a, j)
    BY <1>1, <1>4, <1>5, <1>6, <2>1, <2>6, <2>8, <2>9 DEF WokenTo
  <2> QED BY <2>10
<1>12. CASE Sleeps(n, a, k, q, tc)
  <2>1. q = <<>> /\ serving' = [serving EXCEPT ![n] = Nobody] /\ Keeps(n, a, k, toDir, tc)
    BY <1>12 DEF Sleeps
  <2>2. Settled(n, a, toDir, tc) /\ j = k BY <1>1, <1>4, <2>1, KeepsEffect
  <2>3. WokenTo(n, a, k, q, tc, toDir, Nobody, j)
    BY <1>1, <1>3, <1>4, <1>5, <1>6, <2>1, <2>2 DEF WokenTo
  <2> QED BY <2>3
<1> QED BY <1>9, <1>10, <1>11, <1>12

LEMMA WakeNextSound ==
  ASSUME Sound, NEW n \in Node, WakeNext(n), UNCHANGED directory, failed' = {}
  PROVE  Sound'
<1>1. PICK a : a = serving[n] OBVIOUS
<1>2. a \in Addr BY <1>1 DEF WakeNext, Sound, TypeOK, WaitersTyped
<1>3. PICK k, w, q : k = stack[n][a] /\ w = waiters[n][a] /\ q = Tail(w) OBVIOUS
<1>4. /\ k \in StackOf(CoresOf(n)) /\ Fine(k) /\ w \in Seq(Waiter(n)) /\ Queued(k, w, a, a)
      /\ NodeOK(n, a) /\ toCache \in [Node -> Seq(ShmemMsg)]
  BY <1>1, <1>2, <1>3, CacheFacts
<1>5. w # <<>> /\ ~Asked(n, a) /\ L(n, a) # "U" BY <1>1, <1>3, <1>4 DEF NodeOK, OneRequest
<1>6. q \in Seq(Waiter(n)) BY <1>3, <1>4, <1>5
<1>7. Queued(k, q, Nobody, a) BY <1>3, <1>4, <1>5, QueuedTail
<1>8. q # <<>> => Head(q).exclusive \in BOOLEAN BY <1>6, WaiterCores
<1>9. UNCHANGED <<machine, tags, reqs>> BY DEF WakeNext, directory
<1>10. PICK checks : Wake(n, a, k, q, toCache, checks)
  BY <1>1, <1>3 DEF WakeNext
<1>11. /\ waiters' = [waiters EXCEPT ![n][a] = q]
       /\ \/ Asks(n, a, k, q, toCache) \/ ServesWriter(n, a, k, q, toCache)
          \/ ServesReader(n, a, k, q, toCache) \/ Sleeps(n, a, k, q, toCache)
  BY <1>8, <1>10, WakeIs
<1>12. k.llc.st \in {"E", "M"} => \A m \in Node \ {n} : L(m, a) # "M"
  BY <1>2, <1>3, AloneWriter DEF L
<1>13. PICK td, e, j : WokenTo(n, a, k, q, toCache, td, e, j)
  BY <1>2, <1>4, <1>6, <1>7, <1>9, <1>11, <1>12, WokenEffect
<1>14. WaitersChange(n, a, q) BY <1>2, <1>6, <1>11, WaitersChanged DEF Sound
<1>15. waiters'[n][a] = q BY <1>14 DEF WaitersChange
<1>16. serving \in [Node -> Addr \cup {Nobody}] BY DEF Sound, TypeOK, WaitersTyped
<1>17. serving'[n] = e /\ e \in {a, Nobody} /\ e \in Addr \cup {Nobody}
  BY <1>2, <1>13, <1>16 DEF WokenTo
<1>18. SameHome(a) BY <1>9, <1>13 DEF SameHome, SameEntry, WokenTo, Settled
<1>19. Alike(td[n], toDir'[n], a) /\ Alike(toCache[n], toCache'[n], a)
  BY <1>13 DEF WokenTo, Settled
<1>20. L(n, a) = k.llc.st /\ L(n, a)' = j.llc.st BY <1>3, <1>13 DEF L, WokenTo
<1>21. ~UpgradeOf(n, a) BY <1>5, Kinds, ReqKinds DEF UpgradeOf, Asked
<1>22. Nobody # a BY <1>2, NobodyElse DEF Sound, TypeOK
<1>23. NodeOK(n, a)' /\ (UpgradeOf(n, a)' => Head(q).exclusive)
  <2>1. CASE td = toDir /\ (j.llc.st = k.llc.st \/ (k.llc.st \in {"E", "M"} /\ j.llc.st = "M"))
    <3>1. L(n, a)' = L(n, a) \/ (L(n, a) \in {"E", "M"} /\ L(n, a)' \in {"E", "M"})
      BY <1>20, <2>1
    <3>2. Alike(toDir[n], toDir'[n], a) BY <1>19, <2>1
    <3>3. serving'[n] = a => waiters'[n][a] # <<>> BY <1>13, <1>15, <1>17 DEF WokenTo
    <3>4. NodeOK(n, a)' BY <1>4, <1>5, <1>18, <1>19, <3>1, <3>2, <3>3, KeepStep
    <3>5. ~UpgradeOf(n, a)' BY <1>9, <1>19, <1>21, <3>2 DEF UpgradeOf, Alike
    <3> QED BY <3>4, <3>5
  <2>2. CASE /\ Longer(toDir[n], td[n], a, "UPGRADE_REQ") /\ k.llc.st = "S" /\ j.llc.st = "U"
             /\ q # <<>> /\ Head(q).exclusive /\ e = Nobody
    <3>1. Longer(toDir[n], toDir'[n], a, "UPGRADE_REQ") BY <1>19, <2>2, LongerAlike
    <3>2. serving'[n] # a BY <1>17, <1>22, <2>2
    <3>3. NodeOK(n, a)' BY <1>4, <1>5, <1>15, <1>18, <1>19, <1>20, <2>2, <3>1, <3>2, AskStep
    <3> QED BY <2>2, <3>3
  <2> QED BY <1>13, <2>1, <2>2 DEF WokenTo
<1>24. LocalOK(n, a)'
  <2>1. j = stack'[n][a] /\ Fine(j) /\ Queued(j, q, e, a) BY <1>13 DEF WokenTo
  <2> QED BY <1>15, <1>17, <1>23, <2>1, LocalNew
<1>25. /\ \A l \in Node \ {n} : td[l] = toDir[l] /\ toCache[l] = toCache[l]
       /\ \A b \in Addr \ {a} : Alike(toDir[n], td[n], b) /\ Alike(toCache[n], toCache[n], b)
       /\ Settled(n, a, td, toCache) /\ serving' = [serving EXCEPT ![n] = e]
  BY <1>13, AlikeRefl DEF WokenTo
<1>26. e = serving[n] \/ (e \in {a, Nobody} /\ serving[n] \in {a, Nobody}) BY <1>1, <1>17
<1> QED BY <1>2, <1>9, <1>14, <1>17, <1>23, <1>24, <1>25, <1>26, CacheStepSound

\* Taking the first message off the queue of node n.
Shift(q, n) == [q EXCEPT ![n] = Tail(@)]
TakenTo(q, n, m, a, t, p) ==
  /\ m \in ShmemMsg /\ a \in Addr /\ t \in Types /\ m.data \in AnyData
  /\ p \in [Node -> Seq(ShmemMsg)]
  /\ \A l \in Node \ {n} : p[l] = q[l]
  /\ Shorter(q[n], p[n], a, t) /\ Has(q[n], a, {t})
  /\ \A b \in Addr \ {a} : Alike(q[n], p[n], b)
LEMMA Taken ==
  ASSUME NEW q \in [Node -> Seq(ShmemMsg)], NEW n \in Node, q[n] # <<>>, NEW m, m = Head(q[n]),
         NEW a, a = m.addr, NEW t, t = m.type, NEW p, p = Shift(q, n)
  PROVE  TakenTo(q, n, m, a, t, p)
<1>1. PICK Q, M : Q = Seq(M) /\ M = ShmemMsg OBVIOUS
<1>2. q \in [Node -> Q] /\ q[n] \in Q /\ q[n] \in Seq(M) BY <1>1
<1>3. p[n] = Tail(q[n]) /\ \A l \in Node \ {n} : p[l] = q[l] BY <1>2 DEF Shift
<1>4. p[n] \in Q /\ m \in M BY <1>1, <1>2, <1>3
<1>5. p \in [Node -> Q] BY <1>2, <1>3, <1>4 DEF Shift
<1>6. Shorter(q[n], p[n], a, t) BY <1>2, <1>3, Removed
<1>7. \A b \in Addr \ {a} : Alike(q[n], p[n], b) BY <1>2, <1>3, RemovedOther
<1>8. m \in ShmemMsg BY <1>1, <1>4
<1>9. a \in Addr /\ t \in Types /\ m.data \in AnyData BY <1>8 DEF ShmemMsg, Types, AnyData
<1>10. Has(q[n], a, {t}) BY <1>6 DEF Shorter
<1> QED BY <1>1, <1>3, <1>5, <1>6, <1>7, <1>8, <1>9, <1>10 DEF TakenTo

LEMMA HandleReplySound ==
  ASSUME Sound, NEW n \in Node, HandleReply(n), UNCHANGED directory, failed' = {}
  PROVE  Sound'
<1>1. PICK m, tc : m = Head(toCache[n]) /\ tc = Rest(n) OBVIOUS
<1>2. PICK a, t : a = m.addr /\ t = m.type OBVIOUS
<1>3. toCache \in [Node -> Seq(ShmemMsg)] /\ toCache[n] # <<>> /\ t \in Replies /\ serving[n] = Nobody
  BY <1>1, <1>2 DEF HandleReply, Receive, Sound, TypeOK, MsgsTyped
<1>4. tc = Shift(toCache, n) BY <1>1 DEF Rest, Shift
<1>5. /\ a \in Addr /\ m.data \in AnyData /\ tc \in [Node -> Seq(ShmemMsg)]
      /\ \A l \in Node \ {n} : tc[l] = toCache[l]
      /\ Shorter(toCache[n], tc[n], a, t) /\ Has(toCache[n], a, {t})
      /\ \A b \in Addr \ {a} : Alike(toCache[n], tc[n], b)
  <2>1. TakenTo(toCache, n, m, a, t, tc) BY <1>1, <1>2, <1>3, <1>4, Taken
  <2> QED BY <2>1 DEF TakenTo
<1>6. PICK o, w, X : o = stack[n][a] /\ w = waiters[n][a] /\ X = CoresOf(n) OBVIOUS
<1>7. /\ o \in StackOf(X) /\ Fine(o) /\ w \in Seq(Waiter(n)) /\ Queued(o, w, Nobody, a)
      /\ NodeOK(n, a) /\ (Pend(n, a) => ReqOf(reqs[a], n, Requests))
      /\ UpgradeOf(n, a) => Head(w).exclusive
  BY <1>3, <1>5, <1>6, CacheFacts
<1>8. PICK i, u, k : /\ i = [o EXCEPT !.llc = [st |-> IF t = "EX_REP" THEN "E" ELSE "S", data |-> m.data]]
                     /\ u = UpdateStack(o, "M")
                     /\ k = IF t = "UPGRADE_REP" THEN u ELSE i
  OBVIOUS
<1>9. PICK checks :
        /\ checks = [someone_waits |-> w # <<>>,
                     not_already_here |-> t # "UPGRADE_REP" => o.llc.st = "I",
                     upgrading |-> t = "UPGRADE_REP" => o.llc.st = "U"]
        /\ Wake(n, a, k, w, tc, checks)
  BY <1>1, <1>2, <1>6, <1>8 DEF HandleReply
<1>10. w # <<>> => Head(w).exclusive \in BOOLEAN BY <1>7, WaiterCores
<1>11. UNCHANGED <<machine, tags, reqs>> BY DEF HandleReply, directory
<1>12. /\ waiters' = [waiters EXCEPT ![n][a] = w]
       /\ \/ Asks(n, a, k, w, tc) \/ ServesWriter(n, a, k, w, tc)
          \/ ServesReader(n, a, k, w, tc) \/ Sleeps(n, a, k, w, tc)
       /\ Broken(checks) = {}
  BY <1>9, <1>10, WakeIs
<1>13. /\ w # <<>>
       /\ t # "UPGRADE_REP" => o.llc.st = "I"
       /\ t = "UPGRADE_REP" => o.llc.st = "U"
  <2>1. \A name \in DOMAIN checks : checks[name] BY <1>12 DEF Broken
  <2>2. /\ "someone_waits" \in DOMAIN checks /\ "not_already_here" \in DOMAIN checks
        /\ "upgrading" \in DOMAIN checks
        /\ (checks["someone_waits"] <=> w # <<>>)
        /\ (checks["not_already_here"] <=> (t # "UPGRADE_REP" => o.llc.st = "I"))
        /\ (checks["upgrading"] <=> (t = "UPGRADE_REP" => o.llc.st = "U"))
    BY <1>9
  <2> QED BY <2>1, <2>2
<1>14. L(n, a) = o.llc.st BY <1>6 DEF L
<1>15. DOMAIN o.l1 = X BY <1>7 DEF StackOf
<1>16. /\ k \in StackOf(X) /\ Queued(k, w, Nobody, a)
       /\ Fine(k) \/ (w # <<>> /\ Head(w).exclusive /\ k.llc.st = "M")
       /\ k.llc.st = IF t = "EX_REP" THEN "E" ELSE IF t = "SH_REP" THEN "S" ELSE "M"
  <2>1. \A g \in DOMAIN w : w[g].core \in X BY <1>6, <1>7, WaiterCores
  <2>2. CASE t = "UPGRADE_REP"
    <3>1. k = u /\ UpgradeOf(n, a) BY <1>5, <1>8, <2>2 DEF UpgradeOf
    <3>2. /\ u \in StackOf(X) /\ u.llc.st = "M"
          /\ \A c \in X : u.l1[c].st = IF o.l1[c].st = "I" THEN "I" ELSE "M"
      BY <1>7, <1>8, UpdateStackIs
    <3>3. \A g \in DOMAIN w : o.l1[w[g].core].st = "I" => k.l1[w[g].core].st = "I"
      BY <2>1, <3>1, <3>2
    <3>4. Queued(k, w, Nobody, a) BY <1>7, <3>3, QueuedKeep
    <3> QED BY <1>7, <1>13, <2>2, <3>1, <3>2, <3>4
  <2>3. CASE t # "UPGRADE_REP"
    <3>1. k = i /\ o.llc.st = "I" /\ t \in {"EX_REP", "SH_REP"} BY <1>3, <1>8, <1>13, <2>3 DEF Replies
    <3>2. \A c \in X : o.l1[c].st = "I" BY <1>7, <1>15, <3>1 DEF Fine, Included
    <3>3. PICK f, l : f = o.l1 /\ l = [st |-> IF t = "EX_REP" THEN "E" ELSE "S", data |-> m.data] OBVIOUS
    <3>4. f \in [X -> AnyLine] BY <1>7, <3>3 DEF StackOf
    <3>5. l \in AnyLine /\ l.st = IF t = "EX_REP" THEN "E" ELSE "S" BY <1>5, <3>3 DEF AnyLine
    <3>6. k = [l1 |-> f, llc |-> l] BY <1>7, <1>8, <3>1, <3>3 DEF StackOf
    <3>7. k \in StackOf(X) /\ k.l1 = f /\ k.llc = l BY <3>4, <3>5, <3>6 DEF StackOf
    <3>8. \A d \in X : k.l1[d].st \notin {"M", "U"} /\ (k.l1[d].st # "I" => k.llc.st # "I")
      BY <3>2, <3>3, <3>7
    <3>9. k.llc.st # "M" BY <3>5, <3>7
    <3>10. Fine(k) BY <3>7, <3>8, <3>9, NotModified
    <3>11. \A g \in DOMAIN w : o.l1[w[g].core].st = "I" => k.l1[w[g].core].st = "I"
      BY <3>3, <3>7
    <3>12. Queued(k, w, Nobody, a) BY <1>7, <3>11, QueuedKeep
    <3> QED BY <2>3, <3>1, <3>5, <3>7, <3>10, <3>12
  <2> QED BY <2>2, <2>3
<1>17. k.llc.st \in {"E", "M"} => \A l \in Node \ {n} : L(l, a) # "M"
  <2>1. ASSUME k.llc.st \in {"E", "M"} PROVE tags[a].st \in {"E", "M"} /\ n \in tags[a].sharers
    <3>1. t \in {"EX_REP", "UPGRADE_REP"} BY <1>3, <1>16, <2>1 DEF Replies
    <3>2. CASE t = "EX_REP"
      <4>1. tags[a].st \in {"E", "M"} BY <1>5, <1>7, <3>2 DEF NodeOK, Exclusive
      <4>2. Has(toCache[n], a, Inserts) BY <1>5, <3>2, Kinds
      <4> QED BY <1>7, <4>1, <4>2 DEF NodeOK, Known, Holds
    <3>3. CASE t = "UPGRADE_REP"
      <4>1. L(n, a) = "U" BY <1>13, <1>14, <3>3
      <4>2. tags[a].st = "M" BY <1>5, <1>7, <3>3, <4>1 DEF NodeOK, Exclusive
      <4> QED BY <1>7, <4>1, <4>2 DEF NodeOK, Known, Holds
    <3> QED BY <3>1, <3>2, <3>3
  <2>2. ASSUME k.llc.st \in {"E", "M"} PROVE \A l \in Node \ {n} : L(l, a) # "M"
    <3>1. \A l \in Node \ {n} : L(l, a) = "I" BY <1>5, <2>1, <2>2, AloneWith
    <3> QED BY <3>1
  <2> QED BY <2>2
<1>18. PICK td, e, j : WokenTo(n, a, k, w, tc, td, e, j)
  BY <1>5, <1>6, <1>7, <1>11, <1>12, <1>16, <1>17, WokenEffect
<1>19. WaitersChange(n, a, w) BY <1>5, <1>7, <1>12, WaitersChanged DEF Sound
<1>20. waiters'[n][a] = w BY <1>19 DEF WaitersChange
<1>21. serving \in [Node -> Addr \cup {Nobody}] BY DEF Sound, TypeOK, WaitersTyped
<1>22. serving'[n] = e /\ e \in {a, Nobody} /\ e \in Addr \cup {Nobody}
  BY <1>5, <1>18, <1>21 DEF WokenTo
<1>23. SameHome(a) BY <1>11, <1>18 DEF SameHome, SameEntry, WokenTo, Settled
<1>24. Alike(td[n], toDir'[n], a) /\ Alike(tc[n], toCache'[n], a)
  BY <1>18 DEF WokenTo, Settled
<1>25. Shorter(toCache[n], toCache'[n], a, t) BY <1>5, <1>24, ShorterAlike
<1>26. L(n, a)' = j.llc.st BY <1>18 DEF L, WokenTo
<1>27. /\ ~Has(toDir[n], a, {"UPGRADE_REQ"}) /\ ~ReqOf(reqs[a], n, {"UPGRADE_REQ"})
       /\ ~Has(toCache'[n], a, {"UPGRADE_REP"})
  <2>1. Has(toCache[n], a, Replies) BY <1>3, <1>5, HasMore
  <2>2. ~Has(toDir[n], a, Requests) /\ ~ReqOf(reqs[a], n, Requests) /\ ~Then(toCache[n], a, Replies, Replies)
    BY <1>7, <2>1 DEF NodeOK, OneRequest
  <2>3. ~Has(toCache'[n], a, Replies) BY <1>3, <1>25, <2>2 DEF Shorter
  <2> QED BY <2>2, <2>3, Kinds, ReqKinds
<1>28. Nobody # a BY <1>5, NobodyElse DEF Sound, TypeOK
<1>29. NodeOK(n, a)' /\ (UpgradeOf(n, a)' => Head(w).exclusive)
  <2>1. CASE td = toDir /\ (j.llc.st = k.llc.st \/ (k.llc.st \in {"E", "M"} /\ j.llc.st = "M"))
    <3>1. Alike(toDir[n], toDir'[n], a) BY <1>24, <2>1
    <3>2. \/ t = "EX_REP" /\ L(n, a) = "I" /\ L(n, a)' \in {"E", "M"}
          \/ t = "SH_REP" /\ L(n, a) = "I" /\ L(n, a)' = "S"
          \/ t = "UPGRADE_REP" /\ L(n, a) = "U" /\ L(n, a)' = "M"
      BY <1>3, <1>13, <1>14, <1>16, <1>26, <2>1 DEF Replies
    <3>3. serving'[n] = a => waiters'[n][a] # <<>> BY <1>13, <1>20
    <3>4. NodeOK(n, a)' BY <1>7, <1>23, <1>25, <3>1, <3>2, <3>3, ReplyStep
    <3>5. ~UpgradeOf(n, a)' BY <1>11, <1>27, <3>1 DEF UpgradeOf, Alike
    <3> QED BY <3>4, <3>5
  <2>2. CASE /\ Longer(toDir[n], td[n], a, "UPGRADE_REQ") /\ k.llc.st = "S" /\ j.llc.st = "U"
             /\ w # <<>> /\ Head(w).exclusive /\ e = Nobody
    <3>1. Longer(toDir[n], toDir'[n], a, "UPGRADE_REQ") BY <1>24, <2>2, LongerAlike
    <3>2. serving'[n] # a BY <1>22, <1>28, <2>2
    <3>3. t = "SH_REP" /\ L(n, a) = "I" /\ L(n, a)' = "U" BY <1>3, <1>13, <1>14, <1>16, <1>26, <2>2 DEF Replies
    <3>4. Shorter(toCache[n], toCache'[n], a, "SH_REP") BY <1>25, <3>3
    <3>5. NodeOK(n, a)' BY <1>7, <1>13, <1>20, <1>23, <3>1, <3>2, <3>3, <3>4, ReplyAskStep
    <3> QED BY <2>2, <3>5
  <2> QED BY <1>18, <2>1, <2>2 DEF WokenTo
<1>30. LocalOK(n, a)'
  <2>1. j = stack'[n][a] /\ Fine(j) /\ Queued(j, w, e, a) BY <1>18 DEF WokenTo
  <2> QED BY <1>20, <1>22, <1>29, <2>1, LocalNew
<1>31. /\ \A l \in Node \ {n} : td[l] = toDir[l] /\ tc[l] = toCache[l]
       /\ \A b \in Addr \ {a} : Alike(toDir[n], td[n], b) /\ Alike(toCache[n], tc[n], b)
       /\ Settled(n, a, td, tc) /\ serving' = [serving EXCEPT ![n] = e]
  BY <1>5, <1>18 DEF WokenTo
<1>32. e = serving[n] \/ (e \in {a, Nobody} /\ serving[n] \in {a, Nobody}) BY <1>3, <1>22
<1> QED BY <1>5, <1>11, <1>19, <1>22, <1>29, <1>30, <1>31, <1>32, CacheStepSound

\* Steps that give a copy away or weaken it, the waiters being left alone.
LEMMA GiveSound ==
  ASSUME Sound, UNCHANGED <<machine, waiters, serving, tags, reqs>>, NEW n \in Node, NEW a \in Addr,
         NEW k, k = stack[n][a], NEW f \in StackOf(CoresOf(n)), Fine(f),
         \A c \in CoresOf(n) : k.l1[c].st = "I" => f.l1[c].st = "I",
         NEW td \in [Node -> Seq(ShmemMsg)], NEW tc \in [Node -> Seq(ShmemMsg)],
         \A l \in Node \ {n} : td[l] = toDir[l] /\ tc[l] = toCache[l],
         \A b \in Addr \ {a} : Alike(toDir[n], td[n], b) /\ Alike(toCache[n], tc[n], b),
         Settled(n, a, td, tc), stack'[n][a] = f, NodeOK(n, a)',
         UpgradeOf(n, a)' => UpgradeOf(n, a)
  PROVE  Sound'
<1>1. PICK w, s : w = waiters[n][a] /\ s = serving[n] OBVIOUS
<1>2. w \in Seq(Waiter(n)) /\ Queued(k, w, s, a) /\ (UpgradeOf(n, a) => Head(w).exclusive)
  BY <1>1, CacheFacts
<1>3. \A i \in DOMAIN w : k.l1[w[i].core].st = "I" => f.l1[w[i].core].st = "I"
  BY <1>2, WaiterCores
<1>4. Queued(f, w, s, a) BY <1>2, <1>3, QueuedKeep
<1>5. WaitersChange(n, a, w) BY <1>1, <1>2, WaitersChanged DEF Sound
<1>6. LocalOK(n, a)' BY <1>1, <1>2, <1>4, LocalNew
<1>7. serving' = [serving EXCEPT ![n] = s] /\ s \in Addr \cup {Nobody} BY <1>1, CacheFacts
<1> QED BY <1>1, <1>5, <1>6, <1>7, CacheStepSound

LEMMA HandleDemandSound ==
  ASSUME Sound, NEW n \in Node, HandleDemand(n), UNCHANGED directory, failed' = {}
  PROVE  Sound'
<1>1. PICK m, tc : m = Head(toCache[n]) /\ tc = Rest(n) OBVIOUS
<1>2. PICK a, t : a = m.addr /\ t = m.type OBVIOUS
<1>3. /\ toCache \in [Node -> Seq(ShmemMsg)] /\ toCache[n] # <<>>
      /\ t \in {"INV_REQ", "FLUSH_REQ", "WB_REQ"} /\ toDir \in [Node -> Seq(ShmemMsg)]
  BY <1>1, <1>2 DEF HandleDemand, Receive, Sound, TypeOK, MsgsTyped
<1>4. tc = Shift(toCache, n) BY <1>1 DEF Rest, Shift
<1>5. /\ a \in Addr /\ tc \in [Node -> Seq(ShmemMsg)]
      /\ \A l \in Node \ {n} : tc[l] = toCache[l]
      /\ Shorter(toCache[n], tc[n], a, t) /\ Has(toCache[n], a, {t})
      /\ \A b \in Addr \ {a} : Alike(toCache[n], tc[n], b)
  <2>1. TakenTo(toCache, n, m, a, t, tc) BY <1>1, <1>2, <1>3, <1>4, Taken
  <2> QED BY <2>1 DEF TakenTo
<1>6. PICK k, X : k = stack[n][a] /\ X = CoresOf(n) OBVIOUS
<1>7. k \in StackOf(X) /\ Fine(k) /\ NodeOK(n, a) BY <1>5, <1>6, CacheFacts
<1>8. UNCHANGED <<machine, waiters, serving, tags, reqs>> BY DEF HandleDemand, directory
<1>9. L(n, a) = k.llc.st BY <1>6 DEF L
<1>10. CASE k.llc.st = "I"
  <2>1. Keeps(n, a, k, toDir, tc) BY <1>1, <1>2, <1>6, <1>10 DEF HandleDemand, Settle, Keeps
  <2>2. Settled(n, a, toDir, tc) /\ stack'[n][a] = k
    BY <1>3, <1>5, <1>6, <1>7, <1>8, <2>1, KeepsEffect
  <2>3. SameHome(a) BY <1>8, <2>2 DEF SameHome, SameEntry, Settled
  <2>4. Alike(toDir[n], toDir'[n], a) /\ Alike(tc[n], toCache'[n], a) BY <2>2 DEF Settled
  <2>5. Shorter(toCache[n], toCache'[n], a, t) BY <1>5, <2>4, ShorterAlike
  <2>6. L(n, a) = "I" /\ L(n, a)' = "I" BY <1>9, <1>10, <2>2 DEF L
  <2>7. NodeOK(n, a)' BY <1>3, <1>7, <1>8, <2>3, <2>4, <2>5, <2>6, IgnoreStep
  <2>8. UpgradeOf(n, a)' => UpgradeOf(n, a) BY <1>8, <2>4, <2>5 DEF UpgradeOf, Alike, Shorter
  <2>9. /\ \A l \in Node \ {n} : toDir[l] = toDir[l] /\ tc[l] = toCache[l]
        /\ \A b \in Addr \ {a} : Alike(toDir[n], toDir[n], b) /\ Alike(toCache[n], tc[n], b)
    BY <1>5, AlikeRefl
  <2> QED BY <1>3, <1>5, <1>6, <1>7, <1>8, <2>2, <2>7, <2>8, <2>9, GiveSound
<1>11. CASE k.llc.st # "I"
  <2>1. PICK new, p, f, data : /\ new = IF t = "WB_REQ" THEN "S" ELSE "I"
                               /\ p = UpdateStack(k, new)
                               /\ f = IF t = "WB_REQ" /\ k.llc.st = "U" THEN k ELSE p
                               /\ data = UpdatePrev(k, DOMAIN k.l1, "I").llc.data
    OBVIOUS
  <2>2. PICK r, d : /\ r = CASE t = "INV_REQ" -> "INV_REP" [] t = "FLUSH_REQ" -> "FLUSH_REP"
                             [] t = "WB_REQ" -> "WB_REP"
                    /\ d = CASE t = "INV_REQ" -> NoData [] t = "FLUSH_REQ" -> data
                             [] t = "WB_REQ" -> IF k.llc.st = "U" THEN "old" ELSE data
    OBVIOUS
  <2>3. PICK y, td : y = Msg(r, a, d) /\ td = [toDir EXCEPT ![n] = Append(@, y)] OBVIOUS
  <2>4. Keeps(n, a, f, td, tc)
    <3>1. y = CASE t = "INV_REQ" -> Msg("INV_REP", a, NoData)
                [] t = "FLUSH_REQ" -> Msg("FLUSH_REP", a, data)
                [] t = "WB_REQ" -> Msg("WB_REP", a, IF k.llc.st = "U" THEN "old" ELSE data)
      <4>1. CASE t = "INV_REQ" BY <2>2, <2>3, <4>1
      <4>2. CASE t = "FLUSH_REQ" BY <2>2, <2>3, <4>2
      <4>3. CASE t = "WB_REQ" BY <2>2, <2>3, <4>3
      <4> QED BY <1>3, <4>1, <4>2, <4>3
    <3> QED BY <1>1, <1>2, <1>6, <1>11, <2>1, <2>3, <3>1 DEF HandleDemand, Settle, Keeps
  <2>5. data \in AnyData
    <3>1. Newest(k) \in AnyData BY <1>7, NewestIs DEF Fine
    <3> QED BY <2>1, <3>1 DEF Newest
  <2>6. d \in AnyData /\ r \in {"INV_REP", "FLUSH_REP", "WB_REP"} /\ r \in Types
    BY <1>3, <2>2, <2>5 DEF AnyData, Data, NoData, Types
  <2>7. y \in ShmemMsg /\ y.addr = a /\ y.type = r BY <1>5, <2>3, <2>6, MsgType
  <2>8. /\ td \in [Node -> Seq(ShmemMsg)]
        /\ \A l \in Node \ {n} : td[l] = toDir[l]
        /\ Longer(toDir[n], td[n], a, r)
        /\ \A b \in Addr \ {a} : Alike(toDir[n], td[n], b)
    <3>1. td = Added(toDir, n, y) /\ toDir \in [Node -> Seq(ShmemMsg)] BY <1>3, <2>3 DEF Added
    <3>2. r = y.type /\ a = y.addr /\ y \in ShmemMsg BY <2>7
    <3> QED BY <3>1, <3>2, Sent
  <2>9. new \in {"I", "S", "M"} /\ new # "M" BY <2>1
  <2>10. /\ p \in StackOf(X) /\ p.llc.st = new
         /\ \A c \in X : p.l1[c].st = IF k.l1[c].st = "I" THEN "I" ELSE new
         /\ Fine(p)
    BY <1>7, <2>1, <2>9, UpdateStackIs
  <2>11. /\ f \in StackOf(X) /\ Fine(f)
         /\ \A c \in X : k.l1[c].st = "I" => f.l1[c].st = "I"
    <3>1. CASE f = k BY <1>7, <3>1
    <3>2. CASE f = p BY <2>10, <3>2
    <3> QED BY <2>1, <3>1, <3>2
  <2>12. Settled(n, a, td, tc) /\ stack'[n][a] = f
    BY <1>3, <1>5, <1>6, <1>8, <2>4, <2>8, <2>11, KeepsEffect
  <2>13. SameHome(a) BY <1>8, <2>12 DEF SameHome, SameEntry, Settled
  <2>14. Alike(td[n], toDir'[n], a) /\ Alike(tc[n], toCache'[n], a) BY <2>12 DEF Settled
  <2>15. Shorter(toCache[n], toCache'[n], a, t) /\ Longer(toDir[n], toDir'[n], a, r)
    BY <1>5, <2>8, <2>14, ShorterAlike, LongerAlike
  <2>16. L(n, a)' = f.llc.st BY <2>12 DEF L
  <2>17. NodeOK(n, a)'
    <3>1. CASE t = "INV_REQ"
      <4>1. r = "INV_REP" BY <2>2, <3>1
      <4>2. f = p /\ new = "I" BY <2>1, <3>1
      <4>3. L(n, a) # "I" /\ L(n, a)' = "I" BY <1>9, <1>11, <2>10, <2>16, <4>2
      <4>4. Shorter(toCache[n], toCache'[n], a, "INV_REQ") BY <2>15, <3>1
      <4> QED BY <1>7, <1>8, <2>13, <2>15, <4>1, <4>3, <4>4, GiveStep
    <3>2. CASE t = "FLUSH_REQ"
      <4>1. r = "FLUSH_REP" BY <2>2, <3>2
      <4>2. f = p /\ new = "I" BY <2>1, <3>2
      <4>3. L(n, a) # "I" /\ L(n, a)' = "I" BY <1>9, <1>11, <2>10, <2>16, <4>2
      <4>4. Shorter(toCache[n], toCache'[n], a, "FLUSH_REQ") /\ Has(toCache[n], a, {"FLUSH_REQ"})
        BY <1>5, <2>15, <3>2
      <4> QED BY <1>7, <1>8, <2>13, <2>15, <4>1, <4>3, <4>4, GiveStep
    <3>3. CASE t = "WB_REQ"
      <4>1. r = "WB_REP" /\ new = "S" BY <2>1, <2>2, <3>3
      <4>2. L(n, a) # "I" /\ L(n, a)' = IF L(n, a) = "U" THEN "U" ELSE "S"
        <5>1. CASE k.llc.st = "U"
          <6>1. f = k BY <2>1, <3>3, <5>1
          <6> QED BY <1>9, <2>16, <5>1, <6>1
        <5>2. CASE k.llc.st # "U"
          <6>1. f = p BY <2>1, <5>2
          <6> QED BY <1>9, <1>11, <2>10, <2>16, <4>1, <5>2, <6>1
        <5> QED BY <5>1, <5>2
      <4>3. Shorter(toCache[n], toCache'[n], a, "WB_REQ") /\ Longer(toDir[n], toDir'[n], a, "WB_REP")
        BY <2>15, <3>3, <4>1
      <4> QED BY <1>7, <1>8, <2>13, <4>2, <4>3, WriteBackStep
    <3> QED BY <1>3, <3>1, <3>2, <3>3
  <2>18. UpgradeOf(n, a)' => UpgradeOf(n, a) BY <1>8, <2>6, <2>15 DEF UpgradeOf, Longer, Shorter
  <2>19. /\ \A l \in Node \ {n} : td[l] = toDir[l] /\ tc[l] = toCache[l]
         /\ \A b \in Addr \ {a} : Alike(toDir[n], td[n], b) /\ Alike(toCache[n], tc[n], b)
    BY <1>5, <2>8
  <2> QED BY <1>5, <1>6, <1>8, <2>8, <2>11, <2>12, <2>17, <2>18, <2>19, GiveSound
<1> QED BY <1>10, <1>11

LEMMA EvictSound ==
  ASSUME Sound, NEW n \in Node, NEW a \in Addr, Evict(n, a), UNCHANGED directory
  PROVE  Sound'
<1>1. PICK k, X : k = stack[n][a] /\ X = CoresOf(n) OBVIOUS
<1>2. /\ k \in StackOf(X) /\ Fine(k) /\ NodeOK(n, a)
      /\ toDir \in [Node -> Seq(ShmemMsg)] /\ toCache \in [Node -> Seq(ShmemMsg)]
  BY <1>1, CacheFacts
<1>3. UNCHANGED <<machine, waiters, serving, tags, reqs>> BY DEF Evict, directory
<1>4. PICK f, y, td : /\ f = UpdateStack(k, "I") /\ y = EvictMsg(k, a)
                      /\ td = [toDir EXCEPT ![n] = Append(@, y)]
  OBVIOUS
<1>5. Keeps(n, a, f, td, toCache) BY <1>1, <1>4 DEF Evict, Settle, Keeps
<1>6. k.llc.st # "I" BY <1>1 DEF Evict, readable
<1>7. PICK r : r = IF k.llc.st = "M" THEN "FLUSH_REP" ELSE "INV_REP" OBVIOUS
<1>8. y \in ShmemMsg /\ y.addr = a /\ y.type = r
  <2>1. Newest(k) \in AnyData BY <1>2, NewestIs DEF Fine
  <2>2. PICK d \in AnyData : y = Msg(r, a, d)
    <3>1. CASE k.llc.st = "M"
      <4>1. y = Msg(r, a, Newest(k)) BY <1>4, <1>7, <3>1 DEF EvictMsg, Newest
      <4> QED BY <2>1, <4>1
    <3>2. CASE k.llc.st # "M"
      <4>1. y = Msg(r, a, NoData) BY <1>4, <1>7, <3>2 DEF EvictMsg
      <4>2. NoData \in AnyData BY DEF AnyData
      <4> QED BY <4>1, <4>2
    <3> QED BY <3>1, <3>2
  <2>3. r \in Types BY <1>7 DEF Types
  <2> QED BY <2>2, <2>3, MsgType
<1>9. /\ td \in [Node -> Seq(ShmemMsg)]
      /\ \A l \in Node \ {n} : td[l] = toDir[l]
      /\ Longer(toDir[n], td[n], a, r)
      /\ \A b \in Addr \ {a} : Alike(toDir[n], td[n], b)
  <2>1. td = Added(toDir, n, y) /\ toDir \in [Node -> Seq(ShmemMsg)] BY <1>2, <1>4 DEF Added
  <2>2. r = y.type /\ a = y.addr /\ y \in ShmemMsg BY <1>8
  <2> QED BY <2>1, <2>2, Sent
<1>10. /\ f \in StackOf(X) /\ f.llc.st = "I" /\ Fine(f)
       /\ \A c \in X : f.l1[c].st = IF k.l1[c].st = "I" THEN "I" ELSE "I"
  BY <1>2, <1>4, UpdateStackIs
<1>11. Settled(n, a, td, toCache) /\ stack'[n][a] = f
  <2>1. f \in StackOf(CoresOf(n)) /\ machine' = machine BY <1>1, <1>3, <1>10
  <2> QED BY <1>2, <1>5, <1>9, <2>1, KeepsEffect
<1>12. SameHome(a) BY <1>3, <1>11 DEF SameHome, SameEntry, Settled
<1>13. Alike(td[n], toDir'[n], a) /\ Alike(toCache[n], toCache'[n], a) BY <1>11 DEF Settled
<1>14. Longer(toDir[n], toDir'[n], a, r) BY <1>9, <1>13, LongerAlike
<1>15. L(n, a) = k.llc.st /\ L(n, a)' = "I" BY <1>1, <1>10, <1>11 DEF L
<1>16. NodeOK(n, a)' BY <1>2, <1>3, <1>6, <1>7, <1>12, <1>13, <1>14, <1>15, GiveStep
<1>17. UpgradeOf(n, a)' => UpgradeOf(n, a) BY <1>3, <1>7, <1>13, <1>14 DEF UpgradeOf, Longer, Alike
<1>18. /\ \A l \in Node \ {n} : td[l] = toDir[l] /\ toCache[l] = toCache[l]
       /\ \A b \in Addr \ {a} : Alike(toDir[n], td[n], b) /\ Alike(toCache[n], toCache[n], b)
  BY <1>9, AlikeRefl
<1>19. \A c \in X : k.l1[c].st = "I" => f.l1[c].st = "I" BY <1>10
<1> QED BY <1>1, <1>2, <1>3, <1>9, <1>10, <1>11, <1>16, <1>17, <1>18, <1>19, GiveSound

-----------------------------------------------------------------------------
(* The actions of the directory.                                           *)

LEMMA HomeFacts ==
  ASSUME Sound, NEW a \in Addr
  PROVE  /\ tags[a] \in Entry /\ reqs[a] \in Seq(Req) /\ EntryOK(a) /\ DramOK(a)
         /\ tags \in [Addr -> Entry] /\ reqs \in [Addr -> Seq(Req)]
         /\ tags[a].st \in {"U", "S", "E", "M"} /\ tags[a].sharers \in SUBSET Node
         /\ tags[a].owner \in Node \cup {Nobody} /\ tags[a].fwd \in Node \cup {Nobody}
         /\ reqs[a] # <<>> => /\ First(a) \in Req /\ First(a).from \in Node
                              /\ First(a).type \in Requests \cup {"NULLIFY_REQ"}
                              /\ \A T : First(a).type \in T => ReqOf(reqs[a], First(a).from, T)
         /\ a # Nobody /\ (todo = Idle => todo.addr # a) /\ (todo'= Idle => todo'.addr # a)
         /\ \A n \in Node : n # Nobody
<1>1. TypeOK BY DEF Sound
<1>2. tags \in [Addr -> Entry] /\ reqs \in [Addr -> Seq(Req)] BY <1>1 DEF TypeOK, HomeTyped
<1>3. EntryOK(a) /\ DramOK(a) BY DEF Sound, HomeOK
<1>4. PICK Q, R : Q = Seq(R) /\ R = Req OBVIOUS
<1>5. tags[a] \in Entry /\ reqs[a] \in Seq(R) BY <1>2, <1>4
<1>6. /\ tags[a].st \in {"U", "S", "E", "M"} /\ tags[a].sharers \in SUBSET Node
      /\ tags[a].owner \in Node \cup {Nobody} /\ tags[a].fwd \in Node \cup {Nobody}
  BY <1>5 DEF Entry
<1>7. ASSUME reqs[a] # <<>>
      PROVE  /\ First(a) \in Req /\ First(a).from \in Node
             /\ First(a).type \in Requests \cup {"NULLIFY_REQ"}
             /\ \A T : First(a).type \in T => ReqOf(reqs[a], First(a).from, T)
  <2>1. First(a) \in R /\ 1 \in DOMAIN reqs[a] /\ reqs[a][1] = First(a) BY <1>5, <1>7 DEF First
  <2>2. First(a) \in Req BY <1>4, <2>1
  <2> QED BY <2>1, <2>2 DEF Req, ReqOf
<1>8. a # Nobody /\ \A n \in Node : n # Nobody BY <1>1, NobodyElse DEF TypeOK
<1>9. Idle.addr = Nobody BY DEF Idle
<1> QED BY <1>2, <1>3, <1>4, <1>5, <1>6, <1>7, <1>8, <1>9

\* A step of the directory that concerns the lines in A, put together.
LEMMA DirStepSound ==
  ASSUME Sound, UNCHANGED <<machine, stack, waiters, serving>>, NEW A,
         MsgsTyped', MemoryTyped', HomeTyped',
         \A b \in Addr \ A : /\ tags'[b] = tags[b] /\ reqs'[b] = reqs[b] /\ DramOK(b)'
                             /\ todo'.addr = b <=> todo.addr = b,
         \A n \in Node, b \in Addr \ A :
           Alike(toDir[n], toDir'[n], b) /\ Alike(toCache[n], toCache'[n], b),
         \A b \in Addr \cap A : HomeOK(b)',
         \A n \in Node, b \in Addr \cap A : NodeOK(n, b)' /\ (UpgradeOf(n, b)' => UpgradeOf(n, b))
  PROVE  Sound'
<1>1. TypeOK BY DEF Sound
<1>2. TypeOK'
  <2>1. StackTyped' /\ WaitersTyped' BY <1>1, SameMachine DEF TypeOK, StackTyped, WaitersTyped
  <2> QED BY <1>1, <2>1 DEF TypeOK
<1>3. ASSUME NEW b \in Addr PROVE HomeOK(b)'
  <2>1. CASE b \in A BY <2>1
  <2>2. CASE b \notin A
    <3>1. b \in Addr \ A BY <2>2
    <3>2. tags'[b] = tags[b] /\ reqs'[b] = reqs[b] /\ DramOK(b)' /\ (todo'.addr = b <=> todo.addr = b)
      BY <3>1
    <3>3. EntryOK(b) BY DEF Sound, HomeOK
    <3>4. EntryOK(b)' BY <3>2, <3>3 DEF EntryOK, Waits, First
    <3> QED BY <3>2, <3>4 DEF HomeOK
  <2> QED BY <2>1, <2>2
<1>4. ASSUME NEW n \in Node, NEW b \in Addr PROVE NodeOK(n, b)' /\ (UpgradeOf(n, b)' => UpgradeOf(n, b))
  <2>1. CASE b \in A BY <2>1
  <2>2. CASE b \notin A
    <3>1. b \in Addr \ A BY <2>2
    <3>2. tags'[b] = tags[b] /\ reqs'[b] = reqs[b] /\ (todo'.addr = b <=> todo.addr = b) BY <3>1
    <3>3. Alike(toDir[n], toDir'[n], b) /\ Alike(toCache[n], toCache'[n], b) BY <3>1
    <3>4. SameHome(b) BY <3>2 DEF SameHome, SameEntry
    <3>5. SameView(n, b) BY <3>3 DEF SameView, L
    <3>6. NodeOK(n, b) BY DEF Sound
    <3>7. NodeOK(n, b)' BY <3>4, <3>5, <3>6, NodeFrame
    <3>8. UpgradeOf(n, b)' => UpgradeOf(n, b) BY <3>2, <3>3 DEF UpgradeOf, Alike
    <3> QED BY <3>7, <3>8
  <2> QED BY <2>1, <2>2
<1>5. ASSUME NEW n \in Node, NEW b \in Addr PROVE LocalOK(n, b)'
  <2>1. LocalOK(n, b) BY DEF Sound
  <2> QED BY <1>4, <2>1 DEF LocalOK
<1> QED BY <1>2, <1>3, <1>4, <1>5, SoundPrime

\* What happens to memory's answers.
DramKept == fromDram' = fromDram
DramAsked(a) == \E d \in AnyData : fromDram' = Append(fromDram, [addr |-> a, data |-> d])
DramAnswers(a) == fromDram # <<>> /\ Head(fromDram).addr = a /\ fromDram' = Tail(fromDram)
LEMMA DramStep ==
  ASSUME TypeOK, NEW a \in Addr, DramKept \/ DramAsked(a) \/ DramAnswers(a)
  PROVE  /\ fromDram' \in Seq([addr : Addr, data : AnyData])
         /\ \A b \in Addr \ {a} : DramOK(b) /\ reqs'[b] = reqs[b] /\ (todo'.addr = b <=> todo.addr = b) =>
              DramOK(b)'
         /\ DramKept => (InDram(a)' <=> InDram(a))
         /\ DramKept /\ DramOK(a) /\ (InDram(a) => Waits(a)' /\ todo'.addr # a) => DramOK(a)'
         /\ DramAsked(a) /\ ~InDram(a) /\ Waits(a)' /\ todo'.addr # a => DramOK(a)'
         /\ DramAnswers(a) /\ DramOK(a) => DramOK(a)' /\ ~InDram(a)'
<1>1. PICK R : R = [addr : Addr, data : AnyData] OBVIOUS
<1>2. fromDram \in Seq(R) BY <1>1 DEF TypeOK, MemoryTyped
<1>3. CASE DramKept
  <2>1. \A b : InDram(b)' <=> InDram(b) BY <1>3 DEF InDram, DramKept
  <2>2. \A b \in Addr \ {a} : DramOK(b) /\ reqs'[b] = reqs[b] /\ (todo'.addr = b <=> todo.addr = b) =>
              DramOK(b)'
    BY <1>3, <2>1 DEF DramOK, DramKept, Waits, First
  <2>3. DramOK(a) /\ (InDram(a) => Waits(a)' /\ todo'.addr # a) => DramOK(a)'
    BY <1>3, <2>1 DEF DramOK, DramKept
  <2>4. fromDram' \in Seq(R) BY <1>2, <1>3 DEF DramKept
  <2>5. ~DramAsked(a)
    <3>1. ASSUME NEW d \in AnyData, fromDram' = Append(fromDram, [addr |-> a, data |-> d]) PROVE FALSE
      <4>1. PICK x : x = [addr |-> a, data |-> d] OBVIOUS
      <4>2. x \in R BY <1>1, <4>1
      <4>3. Len(Append(fromDram, x)) = Len(fromDram) + 1 /\ Len(fromDram) \in Nat BY <1>2, <4>2
      <4> QED BY <1>3, <3>1, <4>1, <4>3 DEF DramKept
    <3> QED BY <3>1 DEF DramAsked
  <2>6. ~DramAnswers(a)
    <3>1. SUFFICES ASSUME fromDram # <<>>, fromDram' = Tail(fromDram) PROVE FALSE BY DEF DramAnswers
    <3>2. Len(Tail(fromDram)) = Len(fromDram) - 1 /\ Len(fromDram) \in Nat BY <1>2, <3>1, HeadTailProperties
    <3> QED BY <1>3, <3>1, <3>2 DEF DramKept
  <2> QED BY <1>1, <2>1, <2>2, <2>3, <2>4, <2>5, <2>6
<1>4. CASE ~DramKept /\ DramAsked(a)
  <2>1. PICK d \in AnyData : fromDram' = Append(fromDram, [addr |-> a, data |-> d]) BY <1>4 DEF DramAsked
  <2>2. PICK x, l : x = [addr |-> a, data |-> d] /\ l = Len(fromDram) OBVIOUS
  <2>3. x \in R /\ x.addr = a BY <1>1, <2>2
  <2>4. /\ l \in Nat /\ DOMAIN fromDram = 1..l /\ DOMAIN fromDram' = 1..(l + 1)
        /\ fromDram'[l + 1] = x /\ \A i \in 1..l : fromDram'[i] = fromDram[i]
        /\ fromDram' \in Seq(R)
    BY <1>2, <2>1, <2>2, <2>3
  <2>5. ASSUME NEW i \in 1..(l + 1) PROVE i \in 1..l \/ (i = l + 1 /\ ~(i \in 1..l)) BY <2>4
  <2>6. \A b : b # a => (InDram(b)' <=> InDram(b)) BY <2>3, <2>4, <2>5 DEF InDram
  <2>7. \A b \in Addr \ {a} : DramOK(b) /\ reqs'[b] = reqs[b] /\ (todo'.addr = b <=> todo.addr = b) =>
              DramOK(b)'
    <3>1. SUFFICES ASSUME NEW b \in Addr \ {a}, DramOK(b), reqs'[b] = reqs[b], todo'.addr = b <=> todo.addr = b
                   PROVE  DramOK(b)'
      OBVIOUS
    <3>2. InDram(b)' => Waits(b)' /\ todo'.addr # b BY <2>6, <3>1 DEF DramOK, Waits, First
    <3>3. \A i, j \in DOMAIN fromDram' : fromDram'[i].addr = b /\ fromDram'[j].addr = b => i = j
      BY <2>3, <2>4, <2>5, <3>1 DEF DramOK
    <3> QED BY <3>2, <3>3 DEF DramOK
  <2>8. ~InDram(a) /\ Waits(a)' /\ todo'.addr # a => DramOK(a)' BY <2>4, <2>5 DEF DramOK, InDram
  <2>9. ~DramAnswers(a)
    <3>1. SUFFICES ASSUME fromDram # <<>>, fromDram' = Tail(fromDram) PROVE FALSE BY DEF DramAnswers
    <3>2. Len(Tail(fromDram)) = Len(fromDram) - 1 BY <1>2, <3>1, HeadTailProperties
    <3>3. Len(fromDram') = l + 1 BY <2>4
    <3> QED BY <2>2, <2>4, <3>1, <3>2, <3>3
  <2> QED BY <1>1, <1>4, <2>4, <2>7, <2>8, <2>9
<1>5. CASE ~DramKept /\ ~DramAsked(a) /\ DramAnswers(a)
  <2>1. fromDram # <<>> /\ Head(fromDram).addr = a /\ fromDram' = Tail(fromDram) BY <1>5 DEF DramAnswers
  <2>2. PICK l : l = Len(fromDram) - 1 OBVIOUS
  <2>3. /\ l \in Nat /\ DOMAIN fromDram = 1..(l + 1) /\ DOMAIN fromDram' = 1..l
        /\ fromDram' \in Seq(R) /\ fromDram[1] = Head(fromDram)
        /\ \A i \in 1..l : fromDram'[i] = fromDram[i + 1]
    BY <1>2, <2>1, <2>2, HeadTailProperties
  <2>4. ASSUME NEW i \in DOMAIN fromDram'
        PROVE  i \in Nat /\ i + 1 \in DOMAIN fromDram /\ i + 1 # 1 /\ fromDram'[i] = fromDram[i + 1]
    BY <2>3
  <2>5. 1 \in DOMAIN fromDram BY <2>3
  <2>6. \A b : InDram(b)' => InDram(b) BY <2>4 DEF InDram
  <2>7. ASSUME NEW b, NEW i \in DOMAIN fromDram', NEW j \in DOMAIN fromDram', DramOK(b),
               fromDram'[i].addr = b, fromDram'[j].addr = b
        PROVE  i = j
    <3>1. i + 1 = j + 1 BY <2>4, <2>7 DEF DramOK
    <3> QED BY <2>4, <3>1
  <2>8. \A b \in Addr \ {a} : DramOK(b) /\ reqs'[b] = reqs[b] /\ (todo'.addr = b <=> todo.addr = b) =>
              DramOK(b)'
    <3>1. SUFFICES ASSUME NEW b \in Addr \ {a}, DramOK(b), reqs'[b] = reqs[b], todo'.addr = b <=> todo.addr = b
                   PROVE  DramOK(b)'
      OBVIOUS
    <3>2. InDram(b)' => Waits(b)' /\ todo'.addr # b BY <2>6, <3>1 DEF DramOK, Waits, First
    <3> QED BY <2>7, <3>1, <3>2 DEF DramOK
  <2>9. DramOK(a) => ~InDram(a)' BY <2>1, <2>3, <2>4, <2>5 DEF DramOK, InDram
  <2>10. DramOK(a) => DramOK(a)' BY <2>7, <2>9 DEF DramOK
  <2> QED BY <1>1, <1>5, <2>3, <2>8, <2>9, <2>10
<1> QED BY <1>3, <1>4, <1>5

\* The home of line a becomes the entry e with the queue q, and the directory
\* stops there or goes on with the line.
HomeChange(a, e, q) == tags' = [tags EXCEPT ![a] = e] /\ reqs' = [reqs EXCEPT ![a] = q]
TodoChange(a) == todo' = Idle \/ \E d \in AnyData : todo' = Process(a, d)

LEMMA HomeChanged ==
  ASSUME Sound, NEW a \in Addr, NEW e \in Entry, NEW q \in Seq(Req), HomeChange(a, e, q), machine' = machine
  PROVE  /\ HomeTyped' /\ tags'[a] = e /\ reqs'[a] = q
         /\ \A b \in Addr \ {a} : tags'[b] = tags[b] /\ reqs'[b] = reqs[b]
<1>1. tags \in [Addr -> Entry] /\ reqs \in [Addr -> Seq(Req)] BY HomeFacts
<1>2. PICK E, Q : E = Entry /\ Q = Seq(Req) OBVIOUS
<1>3. tags \in [Addr -> E] /\ reqs \in [Addr -> Q] /\ e \in E /\ q \in Q BY <1>1, <1>2
<1>4. tags' = [tags EXCEPT ![a] = e] /\ reqs' = [reqs EXCEPT ![a] = q] BY DEF HomeChange
<1>5. tags' \in [Addr -> E] /\ reqs' \in [Addr -> Q] BY <1>3, <1>4
<1>6. HomeTyped' BY <1>2, <1>5, SameMachine DEF HomeTyped
<1> QED BY <1>3, <1>4, <1>6

LEMMA TodoChanged ==
  ASSUME Sound, NEW a \in Addr, TodoChange(a), todo = Idle \/ todo.addr = a
  PROVE  /\ todo' \in [addr : Addr \cup {Nobody}, data : AnyData]
         /\ todo' = Idle \/ todo'.addr = a
         /\ \A b \in Addr \ {a} : todo'.addr = b <=> todo.addr = b
<1>1. Idle \in [addr : Addr \cup {Nobody}, data : AnyData] /\ Idle.addr = Nobody
  BY DEF Idle, AnyData
<1>2. \A d \in AnyData : /\ Process(a, d) \in [addr : Addr \cup {Nobody}, data : AnyData]
                         /\ Process(a, d).addr = a
  BY DEF Process
<1>3. /\ todo' \in [addr : Addr \cup {Nobody}, data : AnyData]
      /\ todo' = Idle \/ todo'.addr = a
  BY <1>1, <1>2 DEF TodoChange
<1>4. Nobody \notin Addr BY NobodyElse DEF Sound, TypeOK
<1> QED BY <1>1, <1>3, <1>4

LEMMA LineSound ==
  ASSUME Sound, UNCHANGED <<machine, stack, waiters, serving>>, NEW a \in Addr,
         MsgsTyped', dram' \in [Addr -> AnyData],
         NEW e \in Entry, NEW q \in Seq(Req), HomeChange(a, e, q),
         TodoChange(a), todo = Idle \/ todo.addr = a,
         DramKept \/ DramAsked(a) \/ DramAnswers(a),
         \A n \in Node, b \in Addr \ {a} :
           Alike(toDir[n], toDir'[n], b) /\ Alike(toCache[n], toCache'[n], b),
         EntryOK(a)', DramOK(a)',
         \A n \in Node : NodeOK(n, a)' /\ (UpgradeOf(n, a)' => UpgradeOf(n, a))
  PROVE  Sound'
<1>1. HomeTyped' /\ \A b \in Addr \ {a} : tags'[b] = tags[b] /\ reqs'[b] = reqs[b] BY HomeChanged
<1>2. /\ todo' \in [addr : Addr \cup {Nobody}, data : AnyData]
      /\ todo' = Idle \/ todo'.addr = a
      /\ \A b \in Addr \ {a} : todo'.addr = b <=> todo.addr = b
  BY TodoChanged
<1>3. TypeOK BY DEF Sound
<1>4. fromDram' \in Seq([addr : Addr, data : AnyData]) BY <1>3, DramStep
<1>5. MemoryTyped' BY <1>2, <1>4, SameMachine DEF MemoryTyped
<1>6. ASSUME NEW b \in Addr \ {a} PROVE DramOK(b)'
  <2>1. DramOK(b) BY DEF Sound, HomeOK
  <2> QED BY <1>1, <1>2, <1>3, <2>1, DramStep
<1>7. PICK A : A = {a} OBVIOUS
<1>8. \A b \in Addr \ A : /\ tags'[b] = tags[b] /\ reqs'[b] = reqs[b] /\ DramOK(b)'
                          /\ todo'.addr = b <=> todo.addr = b
  BY <1>1, <1>2, <1>6, <1>7
<1>9. \A n \in Node, b \in Addr \ A :
           Alike(toDir[n], toDir'[n], b) /\ Alike(toCache[n], toCache'[n], b)
  BY <1>7
<1>10. \A b \in Addr \cap A : HomeOK(b)'
  <2>1. HomeOK(a)' BY DEF HomeOK
  <2> QED BY <1>7, <2>1
<1>11. \A n \in Node, b \in Addr \cap A : NodeOK(n, b)' /\ (UpgradeOf(n, b)' => UpgradeOf(n, b))
  BY <1>7
<1> QED BY <1>1, <1>5, <1>8, <1>9, <1>10, <1>11, DirStepSound

LEMMA SameCacheAll ==
  ASSUME UNCHANGED <<stack, waiters, serving>>, NEW n, NEW a
  PROVE  SameCache(n, a)
BY DEF SameCache, L

\* A message of node n is taken.
LEMMA TakeIs ==
  ASSUME Sound, NEW n \in Node, NEW T, Take(n, T), toCache' = toCache, machine' = machine,
         NEW m, m = Head(toDir[n]), NEW a, a = m.addr, NEW t, t = m.type
  PROVE  /\ a \in Addr /\ t \in T /\ m.data \in AnyData /\ todo = Idle /\ MsgsTyped'
         /\ Shorter(toDir[n], toDir'[n], a, t) /\ Has(toDir[n], a, {t})
         /\ \A l \in Node \ {n} : \A b \in Addr : Alike(toDir[l], toDir'[l], b)
         /\ \A l \in Node, b \in Addr : Alike(toCache[l], toCache'[l], b)
         /\ \A l \in Node, b \in Addr \ {a} :
              Alike(toDir[l], toDir'[l], b) /\ Alike(toCache[l], toCache'[l], b)
<1>1. toDir \in [Node -> Seq(ShmemMsg)] /\ toCache \in [Node -> Seq(ShmemMsg)]
  BY DEF Sound, TypeOK, MsgsTyped
<1>2. PICK p : p = Shift(toDir, n) OBVIOUS
<1>3. toDir[n] # <<>> /\ t \in T /\ toDir' = p /\ todo = Idle BY <1>2 DEF Take, Shift
<1>4. /\ a \in Addr /\ m.data \in AnyData
      /\ p \in [Node -> Seq(ShmemMsg)]
      /\ \A l \in Node \ {n} : p[l] = toDir[l]
      /\ Shorter(toDir[n], p[n], a, t) /\ Has(toDir[n], a, {t})
      /\ \A b \in Addr \ {a} : Alike(toDir[n], p[n], b)
  <2>1. TakenTo(toDir, n, m, a, t, p) BY <1>1, <1>2, <1>3, Taken
  <2> QED BY <2>1 DEF TakenTo
<1>5. MsgsTyped' BY <1>1, <1>3, <1>4, SameMachine DEF MsgsTyped
<1>6. \A l \in Node \ {n} : \A b \in Addr : Alike(toDir[l], toDir'[l], b) BY <1>3, <1>4, AlikeRefl
<1>7. \A l \in Node, b \in Addr : Alike(toCache[l], toCache'[l], b) BY AlikeRefl
<1>8. ASSUME NEW l \in Node, NEW b \in Addr \ {a} PROVE Alike(toDir[l], toDir'[l], b)
  <2>1. CASE l = n BY <1>3, <1>4, <2>1
  <2>2. CASE l # n BY <1>6, <2>2
  <2> QED BY <2>1, <2>2
<1> QED BY <1>3, <1>4, <1>5, <1>6, <1>7, <1>8

\* Entries and requests the directory makes.
LEMMA EntryKinds ==
  /\ NoEntry \in Entry /\ NoEntry.where = "absent"
  /\ NoEntry.st = "U" /\ NoEntry.sharers = {} /\ NoEntry.owner = Nobody
  /\ \A f \in Uninitialised :
        /\ NewEntry(f) \in Entry /\ NewEntry(f).where = "slot"
        /\ NewEntry(f).st = "U" /\ NewEntry(f).sharers = {} /\ NewEntry(f).owner = Nobody
<1>1. NoEntry = [where |-> "absent", st |-> "U", sharers |-> {}, owner |-> Nobody, fwd |-> Nobody]
  BY DEF NoEntry, NewEntry
<1>2. Uninitialised \subseteq Node \cup {Nobody} BY DEF Uninitialised
<1>3. NoEntry \in Entry BY <1>1 DEF Entry
<1>4. \A f \in Uninitialised : NewEntry(f) \in Entry BY <1>2 DEF NewEntry, Entry
<1> QED BY <1>1, <1>3, <1>4 DEF NewEntry
LEMMA NewReqIs ==
  ASSUME NEW t \in Requests \cup {"NULLIFY_REQ"}, NEW n \in Node, NEW r, r = NewReq(t, n)
  PROVE  r \in Req /\ r.type = t /\ r.from = n /\ ~r.wait /\ r.fwd = Nobody
BY DEF NewReq, Req
LEMMA ProcessIs ==
  ASSUME NEW a, NEW d
  PROVE  Process(a, d).addr = a /\ Process(a, d).data = d
BY DEF Process
LEMMA LookedIs ==
  ASSUME NEW a, tags[a] \in Entry, EntryOK(a), NEW f \in Uninitialised, NEW e, e = Looked(a, f)
  PROVE  /\ e \in Entry /\ e.st = tags[a].st /\ e.sharers = tags[a].sharers /\ e.owner = tags[a].owner
         /\ e.where = "absent" => e = NoEntry
<1>1. CASE tags[a].where = "absent"
  <2>1. tags[a] = NoEntry BY <1>1 DEF EntryOK
  <2>2. e = NewEntry(f) \/ e = NoEntry BY <2>1 DEF Looked
  <2> QED BY <2>1, <2>2, EntryKinds
<1>2. CASE tags[a].where # "absent"
  <2>1. e = tags[a] BY <1>2 DEF Looked
  <2> QED BY <1>2, <2>1
<1> QED BY <1>1, <1>2

LEMMA HandleRequestSound ==
  ASSUME Sound, NEW n \in Node, HandleRequest(n), UNCHANGED caches
  PROVE  Sound'
<1>1. PICK m, a, t, R : m = Head(toDir[n]) /\ a = m.addr /\ t = m.type /\ R = Requests OBVIOUS
<1>2. /\ Take(n, R) /\ toCache' = toCache /\ machine' = machine
      /\ UNCHANGED <<dram, fromDram, stack, waiters, serving>>
  BY <1>1 DEF HandleRequest, caches
<1>3. /\ a \in Addr /\ t \in Requests /\ todo = Idle /\ MsgsTyped'
      /\ Shorter(toDir[n], toDir'[n], a, t) /\ Has(toDir[n], a, {t})
      /\ \A l \in Node \ {n} : \A b \in Addr : Alike(toDir[l], toDir'[l], b)
      /\ \A l \in Node, b \in Addr : Alike(toCache[l], toCache'[l], b)
      /\ \A l \in Node, b \in Addr \ {a} :
              Alike(toDir[l], toDir'[l], b) /\ Alike(toCache[l], toCache'[l], b)
  BY <1>1, <1>2, TakeIs
<1>0. PICK f \in Uninitialised : tags' = [tags EXCEPT ![a] = Looked(a, f)]
  BY <1>1 DEF HandleRequest
<1>4. PICK e, r, q, p : e = Looked(a, f) /\ r = NewReq(t, n) /\ q = reqs[a] /\ p = Append(q, r) OBVIOUS
<1>5. HomeChange(a, e, p) BY <1>1, <1>0, <1>4 DEF HandleRequest, HomeChange
<1>6. todo' = IF q = <<>> THEN Process(a, NoData) ELSE Idle BY <1>1, <1>4 DEF HandleRequest
<1>7. /\ tags[a] \in Entry /\ q \in Seq(Req) /\ EntryOK(a) /\ DramOK(a)
      /\ todo.addr # a /\ (todo' = Idle => todo'.addr # a)
  BY <1>3, <1>4, HomeFacts
<1>8. /\ e \in Entry /\ e.st = tags[a].st /\ e.sharers = tags[a].sharers /\ e.owner = tags[a].owner
      /\ e.where = "absent" => e = NoEntry
  BY <1>4, <1>7, LookedIs
<1>9. r \in Req /\ r.type = t /\ r.from = n /\ ~r.wait /\ r.fwd = Nobody BY <1>3, <1>4, NewReqIs
<1>10. p \in Seq(Req) BY <1>4, <1>7, <1>9
<1>11. tags'[a] = e /\ reqs'[a] = p BY <1>2, <1>3, <1>5, <1>8, <1>10, HomeChanged
<1>12. /\ p # <<>> /\ (q # <<>> => Head(p) = Head(q)) /\ (q = <<>> => Head(p) = r)
       /\ Untouched(q) /\ ~r.wait /\ r.fwd = Nobody => Untouched(p)
       /\ \A l, T : ReqOf(p, l, T) <=> ReqOf(q, l, T) \/ (r.from = l /\ r.type \in T)
       /\ \A l : TwoReqs(p, l) <=>
              TwoReqs(q, l) \/ (ReqOf(q, l, Requests) /\ r.from = l /\ r.type \in Requests)
  <2>1. PICK M : M = Req OBVIOUS
  <2>2. q \in Seq(M) /\ r \in M /\ p = Append(q, r) BY <1>4, <1>7, <1>9, <2>1
  <2>3. ReqAdded(q, r, p) BY <2>2, ReqAppended
  <2> QED BY <2>3 DEF ReqAdded
<1>13. TodoChange(a)
  <2>1. NoData \in AnyData BY DEF AnyData
  <2> QED BY <1>6, <2>1 DEF TodoChange
<1>14. /\ q = <<>> => todo'.addr = a /\ ~First(a)'.wait /\ First(a)'.fwd = Nobody
       /\ q # <<>> => todo'.addr # a /\ First(a)' = First(a)
  <2>1. First(a)' = Head(p) /\ First(a) = Head(q) BY <1>4, <1>11 DEF First
  <2> QED BY <1>6, <1>7, <1>9, <1>12, <2>1, ProcessIs
<1>15. SameEntry(a) BY <1>8, <1>11 DEF SameEntry
<1>16. Waits(a)' <=> Waits(a) BY <1>4, <1>11, <1>12, <1>14 DEF Waits
<1>17. EntryOK(a)'
  <2>1. Untouched(p) BY <1>4, <1>7, <1>9, <1>12 DEF EntryOK
  <2>2. Waits(a)' => First(a)'.type \in Requests
    BY <1>4, <1>7, <1>14, <1>16 DEF EntryOK, Waits
  <2>3. First(a)'.fwd # Nobody /\ ~First(a)'.wait => tags'[a].st \in {"S", "U"}
    BY <1>4, <1>7, <1>8, <1>11, <1>14 DEF EntryOK
  <2>4. todo'.addr = a => ~First(a)'.wait BY <1>14
  <2> QED BY <1>7, <1>8, <1>11, <1>12, <2>1, <2>2, <2>3, <2>4 DEF EntryOK
<1>18. DramOK(a)'
  <2>1. DramKept BY <1>2 DEF DramKept
  <2>2. InDram(a) => Waits(a)' /\ todo'.addr # a BY <1>4, <1>7, <1>14, <1>16 DEF DramOK, Waits
  <2>3. TypeOK BY DEF Sound
  <2> QED BY <1>3, <1>7, <2>1, <2>2, <2>3, DramStep
<1>19. ASSUME NEW l \in Node PROVE NodeOK(l, a)' /\ (UpgradeOf(l, a)' => UpgradeOf(l, a))
  <2>1. NodeOK(l, a) BY <1>3 DEF Sound
  <2>2. SameCache(l, a) BY <1>2, SameCacheAll
  <2>3. l = n => Shorter(toDir[l], toDir'[l], a, t) BY <1>3
  <2>4. l # n => Alike(toDir[l], toDir'[l], a) BY <1>3
  <2>5. /\ \A x, T : ReqOf(reqs'[a], x, T) <=> ReqOf(q, x, T) \/ (n = x /\ t \in T)
        /\ \A x : TwoReqs(reqs'[a], x) <=> TwoReqs(q, x) \/ (ReqOf(q, x, Requests) /\ n = x)
    BY <1>3, <1>9, <1>11, <1>12
  <2>6. Alike(toCache[l], toCache'[l], a) BY <1>3
  <2>7. reqs[a] = <<>> => todo'.addr = a /\ reqs'[a] # <<>> /\ ~First(a)'.wait BY <1>4, <1>11, <1>12, <1>14
  <2>8. reqs[a] # <<>> => todo'.addr # a /\ reqs'[a] # <<>> /\ First(a)' = First(a)
    BY <1>4, <1>11, <1>12, <1>14
  <2>9. q = reqs[a] /\ todo.addr # a BY <1>4, <1>7
  <2>10. NodeOK(l, a)' BY <1>3, <1>15, <2>1, <2>2, <2>3, <2>4, <2>5, <2>6, <2>7, <2>8, <2>9, QueuedStep
  <2>11. UpgradeOf(l, a)' => UpgradeOf(l, a)
    <3>1. CASE l = n
      <4>1. l = n /\ Shorter(toDir[l], toDir'[l], a, t) BY <2>3, <3>1
      <4> QED BY <2>5, <2>6, <2>9, <4>1 DEF UpgradeOf, Shorter, Alike
    <3>2. CASE l # n
      <4>1. l # n /\ Alike(toDir[l], toDir'[l], a) BY <2>4, <3>2
      <4> QED BY <2>5, <2>6, <2>9, <4>1 DEF UpgradeOf, Alike
    <3> QED BY <3>1, <3>2
  <2> QED BY <2>10, <2>11
<1>20. dram' \in [Addr -> AnyData] BY <1>2 DEF Sound, TypeOK, MemoryTyped
<1>21. DramKept BY <1>2 DEF DramKept
<1> QED BY <1>2, <1>3, <1>5, <1>8, <1>10, <1>13, <1>17, <1>18, <1>19, <1>20, <1>21, LineSound

\* The queue of line a is what it was, but for the first request's buffer.
QueueKept(a) ==
  /\ reqs[a] = <<>> <=> reqs'[a] = <<>>
  /\ reqs[a] # <<>> => /\ First(a)'.type = First(a).type /\ First(a)'.from = First(a).from
                       /\ First(a)'.wait = First(a).wait /\ First(a)'.fwd = First(a).fwd
  /\ Untouched(reqs[a]) => Untouched(reqs'[a])
  /\ \A m, T : ReqOf(reqs'[a], m, T) <=> ReqOf(reqs[a], m, T)
  /\ \A m : TwoReqs(reqs'[a], m) <=> TwoReqs(reqs[a], m)

\* A node's given-up copy arrives: who waits for memory waits for a shared line.
LEMMA GivenWhileWaiting ==
  ASSUME Sound, NEW a \in Addr, NEW n \in Node, Has(toDir[n], a, Gives), n \in tags[a].sharers, Waits(a)
  PROVE  First(a).type = "SH_REQ" /\ tags[a].st \notin {"E", "M"}
<1>1. PICK l : l = First(a).from OBVIOUS
<1>2. l \in Node /\ EntryOK(a) BY <1>1, HomeFacts DEF Waits
<1>3. Pend(l, a) BY <1>1 DEF Pend
<1>4. NodeOK(l, a) /\ NodeOK(n, a) BY <1>2 DEF Sound
<1>5. l \in tags[a].sharers BY <1>3, <1>4 DEF NodeOK, Known, Holds
<1>6. l # n BY <1>3, <1>4 DEF NodeOK, OneToken
<1>7. tags[a].st \notin {"E", "M"} BY <1>2, <1>5, <1>6 DEF EntryOK
<1>8. First(a).type = "SH_REQ" BY <1>3, <1>4, <1>7 DEF NodeOK, Exclusive
<1> QED BY <1>7, <1>8

LEMMA GivenSound ==
  ASSUME Sound, UNCHANGED <<machine, stack, waiters, serving>>, NEW a \in Addr, NEW n \in Node,
         NEW t \in Gives, MsgsTyped', dram' \in [Addr -> AnyData], DramKept,
         Shorter(toDir[n], toDir'[n], a, t),
         \A l \in Node \ {n} : \A b \in Addr : Alike(toDir[l], toDir'[l], b),
         \A l \in Node, b \in Addr : Alike(toCache[l], toCache'[l], b),
         \A l \in Node, b \in Addr \ {a} :
              Alike(toDir[l], toDir'[l], b) /\ Alike(toCache[l], toCache'[l], b),
         NEW e \in Entry, NEW q \in Seq(Req), HomeChange(a, e, q), QueueKept(a),
         n \in tags[a].sharers, NEW left, left = tags[a].sharers \ {n},
         e.where = tags[a].where, e.sharers = left,
         left = {} => e.st = "U",
         left # {} => e.st = "S" /\ tags[a].st = "S",
         TodoChange(a), todo = Idle,
         todo'.addr = a => reqs[a] # <<>> /\ ~First(a).wait,
         \A l \in Node \ {n} : /\ Reading(l, a) /\ First(a).fwd = l => todo'.addr # a
                               /\ Collecting(a) /\ l \in tags[a].sharers => todo'.addr # a
  PROVE  Sound'
<1>1. tags'[a] = e /\ reqs'[a] = q BY HomeChanged
<1>2. EntryOK(a) /\ DramOK(a) /\ todo.addr # a /\ tags[a].st \in {"U", "S", "E", "M"} BY HomeFacts
<1>3. Waits(a)' <=> Waits(a) BY DEF Waits, QueueKept
<1>4. EntryOK(a)'
  <2>1. tags[a].where # "absent"
    <3>1. tags[a].where = "absent" => tags[a] = NoEntry BY <1>2 DEF EntryOK
    <3> QED BY <3>1, EntryKinds
  <2>2. tags'[a].st \in {"S", "U"} /\ (tags'[a].st = "U" => tags'[a].sharers = {}) BY <1>1
  <2>3. Untouched(reqs[a]) BY <1>2 DEF EntryOK
  <2>4. Untouched(reqs'[a]) BY <2>3 DEF QueueKept
  <2>5. Waits(a)' => First(a)'.type \in Requests BY <1>2, <1>3 DEF EntryOK, QueueKept, Waits
  <2>6. todo'.addr = a => reqs'[a] # <<>> /\ ~First(a)'.wait BY DEF QueueKept
  <2> QED BY <1>1, <2>1, <2>2, <2>4, <2>5, <2>6 DEF EntryOK
<1>5. DramOK(a)'
  <2>1. InDram(a) => Waits(a)' /\ todo'.addr # a BY <1>2, <1>3 DEF DramOK, Waits
  <2>2. TypeOK BY DEF Sound
  <2> QED BY <1>2, <2>1, <2>2, DramStep
<1>6. ASSUME NEW l \in Node PROVE NodeOK(l, a)' /\ (UpgradeOf(l, a)' => UpgradeOf(l, a))
  <2>1. NodeOK(l, a) /\ NodeOK(n, a) BY DEF Sound
  <2>2. SameCache(l, a) BY SameCacheAll
  <2>3. Alike(toCache[l], toCache'[l], a) OBVIOUS
  <2>4. /\ \A m, T : ReqOf(reqs'[a], m, T) <=> ReqOf(reqs[a], m, T)
        /\ \A m : TwoReqs(reqs'[a], m) <=> TwoReqs(reqs[a], m)
        /\ reqs[a] = <<>> => reqs'[a] = <<>>
        /\ reqs[a] # <<>> => /\ reqs'[a] # <<>>
                             /\ First(a)'.type = First(a).type /\ First(a)'.from = First(a).from
                             /\ First(a)'.wait = First(a).wait /\ First(a)'.fwd = First(a).fwd
    BY DEF QueueKept
  <2>5. CASE l = n
    <3>1. Shorter(toDir[l], toDir'[l], a, t) BY <2>5
    <3>2. NodeOK(l, a)' BY <2>1, <2>2, <2>3, <2>4, <3>1, GivenOwn
    <3>3. UpgradeOf(l, a)' => UpgradeOf(l, a) BY <2>3, <2>4, <3>1 DEF UpgradeOf, Shorter, Alike
    <3> QED BY <3>2, <3>3
  <2>6. CASE l # n
    <3>1. Alike(toDir[l], toDir'[l], a) BY <2>6
    <3>2. /\ tags'[a].sharers = tags[a].sharers \ {n}
          /\ tags[a].sharers \ {n} # {} => tags'[a].st = tags[a].st
      BY <1>1
    <3>3. /\ Reading(l, a) /\ First(a).fwd = l => todo'.addr # a
          /\ Collecting(a) /\ l \in tags[a].sharers => todo'.addr # a
      BY <2>6
    <3>4. NodeOK(l, a)' BY <1>2, <2>1, <2>2, <2>3, <2>4, <2>6, <3>1, <3>2, <3>3, GivenOther
    <3>5. UpgradeOf(l, a)' => UpgradeOf(l, a) BY <2>3, <2>4, <3>1 DEF UpgradeOf, Alike
    <3> QED BY <3>4, <3>5
  <2> QED BY <2>5, <2>6
<1> QED BY <1>4, <1>5, <1>6, LineSound

LEMMA HandleInvRepSound ==
  ASSUME Sound, NEW n \in Node, HandleInvRep(n), UNCHANGED caches, failed' = {}
  PROVE  Sound'
<1>1. PICK m, a, t, R : m = Head(toDir[n]) /\ a = m.addr /\ t = m.type /\ R = {"INV_REP"} OBVIOUS
<1>2. /\ Take(n, R) /\ toCache' = toCache /\ machine' = machine
      /\ UNCHANGED <<dram, fromDram, stack, waiters, serving, reqs>>
  BY <1>1 DEF HandleInvRep, caches
<1>3. /\ a \in Addr /\ t \in R /\ todo = Idle /\ MsgsTyped'
      /\ Shorter(toDir[n], toDir'[n], a, t) /\ Has(toDir[n], a, {t})
      /\ \A l \in Node \ {n} : \A b \in Addr : Alike(toDir[l], toDir'[l], b)
      /\ \A l \in Node, b \in Addr : Alike(toCache[l], toCache'[l], b)
      /\ \A l \in Node, b \in Addr \ {a} :
              Alike(toDir[l], toDir'[l], b) /\ Alike(toCache[l], toCache'[l], b)
  BY <1>1, <1>2, TakeIs
<1>4. t = "INV_REP" /\ t \in Gives /\ Has(toDir[n], a, Gives) BY <1>1, <1>3, Kinds DEF Gives
<1>5. PICK left, o : left = tags[a].sharers \ {n} /\ o = tags[a] OBVIOUS
<1>6. /\ o \in Entry /\ tags \in [Addr -> Entry] /\ reqs \in [Addr -> Seq(Req)] /\ reqs[a] \in Seq(Req)
      /\ EntryOK(a) /\ todo.addr # a /\ (todo' = Idle => todo'.addr # a)
      /\ n # Nobody
  BY <1>3, <1>5, HomeFacts
<1>7. tags[a].st \in {"S", "E"} /\ n \in tags[a].sharers
  <2>1. PICK checks : checks = [ooops |-> tags[a].st \in {"S", "E"}, removes_sharer |-> n \in tags[a].sharers]
    OBVIOUS
  <2>2. failed' = failed \cup Broken(checks) BY <1>1, <2>1 DEF HandleInvRep
  <2>3. \A name \in DOMAIN checks : checks[name] BY <2>2 DEF Broken
  <2>4. /\ "ooops" \in DOMAIN checks /\ "removes_sharer" \in DOMAIN checks
        /\ checks["ooops"] <=> tags[a].st \in {"S", "E"}
        /\ checks["removes_sharer"] <=> n \in tags[a].sharers
    BY <2>1
  <2> QED BY <2>3, <2>4
<1>8. PICK f, s : f = (IF o.fwd = n THEN Nobody ELSE o.fwd) /\ s = (IF left = {} THEN "U" ELSE o.st) OBVIOUS
<1>9. PICK e : e = [o EXCEPT !.sharers = left, !.fwd = f, !.st = s] OBVIOUS
<1>10. e \in Entry /\ e.sharers = left /\ e.st = s /\ e.where = o.where
  <2>1. o.st \in {"U", "S", "E", "M"} /\ o.sharers \in SUBSET Node /\ o.fwd \in Node \cup {Nobody}
    BY <1>6 DEF Entry
  <2>2. left \in SUBSET Node /\ f \in Node \cup {Nobody} /\ s \in {"U", "S", "E", "M"}
    BY <1>5, <1>8, <2>1
  <2> QED BY <1>6, <1>9, <2>2 DEF Entry
<1>11. tags' = [tags EXCEPT ![a] = e]
  <2>1. tags' = [tags EXCEPT ![a].sharers = left,
                             ![a].fwd = IF @ = n THEN Nobody ELSE @,
                             ![a].st = IF left = {} THEN "U" ELSE @]
    BY <1>1, <1>5 DEF HandleInvRep
  <2>2. tags' = [tags EXCEPT ![a] = [o EXCEPT !.sharers = left, !.fwd = f, !.st = s]]
    BY <1>3, <1>5, <1>6, <1>8, <2>1 DEF Entry
  <2> QED BY <1>9, <2>2
<1>12. PICK q : q = reqs[a] OBVIOUS
<1>13. q \in Seq(Req) /\ reqs' = [reqs EXCEPT ![a] = q] /\ HomeChange(a, e, q)
  BY <1>2, <1>6, <1>11, <1>12 DEF HomeChange
<1>14. QueueKept(a) BY <1>2 DEF QueueKept, First
<1>15. left # {} => e.st = "S" /\ tags[a].st = "S"
  <2>1. tags[a].st = "E" => left = {} BY <1>5, <1>6, <1>7 DEF EntryOK
  <2> QED BY <1>5, <1>7, <1>8, <1>10, <2>1
<1>16. PICK r : r = First(a) OBVIOUS
<1>17. todo' = IF q # <<>> /\ GoesOn(r, n, left) THEN Process(a, NoData) ELSE Idle
  BY <1>1, <1>5, <1>12, <1>16 DEF HandleInvRep, First
<1>18. TodoChange(a)
  <2>1. NoData \in AnyData BY DEF AnyData
  <2> QED BY <1>17, <2>1 DEF TodoChange
<1>19. todo'.addr = a => q # <<>> /\ GoesOn(r, n, left) BY <1>6, <1>17
<1>20. q # <<>> => r.type \in {"EX_REQ", "NULLIFY_REQ", "UPGRADE_REQ", "SH_REQ"}
  BY <1>3, <1>12, <1>16, HomeFacts DEF Requests
<1>21. r.type = "SH_REQ" /\ GoesOn(r, n, left) => ~r.wait /\ r.fwd \in {Nobody, n} BY DEF GoesOn
<1>22. r.type = "UPGRADE_REQ" /\ GoesOn(r, n, left) => left \in {{}, {r.from}} BY DEF GoesOn
<1>23. todo'.addr = a => reqs[a] # <<>> /\ ~First(a).wait
  <2>1. SUFFICES ASSUME todo'.addr = a, r.wait PROVE FALSE BY <1>12, <1>16, <1>19
  <2>2. Waits(a) BY <1>12, <1>16, <1>19, <2>1 DEF Waits
  <2>3. r.type = "SH_REQ" BY <1>3, <1>4, <1>7, <1>16, <2>2, GivenWhileWaiting
  <2> QED BY <1>19, <1>21, <2>1, <2>3
<1>24. ASSUME NEW l \in Node \ {n}
       PROVE  /\ Reading(l, a) /\ First(a).fwd = l => todo'.addr # a
              /\ Collecting(a) /\ l \in tags[a].sharers => todo'.addr # a
  <2>1. l # n /\ l # Nobody BY <1>3, HomeFacts
  <2>2. Reading(l, a) /\ First(a).fwd = l => todo'.addr # a
    BY <1>16, <1>19, <1>21, <2>1 DEF Reading
  <2>3. ASSUME Collecting(a), l \in tags[a].sharers, todo'.addr = a PROVE FALSE
    <3>1. left \in {{}, {r.from}} BY <1>16, <1>19, <1>22, <2>3 DEF Collecting
    <3>2. l \in left BY <1>5, <2>1, <2>3
    <3>3. r.from \notin tags[a].sharers BY <1>16, <2>3 DEF Collecting
    <3> QED BY <2>3, <3>1, <3>2, <3>3
  <2> QED BY <2>2, <2>3
<1>25. dram' \in [Addr -> AnyData] BY <1>2 DEF Sound, TypeOK, MemoryTyped
<1>26. DramKept BY <1>2 DEF DramKept
<1>27. e.where = tags[a].where /\ (left = {} => e.st = "U") BY <1>5, <1>8, <1>10
<1> QED BY <1>2, <1>3, <1>4, <1>5, <1>7, <1>10, <1>13, <1>14, <1>15, <1>18, <1>23, <1>24, <1>25, <1>26, <1>27, GivenSound

LEMMA HandleFlushRepSound ==
  ASSUME Sound, NEW n \in Node, HandleFlushRep(n), UNCHANGED caches, failed' = {}
  PROVE  Sound'
<1>1. PICK m, a, t, R : m = Head(toDir[n]) /\ a = m.addr /\ t = m.type /\ R = {"FLUSH_REP"} OBVIOUS
<1>2. /\ Take(n, R) /\ toCache' = toCache /\ machine' = machine
      /\ UNCHANGED <<fromDram, stack, waiters, serving>>
  BY <1>1 DEF HandleFlushRep, caches
<1>3. /\ a \in Addr /\ t \in R /\ m.data \in AnyData /\ todo = Idle /\ MsgsTyped'
      /\ Shorter(toDir[n], toDir'[n], a, t) /\ Has(toDir[n], a, {t})
      /\ \A l \in Node \ {n} : \A b \in Addr : Alike(toDir[l], toDir'[l], b)
      /\ \A l \in Node, b \in Addr : Alike(toCache[l], toCache'[l], b)
      /\ \A l \in Node, b \in Addr \ {a} :
              Alike(toDir[l], toDir'[l], b) /\ Alike(toCache[l], toCache'[l], b)
  BY <1>1, <1>2, TakeIs
<1>4. t = "FLUSH_REP" /\ t \in Gives /\ Has(toDir[n], a, Gives) /\ Has(toDir[n], a, {"FLUSH_REP"})
  BY <1>1, <1>3, Kinds DEF Gives
<1>5. PICK left, o, q : left = tags[a].sharers \ {n} /\ o = tags[a] /\ q = reqs[a] OBVIOUS
<1>6. /\ o \in Entry /\ tags \in [Addr -> Entry] /\ reqs \in [Addr -> Seq(Req)] /\ q \in Seq(Req)
      /\ EntryOK(a) /\ todo.addr # a /\ (todo' = Idle => todo'.addr # a)
      /\ n # Nobody
  BY <1>3, <1>5, HomeFacts
<1>7. n \in tags[a].sharers /\ (left # {} => tags[a].st = "S")
  <2>1. PICK checks : checks = [flush_from_sharer |-> n \in tags[a].sharers,
                                others_share |-> left # {} => tags[a].st = "S"]
    OBVIOUS
  <2>2. failed' = failed \cup Broken(checks) BY <1>1, <1>5, <2>1 DEF HandleFlushRep
  <2>3. \A name \in DOMAIN checks : checks[name] BY <2>2 DEF Broken
  <2>4. /\ "flush_from_sharer" \in DOMAIN checks /\ "others_share" \in DOMAIN checks
        /\ checks["flush_from_sharer"] <=> n \in tags[a].sharers
        /\ checks["others_share"] <=> (left # {} => tags[a].st = "S")
    BY <2>1
  <2> QED BY <2>3, <2>4
<1>8. PICK s : s = (IF left = {} THEN "U" ELSE o.st) OBVIOUS
<1>9. PICK e : e = [o EXCEPT !.sharers = left, !.owner = Nobody, !.fwd = Nobody, !.st = s] OBVIOUS
<1>10. e \in Entry /\ e.sharers = left /\ e.st = s /\ e.where = o.where
  <2>1. o.st \in {"U", "S", "E", "M"} /\ o.sharers \in SUBSET Node BY <1>6 DEF Entry
  <2>2. left \in SUBSET Node /\ s \in {"U", "S", "E", "M"} BY <1>5, <1>8, <2>1
  <2> QED BY <1>6, <1>9, <2>2 DEF Entry
<1>11. tags' = [tags EXCEPT ![a] = e]
  <2>1. tags' = [tags EXCEPT ![a] = [tags[a] EXCEPT !.sharers = left, !.owner = Nobody, !.fwd = Nobody,
                                              !.st = IF left = {} THEN "U" ELSE tags[a].st]]
    BY <1>1, <1>5 DEF HandleFlushRep
  <2>2. [tags[a] EXCEPT !.sharers = left, !.owner = Nobody, !.fwd = Nobody,
                        !.st = IF left = {} THEN "U" ELSE tags[a].st] = e
    BY <1>5, <1>8, <1>9
  <2> QED BY <2>1, <2>2
<1>12. PICK r, type : r = First(a) /\ type = IF q = <<>> THEN "none" ELSE r.type OBVIOUS
<1>13. q # <<>> => /\ r \in Req /\ r.type \in Requests \cup {"NULLIFY_REQ"} /\ r = Head(q)
  BY <1>3, <1>5, <1>12, HomeFacts DEF First
<1>14. PICK p : /\ p \in Seq(Req) /\ reqs' = [reqs EXCEPT ![a] = p]
                /\ p = q \/ (q # <<>> /\ ReqSwapped(q, [r EXCEPT !.buf = TRUE], p))
  <2>1. reqs' = IF type = "UPGRADE_REQ" /\ left # {} THEN [reqs EXCEPT ![a][1].buf = TRUE] ELSE reqs
    BY <1>1, <1>5, <1>12 DEF HandleFlushRep, First
  <2>2. CASE type = "UPGRADE_REQ" /\ left # {}
    <3>1. q # <<>> /\ r \in Req /\ r = Head(q) BY <1>12, <1>13, <2>2
    <3>2. PICK x, M, y : x = [r EXCEPT !.buf = TRUE] /\ M = Req /\ y = [q EXCEPT ![1] = x] OBVIOUS
    <3>3. x \in M /\ x.from = r.from /\ x.type = r.type BY <3>1, <3>2 DEF Req
    <3>4. q \in Seq(M) /\ x.from = Head(q).from /\ x.type = Head(q).type BY <1>6, <3>1, <3>2, <3>3
    <3>5. ReqSwapped(q, x, y) /\ y \in Seq(M) BY <3>1, <3>2, <3>3, <3>4, ReqChanged
    <3>6. r = q[1] BY <1>6, <3>1
    <3>7. reqs' = [reqs EXCEPT ![a] = y]
      <4>1. reqs' = [reqs EXCEPT ![a] = [q EXCEPT ![1] = [q[1] EXCEPT !.buf = TRUE]]]
        BY <1>5, <2>1, <2>2
      <4> QED BY <3>2, <3>6, <4>1
    <3> QED BY <3>1, <3>2, <3>5, <3>7
  <2>3. CASE ~(type = "UPGRADE_REQ" /\ left # {})
    <3>1. reqs' = reqs BY <2>1, <2>3
    <3>2. reqs' = [reqs EXCEPT ![a] = q] BY <1>5, <1>6, <3>1
    <3> QED BY <1>6, <3>2
  <2> QED BY <2>2, <2>3
<1>15. HomeChange(a, e, p) BY <1>11, <1>14 DEF HomeChange
<1>16. reqs'[a] = p BY <1>2, <1>3, <1>10, <1>14, <1>15, HomeChanged
<1>17. QueueKept(a)
  <2>1. CASE p = q BY <1>5, <1>16, <2>1 DEF QueueKept, First
  <2>2. CASE q # <<>> /\ ReqSwapped(q, [r EXCEPT !.buf = TRUE], p)
    <3>1. PICK x : x = [r EXCEPT !.buf = TRUE] OBVIOUS
    <3>2. x.type = r.type /\ x.from = r.from /\ x.wait = r.wait /\ x.fwd = r.fwd BY <1>13, <2>2, <3>1 DEF Req
    <3>3. ReqSwapped(q, x, p) /\ First(a)' = Head(p) BY <1>16, <2>2, <3>1 DEF First
    <3>4. First(a)' = x /\ First(a) = r BY <1>12, <3>3 DEF ReqSwapped
    <3> QED BY <1>5, <1>16, <2>2, <3>2, <3>3, <3>4 DEF QueueKept, ReqSwapped
  <2> QED BY <1>14, <2>1, <2>2
<1>18. Collecting(a) \/ tags[a].st \in {"E", "M"}
  <2>1. NodeOK(n, a) BY <1>3 DEF Sound
  <2> QED BY <1>4, <2>1 DEF NodeOK, FlushOK
<1>19. ~Waits(a)
  <2>1. SUFFICES ASSUME Waits(a) PROVE FALSE OBVIOUS
  <2>2. First(a).type = "SH_REQ" /\ tags[a].st \notin {"E", "M"} BY <1>3, <1>4, <1>7, <2>1, GivenWhileWaiting
  <2> QED BY <1>18, <2>2 DEF Collecting
<1>20. PICK d : d = (IF type = "NULLIFY_REQ" THEN NoData ELSE m.data) OBVIOUS
<1>21. d \in AnyData BY <1>3, <1>20 DEF AnyData
<1>22. todo' = IF type = "none" \/ (type = "UPGRADE_REQ" /\ left # {}) THEN Idle ELSE Process(a, d)
  BY <1>1, <1>5, <1>12, <1>20 DEF HandleFlushRep, First
<1>23. TodoChange(a) BY <1>21, <1>22 DEF TodoChange
<1>24. todo'.addr = a => type # "none" /\ ~(type = "UPGRADE_REQ" /\ left # {}) BY <1>6, <1>22
<1>25. todo'.addr = a => reqs[a] # <<>> /\ ~First(a).wait BY <1>5, <1>12, <1>19, <1>24 DEF Waits
<1>26. ASSUME NEW l \in Node \ {n}
       PROVE  /\ Reading(l, a) /\ First(a).fwd = l => todo'.addr # a
              /\ Collecting(a) /\ l \in tags[a].sharers => todo'.addr # a
  <2>1. l # n /\ l # Nobody BY <1>3, HomeFacts
  <2>2. ASSUME Reading(l, a), First(a).fwd = l PROVE FALSE
    <3>1. reqs[a] # <<>> /\ First(a).type = "SH_REQ" /\ ~First(a).wait BY <2>2 DEF Reading
    <3>2. tags[a].st \in {"S", "U"} BY <1>6, <2>1, <2>2, <3>1 DEF EntryOK
    <3> QED BY <1>18, <3>1, <3>2 DEF Collecting
  <2>3. ASSUME Collecting(a), l \in tags[a].sharers, todo'.addr = a PROVE FALSE
    <3>1. l \in left BY <1>5, <2>1, <2>3
    <3>2. type = "UPGRADE_REQ" BY <1>5, <1>12, <2>3 DEF Collecting
    <3> QED BY <1>24, <2>3, <3>1, <3>2
  <2> QED BY <2>2, <2>3
<1>27. dram' \in [Addr -> AnyData]
  <2>1. dram \in [Addr -> AnyData] BY DEF Sound, TypeOK, MemoryTyped
  <2>2. dram' = dram \/ dram' = [dram EXCEPT ![a] = m.data] BY <1>1 DEF HandleFlushRep
  <2> QED BY <1>3, <2>1, <2>2
<1>28. DramKept BY <1>2 DEF DramKept
<1>29. /\ e.where = tags[a].where /\ (left = {} => e.st = "U")
       /\ left # {} => e.st = "S" /\ tags[a].st = "S"
  BY <1>5, <1>7, <1>8, <1>10
<1> QED BY <1>2, <1>3, <1>4, <1>5, <1>7, <1>10, <1>14, <1>15, <1>17, <1>23, <1>25, <1>26, <1>27, <1>28, <1>29, GivenSound

LEMMA HandleWbRepSound ==
  ASSUME Sound, NEW n \in Node, HandleWbRep(n), UNCHANGED caches, failed' = {}
  PROVE  Sound'
<1>1. PICK m, a, t, R : m = Head(toDir[n]) /\ a = m.addr /\ t = m.type /\ R = {"WB_REP"} OBVIOUS
<1>2. /\ Take(n, R) /\ toCache' = toCache /\ machine' = machine
      /\ UNCHANGED <<dram, fromDram, stack, waiters, serving, reqs>>
  BY <1>1 DEF HandleWbRep, caches
<1>3. /\ a \in Addr /\ t \in R /\ m.data \in AnyData /\ todo = Idle /\ MsgsTyped'
      /\ Shorter(toDir[n], toDir'[n], a, t) /\ Has(toDir[n], a, {t})
      /\ \A l \in Node \ {n} : \A b \in Addr : Alike(toDir[l], toDir'[l], b)
      /\ \A l \in Node, b \in Addr : Alike(toCache[l], toCache'[l], b)
      /\ \A l \in Node, b \in Addr \ {a} :
              Alike(toDir[l], toDir'[l], b) /\ Alike(toCache[l], toCache'[l], b)
  BY <1>1, <1>2, TakeIs
<1>4. t = "WB_REP" /\ Has(toDir[n], a, {"WB_REP"}) /\ Shorter(toDir[n], toDir'[n], a, "WB_REP")
  BY <1>1, <1>3
<1>5. PICK o, q : o = tags[a] /\ q = reqs[a] OBVIOUS
<1>6. /\ o \in Entry /\ tags \in [Addr -> Entry] /\ reqs \in [Addr -> Seq(Req)] /\ q \in Seq(Req)
      /\ EntryOK(a) /\ DramOK(a) /\ todo.addr # a /\ \A l \in Node : l # Nobody
  BY <1>3, <1>5, HomeFacts
<1>7. n \in tags[a].sharers
  <2>1. PICK checks : checks = [wb_from_sharer |-> n \in tags[a].sharers,
                                wb_for_sh_req |-> reqs[a] # <<>> /\ Head(reqs[a]).type = "SH_REQ"]
    OBVIOUS
  <2>2. failed' = failed \cup Broken(checks) BY <1>1, <2>1 DEF HandleWbRep
  <2>3. \A name \in DOMAIN checks : checks[name] BY <2>2 DEF Broken
  <2>4. "wb_from_sharer" \in DOMAIN checks /\ (checks["wb_from_sharer"] <=> n \in tags[a].sharers)
    BY <2>1
  <2> QED BY <2>3, <2>4
<1>8. PICK e : e = [o EXCEPT !.owner = Nobody, !.st = "S"] OBVIOUS
<1>9. e \in Entry /\ e.sharers = o.sharers /\ e.st = "S" /\ e.where = o.where BY <1>6, <1>8 DEF Entry
<1>10. tags' = [tags EXCEPT ![a] = e]
  <2>1. tags' = [tags EXCEPT ![a].owner = Nobody, ![a].st = "S"] BY <1>1 DEF HandleWbRep
  <2>2. tags' = [tags EXCEPT ![a] = [o EXCEPT !.owner = Nobody, !.st = "S"]]
    BY <1>3, <1>5, <1>6, <2>1 DEF Entry
  <2> QED BY <1>8, <2>2
<1>11. HomeChange(a, e, q) BY <1>2, <1>5, <1>6, <1>10 DEF HomeChange
<1>12. tags'[a] = e /\ reqs'[a] = reqs[a] BY <1>2, <1>3, <1>6, <1>9, <1>11, HomeChanged
<1>13. todo' = Process(a, m.data) /\ todo'.addr = a BY <1>1, ProcessIs DEF HandleWbRep
<1>14. TodoChange(a) BY <1>3, <1>13 DEF TodoChange
<1>15. reqs[a] # <<>> /\ ~First(a).wait
  <2>1. NodeOK(n, a) BY <1>3 DEF Sound
  <2> QED BY <1>4, <2>1 DEF NodeOK, WbOK, Reading
<1>16. First(a)' = First(a) BY <1>12 DEF First
<1>17. EntryOK(a)'
  <2>1. tags[a].where # "absent"
    <3>1. tags[a].where = "absent" => tags[a] = NoEntry BY <1>6 DEF EntryOK
    <3> QED BY <1>7, <3>1, EntryKinds
  <2> QED BY <1>5, <1>6, <1>9, <1>12, <1>15, <1>16, <2>1 DEF EntryOK, Waits
<1>18. DramKept BY <1>2 DEF DramKept
<1>19. DramOK(a)'
  <2>1. ~InDram(a) BY <1>6, <1>15 DEF DramOK, Waits
  <2>2. TypeOK BY DEF Sound
  <2> QED BY <1>3, <1>6, <1>18, <2>1, <2>2, DramStep
<1>20. ASSUME NEW l \in Node PROVE NodeOK(l, a)' /\ (UpgradeOf(l, a)' => UpgradeOf(l, a))
  <2>1. NodeOK(l, a) /\ NodeOK(n, a) BY <1>3 DEF Sound
  <2>2. SameCache(l, a) BY <1>2, SameCacheAll
  <2>3. l = n => Shorter(toDir[l], toDir'[l], a, "WB_REP") BY <1>4
  <2>4. l # n => Alike(toDir[l], toDir'[l], a) BY <1>3
  <2>5. Alike(toCache[l], toCache'[l], a) BY <1>3
  <2>6. l # Nobody /\ n # Nobody BY <1>6
  <2>7. tags'[a].sharers = tags[a].sharers /\ tags'[a].st = "S" BY <1>5, <1>9, <1>12
  <2>8. NodeOK(l, a)'
    BY <1>4, <1>6, <1>7, <1>12, <2>1, <2>2, <2>3, <2>4, <2>5, <2>6, <2>7, WrittenBackStep
  <2>9. UpgradeOf(l, a)' => UpgradeOf(l, a)
    <3>1. CASE l = n BY <1>12, <2>3, <2>5, <3>1 DEF UpgradeOf, Shorter, Alike
    <3>2. CASE l # n BY <1>12, <2>4, <2>5, <3>2 DEF UpgradeOf, Alike
    <3> QED BY <3>1, <3>2
  <2> QED BY <2>8, <2>9
<1>21. dram' \in [Addr -> AnyData] BY <1>2 DEF Sound, TypeOK, MemoryTyped
<1> QED BY <1>2, <1>3, <1>6, <1>9, <1>11, <1>14, <1>17, <1>18, <1>19, <1>20, <1>21, LineSound

\* The directory sends a message of type t about line a to the nodes in N.
SentTo(N, t, a, q) ==
  /\ q \in [Node -> Seq(ShmemMsg)]
  /\ \A n \in Node : /\ n \in N => Longer(toCache[n], q[n], a, t)
                     /\ n \notin N => Alike(toCache[n], q[n], a)
                     /\ \A b \in Addr \ {a} : Alike(toCache[n], q[n], b)
LEMMA OneSent ==
  ASSUME Sound, NEW n \in Node, NEW t \in Types, NEW a \in Addr, NEW d \in AnyData,
         NEW p, p = Append(toCache[n], Msg(t, a, d))
  PROVE  /\ p \in Seq(ShmemMsg) /\ Longer(toCache[n], p, a, t)
         /\ \A b \in Addr \ {a} : Alike(toCache[n], p, b)
<1>1. PICK M, m : M = ShmemMsg /\ m = Msg(t, a, d) OBVIOUS
<1>2. m \in M /\ m.addr = a /\ t = m.type BY <1>1, MsgType
<1>3. toCache[n] \in Seq(M) BY <1>1 DEF Sound, TypeOK, MsgsTyped
<1>4. p = Append(toCache[n], m) BY <1>1
<1>5. p \in Seq(M) BY <1>2, <1>3, <1>4
<1>6. Longer(toCache[n], p, a, t) BY <1>2, <1>3, <1>4, Appended
<1>7. ASSUME NEW b \in Addr \ {a} PROVE Alike(toCache[n], p, b)
  <2>1. m.addr # b BY <1>2
  <2> QED BY <1>2, <1>3, <1>4, <2>1, AppendedOther
<1> QED BY <1>1, <1>5, <1>6, <1>7
LEMMA SendIs ==
  ASSUME Sound, NEW N, NEW t \in Types, NEW a \in Addr, NEW d \in AnyData, NEW q, q = Send(N, t, a, d)
  PROVE  SentTo(N, t, a, q)
<1>1. PICK M : M = Seq(ShmemMsg) OBVIOUS
<1>2. toCache \in [Node -> M] BY <1>1 DEF Sound, TypeOK, MsgsTyped
<1>3. ASSUME NEW n \in Node
      PROVE  /\ q[n] \in M
             /\ n \in N => Longer(toCache[n], q[n], a, t)
             /\ n \notin N => Alike(toCache[n], q[n], a)
             /\ \A b \in Addr \ {a} : Alike(toCache[n], q[n], b)
  <2>1. q[n] = IF n \in N THEN Append(toCache[n], Msg(t, a, d)) ELSE toCache[n] BY DEF Send
  <2>2. CASE n \in N
    <3>1. q[n] = Append(toCache[n], Msg(t, a, d)) BY <2>1, <2>2
    <3> QED BY <1>1, <2>2, <3>1, OneSent
  <2>3. CASE n \notin N
    <3>1. q[n] = toCache[n] BY <2>1, <2>3
    <3> QED BY <1>2, <2>3, <3>1, AlikeRefl
  <2> QED BY <2>2, <2>3
<1>4. q \in [Node -> M]
  <2>1. q = [n \in Node |-> IF n \in N THEN Append(toCache[n], Msg(t, a, d)) ELSE toCache[n]] BY DEF Send
  <2>2. q = [n \in Node |-> q[n]] BY <2>1
  <2> QED BY <1>3, <2>2
<1> QED BY <1>1, <1>3, <1>4 DEF SentTo

\* The first request r is done and the rest of the queue, p, is next.
NextTo(a, r, p) ==
  /\ p \in Seq(Req) /\ reqs' = [reqs EXCEPT ![a] = p] /\ reqs'[a] = p
  /\ Popped(a, r) /\ Untouched(p) /\ TodoChange(a)
  /\ todo'.addr = a <=> p # <<>>
  /\ p # <<>> => ~First(a)'.wait /\ First(a)'.fwd = Nobody
  /\ \A n : Unasked(n, a)'
LEMMA NextReqIs ==
  ASSUME Sound, NEW a \in Addr, reqs[a] # <<>>, NextReq(a), NEW r, r = First(a),
         NEW p, p = Tail(reqs[a])
  PROVE  NextTo(a, r, p)
<1>1. PICK q, M : q = reqs[a] /\ M = Req OBVIOUS
<1>2. q \in Seq(M) /\ q # <<>> /\ EntryOK(a) /\ reqs \in [Addr -> Seq(Req)]
      /\ (todo' = Idle => todo'.addr # a)
  BY <1>1, HomeFacts
<1>3. ReqGone(q, p) /\ p \in Seq(M) BY <1>1, <1>2, ReqRemoved
<1>4. reqs' = [reqs EXCEPT ![a] = p] BY DEF NextReq
<1>5. reqs'[a] = p BY <1>2, <1>4
<1>6. r = Head(q) BY <1>1 DEF First
<1>7. Untouched(q) BY <1>1, <1>2 DEF EntryOK
<1>8. Untouched(p) /\ (p # <<>> => ~Head(p).wait /\ Head(p).fwd = Nobody) BY <1>3, <1>7 DEF ReqGone
<1>9. First(a)' = Head(p) BY <1>5 DEF First
<1>10. ~Waits(a)' BY <1>5, <1>8, <1>9 DEF Waits
<1>11. Popped(a, r) BY <1>1, <1>3, <1>5, <1>6, <1>10 DEF ReqGone, Popped
<1>12. todo' = IF p # <<>> THEN Process(a, NoData) ELSE Idle
  <2>1. Len(q) > 1 <=> p # <<>> BY <1>3 DEF ReqGone
  <2> QED BY <1>1, <2>1 DEF NextReq
<1>13. TodoChange(a)
  <2>1. NoData \in AnyData BY DEF AnyData
  <2> QED BY <1>12, <2>1 DEF TodoChange
<1>14. todo'.addr = a <=> p # <<>> BY <1>2, <1>12, ProcessIs
<1>15. ASSUME NEW n PROVE Unasked(n, a)'
  BY <1>5, <1>14 DEF Unasked, Reading, Collecting, Flushing
<1> QED BY <1>1, <1>3, <1>4, <1>5, <1>8, <1>9, <1>11, <1>13, <1>14, <1>15 DEF NextTo

\* An entry that fits its state.
Fits(e) ==
  /\ e.where = "absent" => e = NoEntry
  /\ e.st = "U" => e.sharers = {}
  /\ e.st \in {"E", "M"} => e.sharers = {e.owner}
LEMMA NextEntryOK ==
  ASSUME NEW a, NEW r, NEW p, NextTo(a, r, p), Fits(tags'[a])
  PROVE  EntryOK(a)'
<1>1. ~Waits(a)' BY DEF NextTo, Popped
<1> QED BY <1>1 DEF EntryOK, NextTo, Fits

LEMMA HandleDramReplySound ==
  ASSUME Sound, HandleDramReply, UNCHANGED caches, failed' = {}
  PROVE  Sound'
<1>1. PICK a, d, r, t, p : /\ a = Head(fromDram).addr /\ d = Head(fromDram).data /\ r = First(a)
                           /\ t = IF r.type = "SH_REQ" /\ tags[a].st # "E" THEN "SH_REP" ELSE "EX_REP"
                           /\ p = Tail(reqs[a])
  OBVIOUS
<1>2. /\ todo = Idle /\ fromDram # <<>> /\ fromDram' = Tail(fromDram)
      /\ toCache' = Send({r.from}, t, a, d) /\ NextReq(a)
      /\ UNCHANGED <<machine, toDir, dram, tags, stack, waiters, serving>>
  BY <1>1 DEF HandleDramReply, First, caches
<1>3. a \in Addr /\ d \in AnyData /\ InDram(a)
  <2>1. PICK R : R = [addr : Addr, data : AnyData] OBVIOUS
  <2>2. fromDram \in Seq(R) BY <2>1 DEF Sound, TypeOK, MemoryTyped
  <2>3. Head(fromDram) \in R /\ 1 \in DOMAIN fromDram /\ fromDram[1] = Head(fromDram) BY <1>2, <2>2
  <2> QED BY <1>1, <2>1, <2>3 DEF InDram
<1>4. /\ EntryOK(a) /\ DramOK(a) /\ tags[a] \in Entry /\ tags \in [Addr -> Entry]
      /\ tags[a].st \in {"U", "S", "E", "M"}
  BY <1>3, HomeFacts
<1>5. Waits(a) /\ reqs[a] # <<>> /\ r.wait BY <1>1, <1>3, <1>4 DEF DramOK, Waits
<1>6. r.type \in Requests /\ r.from \in Node
  BY <1>1, <1>3, <1>4, <1>5, HomeFacts DEF EntryOK
<1>7. r.type # "SH_REQ" => tags[a].st \in {"E", "M"}
  <2>1. PICK l : l = r.from OBVIOUS
  <2>2. Pend(l, a) BY <1>1, <1>5, <2>1 DEF Pend
  <2>3. NodeOK(l, a) BY <1>3, <1>6, <2>1 DEF Sound
  <2> QED BY <1>1, <2>2, <2>3 DEF NodeOK, Exclusive
<1>8. r.type = "SH_REQ" => tags[a].st \in {"S", "E"}
  <2>1. PICK checks : checks = [dram_for_reader |-> r.type = "SH_REQ" => tags[a].st \in {"S", "E"},
                                dram_for_writer |-> r.type = "EX_REQ" => tags[a].st = "M"]
    OBVIOUS
  <2>2. failed' = failed \cup Broken(checks) BY <1>1, <2>1 DEF HandleDramReply, First
  <2>3. \A name \in DOMAIN checks : checks[name] BY <2>2 DEF Broken
  <2>4. /\ "dram_for_reader" \in DOMAIN checks
        /\ checks["dram_for_reader"] <=> (r.type = "SH_REQ" => tags[a].st \in {"S", "E"})
    BY <2>1
  <2> QED BY <2>3, <2>4
<1>9. (t = "EX_REP" /\ tags[a].st \in {"E", "M"}) \/ (t = "SH_REP" /\ tags[a].st = "S")
  BY <1>1, <1>7, <1>8
<1>10. t \in Types BY <1>9 DEF Types, Replies
<1>11. PICK N : N = {r.from} OBVIOUS
<1>12. SentTo(N, t, a, toCache')
  <2>1. toCache' = Send(N, t, a, d) BY <1>2, <1>11
  <2> QED BY <1>3, <1>10, <2>1, SendIs
<1>13. NextTo(a, r, p) BY <1>1, <1>2, <1>3, <1>5, NextReqIs
<1>14. PICK e : e = tags[a] OBVIOUS
<1>15. HomeChange(a, e, p) /\ e \in Entry /\ p \in Seq(Req)
  BY <1>2, <1>3, <1>4, <1>13, <1>14 DEF HomeChange, NextTo
<1>16. EntryOK(a)'
  <2>1. Fits(tags'[a]) BY <1>2, <1>4 DEF Fits, EntryOK
  <2> QED BY <1>13, <2>1, NextEntryOK
<1>17. DramAnswers(a) BY <1>1, <1>2 DEF DramAnswers
<1>18. DramOK(a)'
  <2>1. TypeOK BY DEF Sound
  <2> QED BY <1>3, <1>4, <1>17, <2>1, DramStep
<1>19. MsgsTyped'
  <2>1. toDir \in [Node -> Seq(ShmemMsg)] BY DEF Sound, TypeOK, MsgsTyped
  <2> QED BY <1>2, <1>12, <2>1, SameMachine DEF SentTo, MsgsTyped
<1>20. \A n \in Node, b \in Addr \ {a} :
         Alike(toDir[n], toDir'[n], b) /\ Alike(toCache[n], toCache'[n], b)
  BY <1>2, <1>12, AlikeRefl DEF SentTo
<1>21. ASSUME NEW n \in Node PROVE NodeOK(n, a)' /\ (UpgradeOf(n, a)' => UpgradeOf(n, a))
  <2>1. NodeOK(n, a) BY <1>3 DEF Sound
  <2>2. SameCache(n, a) BY <1>2, SameCacheAll
  <2>3. SameEntry(a) BY <1>2 DEF SameEntry
  <2>4. Unasked(n, a)
    BY <1>1, <1>5, <1>7 DEF Unasked, Reading, Collecting, Flushing
  <2>5. Unasked(n, a)' /\ Popped(a, r) BY <1>13 DEF NextTo
  <2>6. Alike(toDir[n], toDir'[n], a) BY <1>2, AlikeRefl
  <2>7. /\ n = r.from => Longer(toCache[n], toCache'[n], a, t)
        /\ n # r.from => Alike(toCache[n], toCache'[n], a)
    BY <1>11, <1>12 DEF SentTo
  <2>8. NodeOK(n, a)' BY <1>1, <1>5, <1>6, <1>9, <2>1, <2>2, <2>3, <2>4, <2>5, <2>6, <2>7, AnswerStep
  <2>9. UpgradeOf(n, a)' => UpgradeOf(n, a)
    <3>1. ReqOf(reqs'[a], n, {"UPGRADE_REQ"}) => ReqOf(reqs[a], n, {"UPGRADE_REQ"}) BY <2>5 DEF Popped
    <3>2. Has(toCache'[n], a, {"UPGRADE_REP"}) => Has(toCache[n], a, {"UPGRADE_REP"})
      BY <1>9, <2>7 DEF Longer, Alike
    <3> QED BY <2>6, <3>1, <3>2 DEF UpgradeOf, Alike
  <2> QED BY <2>8, <2>9
<1>22. dram' \in [Addr -> AnyData] BY <1>2 DEF Sound, TypeOK, MemoryTyped
<1>23. TodoChange(a) BY <1>13 DEF NextTo
<1> QED BY <1>2, <1>3, <1>15, <1>16, <1>17, <1>18, <1>19, <1>20, <1>21, <1>22, <1>23, LineSound

\* The directory is in the middle of r, the first request of line a.
InFront(a, r) ==
  /\ a \in Addr /\ todo.addr = a /\ r = First(a) /\ reqs[a] # <<>> /\ ~r.wait
  /\ r \in Req /\ r.from \in Node /\ \A T : r.type \in T => ReqOf(reqs[a], r.from, T)
  /\ ~Waits(a) /\ ~InDram(a) /\ \A n : Unasked(n, a)
LEMMA TodoIs ==
  ASSUME Sound, todo # Idle, NEW a, a = todo.addr, NEW r, r = First(a)
  PROVE  InFront(a, r)
<1>1. a \in Addr BY DEF Sound, TypeOK, MemoryTyped
<1>2. EntryOK(a) /\ DramOK(a) BY <1>1, HomeFacts
<1>3. reqs[a] # <<>> /\ ~r.wait BY <1>2 DEF EntryOK
<1>4. r \in Req /\ r.from \in Node /\ \A T : r.type \in T => ReqOf(reqs[a], r.from, T)
  BY <1>1, <1>3, HomeFacts
<1>5. ~Waits(a) BY <1>3 DEF Waits
<1>6. ~InDram(a) BY <1>2 DEF DramOK
<1>7. \A n : Unasked(n, a) BY DEF Unasked, Reading, Collecting, Flushing
<1> QED BY <1>1, <1>3, <1>4, <1>5, <1>6, <1>7 DEF InFront
LEMMA FrontIs ==
  ASSUME Sound, NEW type, Front(type), NEW a, a = todo.addr, NEW r, r = First(a)
  PROVE  /\ InFront(a, r) /\ r.type = type /\ tags[a].where # "absent"
         /\ UNCHANGED <<machine, toDir, dram>>
<1>1. todo # Idle /\ tags[a].where # "absent" /\ UNCHANGED <<machine, toDir, dram>> BY DEF Front
<1>2. r.type = type BY DEF Front, First
<1> QED BY <1>1, <1>2, TodoIs

\* What node n may be sent when copies are called back.
Called(n, a) ==
  \/ Alike(toCache[n], toCache'[n], a)
  \/ Longer(toCache[n], toCache'[n], a, "INV_REQ")
  \/ Longer(toCache[n], toCache'[n], a, "FLUSH_REQ") /\ Flushing(n, a)'
  \/ Longer(toCache[n], toCache'[n], a, "WB_REQ") /\ Reading(n, a)'
LEMMA CalledSound ==
  ASSUME Sound, UNCHANGED <<machine, stack, waiters, serving, toDir, dram, fromDram>>,
         NEW a, NEW r, InFront(a, r), todo' = Idle,
         NEW e \in Entry, NEW q \in Seq(Req), HomeChange(a, e, q),
         e.st = tags[a].st, e.owner = tags[a].owner, tags[a].sharers \subseteq e.sharers,
         EntryOK(a)', ~Waits(a)',
         \A m, T : ReqOf(reqs[a], m, T) <=> ReqOf(q, m, T),
         \A m : TwoReqs(reqs[a], m) <=> TwoReqs(q, m),
         toCache' \in [Node -> Seq(ShmemMsg)],
         \A n \in Node : Called(n, a) /\ \A b \in Addr \ {a} : Alike(toCache[n], toCache'[n], b)
  PROVE  Sound'
<1>1. a \in Addr /\ todo.addr = a /\ ~Waits(a) /\ ~InDram(a) BY DEF InFront
<1>2. tags'[a] = e /\ reqs'[a] = q BY <1>1, HomeChanged
<1>3. MsgsTyped'
  <2>1. toDir \in [Node -> Seq(ShmemMsg)] BY DEF Sound, TypeOK, MsgsTyped
  <2> QED BY <2>1, SameMachine DEF MsgsTyped
<1>4. dram' \in [Addr -> AnyData] BY DEF Sound, TypeOK, MemoryTyped
<1>5. TodoChange(a) BY DEF TodoChange
<1>6. DramKept BY DEF DramKept
<1>7. DramOK(a)'
  <2>1. TypeOK /\ DramOK(a) BY <1>1 DEF Sound, HomeOK
  <2> QED BY <1>1, <1>6, <2>1, DramStep
<1>8. ASSUME NEW n \in Node PROVE NodeOK(n, a)' /\ (UpgradeOf(n, a)' => UpgradeOf(n, a))
  <2>1. NodeOK(n, a) BY <1>1 DEF Sound
  <2>2. SameCache(n, a) BY SameCacheAll
  <2>3. Unasked(n, a) BY DEF InFront
  <2>4. Alike(toDir[n], toDir'[n], a) BY AlikeRefl
  <2>5. \/ Alike(toCache[n], toCache'[n], a)
        \/ Longer(toCache[n], toCache'[n], a, "INV_REQ")
        \/ Longer(toCache[n], toCache'[n], a, "FLUSH_REQ") /\ Flushing(n, a)'
        \/ Longer(toCache[n], toCache'[n], a, "WB_REQ") /\ Reading(n, a)'
    BY DEF Called
  <2>6. /\ \A m : \A T \in {Requests, Fresh} : ReqOf(reqs'[a], m, T) <=> ReqOf(reqs[a], m, T)
        /\ \A m : TwoReqs(reqs'[a], m) <=> TwoReqs(reqs[a], m)
    BY <1>2
  <2>7. /\ tags'[a].st = tags[a].st /\ tags'[a].owner = tags[a].owner
        /\ tags[a].sharers \subseteq tags'[a].sharers
    BY <1>2
  <2>8. NodeOK(n, a)' BY <1>1, <2>1, <2>2, <2>3, <2>4, <2>5, <2>6, <2>7, CallStep
  <2>9. UpgradeOf(n, a)' => UpgradeOf(n, a)
    <3>1. ReqOf(reqs'[a], n, {"UPGRADE_REQ"}) <=> ReqOf(reqs[a], n, {"UPGRADE_REQ"}) BY <1>2
    <3>2. Has(toCache'[n], a, {"UPGRADE_REP"}) => Has(toCache[n], a, {"UPGRADE_REP"})
      BY <2>5 DEF Longer, Alike
    <3> QED BY <2>4, <3>1, <3>2 DEF UpgradeOf, Alike
  <2> QED BY <2>8, <2>9
<1>9. \A n \in Node, b \in Addr \ {a} :
         Alike(toDir[n], toDir'[n], b) /\ Alike(toCache[n], toCache'[n], b)
  BY AlikeRefl
<1> QED BY <1>1, <1>3, <1>4, <1>5, <1>6, <1>7, <1>8, <1>9, LineSound

\* Copies of the nodes in N are called back and nothing else is changed.
LEMMA CallBackSound ==
  ASSUME Sound, UNCHANGED <<machine, stack, waiters, serving, toDir, dram, fromDram, tags, reqs>>,
         NEW a, NEW r, InFront(a, r), todo' = Idle,
         toCache' \in [Node -> Seq(ShmemMsg)],
         \A n \in Node : Called(n, a) /\ \A b \in Addr \ {a} : Alike(toCache[n], toCache'[n], b)
  PROVE  Sound'
<1>1. a \in Addr /\ ~Waits(a) BY DEF InFront
<1>2. PICK e, q : e = tags[a] /\ q = reqs[a] OBVIOUS
<1>3. /\ e \in Entry /\ q \in Seq(Req) /\ tags \in [Addr -> Entry] /\ reqs \in [Addr -> Seq(Req)]
      /\ EntryOK(a) /\ todo'.addr # a
  BY <1>1, <1>2, HomeFacts
<1>4. HomeChange(a, e, q) BY <1>1, <1>2, <1>3 DEF HomeChange
<1>5. EntryOK(a)' /\ ~Waits(a)' BY <1>1, <1>3 DEF EntryOK, Waits, First
<1>6. /\ e.st = tags[a].st /\ e.owner = tags[a].owner /\ tags[a].sharers \subseteq e.sharers
      /\ \A m, T : ReqOf(reqs[a], m, T) <=> ReqOf(q, m, T)
      /\ \A m : TwoReqs(reqs[a], m) <=> TwoReqs(q, m)
  BY <1>2
<1> QED BY <1>3, <1>4, <1>5, <1>6, CalledSound

LEMMA CallBackNodes ==
  ASSUME Sound, UNCHANGED <<machine, stack, waiters, serving, toDir, dram>>,
         NEW a, NEW r, InFront(a, r), NEW N, NEW t, CallBack(N, t, a),
         \/ t = "INV_REQ"
         \/ /\ t = "FLUSH_REQ" /\ r.type \in {"EX_REQ", "UPGRADE_REQ", "NULLIFY_REQ"}
            /\ tags[a].st \in {"E", "M"} /\ N = {tags[a].owner}
         \/ /\ t = "WB_REQ" /\ r.type = "SH_REQ"
            /\ tags[a].st \in {"E", "M"} /\ N = {tags[a].owner}
  PROVE  Sound'
<1>1. a \in Addr BY DEF InFront
<1>2. UNCHANGED <<tags, reqs, fromDram>> /\ todo' = Idle /\ toCache' = Send(N, t, a, NoData) BY DEF CallBack
<1>3. t \in Types /\ NoData \in AnyData BY DEF Types, AnyData
<1>4. SentTo(N, t, a, toCache') BY <1>1, <1>2, <1>3, SendIs
<1>5. todo'.addr # a /\ EntryOK(a) /\ \A l \in Node : l # Nobody BY <1>1, <1>2, HomeFacts
<1>6. First(a)' = r /\ reqs'[a] # <<>> /\ ~r.wait BY <1>2 DEF First, InFront
<1>7. r.fwd # Nobody => tags[a].st \in {"S", "U"} BY <1>5 DEF EntryOK, InFront
<1>8. ASSUME NEW n \in Node PROVE Called(n, a)
  <2>1. CASE n \notin N BY <1>4, <2>1 DEF SentTo, Called
  <2>2. CASE n \in N
    <3>1. Longer(toCache[n], toCache'[n], a, t) BY <1>4, <2>2 DEF SentTo
    <3>2. CASE t = "INV_REQ" BY <3>1, <3>2 DEF Called
    <3>3. CASE t = "FLUSH_REQ"
      <4>1. Flushing(n, a)' BY <1>2, <1>5, <1>6, <2>2, <3>3 DEF Flushing
      <4> QED BY <3>1, <3>3, <4>1 DEF Called
    <3>4. CASE t = "WB_REQ"
      <4>1. Reading(n, a)' BY <1>2, <1>5, <1>6, <1>7, <2>2, <3>4 DEF Reading
      <4> QED BY <3>1, <3>4, <4>1 DEF Called
    <3> QED BY <3>2, <3>3, <3>4
  <2> QED BY <2>1, <2>2
<1>9. /\ toCache' \in [Node -> Seq(ShmemMsg)]
      /\ \A n \in Node : Called(n, a) /\ \A b \in Addr \ {a} : Alike(toCache[n], toCache'[n], b)
  BY <1>4, <1>8 DEF SentTo
<1> QED BY <1>2, <1>9, CallBackSound

\* The first request r is entered as a sharer in e and gets a reply of type t.
EnteredAs(a, r, t, e) ==
  \/ /\ tags[a].st = "U" /\ e.sharers = {r.from}
     /\ \/ e.st \in {"E", "M"} /\ t = "EX_REP"
        \/ e.st = "S" /\ t = "SH_REP" /\ r.type = "SH_REQ"
  \/ /\ tags[a].st = "S" /\ e.st = "S" /\ e.sharers = tags[a].sharers \cup {r.from}
     /\ t = "SH_REP" /\ r.type = "SH_REQ"

\* The data is at hand ...
LEMMA ReplySound ==
  ASSUME Sound, UNCHANGED <<machine, stack, waiters, serving, toDir, dram, fromDram>>,
         NEW a, NEW r, InFront(a, r), r.type \in Requests, NEW t, NEW e \in Entry,
         NEW p, HomeChange(a, e, p), NextTo(a, r, p), NEW N, N = {r.from}, SentTo(N, t, a, toCache'),
         EnteredAs(a, r, t, e), Fits(e)
  PROVE  Sound'
<1>1. a \in Addr /\ todo.addr = a /\ ~Waits(a) /\ ~InDram(a) /\ reqs[a] # <<>> /\ r.from \in Node
  BY DEF InFront
<1>6. HomeChange(a, e, p) /\ p \in Seq(Req) BY DEF NextTo
<1>7. tags'[a] = e BY <1>1, <1>6, HomeChanged
<1>8. EntryOK(a)' BY <1>7, NextEntryOK
<1>9. DramKept BY DEF DramKept
<1>10. DramOK(a)'
  <2>1. TypeOK /\ DramOK(a) BY <1>1 DEF Sound, HomeOK
  <2> QED BY <1>1, <1>9, <2>1, DramStep
<1>11. MsgsTyped'
  <2>1. toDir \in [Node -> Seq(ShmemMsg)] BY DEF Sound, TypeOK, MsgsTyped
  <2> QED BY <2>1, SameMachine DEF SentTo, MsgsTyped
<1>12. \A n \in Node, b \in Addr \ {a} :
         Alike(toDir[n], toDir'[n], b) /\ Alike(toCache[n], toCache'[n], b)
  BY AlikeRefl DEF SentTo
<1>13. Entered(a, r, t) BY <1>7 DEF Entered, EnteredAs
<1>14. EntryOK(a) BY <1>1, HomeFacts
<1>15. ASSUME NEW n \in Node PROVE NodeOK(n, a)' /\ (UpgradeOf(n, a)' => UpgradeOf(n, a))
  <2>1. NodeOK(n, a) BY <1>1 DEF Sound
  <2>2. SameCache(n, a) BY SameCacheAll
  <2>3. Unasked(n, a) BY DEF InFront
  <2>4. Alike(toDir[n], toDir'[n], a) BY AlikeRefl
  <2>5. Popped(a, r) BY DEF NextTo
  <2>6. NodeOK(n, a)'
    <3>1. CASE n = r.from
      <4>1. Longer(toCache[n], toCache'[n], a, t) BY <3>1 DEF SentTo
      <4>2. \A T : r.type \in T => ReqOf(reqs[a], n, T) BY <3>1 DEF InFront
      <4> QED BY <1>1, <1>13, <1>14, <2>1, <2>2, <2>3, <2>4, <2>5, <3>1, <4>1, <4>2, EnteredOwn
    <3>2. CASE n # r.from
      <4>1. Alike(toCache[n], toCache'[n], a) BY <3>2 DEF SentTo
      <4>2. ~Pend(n, a)' BY <2>5 DEF Popped, Pend
      <4>3. /\ \A T : ReqOf(reqs'[a], n, T) <=> ReqOf(reqs[a], n, T)
            /\ TwoReqs(reqs'[a], n) <=> TwoReqs(reqs[a], n)
        BY <2>5, <3>2 DEF Popped
      <4> QED BY <1>1, <1>13, <1>14, <2>1, <2>2, <2>3, <2>4, <3>2, <4>1, <4>2, <4>3, EnteredOther
    <3> QED BY <3>1, <3>2
  <2>7. UpgradeOf(n, a)' => UpgradeOf(n, a)
    <3>1. ReqOf(reqs'[a], n, {"UPGRADE_REQ"}) => ReqOf(reqs[a], n, {"UPGRADE_REQ"}) BY <2>5 DEF Popped
    <3>2. Has(toCache'[n], a, {"UPGRADE_REP"}) => Has(toCache[n], a, {"UPGRADE_REP"})
      <4>1. t # "UPGRADE_REP" BY DEF EnteredAs
      <4> QED BY <4>1 DEF SentTo, Longer, Alike
    <3> QED BY <2>4, <3>1, <3>2 DEF UpgradeOf, Alike
  <2> QED BY <2>6, <2>7
<1>16. dram' \in [Addr -> AnyData] BY DEF Sound, TypeOK, MemoryTyped
<1>17. TodoChange(a) BY DEF NextTo
<1> QED BY <1>1, <1>6, <1>8, <1>9, <1>10, <1>11, <1>12, <1>15, <1>16, <1>17, LineSound

\* ... or memory is asked for it ...
LEMMA AskMemorySound ==
  ASSUME Sound, UNCHANGED <<machine, stack, waiters, serving, toDir, toCache, dram>>,
         NEW a, NEW r, InFront(a, r), r.type \in Requests, NEW t, NEW e \in Entry,
         NEW x, x.wait, x.type = r.type, x.from = r.from,
         NEW q \in Seq(Req), ReqSwapped(reqs[a], x, q), HomeChange(a, e, q),
         todo' = Idle, DramAsked(a), EnteredAs(a, r, t, e), Fits(e)
  PROVE  Sound'
<1>1. a \in Addr /\ todo.addr = a /\ ~Waits(a) /\ ~InDram(a) /\ reqs[a] # <<>> /\ r.from \in Node
      /\ r = First(a)
  BY DEF InFront
<1>2. reqs[a] \in Seq(Req) /\ EntryOK(a) /\ DramOK(a) /\ todo'.addr # a BY <1>1, HomeFacts
<1>6. tags'[a] = e /\ reqs'[a] = q BY <1>1, HomeChanged
<1>7. First(a)' = x /\ reqs'[a] # <<>> BY <1>6 DEF First, ReqSwapped
<1>8. Waits(a)' BY <1>7 DEF Waits
<1>9. EntryOK(a)'
  <2>1. Untouched(reqs'[a]) BY <1>2, <1>6 DEF ReqSwapped, EntryOK
  <2> QED BY <1>2, <1>6, <1>7, <2>1 DEF EntryOK, Fits
<1>10. DramOK(a)'
  <2>1. TypeOK BY DEF Sound
  <2> QED BY <1>1, <1>2, <1>8, <2>1, DramStep
<1>11. MsgsTyped' BY SameMachine DEF Sound, TypeOK, MsgsTyped
<1>12. \A n \in Node, b \in Addr : Alike(toDir[n], toDir'[n], b) /\ Alike(toCache[n], toCache'[n], b)
  BY AlikeRefl
<1>13. Entered(a, r, t) BY <1>6 DEF Entered, EnteredAs
<1>14. /\ \A n, T : ReqOf(reqs'[a], n, T) <=> ReqOf(reqs[a], n, T)
       /\ \A n : TwoReqs(reqs'[a], n) <=> TwoReqs(reqs[a], n)
  BY <1>6 DEF ReqSwapped
<1>15. ASSUME NEW n \in Node PROVE NodeOK(n, a)' /\ (UpgradeOf(n, a)' => UpgradeOf(n, a))
  <2>1. NodeOK(n, a) BY <1>1 DEF Sound
  <2>2. SameCache(n, a) BY SameCacheAll
  <2>3. Unasked(n, a) BY DEF InFront
  <2>4. Alike(toDir[n], toDir'[n], a) /\ Alike(toCache[n], toCache'[n], a) BY <1>1, <1>12
  <2>5. /\ \A T : ReqOf(reqs'[a], n, T) <=> ReqOf(reqs[a], n, T)
        /\ TwoReqs(reqs'[a], n) <=> TwoReqs(reqs[a], n)
    BY <1>14
  <2>6. NodeOK(n, a)'
    <3>1. CASE n = r.from
      <4>1. Pend(n, a)' /\ First(a)'.type = r.type BY <1>7, <1>8, <3>1 DEF Pend
      <4>2. \A T : r.type \in T => ReqOf(reqs[a], n, T) BY <3>1 DEF InFront
      <4>3. r.type # "SH_REQ" => tags'[a].st \in {"E", "M"} BY <1>6 DEF EnteredAs
      <4> QED BY <1>1, <1>2, <1>13, <2>1, <2>2, <2>3, <2>4, <2>5, <3>1, <4>1, <4>2, <4>3, EnteredOwn
    <3>2. CASE n # r.from
      <4>1. ~Pend(n, a)' BY <1>7, <3>2 DEF Pend
      <4> QED BY <1>1, <1>2, <1>13, <2>1, <2>2, <2>3, <2>4, <2>5, <3>2, <4>1, EnteredOther
    <3> QED BY <3>1, <3>2
  <2>7. UpgradeOf(n, a)' => UpgradeOf(n, a) BY <2>4, <2>5 DEF UpgradeOf, Alike
  <2> QED BY <2>6, <2>7
<1>16. dram' \in [Addr -> AnyData] BY DEF Sound, TypeOK, MemoryTyped
<1>17. TodoChange(a) BY DEF TodoChange
<1>18. \A n \in Node, b \in Addr \ {a} :
         Alike(toDir[n], toDir'[n], b) /\ Alike(toCache[n], toCache'[n], b)
  BY <1>12
<1> QED BY <1>1, <1>9, <1>10, <1>11, <1>15, <1>16, <1>17, <1>18, LineSound

\* ... or the forwarder is.
LEMMA ForwardSound ==
  ASSUME Sound, UNCHANGED <<machine, stack, waiters, serving, toDir, dram, fromDram>>,
         NEW a, NEW r, InFront(a, r), r.type = "SH_REQ", NEW e \in Entry,
         NEW f \in Node, NEW x, ~x.wait, x.type = r.type, x.from = r.from, x.fwd = f,
         NEW q \in Seq(Req), ReqSwapped(reqs[a], x, q), HomeChange(a, e, q), todo' = Idle,
         NEW N, N = {f}, NEW t, t = "WB_REQ", SentTo(N, t, a, toCache'),
         e.st = "S", tags[a].st = "S", e.owner = tags[a].owner, tags[a].sharers \subseteq e.sharers,
         e.where # "absent"
  PROVE  Sound'
<1>1. a \in Addr /\ reqs[a] # <<>> /\ r = First(a) /\ ~r.wait BY DEF InFront
<1>2. reqs[a] \in Seq(Req) /\ EntryOK(a) /\ todo'.addr # a BY <1>1, HomeFacts
<1>6. tags'[a] = e /\ reqs'[a] = q BY <1>1, HomeChanged
<1>7. First(a)' = x /\ reqs'[a] # <<>> BY <1>6 DEF First, ReqSwapped
<1>8. ~Waits(a)' BY <1>7 DEF Waits
<1>9. EntryOK(a)'
  <2>1. Untouched(reqs'[a]) BY <1>2, <1>6 DEF ReqSwapped, EntryOK
  <2> QED BY <1>2, <1>6, <1>8, <2>1 DEF EntryOK
<1>12. ASSUME NEW n \in Node PROVE Called(n, a)
  <2>1. CASE n \notin N BY <2>1 DEF SentTo, Called
  <2>2. CASE n \in N
    <3>1. Longer(toCache[n], toCache'[n], a, t) BY <2>2 DEF SentTo
    <3>2. Reading(n, a)' BY <1>2, <1>7, <2>2 DEF Reading
    <3> QED BY <3>1, <3>2 DEF Called
  <2> QED BY <2>1, <2>2
<1>13. /\ toCache' \in [Node -> Seq(ShmemMsg)]
       /\ \A n \in Node : Called(n, a) /\ \A b \in Addr \ {a} : Alike(toCache[n], toCache'[n], b)
  BY <1>12 DEF SentTo
<1>14. /\ \A m, T : ReqOf(reqs[a], m, T) <=> ReqOf(q, m, T)
       /\ \A m : TwoReqs(reqs[a], m) <=> TwoReqs(q, m)
  BY DEF ReqSwapped
<1> QED BY <1>8, <1>9, <1>13, <1>14, CalledSound

LEMMA FrontChanged ==
  ASSUME NEW a, reqs[a] \in Seq(Req), reqs[a] # <<>>, NEW r, r = Head(reqs[a]), NEW x \in Req,
         x.type = r.type, x.from = r.from, NEW q, q = [reqs[a] EXCEPT ![1] = x]
  PROVE  ReqSwapped(reqs[a], x, q) /\ q \in Seq(Req)
<1>1. PICK M, g : M = Req /\ g = reqs[a] OBVIOUS
<1>2. g \in Seq(M) /\ x \in M /\ g # <<>> /\ x.from = Head(g).from /\ x.type = Head(g).type BY <1>1
<1>3. q = [g EXCEPT ![1] = x] BY <1>1
<1>4. ReqSwapped(g, x, q) /\ q \in Seq(M) BY <1>2, <1>3, ReqChanged
<1> QED BY <1>1, <1>4

LEMMA RetrieveSound ==
  ASSUME Sound, UNCHANGED <<machine, stack, waiters, serving, toDir, dram>>,
         NEW a, NEW r, InFront(a, r), r.type \in Requests, NEW t, NEW e \in Entry, NEW d \in AnyData,
         Retrieve(a, e, t, d), EnteredAs(a, r, t, e), Fits(e), e.where # "absent",
         e.st = "S" /\ machine.protocol = "MESIF" => tags[a].st = "S" /\ e.owner = tags[a].owner
  PROVE  Sound'
<1>1. r = Head(reqs[a]) /\ r \in Req /\ r.from \in Node /\ a \in Addr /\ reqs[a] # <<>>
  BY DEF InFront, First
<1>2. reqs[a] \in Seq(Req) /\ \A l \in Node : l # Nobody BY <1>1, HomeFacts
<1>3. CASE d # NoData
  <2>1. PICK h : h = [e EXCEPT !.fwd = r.from] OBVIOUS
  <2>2. /\ tags' = [tags EXCEPT ![a] = h] /\ toCache' = Send({r.from}, t, a, d) /\ NextReq(a)
        /\ UNCHANGED fromDram
    BY <1>1, <1>3, <2>1 DEF Retrieve
  <2>3. h \in Entry /\ h.st = e.st /\ h.sharers = e.sharers /\ h.owner = e.owner /\ h.where = e.where
    BY <1>1, <2>1 DEF Entry
  <2>4. EnteredAs(a, r, t, h) BY <2>3 DEF EnteredAs
  <2>5. Fits(h) BY <2>3 DEF Fits
  <2>6. PICK p, N : p = Tail(reqs[a]) /\ N = {r.from} OBVIOUS
  <2>7. NextTo(a, r, p) BY <1>1, <2>2, <2>6, NextReqIs DEF First
  <2>8. HomeChange(a, h, p) BY <2>2, <2>7 DEF HomeChange, NextTo
  <2>9. SentTo(N, t, a, toCache')
    <3>1. t \in Types BY DEF EnteredAs, Types, Replies
    <3>2. toCache' = Send(N, t, a, d) BY <2>2, <2>6
    <3> QED BY <1>1, <3>1, <3>2, SendIs
  <2> QED BY <2>2, <2>3, <2>4, <2>5, <2>6, <2>7, <2>8, <2>9, ReplySound
<1>4. CASE d = NoData
  <2>1. PICK forwarded : forwarded = (/\ machine.protocol = "MESIF" /\ r.fwd = Nobody
                                      /\ e.st = "S" /\ e.fwd # Nobody)
    OBVIOUS
  <2>2. /\ tags' = [tags EXCEPT ![a] = e] /\ todo' = Idle
        /\ reqs' = [reqs EXCEPT ![a][1] = IF forwarded THEN [r EXCEPT !.fwd = e.fwd]
                                          ELSE [r EXCEPT !.wait = TRUE]]
        /\ toCache' = IF forwarded THEN Send({e.fwd}, "WB_REQ", a, NoData) ELSE toCache
        /\ fromDram' = IF forwarded THEN fromDram
                       ELSE Append(fromDram, [addr |-> a, data |-> dram[a]])
    <3>1. r = reqs[a][1] BY <1>1, <1>2
    <3> QED BY <1>1, <1>4, <2>1, <3>1 DEF Retrieve
  <2>3. CASE forwarded
    <3>1. PICK f, x, q : /\ f = e.fwd /\ x = [r EXCEPT !.fwd = f] /\ q = [reqs[a] EXCEPT ![1] = x] OBVIOUS
    <3>2. f \in Node
      <4>1. f # Nobody BY <2>1, <2>3, <3>1
      <4> QED BY <3>1, <4>1 DEF Entry
    <3>3. x \in Req BY <1>1, <3>1, <3>2 DEF Req
    <3>4. ~x.wait /\ x.type = r.type /\ x.from = r.from /\ x.fwd = f BY <1>1, <3>1 DEF InFront, Req
    <3>5. fromDram' = fromDram BY <2>2, <2>3
    <3>8. ReqSwapped(reqs[a], x, q) /\ q \in Seq(Req) BY <1>1, <1>2, <3>1, <3>3, <3>4, FrontChanged
    <3>9. HomeChange(a, e, q) BY <2>2, <2>3, <3>1 DEF HomeChange
    <3>10. PICK N, u : N = {f} /\ u = "WB_REQ" OBVIOUS
    <3>11. SentTo(N, u, a, toCache')
      <4>1. u \in Types /\ NoData \in AnyData BY <3>10 DEF Types, AnyData
      <4>2. toCache' = Send(N, u, a, NoData) BY <2>2, <2>3, <3>1, <3>10
      <4> QED BY <1>1, <4>1, <4>2, SendIs
    <3>6. e.st = "S" /\ tags[a].st = "S" /\ e.owner = tags[a].owner BY <2>1, <2>3
    <3>7. r.type = "SH_REQ" /\ tags[a].sharers \subseteq e.sharers BY <3>6 DEF EnteredAs
    <3> QED BY <2>2, <3>2, <3>4, <3>5, <3>6, <3>7, <3>8, <3>9, <3>10, <3>11, ForwardSound
  <2>4. CASE ~forwarded
    <3>1. PICK x, q : x = [r EXCEPT !.wait = TRUE] /\ q = [reqs[a] EXCEPT ![1] = x] OBVIOUS
    <3>2. x \in Req BY <1>1, <3>1 DEF Req
    <3>3. x.wait /\ x.type = r.type /\ x.from = r.from BY <1>1, <3>1 DEF Req
    <3>6. ReqSwapped(reqs[a], x, q) /\ q \in Seq(Req) BY <1>1, <1>2, <3>1, <3>2, <3>3, FrontChanged
    <3>7. HomeChange(a, e, q) BY <2>2, <2>4, <3>1 DEF HomeChange
    <3>4. toCache' = toCache BY <2>2, <2>4
    <3>5. DramAsked(a)
      <4>1. dram[a] \in AnyData BY <1>1 DEF Sound, TypeOK, MemoryTyped
      <4>2. fromDram' = Append(fromDram, [addr |-> a, data |-> dram[a]]) BY <2>2, <2>4
      <4> QED BY <4>1, <4>2 DEF DramAsked
    <3> QED BY <2>2, <3>3, <3>4, <3>5, <3>6, <3>7, AskMemorySound
  <2> QED BY <2>3, <2>4
<1> QED BY <1>3, <1>4

LEMMA FirstSharerIs ==
  ASSUME NEW o \in Entry, o.where # "absent", NEW n \in Node, NEW s \in {"S", "E", "M"},
         NEW e, e = FirstSharer(o, n, s)
  PROVE  e \in Entry /\ e.sharers = {n} /\ e.st = s /\ e.where # "absent" /\ Fits(e)
<1>1. e \in Entry /\ e.sharers = {n} /\ e.owner = n /\ e.st = s /\ e.where = o.where
  BY DEF FirstSharer, Entry
<1> QED BY <1>1 DEF Fits

LEMMA ProcessExReqSound ==
  ASSUME Sound, ProcessExReq, UNCHANGED caches
  PROVE  Sound'
<1>1. PICK a, r, o, d : a = todo.addr /\ r = First(a) /\ o = tags[a] /\ d = todo.data OBVIOUS
<1>2. PICK type : type = "EX_REQ" OBVIOUS
<1>3. Front(type) BY <1>2 DEF ProcessExReq
<1>4. /\ InFront(a, r) /\ r.type = "EX_REQ" /\ o.where # "absent"
      /\ UNCHANGED <<machine, toDir, dram, stack, waiters, serving>>
  BY <1>1, <1>2, <1>3, FrontIs DEF caches
<1>5. a \in Addr /\ r.from \in Node BY <1>4 DEF InFront
<1>6. o \in Entry /\ o.st \in {"U", "S", "E", "M"} /\ d \in AnyData
  BY <1>1, <1>5, HomeFacts DEF Sound, TypeOK, MemoryTyped
<1>7. CASE o.st \in {"E", "M"}
  <2>1. PICK N, t : N = {o.owner} /\ t = "FLUSH_REQ" OBVIOUS
  <2>2. CallBack(N, t, a) BY <1>1, <1>7, <2>1 DEF ProcessExReq
  <2>3. /\ t = "FLUSH_REQ" /\ r.type \in {"EX_REQ", "UPGRADE_REQ", "NULLIFY_REQ"}
        /\ tags[a].st \in {"E", "M"} /\ N = {tags[a].owner}
    BY <1>1, <1>4, <1>7, <2>1
  <2> QED BY <1>4, <2>2, <2>3, CallBackNodes
<1>8. CASE o.st = "S"
  <2>1. PICK N, t : N = o.sharers /\ t = "INV_REQ" OBVIOUS
  <2>2. CallBack(N, t, a) BY <1>1, <1>8, <2>1 DEF ProcessExReq
  <2> QED BY <1>4, <2>1, <2>2, CallBackNodes
<1>9. CASE o.st = "U"
  <2>1. PICK e, t, s : s = "M" /\ e = FirstSharer(o, r.from, s) /\ t = "EX_REP" OBVIOUS
  <2>2. Retrieve(a, e, t, d) BY <1>1, <1>9, <2>1 DEF ProcessExReq, First
  <2>3. s \in {"S", "E", "M"} BY <2>1
  <2>4. e \in Entry /\ e.sharers = {r.from} /\ e.st = s /\ e.where # "absent" /\ Fits(e)
    BY <1>4, <1>5, <1>6, <2>1, <2>3, FirstSharerIs
  <2>5. EnteredAs(a, r, t, e) BY <1>1, <1>9, <2>1, <2>4 DEF EnteredAs
  <2>6. e.st # "S" /\ r.type \in Requests BY <1>4, <2>1, <2>4 DEF Requests
  <2> QED BY <1>4, <1>6, <2>2, <2>4, <2>5, <2>6, RetrieveSound
<1> QED BY <1>6, <1>7, <1>8, <1>9

LEMMA ProcessShReqSound ==
  ASSUME Sound, ProcessShReq, UNCHANGED caches
  PROVE  Sound'
<1>1. PICK a, r, o, d, n : /\ a = todo.addr /\ r = First(a) /\ o = tags[a] /\ d = todo.data
                           /\ n = r.from
  OBVIOUS
<1>2. PICK type : type = "SH_REQ" OBVIOUS
<1>3. Front(type) BY <1>2 DEF ProcessShReq
<1>4. /\ InFront(a, r) /\ r.type = "SH_REQ" /\ o.where # "absent"
      /\ UNCHANGED <<machine, toDir, dram, stack, waiters, serving>>
  BY <1>1, <1>2, <1>3, FrontIs DEF caches
<1>5. a \in Addr /\ n \in Node /\ r.type \in Requests BY <1>1, <1>4 DEF InFront, Requests
<1>6. o \in Entry /\ o.st \in {"U", "S", "E", "M"} /\ d \in AnyData
  BY <1>1, <1>5, HomeFacts DEF Sound, TypeOK, MemoryTyped
<1>7. PICK shared : shared = [o EXCEPT !.sharers = o.sharers \cup {n}] OBVIOUS
<1>8. CASE o.st = "E" \/ o.st = "M" \/ o.st = "S" \/ o.st = "U"
  <2>2. CASE o.st \in {"E", "M"}
    <3>1. PICK N, t : N = {o.owner} /\ t = "WB_REQ" OBVIOUS
    <3>2. CallBack(N, t, a) BY <1>1, <2>2, <3>1 DEF ProcessShReq
    <3>3. /\ t = "WB_REQ" /\ r.type = "SH_REQ"
          /\ tags[a].st \in {"E", "M"} /\ N = {tags[a].owner}
      BY <1>1, <1>4, <2>2, <3>1
    <3> QED BY <1>4, <3>2, <3>3, CallBackNodes
  <2>3. CASE o.st = "S" /\ (n \in o.sharers \/ Cardinality(o.sharers) < machine.maxHwSharers)
    <3>1. PICK t : t = "SH_REP" OBVIOUS
    <3>2. Retrieve(a, shared, t, d)
      BY <1>1, <1>7, <2>3, <3>1 DEF ProcessShReq, First
    <3>3. /\ shared \in Entry /\ shared.sharers = o.sharers \cup {n} /\ shared.st = "S"
          /\ shared.owner = o.owner /\ shared.where = o.where
      BY <1>5, <1>6, <1>7, <2>3 DEF Entry
    <3>4. Fits(shared) BY <1>4, <3>3 DEF Fits
    <3>5. EnteredAs(a, r, t, shared) BY <1>1, <1>4, <2>3, <3>1, <3>3 DEF EnteredAs
    <3>6. tags[a].st = "S" /\ shared.owner = tags[a].owner /\ shared.where # "absent"
      BY <1>1, <1>4, <2>3, <3>3
    <3> QED BY <1>4, <1>5, <1>6, <3>2, <3>3, <3>4, <3>5, <3>6, RetrieveSound
  <2>4. CASE o.st = "S" /\ ~(n \in o.sharers \/ Cardinality(o.sharers) < machine.maxHwSharers)
    <3>2. PICK s : CallBack({s}, "INV_REQ", a) BY <1>1, <2>4 DEF ProcessShReq, First
    <3>3. PICK N, t : N = {s} /\ t = "INV_REQ" OBVIOUS
    <3>4. CallBack(N, t, a) BY <3>2, <3>3
    <3> QED BY <1>4, <3>3, <3>4, CallBackNodes
  <2>5. CASE o.st = "U" /\ machine.protocol = "MSI"
    <3>1. PICK e, t, s : s = "S" /\ e = FirstSharer(o, n, s) /\ t = "SH_REP" OBVIOUS
    <3>2. Retrieve(a, e, t, d) BY <1>1, <2>5, <3>1 DEF ProcessShReq, First
    <3>3. s \in {"S", "E", "M"} BY <3>1
    <3>4. e \in Entry /\ e.sharers = {n} /\ e.st = s /\ e.where # "absent" /\ Fits(e)
      BY <1>4, <1>5, <1>6, <3>1, <3>3, FirstSharerIs
    <3>5. EnteredAs(a, r, t, e) BY <1>1, <1>4, <2>5, <3>1, <3>4 DEF EnteredAs
    <3>6. machine.protocol # "MESIF" BY <2>5
    <3> QED BY <1>4, <1>5, <1>6, <3>2, <3>4, <3>5, <3>6, RetrieveSound
  <2>6. CASE o.st = "U" /\ machine.protocol # "MSI"
    <3>1. PICK e, t, s : s = "E" /\ e = FirstSharer(o, n, s) /\ t = "EX_REP" OBVIOUS
    <3>2. Retrieve(a, e, t, d) BY <1>1, <2>6, <3>1 DEF ProcessShReq, First
    <3>3. s \in {"S", "E", "M"} BY <3>1
    <3>4. e \in Entry /\ e.sharers = {n} /\ e.st = s /\ e.where # "absent" /\ Fits(e)
      BY <1>4, <1>5, <1>6, <3>1, <3>3, FirstSharerIs
    <3>5. EnteredAs(a, r, t, e) BY <1>1, <1>4, <2>6, <3>1, <3>4 DEF EnteredAs
    <3>6. e.st # "S" BY <3>1, <3>4
    <3> QED BY <1>4, <1>5, <1>6, <3>2, <3>4, <3>5, <3>6, RetrieveSound
  <2> QED BY <1>8, <2>2, <2>3, <2>4, <2>5, <2>6
<1> QED BY <1>6, <1>8

\* An upgrade of the only sharer is granted at once.
LEMMA GrantedSound ==
  ASSUME Sound, UNCHANGED <<machine, stack, waiters, serving, toDir, dram>>,
         NEW a, NEW r, InFront(a, r), r.type = "UPGRADE_REQ", tags[a].where # "absent",
         tags[a].sharers = {r.from}, Granted(a, r.from)
  PROVE  Sound'
<1>1. a \in Addr /\ todo.addr = a /\ ~Waits(a) /\ ~InDram(a) /\ reqs[a] # <<>> /\ r.from \in Node
      /\ r = First(a)
  BY DEF InFront
<1>2. PICK o, e : o = tags[a] /\ e = [o EXCEPT !.owner = r.from, !.st = "M"] OBVIOUS
<1>3. o \in Entry /\ tags \in [Addr -> Entry] /\ reqs \in [Addr -> Seq(Req)] BY <1>1, <1>2, HomeFacts
<1>4. e \in Entry /\ e.sharers = {r.from} /\ e.owner = r.from /\ e.st = "M" /\ e.where # "absent"
  BY <1>1, <1>2, <1>3 DEF Entry
<1>5. PICK p, N, t : p = Tail(reqs[a]) /\ N = {r.from} /\ t = "UPGRADE_REP" OBVIOUS
<1>6. NextReq(a) /\ fromDram' = fromDram /\ toCache' = Send(N, t, a, NoData) BY <1>5 DEF Granted
<1>7. tags' = [tags EXCEPT ![a] = e]
  <2>1. tags' = [tags EXCEPT ![a].owner = r.from, ![a].st = "M"] BY DEF Granted
  <2>2. tags' = [tags EXCEPT ![a] = [o EXCEPT !.owner = r.from, !.st = "M"]]
    BY <1>1, <1>2, <1>3, <2>1 DEF Entry
  <2> QED BY <1>2, <2>2
<1>8. NextTo(a, r, p) BY <1>1, <1>5, <1>6, NextReqIs
<1>9. HomeChange(a, e, p) /\ p \in Seq(Req) BY <1>7, <1>8 DEF HomeChange, NextTo
<1>10. tags'[a] = e BY <1>1, <1>4, <1>9, HomeChanged
<1>11. SentTo(N, t, a, toCache')
  <2>1. t \in Types /\ NoData \in AnyData BY <1>5 DEF Types, Replies, AnyData
  <2> QED BY <1>1, <1>6, <2>1, SendIs
<1>12. EntryOK(a)'
  <2>1. Fits(tags'[a]) BY <1>4, <1>10 DEF Fits
  <2> QED BY <1>8, <2>1, NextEntryOK
<1>13. DramKept BY <1>6 DEF DramKept
<1>14. DramOK(a)'
  <2>1. TypeOK /\ DramOK(a) BY <1>1 DEF Sound, HomeOK
  <2> QED BY <1>1, <1>13, <2>1, DramStep
<1>15. MsgsTyped'
  <2>1. toDir \in [Node -> Seq(ShmemMsg)] BY DEF Sound, TypeOK, MsgsTyped
  <2> QED BY <1>11, <2>1, SameMachine DEF SentTo, MsgsTyped
<1>16. \A n \in Node, b \in Addr \ {a} :
         Alike(toDir[n], toDir'[n], b) /\ Alike(toCache[n], toCache'[n], b)
  BY <1>11, AlikeRefl DEF SentTo
<1>17. ASSUME NEW n \in Node PROVE NodeOK(n, a)' /\ (UpgradeOf(n, a)' => UpgradeOf(n, a))
  <2>1. NodeOK(n, a) BY <1>1 DEF Sound
  <2>2. SameCache(n, a) BY SameCacheAll
  <2>3. Unasked(n, a) /\ Unasked(n, a)' /\ Popped(a, r) BY <1>8 DEF InFront, NextTo
  <2>4. Alike(toDir[n], toDir'[n], a) BY AlikeRefl
  <2>5. /\ n = r.from => Longer(toCache[n], toCache'[n], a, "UPGRADE_REP")
        /\ n # r.from => Alike(toCache[n], toCache'[n], a)
    BY <1>5, <1>11 DEF SentTo
  <2>6. /\ tags[a].sharers = {r.from} /\ tags'[a].sharers = {r.from}
        /\ tags'[a].st = "M" /\ tags'[a].owner = r.from
    BY <1>4, <1>10
  <2>7. NodeOK(n, a)' BY <1>1, <2>1, <2>2, <2>3, <2>4, <2>5, <2>6, GrantedStep
  <2>8. UpgradeOf(n, a)' => UpgradeOf(n, a)
    <3>1. ReqOf(reqs'[a], n, {"UPGRADE_REQ"}) => ReqOf(reqs[a], n, {"UPGRADE_REQ"}) BY <2>3 DEF Popped
    <3>2. n = r.from => ReqOf(reqs[a], n, {"UPGRADE_REQ"}) BY <2>3 DEF Popped
    <3>3. n # r.from => (Has(toCache'[n], a, {"UPGRADE_REP"}) => Has(toCache[n], a, {"UPGRADE_REP"}))
      BY <2>5 DEF Alike
    <3> QED BY <2>4, <3>1, <3>2, <3>3 DEF UpgradeOf, Alike
  <2> QED BY <2>7, <2>8
<1>18. dram' \in [Addr -> AnyData] BY DEF Sound, TypeOK, MemoryTyped
<1>19. TodoChange(a) BY <1>8 DEF NextTo
<1> QED BY <1>1, <1>4, <1>9, <1>12, <1>13, <1>14, <1>15, <1>16, <1>17, <1>18, <1>19, LineSound

LEMMA ProcessUpgradeReqSound ==
  ASSUME Sound, ProcessUpgradeReq, UNCHANGED caches
  PROVE  Sound'
<1>1. PICK a, r, o, n : a = todo.addr /\ r = First(a) /\ o = tags[a] /\ n = r.from OBVIOUS
<1>2. PICK type : type = "UPGRADE_REQ" OBVIOUS
<1>3. Front(type) BY <1>2 DEF ProcessUpgradeReq
<1>4. /\ InFront(a, r) /\ r.type = "UPGRADE_REQ" /\ o.where # "absent"
      /\ UNCHANGED <<machine, toDir, dram, stack, waiters, serving>>
  BY <1>1, <1>2, <1>3, FrontIs DEF caches
<1>5. a \in Addr /\ n \in Node /\ r.type \in Requests BY <1>1, <1>4 DEF InFront, Requests
<1>6. o \in Entry /\ o.st \in {"U", "S", "E", "M"} /\ todo.data \in AnyData
  BY <1>1, <1>5, HomeFacts DEF Sound, TypeOK, MemoryTyped
<1>7. CASE o.st # "U" /\ o.sharers = {n}
  <2>1. Granted(a, n) BY <1>1, <1>7 DEF ProcessUpgradeReq, OnlySharer, First
  <2>2. Granted(a, r.from) /\ tags[a].sharers = {r.from} /\ tags[a].where # "absent"
    BY <1>1, <1>4, <1>7, <2>1
  <2> QED BY <1>4, <2>2, GrantedSound
<1>8. CASE o.st \in {"E", "M"} /\ o.sharers # {n}
  <2>1. PICK N, t : N = {o.owner} /\ t = "FLUSH_REQ" OBVIOUS
  <2>2. CallBack(N, t, a) BY <1>1, <1>8, <2>1 DEF ProcessUpgradeReq, OnlySharer, First
  <2>3. /\ t = "FLUSH_REQ" /\ r.type \in {"EX_REQ", "UPGRADE_REQ", "NULLIFY_REQ"}
        /\ tags[a].st \in {"E", "M"} /\ N = {tags[a].owner}
    BY <1>1, <1>4, <1>8, <2>1
  <2> QED BY <1>4, <2>2, <2>3, CallBackNodes
<1>9. CASE o.st = "S" /\ o.sharers # {n}
  <2>1. PICK others : others = o.sharers \ {n} OBVIOUS
  <2>2. PICK flushed : flushed = IF n \in o.sharers THEN {}
                                 ELSE {CHOOSE s \in others : \A t \in others : s <= t}
    OBVIOUS
  <2>3. /\ toCache' = [l \in Node |->
                         IF l \notin others THEN toCache[l]
                         ELSE Append(toCache[l],
                                Msg(IF l \in flushed THEN "FLUSH_REQ" ELSE "INV_REQ", a, NoData))]
        /\ todo' = Idle /\ UNCHANGED <<tags, reqs, fromDram>>
    BY <1>1, <1>9, <2>1, <2>2 DEF ProcessUpgradeReq, OnlySharer, First
  <2>4. flushed # {} => n \notin o.sharers BY <2>2
  <2>5. todo'.addr # a BY <1>5, <2>3, HomeFacts
  <2>6. flushed # {} => Collecting(a)'
    BY <1>1, <1>4, <1>9, <2>3, <2>4, <2>5 DEF Collecting, InFront, First
  <2>7. ASSUME NEW l \in Node
        PROVE  /\ toCache'[l] \in Seq(ShmemMsg) /\ Called(l, a)
               /\ \A b \in Addr \ {a} : Alike(toCache[l], toCache'[l], b)
    <3>1. CASE l \notin others
      <4>1. toCache'[l] = toCache[l] BY <2>3, <3>1
      <4>2. toCache[l] \in Seq(ShmemMsg) BY DEF Sound, TypeOK, MsgsTyped
      <4> QED BY <4>1, <4>2, AlikeRefl DEF Called
    <3>2. CASE l \in others
      <4>1. PICK t : t = IF l \in flushed THEN "FLUSH_REQ" ELSE "INV_REQ" OBVIOUS
      <4>2. toCache'[l] = Append(toCache[l], Msg(t, a, NoData)) BY <2>3, <3>2, <4>1
      <4>3. t \in Types /\ NoData \in AnyData BY <4>1 DEF Types, AnyData
      <4>4. /\ toCache'[l] \in Seq(ShmemMsg) /\ Longer(toCache[l], toCache'[l], a, t)
            /\ \A b \in Addr \ {a} : Alike(toCache[l], toCache'[l], b)
        BY <1>5, <4>2, <4>3, OneSent
      <4>5. Called(l, a)
        <5>1. CASE l \in flushed BY <2>6, <4>1, <4>4, <5>1 DEF Called, Flushing
        <5>2. CASE l \notin flushed BY <4>1, <4>4, <5>2 DEF Called
        <5> QED BY <5>1, <5>2
      <4> QED BY <4>4, <4>5
    <3> QED BY <3>1, <3>2
  <2>8. toCache' \in [Node -> Seq(ShmemMsg)]
    <3>1. PICK M : M = Seq(ShmemMsg) OBVIOUS
    <3>2. toCache' = [l \in Node |-> toCache'[l]] BY <2>3
    <3>3. toCache' \in [Node -> M] BY <2>7, <3>1, <3>2
    <3> QED BY <3>1, <3>3
  <2> QED BY <1>4, <2>3, <2>7, <2>8, CallBackSound
<1>10. CASE o.st = "U"
  <2>1. PICK e, t, s : s = "M" /\ e = FirstSharer(o, n, s) /\ t = "EX_REP" OBVIOUS
  <2>2. PICK d \in AnyData : Retrieve(a, e, t, d)
    <3>1. PICK d \in IF todo.data # NoData THEN {todo.data} ELSE IF r.buf THEN Data ELSE {NoData} :
            Retrieve(a, e, t, d)
      BY <1>1, <1>10, <2>1 DEF ProcessUpgradeReq, First
    <3>2. d \in AnyData BY <1>6, <3>1 DEF AnyData
    <3> QED BY <3>1, <3>2
  <2>3. s \in {"S", "E", "M"} BY <2>1
  <2>4. e \in Entry /\ e.sharers = {n} /\ e.st = s /\ e.where # "absent" /\ Fits(e)
    BY <1>4, <1>5, <1>6, <2>1, <2>3, FirstSharerIs
  <2>5. EnteredAs(a, r, t, e) BY <1>1, <1>10, <2>1, <2>4 DEF EnteredAs
  <2>6. e.st # "S" BY <2>1, <2>4
  <2> QED BY <1>4, <1>5, <2>2, <2>4, <2>5, <2>6, RetrieveSound
<1> QED BY <1>6, <1>7, <1>8, <1>9, <1>10

LEMMA ProcessNullifyReqSound ==
  ASSUME Sound, ProcessNullifyReq, UNCHANGED caches, failed' = {}
  PROVE  Sound'
<1>1. PICK a, r, p, e : a = todo.addr /\ r = First(a) /\ p = Tail(reqs[a]) /\ e = NoEntry OBVIOUS
<1>2. PICK type : type = "NULLIFY_REQ" OBVIOUS
<1>3. Front(type) BY <1>2 DEF ProcessNullifyReq
<1>4. /\ InFront(a, r) /\ r.type = "NULLIFY_REQ"
      /\ UNCHANGED <<machine, toDir, dram, stack, waiters, serving, toCache, fromDram>>
  BY <1>1, <1>2, <1>3, FrontIs DEF caches, ProcessNullifyReq
<1>5. a \in Addr /\ todo.addr = a /\ ~Waits(a) /\ ~InDram(a) /\ reqs[a] # <<>> BY <1>4 DEF InFront
<1>6. tags' = [tags EXCEPT ![a] = e] /\ NextReq(a) BY <1>1 DEF ProcessNullifyReq
<1>7. tags[a].st = "U"
  <2>1. PICK checks : checks = [nullified_uncached |-> tags[a].st = "U"] OBVIOUS
  <2>2. failed' = failed \cup Broken(checks) BY <1>1, <2>1 DEF ProcessNullifyReq
  <2>3. \A name \in DOMAIN checks : checks[name] BY <2>2 DEF Broken
  <2>4. "nullified_uncached" \in DOMAIN checks /\ (checks["nullified_uncached"] <=> tags[a].st = "U")
    BY <2>1
  <2> QED BY <2>3, <2>4
<1>8. NextTo(a, r, p) BY <1>1, <1>5, <1>6, NextReqIs
<1>9. e \in Entry /\ e.st = "U" /\ e.sharers = {} BY <1>1, EntryKinds
<1>10. HomeChange(a, e, p) /\ p \in Seq(Req) BY <1>6, <1>8 DEF HomeChange, NextTo
<1>11. tags'[a] = e BY <1>4, <1>5, <1>9, <1>10, HomeChanged
<1>12. EntryOK(a)'
  <2>1. Fits(tags'[a]) BY <1>1, <1>9, <1>11 DEF Fits
  <2> QED BY <1>8, <2>1, NextEntryOK
<1>13. DramKept BY <1>4 DEF DramKept
<1>14. DramOK(a)'
  <2>1. TypeOK /\ DramOK(a) BY <1>5 DEF Sound, HomeOK
  <2> QED BY <1>5, <1>13, <2>1, DramStep
<1>15. MsgsTyped' BY <1>4, SameMachine DEF Sound, TypeOK, MsgsTyped
<1>16. \A n \in Node, b \in Addr : Alike(toDir[n], toDir'[n], b) /\ Alike(toCache[n], toCache'[n], b)
  BY <1>4, AlikeRefl
<1>17. EntryOK(a) BY <1>5, HomeFacts
<1>18. ASSUME NEW n \in Node PROVE NodeOK(n, a)' /\ (UpgradeOf(n, a)' => UpgradeOf(n, a))
  <2>1. NodeOK(n, a) BY <1>5 DEF Sound
  <2>2. SameCache(n, a) BY <1>4, SameCacheAll
  <2>3. Unasked(n, a) /\ Popped(a, r) BY <1>4, <1>8 DEF InFront, NextTo
  <2>4. Alike(toDir[n], toDir'[n], a) /\ Alike(toCache[n], toCache'[n], a) BY <1>5, <1>16
  <2>5. tags'[a].sharers = {} /\ tags'[a].st = "U" BY <1>9, <1>11
  <2>6. NodeOK(n, a)' BY <1>4, <1>5, <1>7, <1>17, <2>1, <2>2, <2>3, <2>4, <2>5, DroppedStep
  <2>7. UpgradeOf(n, a)' => UpgradeOf(n, a)
    <3>1. ReqOf(reqs'[a], n, {"UPGRADE_REQ"}) => ReqOf(reqs[a], n, {"UPGRADE_REQ"}) BY <2>3 DEF Popped
    <3> QED BY <2>4, <3>1 DEF UpgradeOf, Alike
  <2> QED BY <2>6, <2>7
<1>19. dram' \in [Addr -> AnyData] BY <1>4 DEF Sound, TypeOK, MemoryTyped
<1>20. TodoChange(a) BY <1>8 DEF NextTo
<1>21. \A n \in Node, b \in Addr \ {a} :
         Alike(toDir[n], toDir'[n], b) /\ Alike(toCache[n], toCache'[n], b)
  BY <1>16
<1> QED BY <1>4, <1>5, <1>9, <1>10, <1>12, <1>13, <1>14, <1>15, <1>18, <1>19, <1>20, <1>21, LineSound

\* A queue of one request, for the entry that is to be dropped.
LEMMA OneReq ==
  ASSUME NEW n \in Node, NEW r, r = NewReq("NULLIFY_REQ", n), NEW q, q = <<r>>
  PROVE  /\ q \in Seq(Req) /\ q # <<>> /\ Head(q) = r /\ Untouched(q) /\ ~r.wait /\ r.fwd = Nobody
         /\ r.type = "NULLIFY_REQ"
         /\ \A m : \A T \in {Requests, Fresh, {"UPGRADE_REQ"}} : ~ReqOf(q, m, T)
         /\ \A m : ~TwoReqs(q, m)
<1>1. PICK t : t = "NULLIFY_REQ" OBVIOUS
<1>2. t \in Requests \cup {"NULLIFY_REQ"} /\ r = NewReq(t, n) BY <1>1
<1>3. r \in Req /\ r.type = t /\ ~r.wait /\ r.fwd = Nobody BY <1>2, NewReqIs
<1>4. DOMAIN q = 1..1 /\ q[1] = r /\ Head(q) = r /\ q # <<>> OBVIOUS
<1>5. q \in Seq(Req)
  <2>1. PICK M : M = Req OBVIOUS
  <2>2. r \in M BY <1>3, <2>1
  <2>3. q \in Seq(M) BY <2>2
  <2> QED BY <2>1, <2>3
<1>6. \A i \in DOMAIN q : i = 1 /\ q[i] = r BY <1>4
<1>7. Untouched(q) BY <1>6 DEF Untouched
<1>8. \A m : \A T \in {Requests, Fresh, {"UPGRADE_REQ"}} : ~ReqOf(q, m, T)
  BY <1>1, <1>3, <1>6 DEF ReqOf, Requests, Fresh
<1>9. \A m : ~TwoReqs(q, m) BY <1>6 DEF TwoReqs
<1> QED BY <1>1, <1>3, <1>4, <1>5, <1>7, <1>8, <1>9

\* The line v that makes room: its entry leaves the set, and its copies are
\* called back if it has any.
VictimTo(v) ==
  /\ tags'[v].st = tags[v].st /\ tags'[v].sharers = tags[v].sharers
  /\ tags[v].st = "M" => tags'[v].owner = tags[v].owner
  /\ EntryOK(v)' /\ ~Waits(v)'
  /\ \A m : \A T \in {Requests, Fresh, {"UPGRADE_REQ"}} : ReqOf(reqs'[v], m, T) <=> ReqOf(reqs[v], m, T)
  /\ \A m : TwoReqs(reqs'[v], m) <=> TwoReqs(reqs[v], m)
  /\ toCache' \in [Node -> Seq(ShmemMsg)]
  /\ \A n \in Node : Called(n, v) /\ \A b \in Addr \ {v} : Alike(toCache[n], toCache'[n], b)
\* The request queued on the line that makes room, and the messages that call
\* its copies back.
VictimQueue(v, n) == IF tags[v].st = "U" THEN <<>> ELSE <<NewReq("NULLIFY_REQ", n)>>
Recalls(v) == CASE tags[v].st \in {"E", "M"} -> Send({tags[v].owner}, "FLUSH_REQ", v, NoData)
                [] tags[v].st = "S" -> Send(tags[v].sharers, "INV_REQ", v, NoData)
                [] tags[v].st = "U" -> toCache
LEMMA VictimIs ==
  ASSUME Sound, machine' = machine, NEW v \in Addr, tags[v].where = "slot", reqs[v] = <<>>, todo'.addr # v,
         NEW n \in Node, NEW e, e = Displaced(tags[v]),
         tags'[v] = e, reqs'[v] = VictimQueue(v, n), toCache' = Recalls(v)
  PROVE  VictimTo(v) /\ e \in Entry /\ reqs'[v] \in Seq(Req)
<1>0. PICK r : r = NewReq("NULLIFY_REQ", n) OBVIOUS
<1>a. /\ reqs'[v] = (IF tags[v].st = "U" THEN <<>> ELSE <<r>>)
      /\ toCache' = CASE tags[v].st \in {"E", "M"} -> Send({tags[v].owner}, "FLUSH_REQ", v, NoData)
                      [] tags[v].st = "S" -> Send(tags[v].sharers, "INV_REQ", v, NoData)
                      [] tags[v].st = "U" -> toCache
  BY <1>0 DEF VictimQueue, Recalls
<1>1. tags[v] \in Entry /\ EntryOK(v) /\ tags[v].st \in {"U", "S", "E", "M"} BY HomeFacts
<1>2. CASE tags[v].st = "U"
  <2>1. e = NoEntry /\ reqs'[v] = <<>> BY <1>a, <1>2 DEF Displaced
  <2>2. toCache' = toCache BY <1>a, <1>2
  <2>3. tags[v].sharers = {} BY <1>1, <1>2 DEF EntryOK
  <2>4. ~Waits(v)' BY <2>1 DEF Waits
  <2>5. EntryOK(v)' BY <1>1, <2>1, <2>4, EntryKinds DEF EntryOK
  <2>6. toCache' \in [Node -> Seq(ShmemMsg)] BY <2>2 DEF Sound, TypeOK, MsgsTyped
  <2>7. \A m \in Node : Called(m, v) /\ \A b \in Addr \ {v} : Alike(toCache[m], toCache'[m], b)
    BY <2>2, AlikeRefl DEF Called
  <2>8. reqs'[v] \in Seq(Req) BY <2>1
  <2> QED BY <1>2, <2>1, <2>3, <2>4, <2>5, <2>6, <2>7, <2>8, EntryKinds DEF VictimTo
<1>3. CASE tags[v].st # "U"
  <2>1. PICK q : q = <<r>> OBVIOUS
  <2>2. /\ q \in Seq(Req) /\ q # <<>> /\ Head(q) = r /\ Untouched(q) /\ ~r.wait /\ r.fwd = Nobody
        /\ r.type = "NULLIFY_REQ"
        /\ \A m : \A T \in {Requests, Fresh, {"UPGRADE_REQ"}} : ~ReqOf(q, m, T)
        /\ \A m : ~TwoReqs(q, m)
    BY <1>0, <2>1, OneReq
  <2>3. reqs'[v] = q /\ First(v)' = r BY <1>a, <1>3, <2>1, <2>2 DEF First
  <2>4. e = [tags[v] EXCEPT !.where = "replaced"] BY <1>3 DEF Displaced
  <2>5. /\ e \in Entry /\ e.where = "replaced" /\ e.st = tags[v].st /\ e.sharers = tags[v].sharers
        /\ e.owner = tags[v].owner
    BY <1>1, <2>4 DEF Entry
  <2>6. ~Waits(v)' BY <2>2, <2>3 DEF Waits
  <2>7. EntryOK(v)' BY <1>1, <2>2, <2>3, <2>5, <2>6 DEF EntryOK
  <2>8. /\ toCache' \in [Node -> Seq(ShmemMsg)]
        /\ \A m \in Node : Called(m, v) /\ \A b \in Addr \ {v} : Alike(toCache[m], toCache'[m], b)
    <3>1. CASE tags[v].st \in {"E", "M"}
      <4>1. PICK N, t : N = {tags[v].owner} /\ t = "FLUSH_REQ" OBVIOUS
      <4>2. toCache' = Send(N, t, v, NoData) BY <1>a, <3>1, <4>1
      <4>3. t \in Types /\ NoData \in AnyData BY <4>1 DEF Types, AnyData
      <4>4. SentTo(N, t, v, toCache') BY <4>2, <4>3, SendIs
      <4>5. ASSUME NEW m \in Node PROVE Called(m, v)
        <5>1. CASE m \notin N BY <4>4, <5>1 DEF SentTo, Called
        <5>2. CASE m \in N
          <6>1. Longer(toCache[m], toCache'[m], v, "FLUSH_REQ") BY <4>1, <4>4, <5>2 DEF SentTo
          <6>2. Flushing(m, v)' BY <2>2, <2>3, <2>5, <3>1, <4>1, <5>2 DEF Flushing
          <6> QED BY <6>1, <6>2 DEF Called
        <5> QED BY <5>1, <5>2
      <4> QED BY <4>4, <4>5 DEF SentTo
    <3>2. CASE tags[v].st = "S"
      <4>1. PICK N, t : N = tags[v].sharers /\ t = "INV_REQ" OBVIOUS
      <4>2. toCache' = Send(N, t, v, NoData) BY <1>a, <3>2, <4>1
      <4>3. t \in Types /\ NoData \in AnyData BY <4>1 DEF Types, AnyData
      <4>4. SentTo(N, t, v, toCache') BY <4>2, <4>3, SendIs
      <4> QED BY <4>1, <4>4 DEF SentTo, Called
    <3> QED BY <1>1, <1>3, <3>1, <3>2
  <2>9. /\ \A m : \A T \in {Requests, Fresh, {"UPGRADE_REQ"}} : ~ReqOf(reqs[v], m, T)
        /\ \A m : ~TwoReqs(reqs[v], m)
    BY DEF ReqOf, TwoReqs
  <2> QED BY <2>2, <2>3, <2>5, <2>6, <2>7, <2>8, <2>9 DEF VictimTo
<1> QED BY <1>2, <1>3

LEMMA AllocateSound ==
  ASSUME Sound, Allocate, UNCHANGED caches, failed' = {}
  PROVE  Sound'
<1>1. PICK a, rr, free : a = todo.addr /\ rr = First(a) /\ free = {b \in Slots : reqs[b] = <<>>} OBVIOUS
<1>2. /\ todo # Idle /\ Looked(a, Nobody).where = "absent"
      /\ UNCHANGED <<machine, toDir, dram, fromDram, todo, stack, waiters, serving>>
  BY <1>1 DEF Allocate, caches
<1>3. InFront(a, rr) /\ a \in Addr /\ rr.from \in Node BY <1>1, <1>2, TodoIs DEF InFront
<1>4. /\ tags[a] \in Entry /\ EntryOK(a) /\ DramOK(a)
      /\ tags \in [Addr -> Entry] /\ reqs \in [Addr -> Seq(Req)]
  BY <1>3, HomeFacts
<1>5. tags[a].where = "absent" /\ tags[a] = NoEntry
  <2>1. tags[a].where = "absent" BY <1>2 DEF Looked, NewEntry
  <2> QED BY <1>4, <2>1 DEF EntryOK
<1>6. free # {}
  <2>1. PICK checks : checks = [redmine_175 |-> free # {}] OBVIOUS
  <2>2. failed' = failed \cup Broken(checks) BY <1>1, <2>1 DEF Allocate
  <2>3. \A name \in DOMAIN checks : checks[name] BY <2>2 DEF Broken
  <2>4. "redmine_175" \in DOMAIN checks /\ (checks["redmine_175"] <=> free # {}) BY <2>1
  <2> QED BY <2>3, <2>4
<1>7. PICK v \in free, f \in Uninitialised :
        /\ tags' = [tags EXCEPT ![a] = NewEntry(f), ![v] = Displaced(@)]
        /\ reqs' = IF tags[v].st = "U" THEN reqs
                   ELSE [reqs EXCEPT ![v] = <<NewReq("NULLIFY_REQ", rr.from)>>]
        /\ toCache' = CASE tags[v].st \in {"E", "M"} -> Send({tags[v].owner}, "FLUSH_REQ", v, NoData)
                        [] tags[v].st = "S" -> Send(tags[v].sharers, "INV_REQ", v, NoData)
                        [] tags[v].st = "U" -> toCache
  BY <1>1, <1>6 DEF Allocate, First
<1>8. v \in Addr /\ tags[v].where = "slot" /\ reqs[v] = <<>> /\ v # a BY <1>1, <1>5, <1>7 DEF Slots
<1>9. PICK k, e : k = rr.from /\ e = Displaced(tags[v]) OBVIOUS
<1>10. /\ tags'[v] = e /\ tags'[a] = NewEntry(f)
       /\ \A b \in Addr \ {a, v} : tags'[b] = tags[b]
       /\ DOMAIN tags' = Addr /\ tags' = [b \in Addr |-> tags'[b]]
  BY <1>3, <1>4, <1>7, <1>8, <1>9
<1>11. reqs'[v] = VictimQueue(v, k) /\ toCache' = Recalls(v)
  BY <1>4, <1>7, <1>8, <1>9 DEF VictimQueue, Recalls
<1>12. \A b \in Addr \ {v} : reqs'[b] = reqs[b] BY <1>4, <1>7
<1>13. VictimTo(v) /\ e \in Entry /\ reqs'[v] \in Seq(Req)
  <2>1. todo'.addr # v BY <1>1, <1>2, <1>8
  <2>2. k \in Node /\ machine' = machine BY <1>2, <1>3, <1>9
  <2> QED BY <1>8, <1>9, <1>10, <1>11, <2>1, <2>2, VictimIs
<1>14. HomeTyped'
  <2>0. NewEntry(f) \in Entry BY EntryKinds
  <2>1. \A b \in Addr : tags'[b] \in Entry BY <1>4, <1>10, <1>13, <2>0
  <2>2. PICK E, Q : E = Entry /\ Q = Seq(Req) OBVIOUS
  <2>3. tags' \in [Addr -> E] BY <1>10, <2>1, <2>2
  <2>4. \A b \in Addr : reqs'[b] \in Q BY <1>4, <1>12, <1>13, <2>2
  <2>5. reqs' = [b \in Addr |-> reqs'[b]]
    <3>1. PICK s : s = <<NewReq("NULLIFY_REQ", rr.from)>> OBVIOUS
    <3>2. reqs' = reqs \/ reqs' = [reqs EXCEPT ![v] = s] BY <1>7, <3>1
    <3> QED BY <1>4, <3>2
  <2>6. reqs' \in [Addr -> Q] BY <2>4, <2>5
  <2> QED BY <1>2, <2>2, <2>3, <2>6, SameMachine DEF HomeTyped
<1>15. MsgsTyped'
  <2>1. toDir \in [Node -> Seq(ShmemMsg)] BY DEF Sound, TypeOK, MsgsTyped
  <2> QED BY <1>2, <1>13, <2>1, SameMachine DEF VictimTo, MsgsTyped
<1>16. MemoryTyped' BY <1>2, SameMachine DEF Sound, TypeOK, MemoryTyped
<1>17. \A b \in Addr \ {v} : DramOK(b)'
  <2>1. \A b \in Addr : DramOK(b) BY DEF Sound, HomeOK
  <2> QED BY <1>2, <1>12, <2>1 DEF DramOK, InDram, Waits, First
<1>18. HomeOK(v)'
  <2>1. DramOK(v) /\ ~Waits(v) BY <1>8 DEF Sound, HomeOK, Waits
  <2>2. DramOK(v)' BY <1>2, <2>1 DEF DramOK, InDram
  <2> QED BY <1>13, <2>2 DEF HomeOK, VictimTo
<1>19. HomeOK(a)'
  <2>1. reqs'[a] = reqs[a] BY <1>3, <1>8, <1>12
  <2>2. EntryOK(a)' BY <1>2, <1>4, <1>10, <2>1, EntryKinds DEF EntryOK, Waits, First
  <2>3. DramOK(a)' BY <1>3, <1>8, <1>17
  <2> QED BY <2>2, <2>3 DEF HomeOK
<1>20. ASSUME NEW n \in Node PROVE NodeOK(n, a)' /\ (UpgradeOf(n, a)' => UpgradeOf(n, a))
  <2>1. NodeOK(n, a) BY <1>3 DEF Sound
  <2>2. reqs'[a] = reqs[a] BY <1>3, <1>8, <1>12
  <2>3. SameHome(a) BY <1>2, <1>5, <1>10, <2>2, EntryKinds DEF SameHome, SameEntry
  <2>4. Alike(toDir[n], toDir'[n], a) BY <1>2, AlikeRefl
  <2>5. Alike(toCache[n], toCache'[n], a) BY <1>3, <1>8, <1>13 DEF VictimTo
  <2>6. SameView(n, a) BY <1>2, <2>4, <2>5 DEF SameView, L
  <2>7. NodeOK(n, a)' BY <2>1, <2>3, <2>6, NodeFrame
  <2>8. UpgradeOf(n, a)' => UpgradeOf(n, a) BY <2>2, <2>4, <2>5 DEF UpgradeOf, Alike
  <2> QED BY <2>7, <2>8
<1>21. ASSUME NEW n \in Node PROVE NodeOK(n, v)' /\ (UpgradeOf(n, v)' => UpgradeOf(n, v))
  <2>1. NodeOK(n, v) BY <1>8 DEF Sound
  <2>2. SameCache(n, v) BY <1>2, SameCacheAll
  <2>3. Unasked(n, v) /\ ~Waits(v) BY <1>8 DEF Unasked, Reading, Collecting, Flushing, Waits
  <2>4. Alike(toDir[n], toDir'[n], v) BY <1>2, AlikeRefl
  <2>5. \/ Alike(toCache[n], toCache'[n], v)
        \/ Longer(toCache[n], toCache'[n], v, "INV_REQ")
        \/ Longer(toCache[n], toCache'[n], v, "FLUSH_REQ") /\ Flushing(n, v)'
        \/ Longer(toCache[n], toCache'[n], v, "WB_REQ") /\ Reading(n, v)'
    BY <1>13 DEF VictimTo, Called
  <2>6. /\ \A m : \A T \in {Requests, Fresh} : ReqOf(reqs'[v], m, T) <=> ReqOf(reqs[v], m, T)
        /\ \A m : TwoReqs(reqs'[v], m) <=> TwoReqs(reqs[v], m)
        /\ ReqOf(reqs'[v], n, {"UPGRADE_REQ"}) <=> ReqOf(reqs[v], n, {"UPGRADE_REQ"})
    BY <1>13 DEF VictimTo
  <2>7. /\ tags'[v].st = tags[v].st /\ tags[v].sharers \subseteq tags'[v].sharers
        /\ tags[v].st = "M" => tags'[v].owner = tags[v].owner
        /\ ~Waits(v)'
    BY <1>13 DEF VictimTo
  <2>8. NodeOK(n, v)' BY <2>1, <2>2, <2>3, <2>4, <2>5, <2>6, <2>7, CallStep
  <2>9. UpgradeOf(n, v)' => UpgradeOf(n, v)
    <3>1. Has(toCache'[n], v, {"UPGRADE_REP"}) => Has(toCache[n], v, {"UPGRADE_REP"})
      BY <2>5 DEF Longer, Alike
    <3> QED BY <2>4, <2>6, <3>1 DEF UpgradeOf, Alike
  <2> QED BY <2>8, <2>9
<1>22. PICK A : A = {a, v} OBVIOUS
<1>23. \A b \in Addr \ A : /\ tags'[b] = tags[b] /\ reqs'[b] = reqs[b] /\ DramOK(b)'
                           /\ todo'.addr = b <=> todo.addr = b
  BY <1>2, <1>10, <1>12, <1>17, <1>22
<1>24. \A n \in Node, b \in Addr \ A :
         Alike(toDir[n], toDir'[n], b) /\ Alike(toCache[n], toCache'[n], b)
  BY <1>2, <1>13, <1>22, AlikeRefl DEF VictimTo
<1>25. \A b \in Addr \cap A : HomeOK(b)' BY <1>18, <1>19, <1>22
<1>26. \A n \in Node, b \in Addr \cap A : NodeOK(n, b)' /\ (UpgradeOf(n, b)' => UpgradeOf(n, b))
  BY <1>20, <1>21, <1>22
<1> QED BY <1>2, <1>14, <1>15, <1>16, <1>23, <1>24, <1>25, <1>26, DirStepSound

-----------------------------------------------------------------------------
(* The whole system.                                                       *)

\* Nothing is under way and nobody has a copy.
LEMMA InitSound ==
  ASSUME Init
  PROVE  Sound
<1>1. machine \in Machines /\ Nobody \notin Addr BY MachinesAssumption DEF Init, Addr
<1>2. MsgsTyped BY DEF Init, MsgsTyped
<1>3. todo.addr = Nobody /\ todo = Idle BY DEF Init, Idle
<1>4. MemoryTyped
  <2>1. dram \in [Addr -> AnyData] BY DEF Init, AnyData, Data
  <2>2. fromDram \in Seq([addr : Addr, data : AnyData])
    <3>1. PICK M : M = [addr : Addr, data : AnyData] OBVIOUS
    <3>2. fromDram \in Seq(M) BY DEF Init
    <3> QED BY <3>1, <3>2
  <2>3. todo \in [addr : Addr \cup {Nobody}, data : AnyData] BY <1>3 DEF Idle, AnyData
  <2> QED BY <1>3, <2>1, <2>2, <2>3 DEF MemoryTyped
<1>5. Invalid \in AnyLine /\ Invalid.st = "I" BY DEF Invalid, AnyLine, AnyData, Data
<1>6. ASSUME NEW n \in Node, NEW a \in Addr
      PROVE  /\ DOMAIN stack = Node /\ DOMAIN stack[n] = Addr
             /\ stack[n][a] = [l1 |-> [c \in CoresOf(n) |-> Invalid], llc |-> Invalid]
  BY DEF Init
<1>7. ASSUME NEW n \in Node, NEW a \in Addr
      PROVE  /\ stack[n][a] \in StackOf(CoresOf(n)) /\ L(n, a) = "I"
             /\ DOMAIN stack[n][a].l1 = CoresOf(n)
             /\ \A c \in CoresOf(n) : stack[n][a].l1[c].st = "I"
  <2>1. PICK X, o, f : X = CoresOf(n) /\ o = Invalid /\ f = [c \in X |-> o] OBVIOUS
  <2>2. stack[n][a] = [l1 |-> f, llc |-> o] BY <1>6, <2>1
  <2>3. stack[n][a].l1 = f /\ stack[n][a].llc = o BY <2>2
  <2>4. o \in AnyLine /\ o.st = "I" BY <1>5, <2>1
  <2>5. f \in [X -> AnyLine] /\ DOMAIN f = X /\ \A c \in X : f[c] = o BY <2>1, <2>4
  <2>6. stack[n][a] \in StackOf(X) BY <2>2, <2>4, <2>5 DEF StackOf
  <2> QED BY <2>1, <2>3, <2>4, <2>5, <2>6 DEF L
<1>8. StackTyped
  <2>1. DOMAIN stack = Node BY DEF Init
  <2>2. \A n \in Node : DOMAIN stack[n] = Addr BY DEF Init
  <2> QED BY <1>7, <2>1, <2>2 DEF StackTyped
<1>9. WaitersTyped
  <2>1. DOMAIN waiters = Node /\ serving \in [Node -> Addr \cup {Nobody}] BY DEF Init
  <2>2. ASSUME NEW n \in Node PROVE waiters[n] \in [Addr -> Seq(Waiter(n))]
    <3>1. PICK M : M = Waiter(n) OBVIOUS
    <3>2. waiters[n] = [a \in Addr |-> <<>>] BY DEF Init
    <3>3. waiters[n] \in [Addr -> Seq(M)] BY <3>2
    <3> QED BY <3>1, <3>3
  <2> QED BY <2>1, <2>2 DEF WaitersTyped
<1>10. HomeTyped
  <2>1. PICK E, M : E = Entry /\ M = Req OBVIOUS
  <2>2. tags \in [Addr -> E]
    <3>1. NoEntry \in E BY <2>1, EntryKinds
    <3> QED BY <3>1 DEF Init
  <2>3. reqs \in [Addr -> Seq(M)] BY DEF Init
  <2> QED BY <2>1, <2>2, <2>3 DEF HomeTyped
<1>11. TypeOK BY <1>1, <1>2, <1>4, <1>8, <1>9, <1>10 DEF TypeOK
<1>12. ASSUME NEW a \in Addr PROVE reqs[a] = <<>> /\ tags[a] = NoEntry /\ DOMAIN fromDram = {}
  BY DEF Init
<1>13. ASSUME NEW a \in Addr PROVE HomeOK(a) /\ ~Waits(a)
  <2>1. ~Waits(a) BY <1>12 DEF Waits
  <2>2. Untouched(reqs[a]) BY <1>12 DEF Untouched
  <2>3. EntryOK(a) BY <1>1, <1>3, <1>12, <2>1, <2>2, EntryKinds DEF EntryOK
  <2>4. DramOK(a) BY <1>12 DEF DramOK, InDram
  <2> QED BY <2>1, <2>3, <2>4 DEF HomeOK
<1>14. ASSUME NEW n \in Node, NEW a \in Addr
       PROVE  /\ toDir[n] = <<>> /\ toCache[n] = <<>> /\ waiters[n][a] = <<>> /\ serving[n] # a
  BY <1>1 DEF Init
<1>15. ASSUME NEW n \in Node, NEW a \in Addr
       PROVE  /\ \A T : ~Has(toDir[n], a, T) /\ ~Has(toCache[n], a, T)
              /\ \A T, U : ~Then(toDir[n], a, T, U) /\ ~Then(toCache[n], a, T, U)
              /\ \A T, U, V : ~Then3(toCache[n], a, T, U, V)
              /\ \A T : ~ReqOf(reqs[a], n, T)
              /\ ~TwoReqs(reqs[a], n)
  BY <1>12, <1>14 DEF Has, Then, Then3, ReqOf, TwoReqs
<1>16. ASSUME NEW n \in Node, NEW a \in Addr PROVE NodeOK(n, a)
  <2>1. L(n, a) = "I" /\ ~Pend(n, a) BY <1>7, <1>13 DEF Pend
  <2>2. OneRequest(n, a) BY <1>14, <1>15, <2>1 DEF OneRequest, Asked
  <2>3. OneToken(n, a) BY <1>15, <2>1 DEF OneToken
  <2>4. Known(n, a) BY <1>15, <2>1 DEF Known, Holds
  <2>5. Exclusive(n, a) BY <1>15, <2>1 DEF Exclusive
  <2>6. WbOK(n, a) BY <1>15 DEF WbOK
  <2>7. FlushOK(n, a) BY <1>15 DEF FlushOK
  <2> QED BY <2>2, <2>3, <2>4, <2>5, <2>6, <2>7 DEF NodeOK
<1>17. ASSUME NEW n \in Node, NEW a \in Addr PROVE LocalOK(n, a)
  <2>1. Alone(stack[n][a]) /\ Included(stack[n][a]) BY <1>7 DEF Alone, Included
  <2>2. Written(stack[n][a]) BY <1>7 DEF Written, L
  <2>3. Queued(stack[n][a], waiters[n][a], serving[n], a) BY <1>14 DEF Queued
  <2>4. ~UpgradeOf(n, a) BY <1>15 DEF UpgradeOf
  <2> QED BY <2>1, <2>2, <2>3, <2>4 DEF LocalOK
<1> QED BY <1>11, <1>13, <1>16, <1>17 DEF Sound

\* A step that changes nothing.
LEMMA StutterSound ==
  ASSUME Sound, UNCHANGED vars
  PROVE  Sound'
<1>1. /\ machine' = machine /\ toDir' = toDir /\ toCache' = toCache /\ dram' = dram
      /\ fromDram' = fromDram /\ todo' = todo /\ stack' = stack /\ waiters' = waiters
      /\ serving' = serving /\ tags' = tags /\ reqs' = reqs
  BY DEF vars, outside, caches, directory
<1>2. TypeOK'
  BY <1>1, SameMachine DEF Sound, TypeOK, MsgsTyped, MemoryTyped, StackTyped, WaitersTyped, HomeTyped,
                           Waiter
<1>3. ASSUME NEW a \in Addr PROVE HomeOK(a)'
  <2>1. HomeOK(a) BY DEF Sound
  <2> QED BY <1>1, <2>1 DEF HomeOK, EntryOK, DramOK, InDram, Waits, First
<1>4. ASSUME NEW n \in Node, NEW a \in Addr PROVE NodeOK(n, a)' /\ LocalOK(n, a)'
  <2>1. NodeOK(n, a) /\ LocalOK(n, a) BY DEF Sound
  <2>2. SameHome(a) BY <1>1 DEF SameHome, SameEntry
  <2>3. SameView(n, a) BY <1>1, AlikeRefl DEF SameView, L
  <2>4. NodeOK(n, a)' BY <2>1, <2>2, <2>3, NodeFrame
  <2>5. LocalOK(n, a)' BY <1>1, <2>1 DEF LocalOK, UpgradeOf
  <2> QED BY <2>4, <2>5
<1> QED BY <1>1, <1>2, <1>3, <1>4, SameMachine DEF Sound

\* Every step of a system whose assertions all hold after it.
LEMMA NextSound ==
  ASSUME Sound, Running, Next, Running'
  PROVE  Sound'
<1>1. failed' = {} BY DEF Running
<1>2. \/ \E c \in Core : CoreStep(c)
      \/ \E n \in Node : NetworkStep(n) \/ EvictStep(n) \/ FromCache(n)
      \/ FromDram \/ Continue
  BY DEF Next
<1>3. ASSUME NEW c \in Core, CoreStep(c) PROVE Sound'
  <2>1. UNCHANGED directory BY <1>3 DEF CoreStep
  <2>2. PICK a \in Addr :
          \/ StoreHit(c, a)
          \/ \E exclusive \in BOOLEAN : LastLevelHit(c, a, exclusive) \/ LastLevelMiss(c, a, exclusive)
          \/ EvictPrev(c, a)
    BY <1>3 DEF CoreStep
  <2>3. CASE StoreHit(c, a) BY <2>1, <2>3, StoreHitSound
  <2>4. ASSUME NEW exclusive \in BOOLEAN, LastLevelHit(c, a, exclusive) PROVE Sound'
    BY <2>1, <2>4, LastLevelHitSound
  <2>5. ASSUME NEW exclusive \in BOOLEAN, LastLevelMiss(c, a, exclusive) PROVE Sound'
    BY <2>1, <2>5, LastLevelMissSound
  <2>6. CASE EvictPrev(c, a) BY <2>1, <2>6, EvictPrevSound
  <2> QED BY <2>2, <2>3, <2>4, <2>5, <2>6
<1>4. ASSUME NEW n \in Node, NetworkStep(n) PROVE Sound'
  <2>1. UNCHANGED directory /\ (WakeNext(n) \/ HandleReply(n) \/ HandleDemand(n))
    BY <1>4 DEF NetworkStep
  <2>2. CASE WakeNext(n) BY <1>1, <2>1, <2>2, WakeNextSound
  <2>3. CASE HandleReply(n) BY <1>1, <2>1, <2>3, HandleReplySound
  <2>4. CASE HandleDemand(n) BY <1>1, <2>1, <2>4, HandleDemandSound
  <2> QED BY <2>1, <2>2, <2>3, <2>4
<1>5. ASSUME NEW n \in Node, EvictStep(n) PROVE Sound'
  <2>1. UNCHANGED directory /\ \E a \in Addr : Evict(n, a) BY <1>5 DEF EvictStep
  <2>2. PICK a \in Addr : Evict(n, a) BY <2>1
  <2> QED BY <2>1, <2>2, EvictSound
<1>6. ASSUME NEW n \in Node, FromCache(n) PROVE Sound'
  <2>1. UNCHANGED caches /\ (HandleRequest(n) \/ HandleInvRep(n) \/ HandleFlushRep(n) \/ HandleWbRep(n))
    BY <1>6 DEF FromCache
  <2>2. CASE HandleRequest(n) BY <2>1, <2>2, HandleRequestSound
  <2>3. CASE HandleInvRep(n) BY <1>1, <2>1, <2>3, HandleInvRepSound
  <2>4. CASE HandleFlushRep(n) BY <1>1, <2>1, <2>4, HandleFlushRepSound
  <2>5. CASE HandleWbRep(n) BY <1>1, <2>1, <2>5, HandleWbRepSound
  <2> QED BY <2>1, <2>2, <2>3, <2>4, <2>5
<1>7. ASSUME FromDram PROVE Sound' BY <1>1, <1>7, HandleDramReplySound DEF FromDram
<1>8. ASSUME Continue PROVE Sound'
  <2>1. /\ UNCHANGED caches
        /\ ProcessExReq \/ ProcessShReq \/ ProcessUpgradeReq \/ ProcessNullifyReq \/ Allocate
    BY <1>8 DEF Continue
  <2>2. CASE ProcessExReq BY <2>1, <2>2, ProcessExReqSound
  <2>3. CASE ProcessShReq BY <2>1, <2>3, ProcessShReqSound
  <2>4. CASE ProcessUpgradeReq BY <2>1, <2>4, ProcessUpgradeReqSound
  <2>5. CASE ProcessNullifyReq BY <1>1, <2>1, <2>5, ProcessNullifyReqSound
  <2>6. CASE Allocate BY <1>1, <2>1, <2>6, AllocateSound
  <2> QED BY <2>1, <2>2, <2>3, <2>4, <2>5, <2>6
<1> QED BY <1>2, <1>3, <1>4, <1>5, <1>6, <1>7, <1>8

\* A failed assertion stays failed.
LEMMA StoppedForEver ==
  ASSUME [Next]_vars, ~Running
  PROVE  ~Running'
<1>1. UNCHANGED vars BY DEF Next
<1> QED BY <1>1 DEF Running, vars, outside

\* The invariant holds as long as no assertion has fired, in every execution
\* of every machine.
THEOREM SoundInvariant == Spec => []Inv
<1>1. Init => Inv BY InitSound DEF Inv
<1>2. Inv /\ [Next]_vars => Inv'
  <2> SUFFICES ASSUME Inv, [Next]_vars, Running' PROVE Sound'
    BY DEF Inv
  <2>1. Running /\ Sound BY StoppedForEver DEF Inv
  <2>2. CASE Next BY <2>1, <2>2, NextSound
  <2>3. CASE UNCHANGED vars BY <2>1, <2>3, StutterSound
  <2> QED BY <2>2, <2>3
<1> QED BY <1>1, <1>2, PTL DEF Spec

\* processExReqFromL2Cache, processUpgradeReqFromL2Cache: a node whose
\* last-level cache may write a line is the only one with a copy of it, unless
\* an assertion has fired and ended the simulation.
THEOREM WritersAreSingle == Spec => [](Running => SingleWriter)
<1>1. Inv => (Running => SingleWriter)
  <2> SUFFICES ASSUME Sound, NEW a \in Addr, NEW n \in Node, stack[n][a].llc.st \in {"E", "M"}
               PROVE  \A m \in Node \ {n} : stack[m][a].llc.st = "I"
    BY DEF Inv, SingleWriter
  <2>1. L(n, a) \in {"E", "M"} BY DEF L
  <2>2. \A m \in Node \ {n} : L(m, a) = "I" BY <2>1, AloneWriter
  <2> QED BY <2>2 DEF L
<1> QED BY <1>1, SoundInvariant, PTL

\* updateCacheBlock, copyDataFromNextLevel: while the simulation runs, every
\* first-level copy has its line in the last level, and a modified one has it
\* in M there.
THEOREM HierarchyInclusive == Spec => [](Running => Inclusion)
<1>1. Inv => (Running => Inclusion)
  <2> SUFFICES ASSUME Sound, NEW a \in Addr, NEW n \in Node, NEW c \in CoresOf(n)
               PROVE  /\ stack[n][a].l1[c].st # "I" => stack[n][a].llc.st # "I"
                      /\ stack[n][a].l1[c].st = "M" => stack[n][a].llc.st = "M"
    BY DEF Inv, Inclusion
  <2>1. LocalOK(n, a) /\ stack[n][a] \in StackOf(CoresOf(n)) BY DEF Sound, TypeOK, StackTyped
  <2>2. DOMAIN stack[n][a].l1 = CoresOf(n) BY <2>1 DEF StackOf
  <2> QED BY <2>1, <2>2 DEF LocalOK, Included
<1> QED BY <1>1, SoundInvariant, PTL

\* The directory entry outlives the copies: while the simulation runs, a node
\* with a copy of a line is a sharer in an entry that is in its set or among
\* the replaced ones.
THEOREM CopiesAreKnown == Spec => [](Running => DirectoryKnowsCopies)
<1>1. Inv => (Running => DirectoryKnowsCopies)
  <2> SUFFICES ASSUME Sound, NEW a \in Addr, NEW n \in Node, stack[n][a].llc.st # "I"
               PROVE  tags[a].where # "absent" /\ n \in tags[a].sharers
    BY DEF Inv, DirectoryKnowsCopies
  <2>1. NodeOK(n, a) /\ HomeOK(a) BY DEF Sound
  <2>2. n \in tags[a].sharers BY <2>1 DEF NodeOK, Known, Holds, L
  <2>3. tags[a] # NoEntry BY <2>2, EntryKinds
  <2> QED BY <2>1, <2>2, <2>3 DEF HomeOK, EntryOK
<1> QED BY <1>1, SoundInvariant, PTL

\* A store goes to a line in M, and a line leaves M only with its newest data
\* written down: while the simulation runs, a node with a line in M has the
\* last write.
THEOREM LastWriteKept == Spec => [](Running => ModifiedKeepsLastWrite)
<1>1. Inv => (Running => ModifiedKeepsLastWrite)
  <2> SUFFICES ASSUME Sound, NEW a \in Addr, NEW n \in Node, stack[n][a].llc.st = "M"
               PROVE  Newest(stack[n][a]) = "last"
    BY DEF Inv, ModifiedKeepsLastWrite
  <2>1. LocalOK(n, a) BY DEF Sound
  <2> QED BY <2>1 DEF LocalOK, Written
<1> QED BY <1>1, SoundInvariant, PTL
=============================================================================
