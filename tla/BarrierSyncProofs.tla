------------------------- MODULE BarrierSyncProofs -------------------------
(***************************************************************************)
(* Proofs about the clock-skew barrier, for any number of cores, quantum,  *)
(* instruction batches and timeouts.                                       *)
(***************************************************************************)
EXTENDS BarrierSync, FiniteSetTheorems, TLAPS

(* The clock a core was last seen with is in its past: isBarrierReached,   *)
(* which looks at the noted clocks, never takes a core for further than it *)
(* is.                                                                     *)
ClocksNotedAreReached == \A c \in Cores : localClock[c] <= elapsed[c]

\* The inductive invariant.
Inv == /\ TypeOK
       /\ OnlyWaitersInList
       /\ ClocksNotedAreReached
       /\ GlobalTimeIsPast

----------------------------------------------------------------------------
\* The operators on times stay within the naturals.
LEMMA LaterType ==
    ASSUME NEW t \in Nat, NEW u \in Nat \cup {Never}
    PROVE  /\ Later(t, u) \in Nat
           /\ Later(t, u) >= t
           /\ Later(t, u) >= u
BY DEF Later, Never

LEMMA SyncAfterType ==
    ASSUME NEW t \in Nat
    PROVE  SyncAfter(t) \in Nat
<1>1. t \div Quantum \in Nat BY BarrierConstants
<1>2. (t \div Quantum) * Quantum \in Nat BY <1>1, BarrierConstants
<1> QED BY <1>2, BarrierConstants DEF SyncAfter

LEMMA OneReleasedType ==
    ASSUME toRelease \in Nat
    PROVE  OneReleased \in Nat
BY DEF OneReleased

LEMMA LeftUnsignalledType ==
    ASSUME hostCores \in HostCounts, NEW S, S \subseteq Cores
    PROVE  LeftUnsignalled(S) \in Nat
<1>1. IsFiniteSet(S) BY FS_Subset, BarrierConstants
<1>2. Cardinality(S) \in Nat BY <1>1, FS_CardinalityType
<1> QED BY <1>2, BarrierConstants DEF LeftUnsignalled

LEMMA QueuedType ==
    ASSUME TypeOK, Queued
    PROVE  ahead' \in [Cores -> SUBSET Cores]
<1>1. \A c \in Cores : Ahead(c) \in SUBSET Cores BY DEF Ahead, TypeOK
<1> QED BY <1>1 DEF Queued

LEMMA ResumedType ==
    ASSUME NEW p \in [Cores -> States], NEW a \in [Cores -> Nat \cup {Never}],
           NEW W \in SUBSET Cores, NEW t \in Nat
    PROVE  /\ Resumed(p, W) \in [Cores -> States]
           /\ ResumedAt(a, W, t) \in [Cores -> Nat \cup {Never}]
BY DEF Resumed, ResumedAt, States

(* The part of the invariant the server's calls touch: they leave the      *)
(* cores' clocks alone.                                                    *)
ServerOK == /\ pc \in [Cores -> States]
            /\ at \in [Cores -> Nat \cup {Never}]
            /\ acquire \in [Cores -> BOOLEAN]
            /\ toRelease \in Nat
            /\ next \in Nat
            /\ global \in Nat
            /\ failed \subseteq {"not restarted", "deadlocked"}
            /\ OnlyWaitersInList
            /\ GlobalTimeIsPast

\* With it, a call that leaves the rest alone keeps the whole invariant.
LEMMA ServerStep ==
    ASSUME Inv, ServerOK', ahead' \in [Cores -> SUBSET Cores],
           UNCHANGED <<hostCores, elapsed, late>>,
           nextSync' \in [Cores -> Nat],
           localClock' \in [Cores -> Nat],
           \A c \in Cores : localClock'[c] <= elapsed[c]
    PROVE  Inv'
BY DEF Inv, ServerOK, TypeOK, ClocksNotedAreReached

\* A release of the barrier, whoever calls it.
LEMMA ReleaseStep ==
    ASSUME TypeOK,
           NEW p \in [Cores -> States], NEW a \in [Cores -> Nat \cup {Never}],
           NEW S \in SUBSET Cores,
           \A c \in Cores : Runs(p[c]) => next <= elapsed[c],
           elapsed' = elapsed,
           BarrierRelease(p, a, S)
    PROVE  ServerOK'
<1>1. PICK W \in Woken(p, a, next) : /\ pc' = Resumed(p, W)
                                     /\ at' = ResumedAt(a, W, next)
  BY DEF BarrierRelease
<1>2. W \in SUBSET Cores BY DEF Woken, Due
<1>3. next \in Nat /\ hostCores \in HostCounts /\ toRelease \in Nat BY DEF TypeOK
<1>4. pc' \in [Cores -> States] /\ at' \in [Cores -> Nat \cup {Never}]
  BY <1>1, <1>2, <1>3, ResumedType
<1>5. toRelease' \in Nat BY <1>3, LeftUnsignalledType DEF BarrierRelease
<1>6. next' \in Nat /\ global' \in Nat
  BY <1>3, BarrierConstants DEF BarrierRelease
<1>7. failed' \subseteq {"not restarted", "deadlocked"}
  BY DEF BarrierRelease, CheckRestarted, TypeOK
<1>8. acquire' \in [Cores -> BOOLEAN] /\ OnlyWaitersInList'
  BY DEF BarrierRelease, OnlyWaitersInList
<1>9. ASSUME NEW c \in Cores, Runs(pc'[c])
      PROVE  global' <= GoesOnAt(c)'
  <2>1. global' = next BY DEF BarrierRelease
  <2>2. elapsed'[c] \in Nat /\ elapsed'[c] = elapsed[c] BY DEF TypeOK
  <2>3. at'[c] \in Nat \cup {Never} BY <1>4
  <2>4. CASE c \in W
    <3>1. pc'[c] = "waking" /\ at'[c] = next
      BY <1>1, <2>4 DEF Resumed, ResumedAt
    <3> QED BY <3>1, <2>1, <2>2, <1>3, LaterType DEF GoesOnAt
  <2>5. CASE c \notin W
    <3>1. pc'[c] = p[c] BY <1>1, <2>5 DEF Resumed
    <3>2. next <= elapsed[c] BY <3>1, <1>9
    <3>3. Later(elapsed'[c], at'[c]) >= elapsed'[c] /\ Later(elapsed'[c], at'[c]) \in Nat
      BY <2>2, <2>3, LaterType
    <3> QED BY <3>2, <3>3, <2>1, <2>2, <1>3 DEF GoesOnAt
  <2> QED BY <2>4, <2>5
<1>10. GlobalTimeIsPast' BY <1>9 DEF GlobalTimeIsPast
<1> QED BY <1>4, <1>5, <1>6, <1>7, <1>8, <1>10 DEF ServerOK

(* The check a thread that stops running makes: p and a are what pc and at *)
(* become when the barrier is not reached.                                 *)
LEMMA SignalStep ==
    ASSUME TypeOK, ClocksNotedAreReached,
           NEW p \in [Cores -> States], NEW a \in [Cores -> Nat \cup {Never}],
           \A c \in Cores : acquire[c] => p[c] = "barrier",
           ~late => \A c \in Cores : Runs(p[c]) =>
              global <= IF p[c] = "waking" THEN Later(elapsed[c], a[c]) ELSE elapsed[c],
           elapsed' = elapsed, late' = late,
           Signal(p, a)
    PROVE  ServerOK'
<1>1. CASE Reached(p, localClock)
  <2>1. \A c \in Cores : Runs(p[c]) => next <= elapsed[c]
    <3>1. SUFFICES ASSUME NEW c \in Cores, Runs(p[c]) PROVE next <= elapsed[c]
      OBVIOUS
    <3>2. localClock[c] >= next BY <1>1, <3>1 DEF Reached
    <3>3. localClock[c] <= elapsed[c] BY DEF ClocksNotedAreReached
    <3>4. localClock[c] \in Nat /\ elapsed[c] \in Nat /\ next \in Nat BY DEF TypeOK
    <3> QED BY <3>2, <3>3, <3>4
  <2>2. BarrierRelease(p, a, {c \in Cores : acquire[c]}) BY <1>1 DEF Signal
  <2> QED BY <2>1, <2>2, ReleaseStep
<1>2. CASE ~Reached(p, localClock)
  <2>1. /\ pc' = p /\ at' = a /\ toRelease' = OneReleased
        /\ UNCHANGED <<acquire, next, global, failed>>
    BY <1>2 DEF Signal
  <2>2. toRelease' \in Nat BY <2>1, OneReleasedType DEF TypeOK
  <2>3. OnlyWaitersInList' BY <2>1 DEF OnlyWaitersInList
  <2>4. GlobalTimeIsPast' BY <2>1 DEF GlobalTimeIsPast, GoesOnAt
  <2> QED BY <2>1, <2>2, <2>3, <2>4 DEF ServerOK, TypeOK
<1> QED BY <1>1, <1>2

\* The barrier advanced by the last thread to stall: no thread runs in p.
LEMMA AdvanceStep ==
    ASSUME TypeOK, OnlyWaitersInList,
           NEW p \in [Cores -> States], NEW a \in [Cores -> Nat \cup {Never}],
           \A c \in Cores : acquire[c] => p[c] = "barrier",
           \A c \in Cores : ~Runs(p[c]),
           elapsed' = elapsed,
           Advance(p, a) \/ NoTimeoutLeft(p, a)
    PROVE  ServerOK'
<1>0. next \in Nat /\ toRelease \in Nat /\ OneReleased \in Nat
  BY OneReleasedType DEF TypeOK
<1>1. CASE Advance(p, a)
  <2>0. PICK d \in Cores : \E k \in 0..a[d] :
           LET t == next + k * Quantum
           IN  /\ CheckRestarted(OneReleased)
               /\ global' = t
               /\ next' = t
               /\ toRelease' = OneReleased
               /\ acquire' = acquire
               /\ \E W \in Woken(p, a, t) : /\ pc' = Resumed(p, W)
                                            /\ at' = ResumedAt(a, W, t)
    BY <1>1 DEF Advance
  <2>1. PICK k \in 0..a[d] :
           /\ global' = next + k * Quantum
           /\ next' = next + k * Quantum
           /\ toRelease' = OneReleased
           /\ acquire' = acquire
           /\ CheckRestarted(OneReleased)
           /\ \E W \in Woken(p, a, next + k * Quantum) :
                 /\ pc' = Resumed(p, W)
                 /\ at' = ResumedAt(a, W, next + k * Quantum)
    BY <2>0
  <2> DEFINE t == next + k * Quantum
  <2>2. k \in Nat
    <3>1. a[d] \in Int BY DEF Never
    <3> QED BY <3>1
  <2>3. k * Quantum \in Nat BY <2>2, BarrierConstants
  <2>4. t \in Nat BY <2>3, <1>0
  <2>5. PICK W \in Woken(p, a, t) : pc' = Resumed(p, W) /\ at' = ResumedAt(a, W, t)
    BY <2>1
  <2>6. W \in SUBSET Cores BY DEF Woken, Due
  <2>7. pc' \in [Cores -> States] /\ at' \in [Cores -> Nat \cup {Never}]
    BY <2>4, <2>5, <2>6, ResumedType
  <2>8. failed' \subseteq {"not restarted", "deadlocked"}
    BY <2>1 DEF CheckRestarted, TypeOK
  <2>9. ASSUME NEW c \in Cores, acquire[c] PROVE FALSE
    BY <2>9 DEF Runs
  <2>10. OnlyWaitersInList' BY <2>1, <2>9 DEF OnlyWaitersInList
  <2>11. ASSUME NEW c \in Cores, Runs(pc'[c])
         PROVE  global' <= GoesOnAt(c)'
    <3>1. c \in W BY <2>5, <2>11 DEF Resumed
    <3>2. pc'[c] = "waking" /\ at'[c] = t BY <2>5, <3>1 DEF Resumed, ResumedAt
    <3>3. elapsed'[c] \in Nat BY DEF TypeOK
    <3>4. t <= Later(elapsed'[c], t) BY <3>3, <2>4, LaterType
    <3> QED BY <3>2, <3>4, <2>1 DEF GoesOnAt
  <2>12. GlobalTimeIsPast' BY <2>11 DEF GlobalTimeIsPast
  <2> QED BY <1>0, <2>1, <2>4, <2>7, <2>8, <2>10, <2>12 DEF ServerOK, TypeOK
<1>2. CASE NoTimeoutLeft(p, a)
  <2>1. /\ pc' = p /\ at' = a /\ global' \in Nat /\ toRelease' = OneReleased
        /\ UNCHANGED <<acquire, next>>
        /\ failed' \subseteq {"not restarted", "deadlocked"}
    BY <1>0, <1>2 DEF NoTimeoutLeft, TypeOK
  <2>2. OnlyWaitersInList' BY <2>1 DEF OnlyWaitersInList
  <2>3. GlobalTimeIsPast' BY <2>1 DEF GlobalTimeIsPast
  <2> QED BY <1>0, <2>1, <2>2, <2>3 DEF ServerOK, TypeOK
<1> QED BY <1>1, <1>2

----------------------------------------------------------------------------
\* Every step keeps the invariant.
LEMMA InitInv == Init => Inv
<1>1. Init => TypeOK
  <2>1. Quantum \in Nat /\ 0 \in Nat BY BarrierConstants
  <2>2. Init => pc \in [Cores -> States] BY DEF Init, States
  <2> QED BY <2>1, <2>2 DEF Init, TypeOK
<1>2. Init => OnlyWaitersInList BY DEF Init, OnlyWaitersInList
<1>3. Init => ClocksNotedAreReached BY DEF Init, ClocksNotedAreReached
<1>4. Init => GlobalTimeIsPast
  BY DEF Init, GlobalTimeIsPast, GoesOnAt, Later
<1> QED BY <1>1, <1>2, <1>3, <1>4 DEF Inv

\* Noted clocks stay in the past when a clock moves to a later time.
LEMMA ClockMoves ==
    ASSUME TypeOK, ClocksNotedAreReached, NEW c \in Cores, NEW t \in Nat,
           t >= elapsed[c], elapsed' = [elapsed EXCEPT ![c] = t],
           localClock' = localClock
    PROVE  ClocksNotedAreReached'
<1>1. SUFFICES ASSUME NEW e \in Cores PROVE localClock'[e] <= elapsed'[e]
  BY DEF ClocksNotedAreReached
<1>2. localClock[e] <= elapsed[e] BY DEF ClocksNotedAreReached
<1>3. localClock[e] \in Nat /\ elapsed[e] \in Nat /\ elapsed \in [Cores -> Nat]
  BY DEF TypeOK
<1>4. elapsed'[e] = IF e = c THEN t ELSE elapsed[e] BY <1>3
<1> QED BY <1>2, <1>3, <1>4

(* So does the global time when the running threads' clocks move to later  *)
(* times, or a thread starts to run at a time not behind it.               *)
LEMMA ThreadGoesOn ==
    ASSUME TypeOK, GlobalTimeIsPast, NEW c \in Cores, late' = late, global' = global,
           \A e \in Cores : e # c => /\ pc'[e] = pc[e]
                                    /\ at'[e] = at[e]
                                    /\ elapsed'[e] = elapsed[e],
           ~late => global <= GoesOnAt(c)'
    PROVE  GlobalTimeIsPast'
<1>1. SUFFICES ASSUME NEW e \in Cores, ~late', Runs(pc'[e])
               PROVE  global' <= GoesOnAt(e)'
  BY DEF GlobalTimeIsPast
<1>2. CASE e = c BY <1>1, <1>2
<1>3. CASE e # c BY <1>1, <1>3 DEF GlobalTimeIsPast, GoesOnAt
<1> QED BY <1>2, <1>3

\* Steps of one thread that leave the server alone.
LEMMA QuietSteps ==
    ASSUME Inv, NEW c \in Cores, ahead' \in [Cores -> SUBSET Cores],
           \/ Run(c) \/ SynchronizeEarly(c) \/ Leave(c) \/ Awake(c)
           \/ SyscallRead(c) \/ SyscallExit(c) \/ Start(c)
           \/ \E d \in Cores : Resume(c, d) \/ Create(c, d)
    PROVE  Inv'
<1> USE DEF Inv
<1>1. TypeOK /\ OnlyWaitersInList /\ ClocksNotedAreReached /\ GlobalTimeIsPast OBVIOUS
<1>2. CASE Run(c)
  <2>1. PICK d \in Steps : elapsed' = [elapsed EXCEPT ![c] = @ + d] BY <1>2 DEF Run
  <2>2. d \in Nat BY BarrierConstants
  <2>3. pc[c] = "app" BY <1>2 DEF Run, Executes
  <2>4. UNCHANGED <<hostCores, pc, nextSync, at, late, localClock, acquire,
                    toRelease, next, global, failed>>
    BY <1>2 DEF Run, serverVars
  <2>5. TypeOK'
    <3>1. elapsed[c] \in Nat BY DEF TypeOK
    <3>2. elapsed[c] + d \in Nat BY <2>2, <3>1
    <3> QED BY <2>1, <2>4, <3>2 DEF TypeOK
  <2>6. OnlyWaitersInList' BY <2>4 DEF OnlyWaitersInList
  <2>7. elapsed[c] \in Nat /\ elapsed[c] + d \in Nat /\ elapsed[c] + d >= elapsed[c]
    <3>1. elapsed[c] \in Nat BY DEF TypeOK
    <3> QED BY <2>2, <3>1
  <2>8. ClocksNotedAreReached' BY <2>1, <2>4, <2>7, ClockMoves
  <2>9. ASSUME ~late PROVE global <= GoesOnAt(c)'
    <3>1. global <= elapsed[c] /\ global \in Nat
      BY <2>3, <2>9 DEF GlobalTimeIsPast, TypeOK, GoesOnAt, Runs
    <3>2. GoesOnAt(c)' = elapsed[c] + d BY <2>1, <2>3, <2>4 DEF GoesOnAt, TypeOK
    <3> QED BY <2>7, <3>1, <3>2
  <2>10. GlobalTimeIsPast' BY <2>1, <2>4, <2>9, ThreadGoesOn DEF TypeOK
  <2> QED BY <2>5, <2>6, <2>8, <2>10
<1>3. CASE SynchronizeEarly(c)
  <2>1. elapsed[c] \in Nat BY DEF TypeOK
  <2>2. SyncAfter(elapsed[c]) \in Nat BY <2>1, SyncAfterType
  <2>3. TypeOK' BY <1>3, <2>1, <2>2 DEF SynchronizeEarly, TypeOK
  <2>4. OnlyWaitersInList' BY <1>3 DEF SynchronizeEarly, OnlyWaitersInList
  <2>5. ClocksNotedAreReached'
    <3>1. elapsed[c] <= elapsed[c] BY <2>1
    <3> QED BY <1>3, <3>1 DEF SynchronizeEarly, ClocksNotedAreReached, TypeOK
  <2>6. GlobalTimeIsPast' BY <1>3 DEF SynchronizeEarly, GlobalTimeIsPast, GoesOnAt
  <2> QED BY <2>3, <2>4, <2>5, <2>6
<1>4. CASE Leave(c)
  <2>1. elapsed[c] \in Nat BY DEF TypeOK
  <2>2. SyncAfter(elapsed[c]) \in Nat BY <2>1, SyncAfterType
  <2>3. TypeOK' BY <1>4, <2>2 DEF Leave, TypeOK, States
  <2>4. OnlyWaitersInList' BY <1>4 DEF Leave, OnlyWaitersInList, TypeOK
  <2>5. ClocksNotedAreReached' BY <1>4 DEF Leave, ClocksNotedAreReached
  <2>6. GlobalTimeIsPast' BY <1>4 DEF Leave, GlobalTimeIsPast, GoesOnAt, Runs, TypeOK
  <2> QED BY <2>3, <2>4, <2>5, <2>6
<1>5. CASE Awake(c)
  <2>1. elapsed[c] \in Nat /\ at[c] \in Nat \cup {Never} BY DEF TypeOK
  <2>2. Later(elapsed[c], at[c]) \in Nat /\ Later(elapsed[c], at[c]) >= elapsed[c]
    BY <2>1, LaterType
  <2>3. TypeOK' BY <1>5, <2>2 DEF Awake, TypeOK, States, serverVars
  <2>4. OnlyWaitersInList' BY <1>5 DEF Awake, OnlyWaitersInList, TypeOK, serverVars
  <2>5. ClocksNotedAreReached' BY <1>5, <2>2, ClockMoves DEF Awake, serverVars
  <2>6. GlobalTimeIsPast'
    BY <1>5, <2>2 DEF Awake, GlobalTimeIsPast, GoesOnAt, Runs, TypeOK, serverVars
  <2> QED BY <2>3, <2>4, <2>5, <2>6
<1>6. CASE SyscallRead(c)
  <2>1. TypeOK' BY <1>6 DEF SyscallRead, TypeOK, States, serverVars
  <2>2. OnlyWaitersInList' BY <1>6 DEF SyscallRead, OnlyWaitersInList, TypeOK, serverVars
  <2>3. ClocksNotedAreReached' BY <1>6 DEF SyscallRead, ClocksNotedAreReached, serverVars
  <2>4. GlobalTimeIsPast'
    BY <1>6 DEF SyscallRead, GlobalTimeIsPast, GoesOnAt, Runs, TypeOK, serverVars
  <2> QED BY <2>1, <2>2, <2>3, <2>4
<1>7. CASE SyscallExit(c)
  <2>1. elapsed[c] \in Nat /\ at[c] \in Nat \cup {Never} /\ global \in Nat BY DEF TypeOK
  <2>2. Later(elapsed[c], at[c]) \in Nat BY <2>1, LaterType
  <2>3. TypeOK' BY <1>7 DEF SyscallExit, TypeOK, States, serverVars
  <2>4. OnlyWaitersInList' BY <1>7 DEF SyscallExit, OnlyWaitersInList, TypeOK, serverVars
  <2>5. ClocksNotedAreReached' BY <1>7 DEF SyscallExit, ClocksNotedAreReached, serverVars
  <2>6. GlobalTimeIsPast'
    <3>1. SUFFICES ASSUME NEW e \in Cores, ~late', Runs(pc'[e])
                   PROVE  global' <= GoesOnAt(e)'
      BY DEF GlobalTimeIsPast
    <3>2. CASE e = c
      <4>1. ~(Later(elapsed[c], at[c]) < global) BY <1>7, <3>1 DEF SyscallExit
      <4>2. GoesOnAt(c)' = Later(elapsed[c], at[c])
        BY <1>7 DEF SyscallExit, GoesOnAt, TypeOK
      <4>3. global' = global BY <1>7 DEF SyscallExit, serverVars
      <4> QED BY <3>2, <4>1, <4>2, <4>3, <2>1, <2>2
    <3>3. CASE e # c
      BY <1>7, <3>1, <3>3 DEF SyscallExit, GlobalTimeIsPast, GoesOnAt, TypeOK, serverVars
    <3> QED BY <3>2, <3>3
  <2> QED BY <2>3, <2>4, <2>5, <2>6
<1>8. CASE Start(c)
  <2>1. elapsed[c] \in Nat /\ at[c] \in Nat \cup {Never} /\ global \in Nat BY DEF TypeOK
  <2>2. Later(elapsed[c], at[c]) \in Nat /\ Later(elapsed[c], at[c]) >= elapsed[c]
    BY <2>1, LaterType
  <2>3. OneReleased \in Nat BY OneReleasedType DEF TypeOK
  <2>4. TypeOK' BY <1>8, <2>2, <2>3 DEF Start, TypeOK, States
  <2>5. OnlyWaitersInList' BY <1>8 DEF Start, OnlyWaitersInList, TypeOK
  <2>6. ClocksNotedAreReached' BY <1>8, <2>2, ClockMoves DEF Start
  <2>7. GlobalTimeIsPast'
    <3>1. SUFFICES ASSUME NEW e \in Cores, ~late', Runs(pc'[e])
                   PROVE  global' <= GoesOnAt(e)'
      BY DEF GlobalTimeIsPast
    <3>2. CASE e = c
      <4>1. ~(Later(elapsed[c], at[c]) < global) BY <1>8, <3>1 DEF Start
      <4>2. GoesOnAt(c)' = Later(elapsed[c], at[c])
        BY <1>8 DEF Start, GoesOnAt, TypeOK
      <4>3. global' = global BY <1>8 DEF Start
      <4> QED BY <3>2, <4>1, <4>2, <4>3, <2>1, <2>2
    <3>3. CASE e # c
      BY <1>8, <3>1, <3>3 DEF Start, GlobalTimeIsPast, GoesOnAt, TypeOK
    <3> QED BY <3>2, <3>3
  <2> QED BY <2>4, <2>5, <2>6, <2>7
<1>9. CASE \E d \in Cores : Resume(c, d)
  <2>1. PICK d \in Cores : Resume(c, d) BY <1>9
  <2>2. elapsed[c] \in Nat /\ elapsed[d] \in Nat /\ global \in Nat BY DEF TypeOK
  <2>3. Later(elapsed[d], elapsed[c]) >= elapsed[c] BY <2>2, LaterType
  <2>4. Later(elapsed[d], elapsed[c]) \in Nat BY <2>2, LaterType
  <2>5. TypeOK' BY <2>1, <2>2 DEF Resume, TypeOK, States, serverVars
  <2>6. OnlyWaitersInList' BY <2>1 DEF Resume, OnlyWaitersInList, TypeOK, serverVars
  <2>7. ClocksNotedAreReached' BY <2>1 DEF Resume, ClocksNotedAreReached, serverVars
  <2>8. ~late => global <= elapsed[c]
    BY <2>1 DEF Resume, Executes, GlobalTimeIsPast, GoesOnAt, Runs
  <2>9. ASSUME ~late PROVE global <= GoesOnAt(d)'
    <3>1. GoesOnAt(d)' = Later(elapsed[d], elapsed[c])
      BY <2>1 DEF Resume, GoesOnAt, TypeOK
    <3> QED BY <2>2, <2>3, <2>4, <2>8, <2>9, <3>1
  <2>10. GlobalTimeIsPast' BY <2>1, <2>9, ThreadGoesOn DEF Resume, TypeOK, serverVars
  <2> QED BY <2>5, <2>6, <2>7, <2>10
<1>10. CASE \E d \in Cores : Create(c, d)
  <2>1. PICK d \in Cores : Create(c, d) BY <1>10
  <2>2. elapsed[c] \in Nat BY DEF TypeOK
  <2>3. TypeOK' BY <2>1, <2>2 DEF Create, TypeOK, States, serverVars
  <2>4. OnlyWaitersInList' BY <2>1 DEF Create, OnlyWaitersInList, TypeOK, serverVars
  <2>5. ClocksNotedAreReached' BY <2>1 DEF Create, ClocksNotedAreReached, serverVars
  <2>6. GlobalTimeIsPast'
    BY <2>1 DEF Create, GlobalTimeIsPast, GoesOnAt, Runs, TypeOK, serverVars
  <2> QED BY <2>3, <2>4, <2>5, <2>6
<1> QED BY <1>2, <1>3, <1>4, <1>5, <1>6, <1>7, <1>8, <1>9, <1>10

\* Steps that check the barrier: the thread comes to it or stops running.
LEMMA SynchronizeInv ==
    ASSUME Inv, NEW c \in Cores, ahead' \in [Cores -> SUBSET Cores], Synchronize(c)
    PROVE  Inv'
<1> DEFINE clock == [localClock EXCEPT ![c] = elapsed[c]]
<1>0. TypeOK /\ OnlyWaitersInList /\ ClocksNotedAreReached /\ GlobalTimeIsPast BY DEF Inv
<1>1. pc[c] = "app" /\ localClock' = clock /\ UNCHANGED <<hostCores, elapsed, late>>
  BY DEF Synchronize
<1>2. elapsed[c] \in Nat /\ localClock \in [Cores -> Nat] BY <1>0 DEF TypeOK
<1>3. localClock' \in [Cores -> Nat] BY <1>1, <1>2
<1>4. ASSUME NEW e \in Cores PROVE clock[e] <= elapsed[e]
  <2>1. elapsed[c] <= elapsed[c] BY <1>2
  <2> QED BY <1>0, <1>2, <2>1 DEF ClocksNotedAreReached
<1>5. SyncAfter(elapsed[c]) \in Nat BY <1>2, SyncAfterType
<1>6. nextSync' \in [Cores -> Nat] BY <1>0, <1>5 DEF Synchronize, TypeOK
<1>7. CASE Reached(pc, clock)
  <2>1. \A e \in Cores : Runs(pc[e]) => next <= elapsed[e]
    <3>1. SUFFICES ASSUME NEW e \in Cores, Runs(pc[e]) PROVE next <= elapsed[e]
      OBVIOUS
    <3>2. clock[e] >= next BY <1>7, <3>1 DEF Reached
    <3>3. clock[e] \in Nat /\ elapsed[e] \in Nat /\ next \in Nat
      BY <1>0, <1>1, <1>3 DEF TypeOK
    <3> QED BY <1>4, <3>2, <3>3
  <2>2. BarrierRelease(pc, at, {d \in Cores \ {c} : acquire[d]}) BY <1>7 DEF Synchronize
  <2>3. ServerOK' BY <1>0, <1>1, <2>1, <2>2, ReleaseStep DEF TypeOK
  <2> QED BY <2>3, <1>1, <1>3, <1>4, <1>6, ServerStep
<1>8. CASE ~Reached(pc, clock)
  <2>1. /\ pc' = [pc EXCEPT ![c] = "barrier"]
        /\ acquire' = [acquire EXCEPT ![c] = TRUE]
        /\ toRelease' = OneReleased
        /\ UNCHANGED <<nextSync, at, next, global, failed>>
    BY <1>8 DEF Synchronize
  <2>2. toRelease' \in Nat BY <1>0, <2>1, OneReleasedType DEF TypeOK
  <2>3. pc' \in [Cores -> States] /\ acquire' \in [Cores -> BOOLEAN]
    BY <1>0, <2>1 DEF TypeOK, States
  <2>4. OnlyWaitersInList' BY <1>0, <2>1 DEF OnlyWaitersInList, TypeOK
  <2>5. GlobalTimeIsPast'
    BY <1>0, <1>1, <2>1 DEF GlobalTimeIsPast, GoesOnAt, Runs, TypeOK
  <2>6. ServerOK' BY <1>0, <2>1, <2>2, <2>3, <2>4, <2>5 DEF ServerOK, TypeOK
  <2> QED BY <2>6, <1>1, <1>3, <1>4, <1>6, ServerStep
<1> QED BY <1>7, <1>8

LEMMA StallInv ==
    ASSUME Inv, NEW c \in Cores, NEW out \in Nat \cup {Never},
           ahead' \in [Cores -> SUBSET Cores], Stall(c, out)
    PROVE  Inv'
<1> DEFINE p == [pc EXCEPT ![c] = "stalled"]
           a == [at EXCEPT ![c] = out]
<1>0. TypeOK /\ OnlyWaitersInList /\ ClocksNotedAreReached /\ GlobalTimeIsPast BY DEF Inv
<1>1. pc[c] = "app" /\ UNCHANGED <<hostCores, elapsed, nextSync, late, localClock>>
  BY DEF Stall, Executes
<1>2. p \in [Cores -> States] /\ a \in [Cores -> Nat \cup {Never}]
  BY <1>0 DEF TypeOK, States
<1>3. \A e \in Cores : acquire[e] => p[e] = "barrier"
  BY <1>0, <1>1 DEF OnlyWaitersInList, TypeOK
<1>4. CASE \E d \in Cores : Runs(p[d]) \/ p[d] = "init"
  <2>1. Signal(p, a) BY <1>4 DEF Stall
  <2>2. ~late => \A e \in Cores : Runs(p[e]) =>
           global <= IF p[e] = "waking" THEN Later(elapsed[e], a[e]) ELSE elapsed[e]
    BY <1>0 DEF GlobalTimeIsPast, GoesOnAt, Runs, TypeOK
  <2>3. ServerOK' BY <1>0, <1>1, <1>2, <1>3, <2>1, <2>2, SignalStep
  <2> QED BY <1>0, <1>1, <2>3, ServerStep DEF TypeOK, ClocksNotedAreReached
<1>5. CASE ~\E d \in Cores : Runs(p[d]) \/ p[d] = "init"
  <2>1. Advance(p, a) \/ NoTimeoutLeft(p, a) BY <1>5 DEF Stall
  <2>2. ServerOK' BY <1>0, <1>1, <1>2, <1>3, <1>5, <2>1, AdvanceStep
  <2> QED BY <1>0, <1>1, <2>2, ServerStep DEF TypeOK, ClocksNotedAreReached
<1> QED BY <1>4, <1>5

LEMMA SyscallEnterInv ==
    ASSUME Inv, NEW c \in Cores, ahead' \in [Cores -> SUBSET Cores], SyscallEnter(c)
    PROVE  Inv'
<1> DEFINE p == [pc EXCEPT ![c] = "syscall"]
<1>0. TypeOK /\ OnlyWaitersInList /\ ClocksNotedAreReached /\ GlobalTimeIsPast BY DEF Inv
<1>1. /\ pc[c] = "app" /\ UNCHANGED <<hostCores, elapsed, nextSync, late, localClock>>
      /\ Signal(p, at)
  BY DEF SyscallEnter, Executes
<1>2. p \in [Cores -> States] /\ at \in [Cores -> Nat \cup {Never}]
  BY <1>0 DEF TypeOK, States
<1>3. \A e \in Cores : acquire[e] => p[e] = "barrier"
  BY <1>0, <1>1 DEF OnlyWaitersInList, TypeOK
<1>4. ~late => \A e \in Cores : Runs(p[e]) =>
         global <= IF p[e] = "waking" THEN Later(elapsed[e], at[e]) ELSE elapsed[e]
  BY <1>0 DEF GlobalTimeIsPast, GoesOnAt, Runs, TypeOK
<1>5. ServerOK' BY <1>0, <1>1, <1>2, <1>3, <1>4, SignalStep
<1> QED BY <1>0, <1>1, <1>5, ServerStep DEF TypeOK, ClocksNotedAreReached

LEMMA ExitInv ==
    ASSUME Inv, NEW c \in Cores, ahead' \in [Cores -> SUBSET Cores], Exit(c)
    PROVE  Inv'
<1>0. TypeOK /\ OnlyWaitersInList /\ ClocksNotedAreReached /\ GlobalTimeIsPast BY DEF Inv
<1>1. pc[c] = "app" /\ UNCHANGED <<hostCores, elapsed, nextSync, late, localClock>>
  BY DEF Exit, Executes
<1>2. PICK W \in SUBSET {d \in Cores : pc[d] = "stalled"} :
         Signal(Resumed([pc EXCEPT ![c] = "idle"], W), ResumedAt(at, W, elapsed[c]))
  BY DEF Exit
<1> DEFINE q == [pc EXCEPT ![c] = "idle"]
           p == Resumed(q, W)
           a == ResumedAt(at, W, elapsed[c])
<1>3. q \in [Cores -> States] /\ W \in SUBSET Cores /\ elapsed[c] \in Nat
  BY <1>0 DEF TypeOK, States
<1>4. p \in [Cores -> States] /\ a \in [Cores -> Nat \cup {Never}]
  BY <1>0, <1>3, ResumedType DEF TypeOK
<1>5. ASSUME NEW e \in Cores
      PROVE  /\ e \in W => e # c /\ pc[e] = "stalled" /\ p[e] = "waking" /\ a[e] = elapsed[c]
             /\ e \notin W => a[e] = at[e] /\ p[e] = IF e = c THEN "idle" ELSE pc[e]
  BY <1>0, <1>1 DEF Resumed, ResumedAt, TypeOK
<1>6. ASSUME NEW e \in Cores, acquire[e] PROVE p[e] = "barrier"
  BY <1>0, <1>1, <1>5, <1>6 DEF OnlyWaitersInList
<1>7. ASSUME ~late, NEW e \in Cores, Runs(p[e])
      PROVE  global <= IF p[e] = "waking" THEN Later(elapsed[e], a[e]) ELSE elapsed[e]
  <2>1. CASE e \in W
    <3>1. global <= elapsed[c] /\ global \in Nat
      BY <1>0, <1>1, <1>7 DEF GlobalTimeIsPast, GoesOnAt, Runs, TypeOK
    <3>2. elapsed[e] \in Nat BY <1>0 DEF TypeOK
    <3>3. Later(elapsed[e], elapsed[c]) \in Nat /\ Later(elapsed[e], elapsed[c]) >= elapsed[c]
      BY <1>3, <3>2, LaterType
    <3>4. p[e] = "waking" /\ a[e] = elapsed[c] BY <1>5, <2>1
    <3>5. global <= Later(elapsed[e], elapsed[c]) BY <1>3, <3>1, <3>3
    <3> HIDE DEF p, a
    <3> QED BY <3>4, <3>5
  <2>2. CASE e \notin W
    BY <1>0, <1>5, <1>7, <2>2 DEF GlobalTimeIsPast, GoesOnAt, Runs
  <2> QED BY <2>1, <2>2
<1>8. ServerOK'
  <2> HIDE DEF p, a
  <2>1. Signal(p, a) BY <1>2 DEF p, a
  <2> QED BY <1>0, <1>1, <1>4, <1>6, <1>7, <2>1, SignalStep
<1> QED BY <1>0, <1>1, <1>8, ServerStep DEF TypeOK, ClocksNotedAreReached

LEMMA NextInv == Inv /\ [Next]_vars => Inv'
<1>1. ASSUME Inv, Next PROVE Inv'
  <2>1. PICK c \in Cores : Step(c) /\ Queued BY <1>1 DEF Next
  <2>0. ahead' \in [Cores -> SUBSET Cores] BY <1>1, <2>1, QueuedType DEF Inv
  <2>2. CASE \/ Run(c) \/ SynchronizeEarly(c) \/ Leave(c) \/ Awake(c)
             \/ SyscallRead(c) \/ SyscallExit(c) \/ Start(c)
             \/ \E d \in Cores : Resume(c, d) \/ Create(c, d)
    BY <1>1, <2>0, <2>2, QuietSteps
  <2>3. CASE Synchronize(c) BY <1>1, <2>0, <2>3, SynchronizeInv
  <2>4. CASE Stall(c, Never) BY <1>1, <2>0, <2>4, StallInv
  <2>5. CASE \E d \in Timeouts : Stall(c, elapsed[c] + d)
    <3>1. PICK d \in Timeouts : Stall(c, elapsed[c] + d) BY <2>5
    <3>2. elapsed[c] \in Nat /\ d \in Nat BY <1>1, BarrierConstants DEF Inv, TypeOK
    <3>3. elapsed[c] + d \in Nat BY <3>2
    <3> QED BY <1>1, <2>0, <3>1, <3>3, StallInv
  <2>6. CASE SyscallEnter(c) BY <1>1, <2>0, <2>6, SyscallEnterInv
  <2>7. CASE Exit(c) BY <1>1, <2>0, <2>7, ExitInv
  <2> QED BY <2>1, <2>2, <2>3, <2>4, <2>5, <2>6, <2>7 DEF Step
<1>2. ASSUME Inv, UNCHANGED vars PROVE Inv'
  BY <1>2 DEF Inv, vars, serverVars, TypeOK, OnlyWaitersInList, ClocksNotedAreReached,
              GlobalTimeIsPast, GoesOnAt
<1> QED BY <1>1, <1>2

\* The inductive invariant holds throughout.
THEOREM BarrierInvariance == Spec => []Inv
BY InitInv, NextInv, PTL DEF Spec

\* The variables of the barrier keep their types, assertion failures included.
THEOREM BarrierTypeCorrect == Spec => []TypeOK
BY BarrierInvariance, PTL DEF Inv

(* No running thread is behind the global time, for any number of cores    *)
(* and host cores, quantum, batches and timeouts, unless a thread started  *)
(* or left a system call with a time read before the lock was taken.       *)
THEOREM BarrierGlobalTimeIsPast == Spec => []GlobalTimeIsPast
BY BarrierInvariance, PTL DEF Inv

(* A core that enters synchronize() is never in the barrier already, and a *)
(* release signals only cores that wait in it.                             *)
THEOREM BarrierOnlyWaitersInList == Spec => []OnlyWaitersInList
BY BarrierInvariance, PTL DEF Inv

----------------------------------------------------------------------------
(* The assertion at the head of barrierRelease.  A release signals as many *)
(* waiting cores as the host runs at a time and leaves the rest to later   *)
(* calls, one per call; the caller itself never waits.                     *)

\* The host runs all cores but two at a time, or more.
EnoughHostCores == hostCores = -1 \/ hostCores >= Cardinality(Cores) - 2

\* What makes the assertion inductive: at most one released core is unsignalled.
OneLeft == EnoughHostCores => toRelease <= 1

\* With at most one left, the signal of the next call leaves none.
LEMMA NoneLeft ==
    ASSUME toRelease \in Nat, toRelease <= 1
    PROVE  OneReleased = 0 /\ OneReleased <= 1
BY DEF OneReleased

\* A release leaves at most one core unsignalled when the caller is not waiting.
LEMMA ReleaseLeavesOne ==
    ASSUME hostCores \in HostCounts, EnoughHostCores,
           NEW c \in Cores, NEW S \in SUBSET (Cores \ {c})
    PROVE  LeftUnsignalled(S) \in Nat /\ LeftUnsignalled(S) <= 1
<1>1. IsFiniteSet(Cores) BY BarrierConstants
<1>2. IsFiniteSet(Cores \ {c}) /\ Cardinality(Cores \ {c}) = Cardinality(Cores) - 1
  BY <1>1, FS_RemoveElement
<1>3. IsFiniteSet(S) /\ Cardinality(S) <= Cardinality(Cores \ {c}) BY <1>2, FS_Subset
<1>4. Cardinality(S) \in Nat /\ Cardinality(Cores) \in Nat
  BY <1>1, <1>3, FS_CardinalityType
<1>5. hostCores \in (Nat \ {0}) \cup {-1} BY BarrierConstants
<1> QED BY <1>2, <1>3, <1>4, <1>5 DEF LeftUnsignalled, EnoughHostCores

(* One step: with at most one core left unsignalled, a release by a core   *)
(* that does not wait passes the assertion and leaves at most one again.   *)
LEMMA ReleaseRestarts ==
    ASSUME TypeOK, EnoughHostCores, toRelease <= 1, "not restarted" \notin failed,
           NEW p, NEW a, NEW c \in Cores, NEW S \in SUBSET (Cores \ {c}),
           BarrierRelease(p, a, S)
    PROVE  toRelease' <= 1 /\ "not restarted" \notin failed'
<1>1. OneReleased = 0 BY NoneLeft DEF TypeOK
<1>2. failed' = failed BY <1>1 DEF BarrierRelease, CheckRestarted
<1>3. toRelease' <= 1 BY ReleaseLeavesOne DEF BarrierRelease, TypeOK
<1> QED BY <1>2, <1>3

\* The same for a thread that stops running, which is not in the barrier.
LEMMA SignalRestarts ==
    ASSUME TypeOK, EnoughHostCores, toRelease <= 1, "not restarted" \notin failed,
           NEW p, NEW a, NEW c \in Cores, ~acquire[c],
           Signal(p, a)
    PROVE  toRelease' <= 1 /\ "not restarted" \notin failed'
<1>1. CASE Reached(p, localClock)
  <2> DEFINE S == {d \in Cores : acquire[d]}
  <2>1. S \in SUBSET (Cores \ {c}) OBVIOUS
  <2>2. BarrierRelease(p, a, S) BY <1>1 DEF Signal
  <2> HIDE DEF S
  <2> QED BY <2>1, <2>2, ReleaseRestarts
<1>2. CASE ~Reached(p, localClock)
  <2>1. toRelease' = OneReleased /\ failed' = failed BY <1>2 DEF Signal
  <2>2. OneReleased <= 1 BY NoneLeft DEF TypeOK
  <2> QED BY <2>1, <2>2
<1> QED BY <1>1, <1>2

LEMMA NextRestarts ==
    Inv /\ OneLeft /\ RestartedBeforeNextBarrier /\ [Next]_vars
      => OneLeft' /\ RestartedBeforeNextBarrier'
<1>1. SUFFICES ASSUME Inv, OneLeft, RestartedBeforeNextBarrier, [Next]_vars
               PROVE  OneLeft' /\ RestartedBeforeNextBarrier'
  OBVIOUS
<1>2. TypeOK /\ OnlyWaitersInList BY <1>1 DEF Inv
<1>3. hostCores' = hostCores
  BY <1>1 DEF Next, Step, vars, Run, SynchronizeEarly, Synchronize, Leave, Awake, Stall,
     SyscallEnter, SyscallRead, SyscallExit, Start, Exit, Resume, Create
<1>4. SUFFICES ASSUME EnoughHostCores
               PROVE  toRelease' <= 1 /\ "not restarted" \notin failed'
  BY <1>3 DEF OneLeft, RestartedBeforeNextBarrier, EnoughHostCores
<1>5. toRelease \in Nat /\ toRelease <= 1 /\ "not restarted" \notin failed
  BY <1>1, <1>2, <1>4 DEF OneLeft, RestartedBeforeNextBarrier, EnoughHostCores, TypeOK
<1>6. OneReleased = 0 /\ OneReleased <= 1 BY <1>5, NoneLeft
<1>7. CASE UNCHANGED vars BY <1>5, <1>7 DEF vars, serverVars
<1>8. CASE Next
  <2>1. PICK c \in Cores : Step(c) BY <1>8 DEF Next
  <2>2. CASE \/ Run(c) \/ SynchronizeEarly(c) \/ Leave(c) \/ Awake(c)
             \/ SyscallRead(c) \/ SyscallExit(c) \/ Start(c)
             \/ \E d \in Cores : Resume(c, d) \/ Create(c, d)
    BY <1>5, <1>6, <2>2 DEF Run, SynchronizeEarly, Leave, Awake, SyscallRead, SyscallExit,
       Start, Resume, Create, serverVars
  <2>3. CASE Synchronize(c)
    <3>1. CASE Reached(pc, [localClock EXCEPT ![c] = elapsed[c]])
      <4> DEFINE S == {d \in Cores \ {c} : acquire[d]}
      <4>1. S \in SUBSET (Cores \ {c}) OBVIOUS
      <4>2. BarrierRelease(pc, at, S) BY <2>3, <3>1 DEF Synchronize
      <4> HIDE DEF S
      <4> QED BY <1>2, <1>4, <1>5, <4>1, <4>2, ReleaseRestarts
    <3>2. CASE ~Reached(pc, [localClock EXCEPT ![c] = elapsed[c]])
      BY <1>5, <1>6, <2>3, <3>2 DEF Synchronize
    <3> QED BY <3>1, <3>2
  <2>4. ASSUME NEW out, Stall(c, out)
        PROVE  toRelease' <= 1 /\ "not restarted" \notin failed'
    <3> DEFINE p == [pc EXCEPT ![c] = "stalled"]
               a == [at EXCEPT ![c] = out]
    <3>1. Signal(p, a) \/ Advance(p, a) \/ NoTimeoutLeft(p, a) BY <2>4 DEF Stall
    <3>2. ~acquire[c] BY <1>2, <2>4 DEF Stall, Executes, OnlyWaitersInList
    <3> HIDE DEF p, a
    <3>3. CASE Signal(p, a) BY <1>2, <1>4, <1>5, <3>2, <3>3, SignalRestarts
    <3>4. CASE Advance(p, a) BY <1>5, <1>6, <3>4 DEF Advance, CheckRestarted
    <3>5. CASE NoTimeoutLeft(p, a) BY <1>5, <1>6, <3>5 DEF NoTimeoutLeft
    <3> QED BY <3>1, <3>3, <3>4, <3>5
  <2>5. CASE SyscallEnter(c)
    <3>1. ~acquire[c] BY <1>2, <2>5 DEF SyscallEnter, Executes, OnlyWaitersInList
    <3>2. PICK p : Signal(p, at) BY <2>5 DEF SyscallEnter
    <3> QED BY <1>2, <1>4, <1>5, <3>1, <3>2, SignalRestarts
  <2>6. CASE Exit(c)
    <3>1. ~acquire[c] BY <1>2, <2>6 DEF Exit, Executes, OnlyWaitersInList
    <3>2. PICK p, a : Signal(p, a) BY <2>6 DEF Exit
    <3> QED BY <1>2, <1>4, <1>5, <3>1, <3>2, SignalRestarts
  <2> QED BY <2>1, <2>2, <2>3, <2>4, <2>5, <2>6 DEF Step
<1> QED BY <1>1, <1>7, <1>8

(* With a host that runs all cores but two at a time, no release of the    *)
(* barrier finds a core of the previous one not yet signalled: barrier-    *)
(* Release's assertion cannot fail, for any number of cores.               *)
THEOREM BarrierRestartedBeforeNext == Spec => []RestartedBeforeNextBarrier
<1>1. Init => OneLeft /\ RestartedBeforeNextBarrier
  BY DEF Init, OneLeft, RestartedBeforeNextBarrier
<1> QED BY <1>1, NextRestarts, BarrierInvariance, PTL DEF Spec
=============================================================================
