--------------------------- MODULE UserSpaceProofs --------------------------
(* For any window, width, page table and traces: a fault leaves uops of the *)
(* application in the reorder buffer only if a fetch caused it, the         *)
(* assertions of the trace thread hold, no two nodes of the page table      *)
(* share a frame, and the application's uops stay in program order.         *)
EXTENDS UserSpace, SequenceTheorems, FiniteSetTheorems, TLAPS

Uops == [inst : Nat, page : Pages \cup {NoPage}, store : BOOLEAN, last : BOOLEAN,
         done : BOOLEAN]

\* The buffer and the checkpoint are sequences of uops.
RobOK == rob \in Seq(Uops) /\ m_checkpointed_ops \in Seq(Uops) /\ m_num_in_rob \in 0..Len(rob)

\* The instruction the thread has in hand.
ThreadOK ==
    /\ trace \in Traces
    /\ reader \in {"kernel", "app"}
    /\ pc = "drain" => reader = "kernel"
    /\ next_inst_app \in Nat \ {0}
    /\ reader = "kernel" => inst = Kernel /\ next_inst = Kernel
    /\ reader = "app" => to_be_replayed = <<>>
    /\ reader = "app" /\ pc \in {"handle", "simulate", "after"} =>
          inst = inst_app /\ inst_app \in DOMAIN trace
    /\ to_be_replayed # <<>> =>
          to_be_replayed = <<inst_app, next_inst_app>> /\ inst_app \in DOMAIN trace

\* A fault is noted only while an instruction of the application is simulated;
\* one of an operand has emptied the buffer.
FaultOK ==
    /\ fault.is => reader = "app" /\ pc \in {"simulate", "after"}
    /\ fault.is /\ rob # <<>> => fault.va = trace[inst_app].fetch

Inv == RobOK /\ ThreadOK /\ FaultOK /\ FlushedUnlessFetch /\ ThreadAssertions

\* A uop made from well-typed parts is one.
LEMMA UopType ==
    ASSUME NEW i \in Nat, NEW p \in Pages \cup {NoPage}, NEW s \in BOOLEAN, NEW l \in BOOLEAN
    PROVE  Uop(i, p, s, l) \in Uops
BY DEF Uop, Uops

\* The uops of an instruction of the trace, or of the kernel, form a sequence.
LEMMA UopsOfType ==
    ASSUME trace \in Traces, NEW i \in {Kernel} \cup DOMAIN trace
    PROVE  UopsOf(i) \in Seq(Uops)
<1>1. CASE i = Kernel
  <2> DEFINE u == Uop(Kernel, NoPage, FALSE, TRUE)
  <2>1. u \in Uops BY UopType DEF Kernel
  <2>2. UopsOf(i) = <<u>> BY <1>1 DEF UopsOf
  <2> HIDE DEF u
  <2>3. <<u>> \in Seq(Uops) BY <2>1
  <2> QED BY <2>2, <2>3
<1>2. CASE i # Kernel
  <2>1. trace \in Seq(Instructions) BY UserSpaceAssumption
  <2>2. i \in 1..Len(trace) BY <1>2, <2>1
  <2>3. trace[i] \in Instructions BY <2>1, <2>2
  <2> DEFINE ops == trace[i].ops
             uop(j) == Uop(i, ops[j].page, ops[j].store, j = Len(ops))
  <2>4. ops \in Seq(Ops) BY <2>3 DEF Instructions
  <2>5. UopsOf(i) = [j \in 1..Len(ops) |-> uop(j)]
    BY <1>2, <2>4 DEF UopsOf
  <2> HIDE DEF ops
  <2>6. ASSUME NEW j \in 1..Len(ops) PROVE uop(j) \in Uops
    <3>1. ops[j] \in Ops BY <2>4
    <3>2. ops[j].page \in Pages \cup {NoPage} /\ ops[j].store \in BOOLEAN BY <3>1 DEF Ops
    <3>3. (j = Len(ops)) \in BOOLEAN OBVIOUS
    <3>4. i \in Nat BY <2>2
    <3> HIDE DEF uop
    <3> QED BY <3>2, <3>3, <3>4, UopType, Zenon DEF uop
  <2> HIDE DEF uop
  <2>7. Len(ops) \in Nat BY <2>4
  <2>8. [j \in 1..Len(ops) |-> uop(j)] \in Seq(Uops)
    BY <2>6, <2>7, IsASeq
  <2> QED BY <2>5, <2>8
<1> QED BY <1>1, <1>2

\* The invariant holds before the first instruction is read.
LEMMA InitInv == Init => Inv
<1> SUFFICES ASSUME Init PROVE Inv OBVIOUS
<1>1. rob = <<>> /\ m_checkpointed_ops = <<>> /\ m_num_in_rob = 0 BY DEF Init, RobInit
<1>2. RobOK BY <1>1 DEF RobOK
<1>3. ThreadOK BY DEF Init, ThreadOK, Kernel
<1>4. FaultOK BY DEF Init, FaultOK, NoFault
<1>5. FlushedUnlessFetch BY <1>1 DEF FlushedUnlessFetch
<1>6. ThreadAssertions BY DEF Init, ThreadAssertions
<1> QED BY <1>2, <1>3, <1>4, <1>5, <1>6 DEF Inv

-----------------------------------------------------------------------------
(* What the steps of the reorder buffer leave of the invariant. *)

\* The buffer holds a uop of the application.
HasApp == \E i \in DOMAIN rob : App(rob[i])

\* A step that adds no application uop in kernel mode, and leaves the message and
\* the instruction in hand alone, keeps FlushedUnlessFetch.
LEMMA FlushedKept ==
    ASSUME FlushedUnlessFetch, UNCHANGED <<reader, message, trace, inst_app>>,
           reader = "kernel" => (HasApp' => HasApp)
    PROVE  FlushedUnlessFetch'
BY DEF FlushedUnlessFetch, HasApp

\* RobTimer::simulate keeps the buffer well formed; in kernel mode it adds no uop of
\* the application.
LEMMA SimulateRob ==
    ASSUME RobOK, NEW uops \in Seq(Uops), NEW app \in BOOLEAN, Simulate(uops, app)
    PROVE  /\ RobOK'
           /\ ~app /\ (\A i \in DOMAIN uops : ~App(uops[i])) => (HasApp' => HasApp)
<1> DEFINE old == IF app THEN m_checkpointed_ops ELSE <<>>
<1>1. rob \in Seq(Uops) /\ m_checkpointed_ops \in Seq(Uops) /\ m_num_in_rob \in 0..Len(rob)
  BY DEF RobOK
<1>2. old \in Seq(Uops) BY <1>1
<1>3. rob' = rob \o old \o uops BY DEF Simulate
<1>4. m_checkpointed_ops' \in Seq(Uops) /\ m_num_in_rob' = m_num_in_rob BY <1>1 DEF Simulate
<1>5. ~app => old = <<>> OBVIOUS
<1> HIDE DEF old
<1>6. /\ rob \o old \in Seq(Uops)
      /\ Len(rob \o old) = Len(rob) + Len(old)
  BY <1>1, <1>2, ConcatProperties
<1>7. /\ rob' \in Seq(Uops)
      /\ Len(rob') = Len(rob \o old) + Len(uops)
      /\ \A i \in 1..(Len(rob \o old) + Len(uops)) : rob'[i] =
            IF i <= Len(rob \o old) THEN (rob \o old)[i] ELSE uops[i - Len(rob \o old)]
  BY <1>3, <1>6, ConcatProperties
<1>8. RobOK'
  <2>1. Len(rob) \in Nat /\ Len(old) \in Nat /\ Len(uops) \in Nat BY <1>1, <1>2
  <2>2. Len(rob) <= Len(rob') BY <2>1, <1>6, <1>7
  <2> QED BY <1>1, <1>4, <1>7, <2>1, <2>2 DEF RobOK
<1>9. ASSUME ~app, \A i \in DOMAIN uops : ~App(uops[i]), HasApp' PROVE HasApp
  <2>1. rob \o old = rob BY <1>1, <1>5, <1>9, ConcatEmptySeq
  <2>2. PICK i \in DOMAIN rob' : App(rob'[i]) BY <1>9 DEF HasApp, App
  <2>3. Len(rob) \in Nat /\ Len(uops) \in Nat /\ DOMAIN rob = 1..Len(rob)
        /\ DOMAIN uops = 1..Len(uops)
    BY <1>1
  <2>4. i \in 1..(Len(rob) + Len(uops)) BY <1>7, <2>1
  <2>5. CASE i <= Len(rob)
    BY <1>7, <2>1, <2>2, <2>3, <2>4, <2>5 DEF HasApp
  <2>6. CASE i > Len(rob)
    <3>1. i - Len(rob) \in DOMAIN uops BY <2>3, <2>4, <2>6
    <3>2. rob'[i] = uops[i - Len(rob)] BY <1>7, <2>1, <2>3, <2>4, <2>6
    <3> QED BY <1>9, <2>2, <3>1, <3>2
  <2> QED BY <2>3, <2>4, <2>5, <2>6
<1> QED BY <1>8, <1>9

\* Issuing a uop changes neither the length of the buffer nor whose uops it holds.
LEMMA IssueRob ==
    ASSUME RobOK, NEW i \in 1..m_num_in_rob, Issue(i)
    PROVE  RobOK' /\ (HasApp' => HasApp) /\ (rob' # <<>> => rob # <<>>)
<1>1. rob \in Seq(Uops) /\ m_checkpointed_ops \in Seq(Uops) /\ m_num_in_rob \in 0..Len(rob)
  BY DEF RobOK
<1>2. i \in 1..Len(rob) /\ rob[i] \in Uops BY <1>1
<1> DEFINE u == [rob[i] EXCEPT !.done = TRUE]
<1>3. u \in Uops /\ u.inst = rob[i].inst BY <1>2 DEF Uops
<1>4. rob' = [rob EXCEPT ![i] = u] BY DEF Issue
<1> HIDE DEF u
<1>5. rob' \in Seq(Uops) /\ Len(rob') = Len(rob) BY <1>1, <1>2, <1>3, <1>4, ExceptSeq
<1>6. RobOK' BY <1>1, <1>5 DEF RobOK, Issue
<1>7. HasApp' => HasApp BY <1>1, <1>2, <1>3, <1>4, <1>5 DEF HasApp, App
<1>8. rob # <<>> BY <1>1, <1>2
<1> QED BY <1>6, <1>7, <1>8

\* Committing takes the oldest uop off and adds none.
LEMMA CommitRob ==
    ASSUME RobOK, CanCommit, Commit
    PROVE  RobOK' /\ (HasApp' => HasApp) /\ rob # <<>>
<1>1. rob \in Seq(Uops) /\ m_checkpointed_ops \in Seq(Uops) /\ m_num_in_rob \in 0..Len(rob)
  BY DEF RobOK
<1>2. Len(rob) > 0 /\ m_num_in_rob > 0 BY <1>1 DEF CanCommit
<1>3. rob # <<>> BY <1>1, <1>2
<1>4. /\ rob' \in Seq(Uops)
      /\ Len(rob') = Len(rob) - 1
      /\ \A i \in 1..Len(rob') : rob'[i] = rob[i + 1]
  BY <1>1, <1>3, HeadTailProperties DEF Commit
<1>5. RobOK' BY <1>1, <1>2, <1>4 DEF RobOK, Commit
<1>6. HasApp' => HasApp
  <2> SUFFICES ASSUME HasApp' PROVE HasApp OBVIOUS
  <2>1. PICK i \in DOMAIN rob' : App(rob'[i]) BY DEF HasApp, App
  <2>2. i \in 1..Len(rob') /\ i + 1 \in DOMAIN rob BY <1>1, <1>4
  <2> QED BY <1>4, <2>1, <2>2 DEF HasApp
<1> QED BY <1>3, <1>5, <1>6

-----------------------------------------------------------------------------
(* Every step keeps the invariant. *)

USE DEF Inv

\* Steps that only move the thread on.
LEMMA ReadStep ==
    ASSUME Inv, Start \/ ReadKernel(KernelRuns) \/ ReadKernel(KernelAdvances) \/ ContextSwitch
                \/ ReadNextApp \/ EndSimulate \/ GoOn
    PROVE  Inv'
<1>1. UNCHANGED <<rob, m_num_in_rob, m_checkpointed_ops, trace, reader, fault, failed,
                  to_be_replayed>>
  BY DEF Start, ReadKernel, ContextSwitch, ReadNextApp, EndSimulate, GoOn, robVars, mmuVars,
         untouched
<1>2. UNCHANGED message
  BY DEF Start, ReadKernel, ContextSwitch, ReadNextApp, EndSimulate, GoOn, untouched, osVars,
         KernelRuns, KernelAdvances, Receive, Result
<1>3. trace \in Seq(Instructions) BY UserSpaceAssumption DEF ThreadOK
<1>4. RobOK' BY <1>1 DEF RobOK
<1>5. ThreadOK'
  <2>1. CASE Start BY <1>1, <2>1 DEF Start, ThreadOK
  <2>2. CASE ReadKernel(KernelRuns) \/ ReadKernel(KernelAdvances)
    BY <1>1, <2>2 DEF ReadKernel, ThreadOK
  <2>3. CASE ContextSwitch BY <1>1, <2>3 DEF ContextSwitch, ThreadOK
  <2>4. CASE ReadNextApp
    <3>1. CASE next_inst_app + 1 > Len(trace)
      BY <1>1, <2>4, <3>1 DEF ReadNextApp, ReadApp, ThreadOK
    <3>2. CASE ~(next_inst_app + 1 > Len(trace))
      <4>1. next_inst_app \in DOMAIN trace /\ next_inst_app + 1 \in Nat \ {0}
        BY <1>3, <3>2 DEF ThreadOK
      <4> QED BY <1>1, <2>4, <3>2, <4>1 DEF ReadNextApp, ReadApp, ThreadOK
    <3> QED BY <3>1, <3>2
  <2>5. CASE EndSimulate BY <1>1, <2>5 DEF EndSimulate, untouched, ThreadOK
  <2>6. CASE GoOn BY <1>1, <2>6 DEF GoOn, ThreadOK
  <2> QED BY <2>1, <2>2, <2>3, <2>4, <2>5, <2>6
<1>6. FaultOK'
  BY <1>1 DEF FaultOK, Start, ReadKernel, ContextSwitch, ReadNextApp, EndSimulate, GoOn,
              untouched
<1>7. reader = "kernel" => UNCHANGED inst_app
  BY DEF Start, ReadKernel, ContextSwitch, ReadNextApp, EndSimulate, GoOn, untouched
<1>8. FlushedUnlessFetch' BY <1>1, <1>2, <1>7 DEF FlushedUnlessFetch, App
<1>9. ThreadAssertions' BY <1>1 DEF ThreadAssertions
<1> QED BY <1>4, <1>5, <1>6, <1>8, <1>9

\* The context switch back: the buffer is empty and no fault is noted.
LEMMA SwitchStep ==
    ASSUME Inv, SwitchToApp
    PROVE  Inv'
<1>1. UNCHANGED <<rob, m_num_in_rob, m_checkpointed_ops, trace, fault>>
  BY DEF SwitchToApp, robVars, mmuVars
<1>2. RobOK' BY <1>1 DEF RobOK
<1>3. reader = "kernel" BY DEF SwitchToApp, ThreadOK
<1>4. ~fault'.is /\ reader' = "app" BY <1>1, <1>3 DEF FaultOK, SwitchToApp
<1>5. FaultOK' BY <1>4 DEF FaultOK
<1>6. FlushedUnlessFetch' BY <1>4 DEF FlushedUnlessFetch
<1>7. CASE to_be_replayed # <<>>
  <2>1. to_be_replayed = <<inst_app, next_inst_app>> /\ inst_app \in DOMAIN trace
    BY <1>7 DEF ThreadOK
  <2>2. ThreadOK' BY <1>1, <1>7, <2>1 DEF SwitchToApp, ThreadOK
  <2>3. ThreadAssertions' BY <1>7, <2>1 DEF SwitchToApp, ThreadAssertions
  <2> QED BY <1>2, <1>5, <1>6, <2>2, <2>3
<1>8. CASE to_be_replayed = <<>>
  <2>1. trace \in Seq(Instructions) BY UserSpaceAssumption DEF ThreadOK
  <2>2. ThreadOK'
    <3>1. CASE next_inst_app + 1 > Len(trace)
      BY <1>1, <1>8, <3>1 DEF SwitchToApp, ReadApp, ThreadOK
    <3>2. CASE ~(next_inst_app + 1 > Len(trace))
      <4>1. next_inst_app \in DOMAIN trace /\ next_inst_app + 1 \in Nat \ {0}
        BY <2>1, <3>2 DEF ThreadOK
      <4> QED BY <1>1, <1>8, <3>2, <4>1 DEF SwitchToApp, ReadApp, ThreadOK
    <3> QED BY <3>1, <3>2
  <2>3. ThreadAssertions' BY <1>8 DEF SwitchToApp, ThreadAssertions
  <2> QED BY <1>2, <1>5, <1>6, <2>2, <2>3
<1> QED BY <1>7, <1>8

\* A fetch that faults is noted with the page of the instruction in hand, and
\* the kernel's instructions add none of the application's uops.
LEMMA HandleStep ==
    ASSUME Inv, Handle
    PROVE  Inv'
<1>1. UNCHANGED <<trace, reader, inst, next_inst, inst_app, next_inst_app, to_be_replayed,
                  message, failed>>
  BY DEF Handle, osVars
<1>2. pc = "handle" /\ pc' = "simulate" BY DEF Handle
<1>3. inst \in {Kernel} \cup DOMAIN trace BY <1>2 DEF ThreadOK
<1>4. UopsOf(inst) \in Seq(Uops) BY <1>3, UopsOfType DEF ThreadOK
<1> DEFINE app == reader = "app"
<1>5. app \in BOOLEAN OBVIOUS
<1>6. Simulate(UopsOf(inst), app) BY DEF Handle
<1> HIDE DEF app
<1>7. RobOK' /\ (~app /\ (\A i \in DOMAIN UopsOf(inst) : ~App(UopsOf(inst)[i]))
                   => (HasApp' => HasApp))
  <2> DEFINE uops == UopsOf(inst)
  <2>1. uops \in Seq(Uops) /\ Simulate(uops, app) BY <1>4, <1>6
  <2> HIDE DEF uops
  <2>2. RobOK' /\ (~app /\ (\A i \in DOMAIN uops : ~App(uops[i])) => (HasApp' => HasApp))
    BY <1>5, <2>1, SimulateRob
  <2> QED BY <2>2 DEF uops
<1>8. ThreadOK' BY <1>1, <1>2 DEF ThreadOK
<1>9. FaultOK'
  <2>1. ~fault.is BY <1>2 DEF FaultOK
  <2>2. CASE UNCHANGED mmuVars BY <2>1, <2>2 DEF mmuVars, FaultOK
  <2>3. CASE lastBlock' # NoPage /\ Translate(lastBlock')
    <3>1. lastBlock' = trace[inst].fetch /\ inst # Kernel BY <2>3 DEF Handle
    <3>2. reader = "app" /\ inst = inst_app BY <1>2, <3>1 DEF ThreadOK
    <3>3. fault'.is => fault'.va = trace[inst_app].fetch
      BY <2>1, <2>3, <3>1, <3>2 DEF Translate, Walk, mmuVars, NoFault
    <3> QED BY <1>1, <1>2, <3>2, <3>3 DEF FaultOK
  <2> QED BY <2>2, <2>3 DEF Handle
<1>10. FlushedUnlessFetch'
  <2>1. CASE reader = "kernel"
    <3>1. inst = Kernel BY <2>1 DEF ThreadOK
    <3>2. \A i \in DOMAIN UopsOf(inst) : ~App(UopsOf(inst)[i])
      BY <3>1 DEF UopsOf, Uop, App
    <3>3. ~app BY <2>1 DEF app
    <3> QED BY <1>1, <1>7, <3>2, <3>3, FlushedKept
  <2>2. CASE reader # "kernel" BY <1>1, <2>2 DEF FlushedUnlessFetch
  <2> QED BY <2>1, <2>2
<1>11. ThreadAssertions' BY <1>1 DEF ThreadAssertions
<1> QED BY <1>7, <1>8, <1>9, <1>10, <1>11

\* Dispatch moves uops from the pre-ROB buffer into the window and no further.
LEMMA DispatchStep ==
    ASSUME Inv, DispatchCycle
    PROVE  Inv'
<1>1. UNCHANGED <<trace, reader, inst, next_inst, inst_app, next_inst_app, to_be_replayed,
                  message, failed, pc, fault, rob, m_checkpointed_ops>>
  BY DEF DispatchCycle, Dispatch, untouched, osVars, mmuVars
<1>2. m_num_in_rob' \in 0..Len(rob)
  <2> DEFINE most == Min({DispatchWidth, WindowSize - m_num_in_rob, Len(rob) - m_num_in_rob})
  <2>1. PICK k \in 1..most : m_num_in_rob' = m_num_in_rob + k
    BY DEF DispatchCycle, Dispatch
  <2>2. most <= Len(rob) - m_num_in_rob /\ most \in Int
    <3> DEFINE a == DispatchWidth
               b == WindowSize - m_num_in_rob
               c == Len(rob) - m_num_in_rob
    <3>1. a \in Int /\ b \in Int /\ c \in Int BY RobAssumption DEF RobOK
    <3> HIDE DEF a, b, c
    <3>2. \E x \in {a, b, c} : \A y \in {a, b, c} : x <= y BY <3>1
    <3>3. Min({a, b, c}) \in {a, b, c} /\ \A y \in {a, b, c} : Min({a, b, c}) <= y
      BY <3>2 DEF Min
    <3> QED BY <3>1, <3>3 DEF a, b, c
  <2> HIDE DEF most
  <2> QED BY <2>1, <2>2 DEF RobOK
<1>3. RobOK' BY <1>1, <1>2 DEF RobOK
<1>4. ThreadOK' BY <1>1 DEF ThreadOK
<1>5. FaultOK' BY <1>1 DEF FaultOK
<1>6. FlushedUnlessFetch' BY <1>1 DEF FlushedUnlessFetch, App
<1>7. ThreadAssertions' BY <1>1 DEF ThreadAssertions
<1> QED BY <1>3, <1>4, <1>5, <1>6, <1>7

\* An operand that faults empties the buffer; a walk that succeeds leaves no
\* fault noted.
LEMMA IssueStep ==
    ASSUME Inv, NEW i \in 1..m_num_in_rob, IssueUop(i)
    PROVE  Inv'
<1>1. UNCHANGED <<trace, reader, inst, next_inst, inst_app, next_inst_app, to_be_replayed,
                  message, failed>>
  BY DEF IssueUop, untouched, osVars
<1>2. pc \in {"simulate", "drain"} BY DEF IssueUop, Simulating
<1>3. ThreadAssertions' BY <1>1 DEF ThreadAssertions
<1>4. CASE Issue(i) /\ UNCHANGED pc /\ (UNCHANGED fault \/ fault' = NoFault)
  <2>1. RobOK' /\ (HasApp' => HasApp) /\ (rob' # <<>> => rob # <<>>) BY <1>4, IssueRob
  <2>2. ThreadOK' BY <1>1, <1>4 DEF ThreadOK
  <2>3. FaultOK' BY <1>1, <1>4, <2>1 DEF FaultOK, NoFault
  <2>4. FlushedUnlessFetch' BY <1>1, <2>1, FlushedKept
  <2> QED BY <1>3, <2>1, <2>2, <2>3, <2>4
<1>5. CASE IssueFaults /\ pc' = "after" /\ reader # "kernel"
  <2>1. rob' = <<>> /\ m_num_in_rob' = 0 BY <1>5 DEF IssueFaults, FlushRobInstant
  <2>2. m_checkpointed_ops' \in Seq(Uops)
    <3>1. rob \in Seq(Uops) BY DEF RobOK
    <3> DEFINE kept(j) == [rob[j] EXCEPT !.done = FALSE]
    <3>2. \A j \in 1..Len(rob) : kept(j) \in Uops
      <4> SUFFICES ASSUME NEW j \in 1..Len(rob) PROVE kept(j) \in Uops OBVIOUS
      <4>1. rob[j] \in Uops BY <3>1
      <4> QED BY <4>1 DEF Uops
    <3>3. m_checkpointed_ops' = [j \in 1..Len(rob) |-> kept(j)]
      BY <1>5, <3>1 DEF IssueFaults, SaveCheckpoint
    <3> HIDE DEF kept
    <3>4. Len(rob) \in Nat BY <3>1
    <3> QED BY <3>2, <3>3, <3>4, IsASeq
  <2>3. RobOK' BY <2>1, <2>2 DEF RobOK
  <2>4. pc = "simulate" /\ reader = "app" BY <1>2, <1>5 DEF ThreadOK
  <2>5. ThreadOK' BY <1>1, <1>5, <2>4 DEF ThreadOK
  <2>6. FaultOK' BY <1>1, <1>5, <2>1, <2>4 DEF FaultOK
  <2>7. FlushedUnlessFetch' BY <2>1 DEF FlushedUnlessFetch
  <2> QED BY <1>3, <2>3, <2>5, <2>6, <2>7
<1>6. CASE rob[i].page = NoPage \/ reader = "kernel"
  BY <1>4, <1>6 DEF IssueUop, mmuVars
<1>7. CASE ~(rob[i].page = NoPage \/ reader = "kernel") /\ rob[i].page \in DOMAIN mapped
  BY <1>4, <1>7 DEF IssueUop, Translate, Walk, mmuVars
<1>8. CASE ~(rob[i].page = NoPage \/ reader = "kernel") /\ rob[i].page \notin DOMAIN mapped
  BY <1>5, <1>8 DEF IssueUop
<1> QED BY <1>6, <1>7, <1>8

\* A commit keeps the invariant.
LEMMA CommitStep ==
    ASSUME Inv, CommitUop
    PROVE  Inv'
<1>1. UNCHANGED <<trace, reader, inst, next_inst, inst_app, next_inst_app, to_be_replayed,
                  message, failed, pc, fault>>
  BY DEF CommitUop, untouched, osVars, mmuVars
<1>2. RobOK' /\ (HasApp' => HasApp) /\ rob # <<>> BY CommitRob DEF CommitUop
<1>3. ThreadOK' BY <1>1 DEF ThreadOK
<1>4. FaultOK' BY <1>1, <1>2 DEF FaultOK
<1>5. FlushedUnlessFetch' BY <1>1, <1>2, FlushedKept
<1>6. ThreadAssertions' BY <1>1 DEF ThreadAssertions
<1> QED BY <1>2, <1>3, <1>4, <1>5, <1>6

\* The fault branch of the thread: what the buffer still holds was there when
\* a fetch faulted.
LEMMA ToKernelStep ==
    ASSUME Inv, ToKernel
    PROVE  Inv'
<1>1. UNCHANGED <<rob, m_num_in_rob, m_checkpointed_ops, trace, inst_app, next_inst_app>>
  BY DEF ToKernel, robVars
<1>2. fault.is /\ reader = "app" /\ pc = "after" BY DEF ToKernel, FaultOK
<1>3. inst_app \in DOMAIN trace BY <1>2 DEF ThreadOK
<1>4. RobOK' BY <1>1 DEF RobOK
<1>5. ThreadOK' BY <1>1, <1>3 DEF ToKernel, ThreadOK
<1>6. ~fault'.is BY DEF ToKernel, ResetPageFaultState, NoFault
<1>7. FaultOK' BY <1>6 DEF FaultOK
<1>8. FlushedUnlessFetch'
  <2>1. rob # <<>> => fault.va = trace[inst_app].fetch BY <1>2 DEF FaultOK
  <2>2. message' = fault BY DEF ToKernel, BuildMessage
  <2>3. (\E i \in DOMAIN rob : App(rob[i])) => rob # <<>> OBVIOUS
  <2> QED BY <1>1, <2>1, <2>2, <2>3 DEF FlushedUnlessFetch, App
<1>9. ThreadAssertions' BY <1>2 DEF ToKernel, ThreadAssertions
<1> QED BY <1>4, <1>5, <1>7, <1>8, <1>9

\* A stuttering step keeps the invariant.
LEMMA StutterStep == Inv /\ UNCHANGED vars => Inv'
BY DEF vars, robVars, threadVars, osVars, mmuVars, RobOK, ThreadOK, FaultOK,
       FlushedUnlessFetch, App, ThreadAssertions

\* The invariant holds in every reachable state.
THEOREM UserSpaceInvariance == Spec => []Inv
<1>1. Init => Inv BY InitInv
<1>2. Inv /\ [Next]_vars => Inv'
  <2> SUFFICES ASSUME Inv, [Next]_vars PROVE Inv' OBVIOUS
  <2> USE DEF Next
  <2> QED
    BY ReadStep, SwitchStep, HandleStep, DispatchStep, IssueStep, CommitStep, ToKernelStep,
       StutterStep
<1> QED BY <1>1, <1>2, PTL DEF Spec

\* However wide the window and whatever the traces, the buffer holds uops of the
\* application while the kernel runs only after the fault of a fetch.
THEOREM BufferFlushedUnlessFetch == Spec => []FlushedUnlessFetch
<1>1. Inv => FlushedUnlessFetch OBVIOUS
<1> QED BY <1>1, UserSpaceInvariance, PTL

\* The assertions of m_run_func_with_userpace_mimicos never fire: a fault is noted
\* only for the application, and the instruction replayed is the one in hand.
THEOREM TraceThreadAssertions == Spec => []ThreadAssertions
<1>1. Inv => ThreadAssertions OBVIOUS
<1> QED BY <1>1, UserSpaceInvariance, PTL

-----------------------------------------------------------------------------
(* The frames of the page table. *)

\* The frames the kernel has handed out so far.
Handed == ({"data"} \X (0..(allocated.data - 1))) \cup ({"table"} \X (0..(allocated.table - 1)))

\* Requests ask for a number of frames, and the nodes of the table have frames that
\* have been handed out, each its own.
FramesOK ==
    /\ allocated \in [data : Nat, table : Nat]
    /\ kernel = [at |-> kernel.at, request |-> kernel.request]
    /\ fault.frames \in Nat /\ message.frames \in Nat /\ kernel.request.frames \in Nat
    /\ \A n \in DOMAIN table : table[n] \in Handed
    /\ OneTablePerFrame

\* initializeWalk asks for finitely many frames.
LEMMA RequestedType == ASSUME NEW p \in Pages PROVE RequestedFrames(p) \in Nat
<1>1. Path[p] \in Seq(Range(Path[p])) BY UserSpaceAssumption
<1>2. Len(Path[p]) \in Nat /\ DOMAIN Path[p] = 1..Len(Path[p]) BY <1>1
<1>3. IsFiniteSet(DOMAIN Path[p])
  <2> DEFINE n == Len(Path[p])
  <2>1. 1 \in Int /\ n \in Int BY <1>2
  <2> HIDE DEF n
  <2>2. IsFiniteSet(1..n) BY <2>1, FS_Interval
  <2> QED BY <1>2, <2>2 DEF n
<1> DEFINE f == Path[p]
<1>4. Range(f) = {f[x] : x \in DOMAIN f} BY DEF Range
<1>5. IsFiniteSet(Range(f))
  <2>1. f \in Surjection(DOMAIN f, Range(f))
    <3>1. f = [x \in DOMAIN f |-> f[x]] BY <1>1
    <3> HIDE DEF f
    <3> QED BY <1>4, <3>1 DEF Surjection
  <2> HIDE DEF f
  <2> QED BY <1>3, <2>1, FS_Surjection DEF f
<1>6. IsFiniteSet(Range(f) \ DOMAIN table) BY <1>5, FS_Difference
<1> QED BY <1>6, FS_CardinalityType DEF RequestedFrames

\* The answer of poll_for_signal: the data page and then pages for tables, from where
\* the pools stand.
LEMMA FramesOf ==
    ASSUME FramesOK, NEW i \in DOMAIN Frames
    PROVE  /\ i \in 1..kernel.request.frames
           /\ Frames[i] = IF i = 1 THEN <<"data", allocated.data>>
                          ELSE <<"table", allocated.table + (i - 2)>>
<1> DEFINE count == kernel.request.frames
           frame(j) == <<"table", allocated.table + j - 1>>
           U == {<<"data", allocated.data>>} \cup {frame(j) : j \in 1..(kernel.request.frames - 1)}
           rest == [j \in 1..(count - 1) |-> frame(j)]
           first == <<"data", allocated.data>>
           all == <<first>> \o rest
<1>1. count \in Nat /\ allocated.data \in Nat /\ allocated.table \in Nat BY DEF FramesOK
<1>2. Frames = SubSeq(all, 1, count) BY DEF Frames
<1>3. CASE count = 0
  <2>1. DOMAIN SubSeq(all, 1, 0) = {} OBVIOUS
  <2> QED BY <1>2, <1>3, <2>1
<1>4. CASE count > 0
  <2>1. \A j \in 1..(count - 1) : frame(j) \in U OBVIOUS
  <2>2. first \in U OBVIOUS
  <2>3. count - 1 \in Nat BY <1>1, <1>4
  <2> HIDE DEF frame, first, U
  <2>4. rest \in Seq(U) BY <2>1, <2>3, IsASeq
  <2>5. Len(rest) = count - 1 BY <2>3
  <2>6. <<first>> \in Seq(U) /\ Len(<<first>>) = 1 BY <2>2
  <2>7. \A j \in 1..(count - 1) : rest[j] = frame(j) OBVIOUS
  <2> HIDE DEF rest, count
  <2>8. /\ all \in Seq(U)
        /\ Len(all) = count
        /\ \A j \in 1..count : all[j] = IF j <= 1 THEN <<first>>[j] ELSE rest[j - 1]
    BY <1>1, <2>4, <2>5, <2>6, ConcatProperties
  <2> HIDE DEF all
  <2>9. Frames = all BY <1>1, <1>2, <2>8
  <2>10. i \in 1..count BY <1>1, <2>8, <2>9
  <2>11. i # 1 => i - 1 \in 1..(count - 1) BY <1>1, <2>10
  <2>12. Frames[i] = IF i = 1 THEN first ELSE frame(i - 1)
    BY <1>1, <2>7, <2>8, <2>9, <2>10, <2>11
  <2>13. i # 1 => frame(i - 1) = <<"table", allocated.table + (i - 2)>>
    BY <1>1, <2>10, <2>11 DEF frame
  <2> QED BY <2>10, <2>12, <2>13 DEF first, count
<1> QED BY <1>1, <1>3, <1>4

\* The pools advance past the frames of the answer.
LEMMA TakenPast ==
    ASSUME FramesOK, allocated' = Taken
    PROVE  /\ allocated' \in [data : Nat, table : Nat]
           /\ Handed \subseteq Handed'
           /\ \A i \in DOMAIN Frames : Frames[i] \in Handed' /\ Frames[i] \notin Handed
<1> DEFINE count == kernel.request.frames
           more == Max({count - 1, 0})
<1>1. count \in Nat /\ allocated.data \in Nat /\ allocated.table \in Nat BY DEF FramesOK
<1>2. more \in Nat /\ more >= count - 1
  <2> DEFINE a == count - 1
  <2>1. a \in Int BY <1>1
  <2> HIDE DEF a
  <2>2. \E x \in {a, 0} : \A y \in {a, 0} : x >= y BY <2>1
  <2>3. Max({a, 0}) \in {a, 0} /\ \A y \in {a, 0} : Max({a, 0}) >= y BY <2>2 DEF Max
  <2>4. Max({a, 0}) \in Nat /\ Max({a, 0}) >= a BY <2>1, <2>3
  <2> QED BY <2>4 DEF a
<1>3. allocated' = [data |-> allocated.data + 1, table |-> allocated.table + more] BY DEF Taken
<1> HIDE DEF more
<1>4. /\ allocated'.data = allocated.data + 1
      /\ allocated'.table = allocated.table + more
      /\ allocated' \in [data : Nat, table : Nat]
  BY <1>1, <1>2, <1>3
<1>5. Handed \subseteq Handed' BY <1>1, <1>2, <1>4 DEF Handed
<1>6. ASSUME NEW i \in DOMAIN Frames PROVE Frames[i] \in Handed' /\ Frames[i] \notin Handed
  <2>1. /\ i \in 1..count
        /\ Frames[i] = IF i = 1 THEN <<"data", allocated.data>>
                       ELSE <<"table", allocated.table + (i - 2)>>
    BY FramesOf
  <2> HIDE DEF count
  <2>2. CASE i = 1 BY <1>1, <1>4, <2>1, <2>2 DEF Handed
  <2>3. CASE i # 1
    <3>1. allocated.table + (i - 2) \in allocated.table..(allocated.table + more - 1)
      BY <1>1, <1>2, <2>1, <2>3
    <3> QED BY <1>1, <1>2, <1>4, <2>1, <2>3, <3>1 DEF Handed
  <2> QED BY <2>2, <2>3
<1> QED BY <1>4, <1>5, <1>6

\* A result keeps every node in its frame and gives the missing ones frames of their
\* own.
LEMMA ResultFrames ==
    ASSUME FramesOK, Result, UNCHANGED <<fault>>
    PROVE  FramesOK'
<1> DEFINE missing == MissingNodes(kernel.request.va)
<1>1. /\ kernel' = [kernel EXCEPT !.at = "replied"]
      /\ allocated' = Taken
      /\ DOMAIN missing \subseteq DOMAIN Frames
      /\ table' = Linked(missing, Frames)
      /\ UNCHANGED message
  BY DEF Result
<1>2. /\ allocated' \in [data : Nat, table : Nat]
      /\ Handed \subseteq Handed'
      /\ \A i \in DOMAIN Frames : Frames[i] \in Handed' /\ Frames[i] \notin Handed
  BY <1>1, TakenPast
<1>3. kernel' = [at |-> kernel'.at, request |-> kernel'.request] /\ kernel'.request = kernel.request
  BY <1>1 DEF FramesOK
<1>4. \A i, j \in DOMAIN Frames : Frames[i] = Frames[j] => i = j
  <2> SUFFICES ASSUME NEW i \in DOMAIN Frames, NEW j \in DOMAIN Frames, Frames[i] = Frames[j]
               PROVE  i = j
    OBVIOUS
  <2>1. /\ i \in 1..kernel.request.frames /\ j \in 1..kernel.request.frames
        /\ Frames[i] = IF i = 1 THEN <<"data", allocated.data>>
                       ELSE <<"table", allocated.table + (i - 2)>>
        /\ Frames[j] = IF j = 1 THEN <<"data", allocated.data>>
                       ELSE <<"table", allocated.table + (j - 2)>>
    BY FramesOf
  <2>2. allocated.table \in Nat /\ kernel.request.frames \in Nat BY DEF FramesOK
  <2> DEFINE f == Frames[i]
             g == Frames[j]
  <2>3. /\ i = 1 => f = <<"data", allocated.data>>
        /\ i # 1 => f = <<"table", allocated.table + (i - 2)>>
        /\ j = 1 => g = <<"data", allocated.data>>
        /\ j # 1 => g = <<"table", allocated.table + (j - 2)>>
    BY <2>1, Zenon
  <2> HIDE DEF f, g
  <2>4. /\ i = 1 => f[1] = "data"
        /\ i # 1 => f[1] = "table" /\ f[2] = allocated.table + (i - 2)
        /\ j = 1 => g[1] = "data"
        /\ j # 1 => g[1] = "table" /\ g[2] = allocated.table + (j - 2)
    <3>1. CASE i = 1 /\ j = 1 BY <2>3, <3>1
    <3>2. CASE i = 1 /\ j # 1 BY <2>3, <3>2
    <3>3. CASE i # 1 /\ j = 1 BY <2>3, <3>3
    <3>4. CASE i # 1 /\ j # 1 BY <2>3, <3>4
    <3> QED BY <3>1, <3>2, <3>3, <3>4
  <2>5. f = g BY DEF f, g
  <2>6. i = 1 <=> j = 1 BY <2>4, <2>5
  <2>7. CASE i # 1 /\ j # 1
    <3>1. allocated.table + (i - 2) = allocated.table + (j - 2) BY <2>4, <2>5, <2>7
    <3> QED BY <2>1, <2>2, <3>1
  <2> QED BY <2>6, <2>7
<1> HIDE DEF missing
<1> DEFINE D == DOMAIN table
           E == D \cup Range(missing)
           at(n) == CHOOSE i \in DOMAIN missing : missing[i] = n
<1>5. table' = [n \in E |-> IF n \in D THEN table[n] ELSE Frames[at(n)]] BY <1>1 DEF Linked
<1>6. ASSUME NEW n \in E \ D PROVE at(n) \in DOMAIN Frames /\ missing[at(n)] = n
  <2>1. \E i \in DOMAIN missing : missing[i] = n BY <1>6 DEF Range
  <2>2. at(n) \in DOMAIN missing /\ missing[at(n)] = n BY <2>1
  <2> QED BY <1>1, <2>2
<1> HIDE DEF at, E
<1>7. DOMAIN table' = E /\ \A n \in E : table'[n] = IF n \in D THEN table[n] ELSE Frames[at(n)]
  BY <1>5
<1>8. \A n \in E : /\ n \in D => table'[n] \in Handed /\ table'[n] = table[n]
                   /\ n \notin D => table'[n] \in Handed' \ Handed
  BY <1>2, <1>6, <1>7 DEF FramesOK
<1>9. \A n \in DOMAIN table' : table'[n] \in Handed' BY <1>2, <1>7, <1>8
<1>10. ASSUME NEW m \in E, NEW n \in E, table'[m] = table'[n] PROVE m = n
  <2>1. CASE m \in D /\ n \in D BY <1>8, <1>10, <2>1 DEF FramesOK, OneTablePerFrame, IsInjective
  <2>2. CASE m \notin D /\ n \notin D
    <3>1. Frames[at(m)] = Frames[at(n)] BY <1>7, <1>10, <2>2
    <3>2. at(m) = at(n) BY <1>4, <1>6, <2>2, <3>1
    <3> QED BY <1>6, <2>2, <3>2
  <2>3. CASE (m \in D) # (n \in D) BY <1>8, <1>10, <2>3
  <2> QED BY <2>1, <2>2, <2>3
<1>11. OneTablePerFrame' BY <1>7, <1>10 DEF OneTablePerFrame, IsInjective
<1> QED BY <1>1, <1>2, <1>3, <1>9, <1>11 DEF FramesOK

\* A walk of a page of the application notes a number of frames.
LEMMA TranslateFrames ==
    ASSUME FramesOK, NEW p \in Pages, Translate(p)
    PROVE  fault'.frames \in Nat
BY RequestedType DEF Translate, Walk, mmuVars, NoFault, FramesOK

\* A step that leaves the allocator and the table alone keeps their frames.
LEMMA FramesKept ==
    ASSUME FramesOK, UNCHANGED <<allocated, table>>, fault'.frames \in Nat, message'.frames \in Nat,
           kernel' = [at |-> kernel'.at, request |-> kernel'.request], kernel'.request.frames \in Nat
    PROVE  FramesOK'
BY DEF FramesOK, Handed, OneTablePerFrame, IsInjective

\* Every step keeps the frames of the table apart.
LEMMA FramesStep == Inv /\ FramesOK /\ [Next]_vars => FramesOK'
<1> SUFFICES ASSUME Inv, FramesOK, [Next]_vars PROVE FramesOK' OBVIOUS
<1>1. /\ kernel = [at |-> kernel.at, request |-> kernel.request]
      /\ fault.frames \in Nat /\ message.frames \in Nat /\ kernel.request.frames \in Nat
  BY DEF FramesOK
<1>2. CASE UNCHANGED <<allocated, table, fault, message, kernel>> BY <1>1, <1>2, FramesKept
<1>3. CASE Start BY <1>2, <1>3 DEF Start, KernelRuns, osVars, mmuVars
<1>4. CASE ReadKernel(KernelRuns) BY <1>2, <1>4 DEF ReadKernel, KernelRuns, osVars, mmuVars
<1>5. CASE ReadKernel(KernelAdvances)
  <2>1. UNCHANGED fault BY <1>5 DEF ReadKernel, mmuVars
  <2>2. CASE Receive
    <3>1. kernel' = [at |-> "received", request |-> message] BY <2>2 DEF Receive, Received
    <3> QED BY <1>1, <2>1, <2>2, <3>1, FramesKept DEF Receive
  <2>3. CASE Result BY <2>1, <2>3, ResultFrames
  <2> QED BY <1>5, <2>2, <2>3 DEF ReadKernel, KernelAdvances
<1>6. CASE ContextSwitch \/ ReadNextApp \/ GoOn
  BY <1>2, <1>6 DEF ContextSwitch, ReadNextApp, GoOn, osVars, mmuVars
<1>7. CASE SwitchToApp
  <2>1. kernel' = [kernel EXCEPT !.at = "switched"] /\ UNCHANGED <<allocated, table, fault, message>>
    BY <1>7 DEF SwitchToApp, mmuVars
  <2>2. kernel' = [at |-> kernel'.at, request |-> kernel'.request] /\ kernel'.request = kernel.request
    BY <1>1, <2>1
  <2> QED BY <1>1, <2>1, <2>2, FramesKept
<1>8. CASE Handle
  <2>1. UNCHANGED <<allocated, table, message, kernel>> BY <1>8 DEF Handle, osVars
  <2>2. CASE UNCHANGED mmuVars BY <1>2, <2>1, <2>2 DEF mmuVars
  <2>3. CASE lastBlock' # NoPage /\ Translate(lastBlock')
    <3>1. lastBlock' = trace[inst].fetch /\ inst # Kernel /\ pc = "handle"
      BY <1>8, <2>3 DEF Handle
    <3>2. inst \in DOMAIN trace BY <3>1 DEF ThreadOK
    <3>3. trace \in Seq(Instructions) BY UserSpaceAssumption DEF ThreadOK
    <3>4. trace[inst] \in Instructions BY <3>2, <3>3
    <3>5. trace[inst].fetch \in Pages BY <3>4 DEF Instructions
    <3>6. lastBlock' \in Pages BY <3>1, <3>5
    <3>7. fault'.frames \in Nat BY <2>3, <3>6, TranslateFrames
    <3> QED BY <1>1, <2>1, <3>7, FramesKept
  <2> QED BY <1>8, <2>2, <2>3 DEF Handle
<1>9. CASE DispatchCycle \/ CommitUop \/ EndSimulate
  BY <1>2, <1>9 DEF DispatchCycle, CommitUop, EndSimulate, untouched, osVars, mmuVars
<1>10. CASE ToKernel
  <2>1. UNCHANGED <<allocated, table>> /\ message' = fault /\ fault' = NoFault
    BY <1>10 DEF ToKernel, BuildMessage, ResetPageFaultState
  <2>2. \/ kernel' = [at |-> "received", request |-> fault]
        \/ kernel' = [kernel EXCEPT !.at = "resumed"]
    BY <1>10 DEF ToKernel, BuildMessage, Received
  <2>3. /\ kernel' = [at |-> kernel'.at, request |-> kernel'.request]
        /\ kernel'.request \in {fault, kernel.request}
    BY <1>1, <2>2
  <2>4. fault'.frames \in Nat /\ message'.frames \in Nat BY <1>1, <2>1 DEF NoFault
  <2> QED BY <1>1, <2>1, <2>3, <2>4, FramesKept
<1>11. ASSUME NEW i \in 1..m_num_in_rob, IssueUop(i) PROVE FramesOK'
  <2>1. UNCHANGED <<allocated, table, message, kernel>> BY <1>11 DEF IssueUop, untouched, osVars
  <2>2. CASE UNCHANGED mmuVars BY <1>2, <2>1, <2>2 DEF mmuVars
  <2>3. CASE rob[i].page # NoPage /\ Translate(rob[i].page)
    <3>1. rob[i] \in Uops BY <1>11 DEF RobOK
    <3>2. rob[i].page \in Pages BY <2>3, <3>1 DEF Uops
    <3>3. fault'.frames \in Nat BY <2>3, <3>2, TranslateFrames
    <3> QED BY <1>1, <2>1, <3>3, FramesKept
  <2> QED BY <1>11, <2>2, <2>3 DEF IssueUop, mmuVars
<1>12. CASE UNCHANGED vars BY <1>2, <1>12 DEF vars, osVars, mmuVars
<1> QED
  BY <1>3, <1>4, <1>5, <1>6, <1>7, <1>8, <1>9, <1>10, <1>11, <1>12 DEF Next

\* Whatever the page table and however many faults, updatePageTableFrames never puts
\* two nodes into one frame: the kernel's answer holds as many fresh frames as it is
\* asked for, and the pools move past them.
THEOREM TableFramesDistinct == Spec => []OneTablePerFrame
<1>1. Init => FramesOK
  BY DEF Init, FramesOK, NoFault, OneTablePerFrame, IsInjective
<1>2. FramesOK => OneTablePerFrame BY DEF FramesOK
<1> QED BY <1>1, <1>2, FramesStep, UserSpaceInvariance, PTL DEF Spec

-----------------------------------------------------------------------------
(* The order of the application's uops. *)

\* The last instruction committed is n.
Committed(n) ==
    /\ n = 0 \/ (n \in DOMAIN commits /\ commits[n] > 0)
    /\ \A i \in DOMAIN commits : commits[i] > 0 => i <= n

\* Uop v may follow u: it is of the same instruction, or of the next one if u is the
\* last of its own.
Follows(u, v) == v.inst = u.inst \/ (u.last /\ v.inst = u.inst + 1)

\* The application's uops are the first of s, and go on in order after instruction n.
InOrder(s, n) ==
    \A j \in DOMAIN s : App(s[j]) =>
        /\ s[j].inst \in DOMAIN trace
        /\ j = 1 => s[j].inst \in {n, n + 1}
        /\ j # 1 => App(s[j - 1]) /\ Follows(s[j - 1], s[j])

\* The application's uops in s end with the last one of instruction m.
EndsWith(s, m) ==
    \E j \in DOMAIN s : /\ App(s[j]) /\ s[j].last /\ s[j].inst = m
                        /\ \A k \in DOMAIN s : k > j => ~App(s[k])

AllApp(s) == \A i \in DOMAIN s : App(s[i])

\* The newest instruction of which uops have been read is m.
Newest(m) ==
    \/ EndsWith(rob, m)
    \/ EndsWith(m_checkpointed_ops, m)
    \/ ~HasApp /\ m_checkpointed_ops = <<>> /\ Committed(m)

\* The instruction in hand is the newest one, or follows it while it is to be handled.
InHand ==
    /\ inst_app \in Nat
    /\ pc # "done" => next_inst_app = inst_app + 1
    /\ reader = "app" /\ pc = "handle" => \E m \in Nat : Newest(m) /\ inst_app \in {m, m + 1}
    /\ ~(reader = "app" /\ pc \in {"handle", "done"}) => Newest(inst_app)

\* The application's uops are in the buffer or in the checkpoint, never in both, and
\* in order after the last instruction committed.
Ordered(n) ==
    /\ Committed(n)
    /\ InOrder(rob, n) /\ InOrder(m_checkpointed_ops, n)
    /\ HasApp => m_checkpointed_ops = <<>>
    /\ AllApp(m_checkpointed_ops)
    /\ reader = "app" => AllApp(rob)
    /\ reader = "app" /\ pc = "simulate" => m_checkpointed_ops = <<>>

OrderOK ==
    /\ commits \in [DOMAIN trace -> Nat]
    /\ \E n \in Nat : Ordered(n)
    /\ InHand

\* Only one instruction is the last one committed.
LEMMA CommittedUnique ==
    ASSUME commits \in [DOMAIN trace -> Nat], DOMAIN trace \subseteq Nat,
           NEW n \in Nat, NEW m, Committed(n), Committed(m)
    PROVE  n = m
<1>1. m \in Nat BY DEF Committed
<1>2. n <= m /\ m <= n BY <1>1 DEF Committed
<1> QED BY <1>1, <1>2

\* What Max returns.
LEMMA MaxIs ==
    ASSUME NEW S, NEW x \in S, x \in Int, \A y \in S : y \in Int /\ y <= x
    PROVE  Max(S) = x
<1>1. \A y \in S : x >= y OBVIOUS
<1>2. Max(S) \in S /\ \A y \in S : Max(S) >= y BY <1>1 DEF Max
<1>3. PICK m : m = Max(S) OBVIOUS
<1>4. m \in Int /\ m <= x /\ m >= x BY <1>2, <1>3
<1> QED BY <1>3, <1>4

\* The order of the uops in the buffer and in the checkpoint is the order of those
\* in flight.
LEMMA OrderSuffices ==
    ASSUME Inv, OrderOK
    PROVE  ProgramOrder
<1>1. PICK n \in Nat : Ordered(n) BY DEF OrderOK
<1>2. DOMAIN trace \subseteq Nat BY UserSpaceAssumption DEF ThreadOK
<1>3. LastCommitted = n
  <2> DEFINE S == {i \in DOMAIN commits : commits[i] > 0} \cup {0}
  <2>1. n \in S /\ \A y \in S : y \in Int /\ y <= n BY <1>1, <1>2 DEF Ordered, Committed, OrderOK
  <2> HIDE DEF S
  <2>2. Max(S) = n BY <2>1, MaxIs
  <2> QED BY <2>2 DEF S, LastCommitted
<1>4. PICK r, c, q : r = rob /\ c = m_checkpointed_ops /\ q = InFlight OBVIOUS
<1>5. r \in Seq(Uops) /\ c \in Seq(Uops) BY <1>4 DEF RobOK
<1>6. /\ q \in Seq(Uops) /\ Len(q) = Len(r) + Len(c) /\ Len(r) \in Nat /\ Len(c) \in Nat
      /\ DOMAIN q = 1..(Len(r) + Len(c))
      /\ \A i \in 1..(Len(r) + Len(c)) : q[i] = IF i <= Len(r) THEN r[i] ELSE c[i - Len(r)]
  <2>1. q = r \o c BY <1>4 DEF InFlight
  <2> QED BY <1>5, <2>1, ConcatProperties
<1>7. /\ InOrder(r, n) /\ InOrder(c, n)
      /\ (\E i \in DOMAIN r : App(r[i])) => c = <<>>
      /\ AllApp(c)
  BY <1>1, <1>4 DEF Ordered, HasApp
<1>8. DOMAIN r = 1..Len(r) /\ DOMAIN c = 1..Len(c) BY <1>5
<1>9. SUFFICES ASSUME NEW j \in DOMAIN q, App(q[j])
               PROVE  q[j].inst \in IF AppBefore(j) = {} THEN {n, n + 1}
                                    ELSE {q[Max(AppBefore(j))].inst, q[Max(AppBefore(j))].inst + 1}
  BY <1>3, <1>4 DEF ProgramOrder
<1>10. AppBefore(j) = {k \in 1..(j - 1) : App(q[k])} BY <1>4 DEF AppBefore
<1>11. SUFFICES \/ AppBefore(j) = {} /\ q[j].inst \in {n, n + 1}
                \/ j # 1 /\ App(q[j - 1]) /\ q[j].inst \in {q[j - 1].inst, q[j - 1].inst + 1}
  <2>1. CASE j # 1 /\ App(q[j - 1]) /\ q[j].inst \in {q[j - 1].inst, q[j - 1].inst + 1}
    <3>1. j - 1 \in AppBefore(j) /\ \A k \in AppBefore(j) : k \in Int /\ k <= j - 1
      BY <1>6, <1>10, <2>1
    <3>2. PICK S, i : S = AppBefore(j) /\ i = j - 1 OBVIOUS
    <3>3. i \in S /\ i \in Int /\ \A k \in S : k \in Int /\ k <= i BY <1>6, <3>1, <3>2
    <3>4. Max(S) = i BY <3>3, MaxIs
    <3> QED BY <2>1, <3>2, <3>3, <3>4
  <2> QED BY <1>11, <2>1
<1>12. CASE j <= Len(r)
  <2>1. j \in 1..Len(r) /\ q[j] = r[j] /\ App(r[j]) BY <1>6, <1>9, <1>12
  <2>2. CASE j = 1
    <3>1. r[j].inst \in {n, n + 1} BY <1>7, <1>8, <2>1, <2>2 DEF InOrder
    <3>2. AppBefore(j) = {} BY <1>10, <2>2
    <3> QED BY <2>1, <3>1, <3>2
  <2>3. CASE j # 1
    <3>1. App(r[j - 1]) /\ Follows(r[j - 1], r[j]) BY <1>7, <1>8, <2>1, <2>3 DEF InOrder
    <3>2. q[j - 1] = r[j - 1] BY <1>6, <2>1, <2>3
    <3> QED BY <2>1, <2>3, <3>1, <3>2 DEF Follows
  <2> QED BY <2>2, <2>3
<1>13. CASE j > Len(r)
  <2>1. PICK k : k = j - Len(r) OBVIOUS
  <2>2. k \in 1..Len(c) /\ q[j] = c[k] /\ App(c[k]) BY <1>6, <1>9, <1>13, <2>1
  <2>3. c # <<>> BY <2>2
  <2>4. \A i \in 1..Len(r) : ~App(r[i]) BY <1>7, <1>8, <2>3
  <2>5. CASE k = 1
    <3>1. c[k].inst \in {n, n + 1} BY <1>7, <1>8, <2>2, <2>5 DEF InOrder
    <3>2. \A i \in 1..(j - 1) : i \in 1..Len(r) /\ q[i] = r[i] BY <1>6, <2>1, <2>5
    <3>3. AppBefore(j) = {} BY <1>10, <2>4, <3>2
    <3> QED BY <2>2, <3>1, <3>3
  <2>6. CASE k # 1
    <3>1. App(c[k - 1]) /\ Follows(c[k - 1], c[k]) BY <1>7, <1>8, <2>2, <2>6 DEF InOrder
    <3>2. j # 1 /\ q[j - 1] = c[k - 1]
      <4>1. j - 1 \in 1..(Len(r) + Len(c)) /\ ~(j - 1 <= Len(r)) /\ (j - 1) - Len(r) = k - 1 /\ j # 1
        BY <1>6, <2>1, <2>2, <2>6
      <4> QED BY <1>6, <4>1
    <3> QED BY <2>2, <3>1, <3>2 DEF Follows
  <2> QED BY <2>5, <2>6
<1> QED BY <1>6, <1>12, <1>13

\* Sequences with uops of the same instructions at the same places are in the same order.
LEMMA SameOrder ==
    ASSUME NEW s, NEW t, NEW n, NEW m, DOMAIN t = DOMAIN s,
           \A i \in DOMAIN s : t[i].inst = s[i].inst /\ t[i].last = s[i].last,
           \A i \in DOMAIN s : i \in Nat
    PROVE  /\ InOrder(s, n) /\ (\A i \in DOMAIN s : i # 1 => i - 1 \in DOMAIN s) => InOrder(t, n)
           /\ EndsWith(s, m) => EndsWith(t, m)
           /\ AllApp(s) => AllApp(t)
BY DEF InOrder, EndsWith, AllApp, App, Follows

\* A step that moves no uop, commits none and leaves the instruction in hand alone.
LEMMA OrderKept ==
    ASSUME OrderOK, UNCHANGED <<rob, m_checkpointed_ops, trace, commits>>,
           reader' = "app" => AllApp(rob),
           reader' = "app" /\ pc' = "simulate" => m_checkpointed_ops = <<>>,
           InHand'
    PROVE  OrderOK'
<1>1. PICK n \in Nat : Ordered(n) BY DEF OrderOK
<1>2. Ordered(n)' BY <1>1 DEF Ordered, Committed, InOrder, AllApp, HasApp, App, Follows
<1> QED BY <1>2 DEF OrderOK

\* The newest instruction is the same if the uops and the commits are.
LEMMA NewestKept ==
    ASSUME NEW m, Newest(m), UNCHANGED <<rob, m_checkpointed_ops, commits>>
    PROVE  Newest(m)'
BY DEF Newest, EndsWith, HasApp, App, Committed

\* Steps of the thread that touch neither the buffer nor the commits keep the order.
LEMMA ThreadOrder ==
    ASSUME Inv, OrderOK,
           Start \/ ReadKernel(KernelRuns) \/ ReadKernel(KernelAdvances) \/ ContextSwitch
           \/ EndSimulate \/ GoOn \/ ToKernel \/ DispatchCycle
    PROVE  OrderOK'
<1>1. UNCHANGED <<rob, m_checkpointed_ops, trace, commits, inst_app, next_inst_app>>
  BY DEF Start, ReadKernel, ContextSwitch, EndSimulate, GoOn, ToKernel, DispatchCycle, Dispatch,
         robVars, untouched
<1>2. reader' = "app" => reader = "app"
  BY DEF Start, ReadKernel, ContextSwitch, EndSimulate, GoOn, ToKernel, DispatchCycle, untouched
<1>3. pc \notin {"handle", "done"} /\ pc' # "done"
  BY DEF Start, ReadKernel, ContextSwitch, EndSimulate, GoOn, ToKernel, DispatchCycle, Simulating
<1>4. reader' = "app" => pc' # "handle" /\ (pc' = "simulate" => pc = "simulate")
  BY DEF Start, ReadKernel, ContextSwitch, EndSimulate, GoOn, ToKernel, DispatchCycle, Simulating,
         untouched
<1>5. Newest(inst_app)' BY <1>1, <1>3, NewestKept DEF OrderOK, InHand
<1>6. InHand' BY <1>1, <1>3, <1>4, <1>5 DEF OrderOK, InHand
<1>7. /\ reader' = "app" => AllApp(rob)
      /\ reader' = "app" /\ pc' = "simulate" => m_checkpointed_ops = <<>>
  BY <1>2, <1>4 DEF OrderOK, Ordered
<1> QED BY <1>1, <1>6, <1>7, OrderKept

\* Reading the next instruction of the application, or the one to be replayed.
LEMMA ReadAppOrder ==
    ASSUME Inv, OrderOK, ReadNextApp \/ SwitchToApp
    PROVE  OrderOK'
<1>1. UNCHANGED <<rob, m_checkpointed_ops, trace, commits>>
  BY DEF ReadNextApp, SwitchToApp, robVars
<1>2. reader' = "app" /\ pc' \in {"handle", "done"}
  BY DEF ReadNextApp, SwitchToApp, ReadApp
<1>3. pc \notin {"handle", "done"} BY DEF ReadNextApp, SwitchToApp
<1>4. PICK k \in Nat : k = inst_app /\ next_inst_app = k + 1 /\ Newest(k)
  BY <1>3 DEF OrderOK, InHand
<1>8. Newest(k)' BY <1>1, <1>4, NewestKept
<1>5. AllApp(rob)
  <2>1. CASE ReadNextApp BY <2>1 DEF ReadNextApp, OrderOK, Ordered
  <2>2. CASE SwitchToApp BY <2>2 DEF SwitchToApp, AllApp
  <2> QED BY <2>1, <2>2
<1>6. InHand'
  <2>1. CASE UNCHANGED <<inst_app, next_inst_app>> /\ pc' = "handle"
    <3>1. inst_app' = k /\ next_inst_app' = k + 1 BY <1>4, <2>1
    <3>2. \E m \in Nat : Newest(m)' /\ inst_app' \in {m, m + 1} BY <1>8, <3>1
    <3> QED BY <1>2, <3>1, <3>2 DEF InHand
  <2>2. CASE ReadApp(next_inst_app)
    <3>1. inst_app' = k + 1 /\ inst_app' \in Nat BY <1>4, <2>2 DEF ReadApp
    <3>2. \E m \in Nat : Newest(m)' /\ inst_app' \in {m, m + 1} BY <1>8, <3>1
    <3>3. pc' # "done" => next_inst_app' = inst_app' + 1 BY <2>2, <3>1 DEF ReadApp
    <3> QED BY <1>2, <3>1, <3>2, <3>3 DEF InHand
  <2> QED BY <2>1, <2>2 DEF ReadNextApp, SwitchToApp
<1>7. pc' # "simulate" BY <1>2
<1> QED BY <1>1, <1>5, <1>6, <1>7, OrderKept

\* The uops of an instruction of the application are all its own, and the last one is
\* marked as such.
LEMMA UopsOfApp ==
    ASSUME trace \in Traces, NEW i \in DOMAIN trace
    PROVE  /\ Len(UopsOf(i)) > 0
           /\ \A j \in DOMAIN UopsOf(i) : UopsOf(i)[j].inst = i /\ App(UopsOf(i)[j])
           /\ UopsOf(i)[Len(UopsOf(i))].last
<1>1. trace \in Seq(Instructions) BY UserSpaceAssumption
<1>2. i \in 1..Len(trace) /\ i # Kernel BY <1>1 DEF Kernel
<1>3. trace[i] \in Instructions BY <1>1, <1>2
<1>4. PICK ops : ops = trace[i].ops OBVIOUS
<1>5. ops \in Seq(Ops) /\ ops # <<>> BY <1>3, <1>4 DEF Instructions
<1>6. PICK k : k = Len(ops) OBVIOUS
<1>7. k \in Nat /\ k > 0 /\ DOMAIN ops = 1..k BY <1>5, <1>6
<1>8. UopsOf(i) = [j \in 1..k |-> Uop(i, ops[j].page, ops[j].store, j = k)]
  BY <1>2, <1>4, <1>6, <1>7 DEF UopsOf
<1>9. Len(UopsOf(i)) = k BY <1>7, <1>8
<1>10. \A j \in 1..k : UopsOf(i)[j].inst = i /\ UopsOf(i)[j].last = (j = k)
  BY <1>8 DEF Uop
<1>11. DOMAIN UopsOf(i) = 1..k /\ k \in 1..k BY <1>7, <1>8
<1>12. UopsOf(i)[k].last BY <1>10, <1>11
<1> QED BY <1>2, <1>7, <1>9, <1>10, <1>11, <1>12 DEF App

\* What comes after uops in order, and of the application only, that end with
\* instruction m: another instruction k, the same or the next, keeps them so.
LEMMA AppendOrder ==
    ASSUME NEW s \in Seq(Uops), NEW u \in Seq(Uops), NEW n \in Nat, NEW m \in Nat, NEW k \in DOMAIN trace,
           InOrder(s, n), AllApp(s), s = <<>> => m = n, s # <<>> => EndsWith(s, m),
           k \in {m, m + 1}, Len(u) > 0, u[Len(u)].last,
           \A j \in DOMAIN u : u[j].inst = k /\ App(u[j])
    PROVE  InOrder(s \o u, n) /\ AllApp(s \o u) /\ EndsWith(s \o u, k)
<1>1. PICK q, a, b : q = s \o u /\ a = Len(s) /\ b = Len(u) OBVIOUS
<1>2. /\ q \in Seq(Uops) /\ Len(q) = a + b /\ a \in Nat /\ b \in Nat /\ b > 0
      /\ DOMAIN q = 1..(a + b) /\ DOMAIN s = 1..a /\ DOMAIN u = 1..b
      /\ \A i \in 1..(a + b) : q[i] = IF i <= a THEN s[i] ELSE u[i - a]
  BY <1>1, ConcatProperties
<1>3. ASSUME NEW i \in 1..(a + b), i > a
      PROVE  q[i].inst = k /\ App(q[i]) /\ (i = a + b => q[i].last)
  <2>1. PICK j : j = i - a OBVIOUS
  <2>2. j \in 1..b /\ q[i] = u[j] /\ (i = a + b => j = b) BY <1>2, <1>3, <2>1
  <2> QED BY <1>1, <1>2, <2>2
<1>4. \A i \in 1..(a + b) : i <= a => q[i] = s[i] BY <1>2
<1>5. AllApp(q)
  <2> SUFFICES ASSUME NEW i \in 1..(a + b) PROVE App(q[i]) BY <1>2 DEF AllApp
  <2>1. CASE i <= a
    <3>1. i \in DOMAIN s /\ q[i] = s[i] BY <1>2, <2>1
    <3> QED BY <3>1 DEF AllApp
  <2>2. CASE i > a BY <1>3, <2>2
  <2> QED BY <1>2, <2>1, <2>2
<1>6. EndsWith(q, k)
  <2>1. a + b \in DOMAIN q /\ a + b > a BY <1>2
  <2>2. App(q[a + b]) /\ q[a + b].last /\ q[a + b].inst = k BY <1>2, <1>3, <2>1
  <2>3. \A i \in DOMAIN q : ~(i > a + b) BY <1>2
  <2> QED BY <2>1, <2>2, <2>3 DEF EndsWith
<1>7. a > 0 => s[a].inst = m /\ s[a].last
  <2> SUFFICES ASSUME a > 0 PROVE s[a].inst = m /\ s[a].last OBVIOUS
  <2>1. s # <<>> BY <1>1
  <2>2. PICK j \in DOMAIN s : /\ App(s[j]) /\ s[j].last /\ s[j].inst = m
                              /\ \A i \in DOMAIN s : i > j => ~App(s[i])
    BY <2>1 DEF EndsWith
  <2>3. ~(a > j) BY <1>2, <2>2 DEF AllApp
  <2>4. j = a BY <1>2, <2>2, <2>3
  <2> QED BY <2>2, <2>4
<1>8. InOrder(q, n)
  <2> SUFFICES ASSUME NEW j \in 1..(a + b)
               PROVE  /\ q[j].inst \in DOMAIN trace
                      /\ j = 1 => q[j].inst \in {n, n + 1}
                      /\ j # 1 => App(q[j - 1]) /\ Follows(q[j - 1], q[j])
    BY <1>2 DEF InOrder
  <2>1. j # 1 => j - 1 \in 1..(a + b) BY <1>2
  <2>2. j # 1 => App(q[j - 1]) BY <1>2, <1>5, <2>1 DEF AllApp
  <2>3. CASE j <= a
    <3>0. j \in DOMAIN s /\ q[j] = s[j] BY <1>2, <2>3
    <3>1. App(s[j]) BY <3>0 DEF AllApp
    <3>2. j # 1 => q[j - 1] = s[j - 1] BY <1>2, <1>4, <2>1, <2>3
    <3> QED BY <2>2, <3>0, <3>1, <3>2 DEF InOrder
  <2>4. CASE j > a
    <3>1. q[j].inst = k BY <1>3, <2>4
    <3>2. CASE j = 1
      <4>1. a = 0 BY <1>2, <2>4, <3>2
      <4>2. m = n BY <1>1, <1>2, <4>1
      <4> QED BY <3>1, <3>2, <4>2
    <3>3. CASE j # 1 /\ j - 1 > a
      <4>1. q[j - 1].inst = k BY <1>3, <2>1, <3>3
      <4> QED BY <2>2, <3>1, <3>3, <4>1 DEF Follows
    <3>4. CASE j # 1 /\ j - 1 <= a
      <4>1. j - 1 = a /\ a > 0 BY <1>2, <2>1, <2>4, <3>4
      <4>2. q[j - 1] = s[a] BY <1>4, <2>1, <4>1
      <4> QED BY <1>7, <2>2, <3>1, <3>4, <4>1, <4>2 DEF Follows
    <3> QED BY <1>2, <2>1, <3>2, <3>3, <3>4
  <2> QED BY <1>2, <2>3, <2>4
<1> QED BY <1>1, <1>5, <1>6, <1>8

\* Uops of the kernel behind those of the application change nothing of their order.
LEMMA AppendKernel ==
    ASSUME NEW s \in Seq(Uops), NEW u \in Seq(Uops), \A j \in DOMAIN u : ~App(u[j]), NEW n
    PROVE  /\ InOrder(s, n) => InOrder(s \o u, n)
           /\ \A m : EndsWith(s, m) => EndsWith(s \o u, m)
<1>1. PICK q, a, b : q = s \o u /\ a = Len(s) /\ b = Len(u) OBVIOUS
<1>2. /\ a \in Nat /\ b \in Nat /\ DOMAIN q = 1..(a + b) /\ DOMAIN s = 1..a /\ DOMAIN u = 1..b
      /\ \A i \in 1..(a + b) : q[i] = IF i <= a THEN s[i] ELSE u[i - a]
  BY <1>1, ConcatProperties
<1>3. \A i \in 1..a : i \in 1..(a + b) /\ q[i] = s[i] BY <1>2
<1>4. ASSUME NEW i \in 1..(a + b), i > a PROVE ~App(q[i])
  <2>1. i - a \in 1..b /\ q[i] = u[i - a] BY <1>2, <1>4
  <2> QED BY <1>2, <2>1
<1>5. ASSUME InOrder(s, n) PROVE InOrder(q, n)
  <2> SUFFICES ASSUME NEW j \in DOMAIN q, App(q[j])
               PROVE  /\ q[j].inst \in DOMAIN trace
                      /\ j = 1 => q[j].inst \in {n, n + 1}
                      /\ j # 1 => App(q[j - 1]) /\ Follows(q[j - 1], q[j])
    BY DEF InOrder
  <2>1. j \in 1..a /\ q[j] = s[j] BY <1>2, <1>3, <1>4
  <2>2. j # 1 => q[j - 1] = s[j - 1] BY <1>2, <1>3, <2>1
  <2> QED BY <1>2, <1>5, <2>1, <2>2 DEF InOrder
<1>6. ASSUME NEW m, EndsWith(s, m) PROVE EndsWith(q, m)
  <2>1. PICK j \in DOMAIN s : /\ App(s[j]) /\ s[j].last /\ s[j].inst = m
                              /\ \A i \in DOMAIN s : i > j => ~App(s[i])
    BY <1>6 DEF EndsWith
  <2>2. j \in DOMAIN q /\ q[j] = s[j] BY <1>2, <1>3
  <2>3. ASSUME NEW i \in DOMAIN q, i > j PROVE ~App(q[i])
    <3>1. CASE i <= a
      <4>1. i \in DOMAIN s /\ q[i] = s[i] BY <1>2, <3>1
      <4> QED BY <2>1, <2>3, <4>1
    <3>2. CASE i > a BY <1>2, <1>4, <3>2
    <3> QED BY <1>2, <3>1, <3>2
  <2> QED BY <2>1, <2>2, <2>3 DEF EndsWith
<1> QED BY <1>1, <1>5, <1>6

\* Handling an instruction of the application puts its uops behind those of the
\* checkpoint, which it restores.
LEMMA HandleOrder ==
    ASSUME Inv, OrderOK, Handle
    PROVE  OrderOK'
<1>1. /\ UNCHANGED <<trace, reader, inst, inst_app, next_inst_app, commits>>
      /\ pc = "handle" /\ pc' = "simulate" /\ Simulate(UopsOf(inst), reader = "app")
  BY DEF Handle
<1>2. PICK n \in Nat : Ordered(n) BY DEF OrderOK
<1>3. PICK r, c, u : r = rob /\ c = m_checkpointed_ops /\ u = UopsOf(inst) OBVIOUS
<1>4. inst \in {Kernel} \cup DOMAIN trace /\ trace \in Traces BY <1>1 DEF ThreadOK
<1>5. r \in Seq(Uops) /\ c \in Seq(Uops) /\ u \in Seq(Uops)
  BY <1>3, <1>4, UopsOfType DEF RobOK
<1>6. rob' = r \o (IF reader = "app" THEN c ELSE <<>>) \o u
      /\ m_checkpointed_ops' = IF reader = "app" THEN <<>> ELSE c
  BY <1>1, <1>3 DEF Simulate
<1>7. Committed(n)' BY <1>1, <1>2 DEF Ordered, Committed
<1>8. commits' \in [DOMAIN trace' -> Nat] BY <1>1 DEF OrderOK
<1>9. inst_app' \in Nat /\ next_inst_app' = inst_app' + 1 BY <1>1 DEF OrderOK, InHand
<1>10. CASE reader = "app"
  <2>1. PICK m \in Nat : Newest(m) /\ inst_app \in {m, m + 1}
    BY <1>1, <1>10 DEF OrderOK, InHand
  <2>2. inst = inst_app /\ inst_app \in DOMAIN trace BY <1>1, <1>10 DEF ThreadOK
  <2>3. AllApp(r) /\ AllApp(c) /\ InOrder(r, n) /\ InOrder(c, n)
        /\ (HasApp => c = <<>>)
    BY <1>2, <1>3, <1>10 DEF Ordered
  <2>4. r # <<>> => HasApp
    <3>1. r # <<>> => 1 \in DOMAIN r BY <1>5
    <3> QED BY <1>3, <2>3, <3>1 DEF HasApp, AllApp
  <2>5. PICK s \in {r, c} : r \o c = s /\ (s = <<>> => r = <<>> /\ c = <<>>)
                            /\ (r # <<>> => s = r) /\ (c # <<>> => s = c)
    <3>1. CASE c = <<>> BY <1>5, <3>1, ConcatEmptySeq
    <3>2. CASE c # <<>>
      <4>1. r = <<>> BY <2>3, <2>4, <3>2
      <4> QED BY <1>5, <3>2, <4>1, ConcatEmptySeq
    <3> QED BY <3>1, <3>2
  <2>6. s = <<>> => m = n
    <3> SUFFICES ASSUME s = <<>> PROVE m = n OBVIOUS
    <3>1. Committed(m) BY <1>3, <2>1, <2>5 DEF Newest, EndsWith
    <3>2. DOMAIN trace \subseteq Nat BY <1>4, UserSpaceAssumption
    <3> QED BY <1>2, <3>1, <3>2, CommittedUnique DEF OrderOK, Ordered
  <2>7. s # <<>> => EndsWith(s, m)
    <3> SUFFICES ASSUME s # <<>> PROVE EndsWith(s, m) OBVIOUS
    <3>1. CASE EndsWith(r, m) BY <2>5, <3>1 DEF EndsWith
    <3>2. CASE EndsWith(c, m)
      <4>1. c # <<>> BY <3>2 DEF EndsWith
      <4> QED BY <2>5, <3>2, <4>1
    <3>3. CASE ~HasApp /\ c = <<>> BY <2>4, <2>5, <3>3
    <3> QED BY <1>3, <2>1, <3>1, <3>2, <3>3 DEF Newest
  <2>8. s \in Seq(Uops) /\ InOrder(s, n) /\ AllApp(s) BY <1>5, <2>3, <2>5
  <2>9. PICK k : k = inst_app OBVIOUS
  <2>10. k \in DOMAIN trace /\ k \in {m, m + 1} /\ u = UopsOf(k) BY <1>3, <2>1, <2>2, <2>9
  <2>11. Len(u) > 0 /\ u[Len(u)].last /\ \A j \in DOMAIN u : u[j].inst = k /\ App(u[j])
    BY <1>4, <2>10, UopsOfApp
  <2>12. InOrder(s \o u, n) /\ AllApp(s \o u) /\ EndsWith(s \o u, k)
    BY <1>5, <2>6, <2>7, <2>8, <2>10, <2>11, AppendOrder
  <2>13. rob' = s \o u /\ m_checkpointed_ops' = <<>> BY <1>6, <1>10, <2>5
  <2>14. Ordered(n)'
    <3>1. InOrder(rob, n)' BY <1>1, <2>12, <2>13 DEF InOrder, Follows, App
    <3>2. AllApp(rob)' BY <2>12, <2>13 DEF AllApp, App
    <3>3. InOrder(m_checkpointed_ops, n)' /\ AllApp(m_checkpointed_ops)'
      BY <2>13 DEF InOrder, AllApp
    <3> QED BY <1>7, <2>13, <3>1, <3>2, <3>3 DEF Ordered
  <2>15. Newest(inst_app)' BY <1>1, <2>9, <2>12, <2>13 DEF Newest, EndsWith, App
  <2>16. InHand' BY <1>1, <1>9, <2>15 DEF InHand
  <2> QED BY <1>8, <2>14, <2>16 DEF OrderOK
<1>11. CASE reader # "app"
  <2>1. inst = Kernel /\ reader = "kernel" BY <1>1, <1>11 DEF ThreadOK
  <2>2. \A j \in DOMAIN u : ~App(u[j]) BY <1>3, <2>1 DEF UopsOf, Uop, App
  <2>3. r \o <<>> = r BY <1>5, ConcatEmptySeq
  <2>4. rob' = r \o u /\ m_checkpointed_ops' = c BY <1>6, <1>11, <2>3
  <2>5. InOrder(r, n) /\ InOrder(c, n) /\ AllApp(c) /\ (HasApp => c = <<>>)
    BY <1>2, <1>3 DEF Ordered
  <2>6. InOrder(r \o u, n) /\ \A m : EndsWith(r, m) => EndsWith(r \o u, m)
    BY <1>5, <2>2, <2>5, AppendKernel
  <2>7. HasApp' => HasApp
    <3>1. ~(reader = "app") /\ (reader = "app") \in BOOLEAN /\ u = UopsOf(inst) BY <1>3, <1>11
    <3>2. PICK app \in BOOLEAN : app = (reader = "app") OBVIOUS
    <3>3. Simulate(u, app) /\ ~app BY <1>1, <3>1, <3>2
    <3> QED BY <1>5, <2>2, <3>3, SimulateRob
  <2>8. Ordered(n)'
    BY <1>1, <1>7, <1>11, <2>4, <2>5, <2>6, <2>7
    DEF Ordered, InOrder, AllApp, Follows, App
  <2>9. PICK k : k = inst_app OBVIOUS
  <2>10. Newest(k) BY <1>11, <2>9 DEF OrderOK, InHand
  <2>11. Newest(k)'
    <3>1. CASE EndsWith(r, k)
      <4>1. EndsWith(r \o u, k) BY <2>6, <3>1
      <4>2. EndsWith(rob, k)' BY <2>4, <4>1 DEF EndsWith, App
      <4> QED BY <4>2 DEF Newest
    <3>2. CASE EndsWith(c, k) BY <2>4, <3>2 DEF Newest, EndsWith, App
    <3>3. CASE ~HasApp /\ c = <<>> /\ Committed(k)
      BY <1>1, <2>4, <2>7, <3>3 DEF Newest, Committed
    <3> QED BY <1>3, <2>10, <3>1, <3>2, <3>3 DEF Newest
  <2>12. InHand' BY <1>1, <1>9, <1>11, <2>9, <2>11 DEF InHand
  <2> QED BY <1>8, <2>8, <2>12 DEF OrderOK
<1> QED BY <1>10, <1>11

\* Issuing changes no order; a fault moves all uops to the checkpoint.
LEMMA IssueOrder ==
    ASSUME Inv, OrderOK, NEW i \in 1..m_num_in_rob, IssueUop(i)
    PROVE  OrderOK'
<1>1. /\ UNCHANGED <<trace, reader, inst_app, next_inst_app, commits>>
      /\ pc \in {"simulate", "drain"} /\ pc' \in {pc, "after"}
  BY DEF IssueUop, untouched, Simulating
<1>2. PICK n \in Nat : Ordered(n) BY DEF OrderOK
<1>3. PICK r, c, k : r = rob /\ c = m_checkpointed_ops /\ k = inst_app OBVIOUS
<1>4. /\ r \in Seq(Uops) /\ c \in Seq(Uops) /\ i \in 1..Len(r) /\ Len(r) \in Nat
      /\ DOMAIN r = 1..Len(r)
  BY <1>3 DEF RobOK
<1>5. InOrder(r, n) /\ InOrder(c, n) /\ AllApp(c) /\ (HasApp => c = <<>>)
      /\ (reader = "app" => AllApp(r)) /\ Newest(k)
  BY <1>1, <1>2, <1>3 DEF Ordered, OrderOK, InHand
<1>6. Committed(n)' BY <1>1, <1>2 DEF Ordered, Committed
<1>7. commits' \in [DOMAIN trace' -> Nat] BY <1>1 DEF OrderOK
<1>8. inst_app' \in Nat /\ next_inst_app' = inst_app' + 1 BY <1>1 DEF OrderOK, InHand
<1>9. Newest(k)' => InHand' BY <1>1, <1>3, <1>8 DEF InHand
<1>10. CASE Issue(i) /\ UNCHANGED pc
  <2>1. /\ m_checkpointed_ops' = c /\ rob' = [r EXCEPT ![i] = [r[i] EXCEPT !.done = TRUE]]
    BY <1>3, <1>10 DEF Issue
  <2>2. PICK t : t = rob' OBVIOUS
  <2>3. /\ DOMAIN t = DOMAIN r
        /\ \A j \in DOMAIN r : t[j].inst = r[j].inst /\ t[j].last = r[j].last
    <3>1. \A j \in DOMAIN r : r[j] \in Uops BY <1>4
    <3>2. r[i] \in Uops BY <1>4, <3>1
    <3>3. PICK v : v = [r[i] EXCEPT !.done = TRUE] OBVIOUS
    <3>4. v.inst = r[i].inst /\ v.last = r[i].last BY <3>2, <3>3 DEF Uops
    <3>5. t = [r EXCEPT ![i] = v] BY <2>1, <2>2, <3>3
    <3> QED BY <1>4, <3>4, <3>5
  <2>4. /\ \A j \in DOMAIN r : j \in Nat
        /\ \A j \in DOMAIN r : j # 1 => j - 1 \in DOMAIN r
    BY <1>4
  <2>5. InOrder(t, n) /\ (AllApp(r) => AllApp(t)) /\ (EndsWith(r, k) => EndsWith(t, k))
    BY <1>5, <2>3, <2>4, SameOrder
  <2>6. HasApp' => HasApp BY <1>3, <2>2, <2>3 DEF HasApp, App
  <2>7. Ordered(n)'
    <3>1. InOrder(rob, n)' BY <1>1, <2>2, <2>5 DEF InOrder, Follows, App
    <3>2. AllApp(r) => AllApp(rob)' BY <2>2, <2>5 DEF AllApp, App
    <3>3. InOrder(m_checkpointed_ops, n)' /\ AllApp(m_checkpointed_ops)'
      BY <1>1, <1>5, <2>1 DEF InOrder, AllApp, Follows, App
    <3>4. reader = "app" /\ pc = "simulate" => c = <<>> BY <1>2, <1>3 DEF Ordered
    <3> QED BY <1>1, <1>5, <1>6, <1>10, <2>1, <2>6, <3>1, <3>2, <3>3, <3>4 DEF Ordered
  <2>8. Newest(k)'
    <3>1. CASE EndsWith(r, k) BY <2>2, <2>5, <3>1 DEF Newest, EndsWith, App
    <3>2. CASE EndsWith(c, k) BY <2>1, <3>2 DEF Newest, EndsWith, App
    <3>3. CASE ~HasApp /\ c = <<>> /\ Committed(k)
      BY <1>1, <2>1, <2>6, <3>3 DEF Newest, Committed
    <3> QED BY <1>3, <1>5, <3>1, <3>2, <3>3 DEF Newest
  <2> QED BY <1>2, <1>7, <1>9, <2>7, <2>8 DEF OrderOK
<1>11. CASE IssueFaults /\ pc' = "after" /\ reader # "kernel"
  <2>1. /\ rob' = <<>> /\ m_checkpointed_ops' = [j \in DOMAIN r |-> [r[j] EXCEPT !.done = FALSE]]
    BY <1>3, <1>11 DEF IssueFaults, FlushRobInstant, SaveCheckpoint
  <2>2. PICK t : t = m_checkpointed_ops' OBVIOUS
  <2>3. /\ DOMAIN t = DOMAIN r
        /\ \A j \in DOMAIN r : t[j].inst = r[j].inst /\ t[j].last = r[j].last
    <3>1. \A j \in DOMAIN r : r[j] \in Uops BY <1>4
    <3>2. ASSUME NEW j \in DOMAIN r PROVE t[j].inst = r[j].inst /\ t[j].last = r[j].last
      <4>1. PICK v : v = r[j] OBVIOUS
      <4>2. t[j] = [v EXCEPT !.done = FALSE] /\ v \in Uops BY <2>1, <2>2, <3>1, <4>1
      <4> QED BY <4>1, <4>2 DEF Uops
    <3>3. DOMAIN t = DOMAIN r BY <2>1, <2>2
    <3> QED BY <3>2, <3>3
  <2>4. /\ \A j \in DOMAIN r : j \in Nat
        /\ \A j \in DOMAIN r : j # 1 => j - 1 \in DOMAIN r
    BY <1>4
  <2>5. InOrder(t, n) /\ (AllApp(r) => AllApp(t)) /\ (EndsWith(r, k) => EndsWith(t, k))
    BY <1>5, <2>3, <2>4, SameOrder
  <2>6. reader = "app" /\ pc = "simulate" /\ AllApp(r) BY <1>1, <1>5, <1>11 DEF ThreadOK
  <2>7. c = <<>> BY <1>2, <1>3, <2>6 DEF Ordered
  <2>8. EndsWith(r, k)
    <3>1. i \in DOMAIN r BY <1>4
    <3>2. HasApp BY <1>3, <2>6, <3>1 DEF HasApp, AllApp
    <3>3. ~EndsWith(c, k) BY <2>7 DEF EndsWith
    <3> QED BY <1>3, <1>5, <3>2, <3>3 DEF Newest
  <2>9. Newest(k)' BY <2>2, <2>5, <2>8 DEF Newest, EndsWith, App
  <2>10. Ordered(n)'
    <3>1. InOrder(m_checkpointed_ops, n)' BY <1>1, <2>2, <2>5 DEF InOrder, Follows, App
    <3>2. AllApp(m_checkpointed_ops)' BY <2>2, <2>5, <2>6 DEF AllApp, App
    <3>3. InOrder(rob, n)' /\ AllApp(rob)' /\ ~HasApp' BY <2>1 DEF InOrder, AllApp, HasApp
    <3> QED BY <1>6, <1>11, <3>1, <3>2, <3>3 DEF Ordered
  <2> QED BY <1>2, <1>7, <1>9, <2>9, <2>10 DEF OrderOK
<1>12. CASE rob[i].page = NoPage \/ reader = "kernel"
  BY <1>10, <1>12 DEF IssueUop
<1>13. CASE ~(rob[i].page = NoPage \/ reader = "kernel") /\ rob[i].page \in DOMAIN mapped
  BY <1>10, <1>13 DEF IssueUop
<1>14. CASE ~(rob[i].page = NoPage \/ reader = "kernel") /\ rob[i].page \notin DOMAIN mapped
  BY <1>11, <1>14 DEF IssueUop
<1> QED BY <1>12, <1>13, <1>14

\* The oldest uop leaves, and counts as committed if it is the last of its instruction.
LEMMA CommitOrder ==
    ASSUME Inv, OrderOK, CommitUop
    PROVE  OrderOK'
<1>1. /\ UNCHANGED <<trace, reader, inst_app, next_inst_app, pc, m_checkpointed_ops>>
      /\ pc \in {"simulate", "drain"} /\ rob' = Tail(rob)
  BY DEF CommitUop, untouched, Simulating, Commit
<1>2. PICK n \in Nat : Ordered(n) BY DEF OrderOK
<1>3. PICK r, c, t, k : r = rob /\ c = m_checkpointed_ops /\ t = rob' /\ k = inst_app OBVIOUS
<1>4. r \in Seq(Uops) /\ c \in Seq(Uops) /\ r # <<>>
  BY <1>3, CommitRob DEF RobOK, CommitUop
<1>5. /\ t \in Seq(Uops) /\ Len(t) = Len(r) - 1 /\ Len(r) \in Nat /\ Len(r) > 0
      /\ DOMAIN r = 1..Len(r) /\ DOMAIN t = 1..(Len(r) - 1) /\ 1 \in DOMAIN r
      /\ \A j \in 1..(Len(r) - 1) : t[j] = r[j + 1]
  BY <1>1, <1>3, <1>4, HeadTailProperties
<1>6. /\ InOrder(r, n) /\ InOrder(c, n) /\ AllApp(c) /\ (HasApp => c = <<>>)
      /\ (reader = "app" => AllApp(r)) /\ Newest(k) /\ Committed(n)
      /\ (reader = "app" /\ pc = "simulate" => c = <<>>)
  BY <1>1, <1>2, <1>3 DEF Ordered, OrderOK, InHand
<1>7. commits \in [DOMAIN trace -> Nat] BY DEF OrderOK
<1>8. inst_app' \in Nat /\ next_inst_app' = inst_app' + 1 BY <1>1 DEF OrderOK, InHand
<1>9. Newest(k)' => InHand' BY <1>1, <1>3, <1>8 DEF InHand
<1>10. ASSUME NEW j \in DOMAIN t PROVE j + 1 \in DOMAIN r /\ t[j] = r[j + 1] /\ j \in Nat
  BY <1>5
<1>11. HasApp' => HasApp BY <1>3, <1>10 DEF HasApp
<1>12. AllApp(r) => AllApp(t) BY <1>10 DEF AllApp
<1>13. ASSUME NEW m, App(t[1]) /\ 1 \in DOMAIN t => t[1].inst \in {m, m + 1}
       PROVE  InOrder(t, m)
  <2> SUFFICES ASSUME NEW j \in DOMAIN t, App(t[j])
               PROVE  /\ t[j].inst \in DOMAIN trace
                      /\ j = 1 => t[j].inst \in {m, m + 1}
                      /\ j # 1 => App(t[j - 1]) /\ Follows(t[j - 1], t[j])
    BY DEF InOrder
  <2>1. j + 1 \in DOMAIN r /\ t[j] = r[j + 1] /\ j + 1 # 1 /\ (j + 1) - 1 = j BY <1>5, <1>10
  <2>2. t[j].inst \in DOMAIN trace /\ App(r[j]) /\ Follows(r[j], r[j + 1])
    BY <1>6, <2>1 DEF InOrder
  <2>3. j # 1 => t[j - 1] = r[j]
    <3>1. j # 1 => j - 1 \in 1..(Len(r) - 1) /\ (j - 1) + 1 = j BY <1>5
    <3> QED BY <1>5, <3>1
  <2> QED BY <1>13, <2>1, <2>2, <2>3
<1>14. \E m \in Nat :
         /\ InOrder(t, m) /\ Committed(m)' /\ commits' \in [DOMAIN trace -> Nat]
         /\ App(r[1]) /\ r[1].last => m = r[1].inst
         /\ ~(App(r[1]) /\ r[1].last) => m = n
         /\ ~App(r[1]) => commits' = commits
         /\ c # <<>> => m = n
  <2>1. 1 \in DOMAIN t => 2 \in DOMAIN r /\ t[1] = r[2] BY <1>5
  <2>2. 1 \in DOMAIN t /\ App(t[1]) => App(r[1]) /\ Follows(r[1], t[1])
    <3>1. 1 \in DOMAIN t /\ App(t[1]) => 2 # 1 /\ 2 - 1 = 1 /\ App(r[2]) BY <2>1
    <3> QED BY <1>6, <2>1, <3>1 DEF InOrder
  <2>3. App(r[1]) => r[1].inst \in {n, n + 1} /\ r[1].inst \in DOMAIN trace /\ c = <<>>
    <3>1. App(r[1]) => HasApp BY <1>3, <1>5 DEF HasApp
    <3> QED BY <1>5, <1>6, <3>1 DEF InOrder
  <2>4. commits' = IF App(r[1]) /\ r[1].last THEN [commits EXCEPT ![r[1].inst] = @ + 1] ELSE commits
    BY <1>3 DEF CommitUop, App
  <2>5. CASE ~(App(r[1]) /\ r[1].last)
    <3>1. commits' = commits BY <2>4, <2>5
    <3>2. Committed(n)' BY <1>6, <3>1 DEF Committed
    <3>3. App(t[1]) /\ 1 \in DOMAIN t => t[1].inst \in {n, n + 1}
      BY <2>2, <2>3, <2>5 DEF Follows
    <3>4. InOrder(t, n) BY <1>13, <3>3
    <3> QED BY <1>7, <2>5, <3>1, <3>2, <3>4
  <2>6. CASE App(r[1]) /\ r[1].last
    <3>1. PICK m : m = r[1].inst OBVIOUS
    <3>2. m \in {n, n + 1} /\ m \in DOMAIN trace /\ m \in Nat /\ c = <<>> BY <2>3, <2>6, <3>1
    <3>3. commits' = [commits EXCEPT ![m] = commits[m] + 1] BY <2>4, <2>6, <3>1
    <3>4. /\ commits' \in [DOMAIN trace -> Nat] /\ DOMAIN commits' = DOMAIN commits /\ m \in DOMAIN commits
          /\ commits'[m] = commits[m] + 1 /\ commits[m] \in Nat
          /\ \A i \in DOMAIN commits : i # m => commits'[i] = commits[i]
      BY <1>7, <3>2, <3>3
    <3>5. Committed(m)'
      <4>1. m \in DOMAIN commits' /\ commits'[m] > 0 BY <3>4
      <4>2. DOMAIN trace \subseteq Nat BY UserSpaceAssumption DEF ThreadOK
      <4>3. ASSUME NEW i \in DOMAIN commits', commits'[i] > 0 PROVE i <= m
        <5>1. i \in Nat BY <1>7, <3>4, <4>2
        <5>2. CASE i = m BY <5>1, <5>2
        <5>3. CASE i # m
          <6>1. i <= n BY <1>6, <3>4, <4>3, <5>3 DEF Committed
          <6> QED BY <3>2, <5>1, <6>1
        <5> QED BY <5>2, <5>3
      <4> QED BY <4>1, <4>3 DEF Committed
    <3>6. App(t[1]) /\ 1 \in DOMAIN t => t[1].inst \in {m, m + 1} BY <2>2, <3>1 DEF Follows
    <3>7. InOrder(t, m) BY <1>13, <3>6
    <3> QED BY <2>6, <3>1, <3>2, <3>4, <3>5, <3>7
  <2> QED BY <2>5, <2>6
<1>15. PICK m \in Nat :
         /\ InOrder(t, m) /\ Committed(m)' /\ commits' \in [DOMAIN trace -> Nat]
         /\ App(r[1]) /\ r[1].last => m = r[1].inst
         /\ ~(App(r[1]) /\ r[1].last) => m = n
         /\ ~App(r[1]) => commits' = commits
         /\ c # <<>> => m = n
  BY <1>14
<1>16. Ordered(m)'
  <2>1. InOrder(rob, m)' BY <1>1, <1>3, <1>15 DEF InOrder, Follows, App
  <2>2. reader = "app" => AllApp(rob)' BY <1>3, <1>6, <1>12 DEF AllApp, App
  <2>3. InOrder(c, m)
    <3>1. CASE c = <<>> BY <3>1 DEF InOrder
    <3>2. CASE c # <<>> BY <1>6, <1>15, <3>2
    <3> QED BY <3>1, <3>2
  <2>4. InOrder(m_checkpointed_ops, m)' /\ AllApp(m_checkpointed_ops)'
    BY <1>1, <1>3, <1>6, <2>3 DEF InOrder, AllApp, Follows, App
  <2> QED BY <1>1, <1>3, <1>6, <1>11, <1>15, <2>1, <2>2, <2>4 DEF Ordered
<1>17. Newest(k)'
  <2>1. CASE EndsWith(r, k)
    <3>1. PICK j \in DOMAIN r : /\ App(r[j]) /\ r[j].last /\ r[j].inst = k
                                /\ \A i \in DOMAIN r : i > j => ~App(r[i])
      BY <2>1 DEF EndsWith
    <3>2. CASE j = 1
      <4>1. HasApp /\ c = <<>> /\ m = k BY <1>3, <1>6, <1>15, <3>1, <3>2 DEF HasApp
      <4>2. ASSUME NEW i \in DOMAIN t PROVE ~App(t[i])
        <5>1. i + 1 \in DOMAIN r /\ t[i] = r[i + 1] /\ i + 1 > 1 BY <1>5, <1>10
        <5> QED BY <3>1, <3>2, <5>1
      <4>3. ~HasApp' BY <1>3, <4>2 DEF HasApp, App
      <4> QED BY <1>1, <1>3, <1>15, <4>1, <4>3 DEF Newest
    <3>3. CASE j # 1
      <4>1. j - 1 \in DOMAIN t /\ t[j - 1] = r[j]
        <5>1. j - 1 \in 1..(Len(r) - 1) /\ (j - 1) + 1 = j BY <1>5, <3>3
        <5> QED BY <1>5, <5>1
      <4>2. ASSUME NEW i \in DOMAIN t, i > j - 1 PROVE ~App(t[i])
        <5>1. i + 1 \in DOMAIN r /\ t[i] = r[i + 1] /\ i + 1 > j BY <1>5, <1>10, <4>2
        <5> QED BY <3>1, <5>1
      <4>3. EndsWith(t, k) BY <3>1, <4>1, <4>2 DEF EndsWith
      <4> QED BY <1>3, <4>3 DEF Newest, EndsWith, App
    <3> QED BY <3>2, <3>3
  <2>2. CASE EndsWith(c, k) BY <1>1, <1>3, <2>2 DEF Newest, EndsWith, App
  <2>3. CASE ~HasApp /\ c = <<>> /\ Committed(k)
    <3>1. ~App(r[1]) BY <1>3, <1>5, <2>3 DEF HasApp
    <3> QED BY <1>1, <1>3, <1>11, <1>15, <2>3, <3>1 DEF Newest, Committed
  <2> QED BY <1>3, <1>6, <2>1, <2>2, <2>3 DEF Newest
<1> QED BY <1>1, <1>9, <1>15, <1>16, <1>17 DEF OrderOK

\* A stuttering step keeps the order.
LEMMA StutterOrder ==
    ASSUME OrderOK, UNCHANGED vars
    PROVE  OrderOK'
<1>1. UNCHANGED <<rob, m_checkpointed_ops, trace, commits, reader, pc, inst_app, next_inst_app>>
  BY DEF vars, robVars, threadVars
<1>2. \A m : Newest(m) => Newest(m)' BY <1>1, NewestKept
<1>3. PICK k : k = inst_app OBVIOUS
<1>4. InHand'
  <2>1. (\E m \in Nat : Newest(m) /\ k \in {m, m + 1})
          => \E m \in Nat : Newest(m)' /\ k \in {m, m + 1}
    BY <1>2
  <2>2. Newest(k) => Newest(k)' BY <1>2
  <2> QED BY <1>1, <1>3, <2>1, <2>2 DEF OrderOK, InHand
<1>5. /\ reader' = "app" => AllApp(rob)
      /\ reader' = "app" /\ pc' = "simulate" => m_checkpointed_ops = <<>>
  BY <1>1 DEF OrderOK, Ordered
<1> QED BY <1>1, <1>4, <1>5, OrderKept

\* Nothing is in flight and nothing is committed before the first instruction.
LEMMA InitOrder == Init => OrderOK
<1> SUFFICES ASSUME Init PROVE OrderOK OBVIOUS
<1>1. /\ rob = <<>> /\ m_checkpointed_ops = <<>> /\ commits = [i \in 1..Len(trace) |-> 0]
      /\ pc = "start" /\ reader = "kernel" /\ inst_app = 0 /\ next_inst_app = 1
      /\ trace \in Traces
  BY DEF Init, RobInit
<1>2. trace \in Seq(Instructions) BY <1>1, UserSpaceAssumption
<1>3. commits \in [DOMAIN trace -> Nat] BY <1>1, <1>2
<1>4. Committed(0) BY <1>1 DEF Committed
<1>5. ~HasApp BY <1>1 DEF HasApp
<1>6. Ordered(0) BY <1>1, <1>4, <1>5 DEF Ordered, InOrder, AllApp
<1>7. InHand BY <1>1, <1>4, <1>5 DEF InHand, Newest
<1> QED BY <1>3, <1>6, <1>7 DEF OrderOK

\* However wide the window, whatever the traces and however many faults flush the
\* buffer and replay an instruction, the application's uops stay in program order and
\* none is left out.
THEOREM UopsInProgramOrder == Spec => []ProgramOrder
<1>1. Inv /\ OrderOK /\ [Next]_vars => OrderOK'
  <2> SUFFICES ASSUME Inv, OrderOK, [Next]_vars PROVE OrderOK' OBVIOUS
  <2> QED
    BY ThreadOrder, ReadAppOrder, HandleOrder, IssueOrder, CommitOrder, StutterOrder DEF Next
<1>2. Inv /\ OrderOK => ProgramOrder BY OrderSuffices
<1> QED BY <1>1, <1>2, InitOrder, UserSpaceInvariance, PTL DEF Spec
=============================================================================
