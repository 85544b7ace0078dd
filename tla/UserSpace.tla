----------------------------- MODULE UserSpace ------------------------------
(* Page faults handled by MimicOS in user space.  The trace thread of core  *)
(* 0 reads either the trace of the application or that of the kernel        *)
(* process (MimicOS, another program that is traced too).  A fault flushes  *)
(* the reorder buffer, keeps the instruction for a replay, and resumes the  *)
(* kernel; the kernel receives the request, allocates, sends the result,    *)
(* and gives the core back with a context switch.                           *)
EXTENDS RobTimer

CONSTANTS Pages,    \* virtual pages of the application
          Path,     \* the page table nodes below the root that lead to a page
          Traces    \* application traces: sequences of [fetch, ops]

\* An instruction is fetched from a page and has uops, most with an operand in
\* memory.  The decoder gives every instruction at least one.
Ops == [page : Pages \cup {NoPage}, store : BOOLEAN]
Instructions == [fetch : Pages, ops : Seq(Ops) \ {<<>>}]

ASSUME UserSpaceAssumption ==
    /\ NoPage \notin Pages
    /\ \A p \in Pages : Path[p] \in Seq(Range(Path[p])) /\ IsInjective(Path[p])
    /\ Traces \subseteq Seq(Instructions)

VARIABLES
    trace,              \* the application's trace
    pc,                 \* where the trace thread is in its loop
    reader,             \* m_current_sift_reader: "kernel" or "app"
    inst, next_inst,    \* numbers in trace; Kernel for a kernel instruction
    inst_app, next_inst_app,
    to_be_replayed,     \* a pair of instructions, or <<>>
    fault,              \* the core's PageFaultState in the simulator
    message,            \* MimicOS' one message to the kernel
    kernel,             \* the kernel process: where it is and what it received
    allocated,          \* pages handed out for data and for tables
    mapped, table,      \* the radix table: page -> frame, node -> frame
    tlb,                \* pages with a translation in the TLBs
    lastBlock,          \* the page of m_icache_last_block, if it is the application's
    commits,            \* how often each instruction has been committed
    failed              \* assertions that fired

threadVars == <<pc, reader, inst, next_inst, inst_app, next_inst_app, to_be_replayed>>
osVars == <<message, kernel, allocated, mapped, table>>
mmuVars == <<fault, tlb>>
vars == <<robVars, trace, threadVars, osVars, mmuVars, lastBlock, commits, failed>>

Kernel == 0
NoFault == [is |-> FALSE, va |-> NoPage, frames |-> 0]
Put(f, x, y) == [z \in DOMAIN f \cup {x} |-> IF z = x THEN y ELSE f[z]]

Init ==
    /\ RobInit
    /\ trace \in Traces
    /\ pc = "start" /\ reader = "kernel"
    /\ inst = Kernel /\ next_inst = Kernel /\ inst_app = 0 /\ next_inst_app = 1
    /\ to_be_replayed = <<>>
    /\ fault = NoFault /\ message = NoFault
    /\ kernel = [at |-> "boot", request |-> NoFault]
    /\ allocated = [data |-> 0, table |-> 0]
    /\ mapped = <<>> /\ table = <<>> /\ tlb = {} /\ lastBlock = NoPage
    /\ commits = [i \in 1..Len(trace) |-> 0]
    /\ failed = {}

-----------------------------------------------------------------------------
(* Translation *)

\* The frames initializeWalk asks for: one for each node that is missing.
MissingNodes(p) == SelectSeq(Path[p], LAMBDA n : n \notin DOMAIN table)
RequestedFrames(p) == Cardinality(Range(Path[p]) \ DOMAIN table)

\* performPTW notes the outcome of every walk, also of one that succeeds.
Walk(p) ==
    IF p \in DOMAIN mapped
    THEN /\ fault' = NoFault
         /\ tlb' = tlb \cup {p}
    ELSE /\ fault' = [is |-> TRUE, va |-> p, frames |-> RequestedFrames(p)]
         /\ UNCHANGED tlb

\* performAddressTranslation: a TLB hit, or a walk because there is none or
\* it has been evicted.
Translate(p) == (p \in tlb /\ UNCHANGED mmuVars) \/ Walk(p)

-----------------------------------------------------------------------------
(* The user-space kernel: poll_for_signal, seen through the kernel trace.   *)
(* Between two magic instructions it runs ordinary ones.                    *)

\* SimReceiveMessage copies the message.
Received(request) == [at |-> "received", request |-> request]
Receive ==
    /\ kernel.at = "resumed"
    /\ kernel' = Received(message)
    /\ UNCHANGED <<message, allocated, mapped, table>>

\* Mutation: the data page is not among them.
OnlyTables ==
    [i \in 1..(kernel.request.frames - 1) |-> <<"table", allocated.table + i - 1>>]
\* poll_for_signal: the frames of its answer.  The first is the data page.
Frames ==
    LET count == kernel.request.frames
    IN  SubSeq(<<<<"data", allocated.data>>>>
                 \o [i \in 1..(count - 1) |-> <<"table", allocated.table + i - 1>>],
               1, count)

\* updatePageTableFrames: missing nodes take the frames in turn.
Linked(missing, frames) ==
    [n \in DOMAIN table \cup Range(missing) |->
        IF n \in DOMAIN table THEN table[n]
        ELSE frames[CHOOSE i \in DOMAIN missing : missing[i] = n]]

\* Mutation: the frames for the page table are not taken from the pool.
KeepsPool ==
    [data |-> allocated.data + 1, table |-> allocated.table]
Taken ==
    [data |-> allocated.data + 1,
     table |-> allocated.table + Max({kernel.request.frames - 1, 0})]

\* SimMimicosResult: VirtuosExceptionHandler enters the page into the table,
\* and asserts that there are frames enough.
Result ==
    LET p == kernel.request.va
        missing == MissingNodes(p)
    IN  /\ kernel.at = "received"
        /\ kernel' = [kernel EXCEPT !.at = "replied"]
        /\ allocated' = Taken
        /\ DOMAIN missing \subseteq DOMAIN Frames
        /\ table' = Linked(missing, Frames)
        /\ mapped' = Put(mapped, p, <<"data", allocated.data>>)
        /\ UNCHANGED message

\* SiftReader::Read on the kernel trace returns the next instruction, after
\* the magic instruction before it, if there is one.
KernelRuns == UNCHANGED osVars
KernelAdvances == Receive \/ Result

-----------------------------------------------------------------------------
(* The trace thread: m_run_func_with_userpace_mimicos *)

Start ==
    /\ pc = "start"
    /\ KernelRuns
    /\ inst' = Kernel /\ pc' = "top"
    /\ UNCHANGED <<robVars, trace, reader, next_inst, inst_app, next_inst_app,
                   to_be_replayed, mmuVars, lastBlock, commits, failed>>

ReadKernel(read) ==
    /\ pc = "top" /\ reader = "kernel"
    /\ read
    /\ next_inst' = Kernel /\ pc' = "handle"
    /\ UNCHANGED <<robVars, trace, reader, inst, inst_app, next_inst_app,
                   to_be_replayed, mmuVars, lastBlock, commits, failed>>

\* Read meets SIM_CMD_CONTEXT_SWITCH, which first drains the core.
ContextSwitch ==
    /\ pc = "top" /\ reader = "kernel" /\ kernel.at \in {"boot", "replied"}
    /\ pc' = "drain"
    /\ UNCHANGED <<robVars, trace, reader, inst, next_inst, inst_app, next_inst_app,
                   to_be_replayed, osVars, mmuVars, lastBlock, commits, failed>>

\* The next application instruction is ready, or its trace has ended.
ReadApp(first) ==
    /\ inst_app' = first
    /\ IF first + 1 > Len(trace)
       THEN pc' = "done" /\ UNCHANGED <<inst, next_inst, next_inst_app>>
       ELSE /\ next_inst_app' = first + 1
            /\ inst' = first /\ next_inst' = first + 1 /\ pc' = "handle"

\* The kernel has been drained: the instruction that faulted is replayed, or
\* the application goes on.
SwitchToApp ==
    /\ pc = "drain" /\ rob = <<>>
    /\ reader' = "app"
    /\ kernel' = [kernel EXCEPT !.at = "switched"]
    /\ to_be_replayed' = <<>>
    /\ IF to_be_replayed # <<>>
       THEN /\ inst' = to_be_replayed[1] /\ next_inst' = to_be_replayed[2]
            /\ pc' = "handle"
            /\ failed' = failed \cup
                 (IF to_be_replayed = <<inst_app, next_inst_app>> THEN {} ELSE {"replay"})
            /\ UNCHANGED <<inst_app, next_inst_app>>
       ELSE ReadApp(next_inst_app) /\ UNCHANGED failed
    /\ UNCHANGED <<robVars, trace, message, allocated, mapped, table, mmuVars,
                   lastBlock, commits>>

ReadNextApp ==
    /\ pc = "top" /\ reader = "app"
    /\ ReadApp(next_inst_app)
    /\ UNCHANGED <<robVars, trace, reader, to_be_replayed, osVars, mmuVars,
                   lastBlock, commits, failed>>

\* The uops of an instruction; one of the kernel's has no page to translate.
UopsOf(i) ==
    IF i = Kernel THEN <<Uop(Kernel, NoPage, FALSE, TRUE)>>
    ELSE LET ops == trace[i].ops
         IN  [j \in DOMAIN ops |-> Uop(i, ops[j].page, ops[j].store, j = Len(ops))]

\* handleInstructionDetailed, MicroOpPerformanceModel::handleInstruction: the
\* fetch, whose outcome only the fault state records, then the uops.  Nothing is
\* read if the instruction is in the block read last; two instructions of a page
\* may be in one block or not.
Handle ==
    /\ pc = "handle"
    /\ lastBlock' = IF inst = Kernel THEN NoPage ELSE trace[inst].fetch
    /\ \/ lastBlock' \in {NoPage, lastBlock} /\ UNCHANGED mmuVars
       \/ lastBlock' # NoPage /\ Translate(lastBlock')
    /\ Simulate(UopsOf(inst), reader = "app")
    /\ pc' = "simulate"
    /\ UNCHANGED <<trace, reader, inst, next_inst, inst_app, next_inst_app,
                   to_be_replayed, osVars, commits, failed>>

Simulating == pc \in {"simulate", "drain"}
untouched == <<trace, reader, inst, next_inst, inst_app, next_inst_app, to_be_replayed,
               osVars, lastBlock, failed>>

DispatchCycle ==
    /\ Simulating
    /\ Dispatch(pc = "drain")
    /\ UNCHANGED <<untouched, pc, mmuVars, commits>>

\* Kernel accesses are not translated, and neither is what is issued while the
\* kernel's trace is read.
IssueUop(i) ==
    /\ Simulating /\ CanIssue(i)
    /\ IF rob[i].page = NoPage \/ reader = "kernel"
       THEN Issue(i) /\ UNCHANGED <<mmuVars, pc>>
       ELSE /\ Translate(rob[i].page)
            /\ IF rob[i].page \in DOMAIN mapped THEN Issue(i) /\ UNCHANGED pc
               ELSE IssueFaults /\ pc' = "after"
    /\ UNCHANGED <<untouched, commits>>

CommitUop ==
    /\ Simulating /\ CanCommit
    /\ Commit
    /\ commits' = IF rob[1].inst # Kernel /\ rob[1].last
                  THEN [commits EXCEPT ![rob[1].inst] = @ + 1] ELSE commits
    /\ UNCHANGED <<untouched, pc, mmuVars>>

\* execute asks for more instructions.
EndSimulate ==
    /\ pc = "simulate" /\ ~Enough
    /\ pc' = "after"
    /\ UNCHANGED <<untouched, robVars, mmuVars, commits>>

\* No fault is noted: the loop goes on with the instruction read ahead.
GoOn ==
    /\ pc = "after" /\ ~fault.is
    /\ inst' = next_inst /\ pc' = "top"
    /\ UNCHANGED <<robVars, trace, reader, next_inst, inst_app, next_inst_app,
                   to_be_replayed, osVars, mmuVars, lastBlock, commits, failed>>

\* Mutation: the state of the fault is not reset.
LeavesFault == UNCHANGED fault
ResetPageFaultState == fault' = NoFault

\* buildMessageWithArgs: the address and the number of frames.
BuildMessage == fault

\* A fault is noted: keep the instruction, write the message, resume the
\* kernel process and read its first instruction.
ToKernel ==
    /\ pc = "after" /\ fault.is
    /\ failed' = failed \cup (IF reader = "app" THEN {} ELSE {"fault in kernel"})
    /\ to_be_replayed' = <<inst_app, next_inst_app>>
    /\ message' = BuildMessage
    /\ reader' = "kernel"
    /\ \E received \in BOOLEAN :
          kernel' = IF received THEN Received(message')
                    ELSE [kernel EXCEPT !.at = "resumed"]
    /\ inst' = Kernel /\ next_inst' = Kernel /\ pc' = "top"
    /\ ResetPageFaultState
    /\ UNCHANGED <<robVars, trace, inst_app, next_inst_app, allocated, mapped, table, tlb,
                   lastBlock, commits>>

Next ==
    \/ Start \/ ReadKernel(KernelRuns) \/ ReadKernel(KernelAdvances)
    \/ ContextSwitch \/ SwitchToApp \/ ReadNextApp
    \/ Handle \/ DispatchCycle \/ CommitUop \/ EndSimulate \/ GoOn \/ ToKernel
    \/ \E i \in 1..m_num_in_rob : IssueUop(i)

Spec == Init /\ [][Next]_vars

\* The thread keeps running, and the kernel's code between two magic
\* instructions comes to an end.
FairSpec ==
    /\ Spec /\ WF_vars(Next)
    /\ SF_vars(ReadKernel(KernelAdvances)) /\ SF_vars(ContextSwitch)

-----------------------------------------------------------------------------
App(u) == u.inst # Kernel
InFlight == rob \o m_checkpointed_ops
\* The application's uops before the jth uop in flight.
AppBefore(j) == {k \in 1..(j - 1) : App(InFlight[k])}

\* What the instructions committed so far end with.
LastCommitted == Max({i \in DOMAIN commits : commits[i] > 0} \cup {0})

\* However many faults flush the buffer and restore it, the application's
\* uops stay in program order and none is left out.
ProgramOrder ==
    \A j \in DOMAIN InFlight : App(InFlight[j]) =>
        LET before == IF AppBefore(j) = {} THEN LastCommitted
                      ELSE InFlight[Max(AppBefore(j))].inst
        IN  InFlight[j].inst \in {before, before + 1}

\* No frame holds two nodes of the page table.
OneTablePerFrame == IsInjective(table)

\* While the kernel runs, the buffer holds none of the application's uops,
\* which would be simulated without translation, unless the fault was that
\* of an instruction fetch: only issueInstruction flushes.
FlushedUnlessFetch ==
    reader = "kernel" /\ (\E i \in DOMAIN rob : App(rob[i])) =>
        message.va = trace[inst_app].fetch

\* The trace thread's assertions: a fault is noted only while the application
\* is read, and the instruction replayed is the one that was stopped.
ThreadAssertions == failed = {}

\* The application's trace is executed to its end.
TraceEnds == <>(pc = "done")

\* An application's instruction is committed once: "Returning from a page
\* fault: restore exact app state".
CommittedOnce == \A i \in DOMAIN commits : commits[i] <= 1
=============================================================================
