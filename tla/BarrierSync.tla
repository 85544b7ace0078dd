---------------------------- MODULE BarrierSync ----------------------------
(***************************************************************************)
(* The clock-skew barrier of the simulator (BarrierSyncServer and the      *)
(* clients that enter it), in detailed mode and under the static           *)
(* scheduler, which gives every thread a core of its own: a core and its   *)
(* thread are one process here.  Cores run ahead on their own clocks and   *)
(* check in once per quantum; the server moves the barrier time forward    *)
(* when every running core has checked in.  All server code runs under the *)
(* thread manager's lock, so a call is one step, with three exceptions the *)
(* model keeps: the wait inside synchronize(), which returns by itself     *)
(* after 1 ns of host time, signalled or not; the unlocked read of the     *)
(* barrier time when a blocking system call returns; and the start of a    *)
(* new thread, which happens some time after its creator read its clock.   *)
(*                                                                         *)
(* What wakes a stalled thread (mutexes, futexes, joins, timeouts) is the  *)
(* subject of ThreadSync, and so is the requeue of a futex's waiters; here *)
(* another thread, or the periodic hook when a timeout has passed, wakes   *)
(* it, the first of a queue first.                                         *)
(***************************************************************************)
EXTENDS Integers, FiniteSets

CONSTANTS Cores,        \* the application cores
          Quantum,      \* clock_skew_minimization/barrier/quantum
          HostCounts,   \* values of general/num_host_cores, -1 for no limit
          Steps,        \* how far one batch of instructions moves a clock
          Timeouts,     \* how long a timed wait may last
          Callers,      \* bound: cores whose threads make blocking calls
          Spawners      \* bound: cores whose threads create threads

ASSUME BarrierConstants == /\ IsFiniteSet(Cores)
                           /\ Quantum \in Nat \ {0}
                           /\ HostCounts \subseteq (Nat \ {0}) \cup {-1}
                           /\ Steps \subseteq Nat \ {0}
                           /\ Timeouts \subseteq Nat
                           /\ Callers \cup Spawners \subseteq Cores

VARIABLES hostCores,   \* getNumHostCores(), fixed
          pc,          \* what the thread of each core is doing
          elapsed,     \* getElapsedTime() of each core's performance model
          nextSync,    \* m_next_sync_time of each core's client
          at,          \* the time a stalled thread waits for, or Never, and
                       \* the time one was created or resumed with
          ahead,       \* the timed waits that began before each one's
          localClock,  \* m_local_clock_list
          acquire,     \* m_barrier_acquire_list
          toRelease,   \* m_to_release.size()
          next,        \* m_next_barrier_time
          global,      \* m_global_time
          failed,      \* assertions of the server that have failed
          late         \* history: a thread started or returned behind global

serverVars == <<localClock, acquire, toRelease, next, global, failed>>
vars == <<hostCores, pc, elapsed, nextSync, at, ahead, late, serverVars>>

\* No timeout: SubsecondTime::MaxTime() in a waiter's record.
Never == -1

(* idle: no thread.  init: created, not started.  app: executing.  barrier: *)
(* inside synchronize()'s wait.  stalled: stallThread.  syscall: blocked in *)
(* a system call.  returning: has read the barrier time on its way out of   *)
(* it.  waking: resumed, its clock not yet moved to the time of the resume. *)
States == {"idle", "init", "app", "barrier", "stalled", "syscall", "returning", "waking"}

\* isCoreRunning: the core is in state RUNNING and so is its thread.
Runs(s) == s \in {"app", "barrier", "waking"}

Later(t, u) == IF t < u THEN u ELSE t

Init == /\ hostCores \in HostCounts
        /\ pc \in [Cores -> {"idle", "init"}]
        /\ \E c \in Cores : pc[c] = "init"
        /\ elapsed = [c \in Cores |-> 0]
        /\ nextSync = [c \in Cores |-> Quantum]
        /\ at = [c \in Cores |-> 0]
        /\ ahead = [c \in Cores |-> {}]
        /\ localClock = [c \in Cores |-> 0]
        /\ acquire = [c \in Cores |-> FALSE]
        /\ toRelease = 0
        /\ next = Quantum
        /\ global = 0
        /\ failed = {}
        /\ late = FALSE

----------------------------------------------------------------------------
(* The server *)

\* doRelease(1): one more of the released cores is signalled.
OneReleased == IF toRelease = 0 THEN 0 ELSE toRelease - 1

\* Mutation: the barrier is reached as soon as one running core is there.
FirstThere(p, clock) == \E c \in Cores : Runs(p[c]) /\ clock[c] >= next

(* isBarrierReached: no running core is short of the barrier time and at   *)
(* least one has come to it.                                               *)
Reached(p, clock) == /\ \E c \in Cores : Runs(p[c])
                     /\ \A c \in Cores : Runs(p[c]) => clock[c] >= next

\* A thread that stalls with a timeout, in m_sleeping or a futex's queue.
Timed(p, a, c) == p[c] = "stalled" /\ a[c] # Never

\* Threads whose timeout has passed at time t.
Due(p, a, t) == {c \in Cores : Timed(p, a, c) /\ a[c] <= t}

(* The timed waits that began before that of c; a thread that stalls in    *)
(* this step comes after all the others.                                   *)
Ahead(c) == IF Timed(pc, at, c) THEN ahead[c] ELSE {d \in Cores : Timed(pc, at, d)}

\* Mutation: the hook may pass over the threads that have waited longest.
WakesAny(p, a, t) == {W \in SUBSET Due(p, a, t) : Due(p, a, t) # {} => W # {}}

(* Those the periodic hook wakes: of the sleepers and of the waiters of    *)
(* each futex the first in the queue whose timeout has passed, one each.   *)
(* Which queue a thread is in is ThreadSync's subject: here, one that is   *)
(* passed over is behind one that is woken.                                *)
Woken(p, a, t) == {W \in SUBSET Due(p, a, t) :
                     \A c \in Due(p, a, t) \ W : Ahead(c) \cap W # {}}

Resumed(p, W) == [c \in Cores |-> IF c \in W THEN "waking" ELSE p[c]]

ResumedAt(a, W, t) == [c \in Cores |-> IF c \in W THEN t ELSE a[c]]

\* Mutation: every core that was waiting is still to be signalled.
SignalledLater(waiting) == Cardinality(waiting)

\* doRelease(num_host_cores): how many released cores are left unsignalled.
LeftUnsignalled(waiting) ==
    IF hostCores = -1 \/ Cardinality(waiting) <= hostCores
    THEN 0
    ELSE Cardinality(waiting) - hostCores

\* The assertion at the head of barrierRelease: m_to_release is empty.
CheckRestarted(unsignalled) ==
    failed' = IF unsignalled = 0 THEN failed ELSE failed \cup {"not restarted"}

(* barrierRelease for a thread that came to the barrier or left the cores  *)
(* that run: the barrier time becomes the global time, the periodic hook   *)
(* runs, the barrier time moves one quantum and every waiting core is      *)
(* released, one that has overshot the new barrier time too.  p and a are  *)
(* pc and at by now, waiting the cores in the acquire list, less the       *)
(* caller.                                                                 *)
BarrierRelease(p, a, waiting) ==
    /\ CheckRestarted(OneReleased)
    /\ global' = next
    /\ next' = next + Quantum
    /\ acquire' = [c \in Cores |-> FALSE]
    /\ toRelease' = LeftUnsignalled(waiting)
    /\ \E W \in Woken(p, a, next) : /\ pc' = Resumed(p, W)
                                    /\ at' = ResumedAt(a, W, next)

\* releaseThread and signal, called when a thread stops running.
Signal(p, a) ==
    IF Reached(p, localClock)
    THEN BarrierRelease(p, a, {c \in Cores : acquire[c]})
    ELSE /\ pc' = p /\ at' = a /\ toRelease' = OneReleased
         /\ UNCHANGED <<acquire, next, global, failed>>

(* advance, repeated while no thread runs: the barrier time moves, quantum *)
(* by quantum, to the first one at which the periodic hook wakes a thread; *)
(* that call returns before the barrier time moves on.                     *)
Advance(p, a) ==
    \E d \in Cores : \E k \in 0..a[d] :
       LET t == next + k * Quantum
       IN  /\ Due(p, a, t) # {}
           /\ k > 0 => Due(p, a, t - Quantum) = {}
           /\ CheckRestarted(OneReleased)
           /\ global' = t
           /\ next' = t
           /\ toRelease' = OneReleased
           /\ acquire' = acquire
           /\ \E W \in Woken(p, a, t) : /\ pc' = Resumed(p, W)
                                        /\ at' = ResumedAt(a, W, t)

(* No thread runs and none has a timeout: unless the assertion at its head *)
(* stops it first, barrierRelease fails the one on timeouts.               *)
NoTimeoutLeft(p, a) ==
    /\ pc' = p /\ at' = a
    /\ failed' = failed \cup {IF OneReleased = 0 THEN "deadlocked" ELSE "not restarted"}
    /\ global' = IF OneReleased = 0 THEN next ELSE global
    /\ toRelease' = OneReleased
    /\ UNCHANGED <<acquire, next>>

----------------------------------------------------------------------------
(* The threads *)

\* The client's next check-in: the first multiple of the quantum after t.
SyncAfter(t) == (t \div Quantum) * Quantum + Quantum

\* The thread executes; its next check-in is not due yet.
Executes(c) == pc[c] = "app" /\ elapsed[c] < nextSync[c]

\* A batch of instructions.
Run(c) == /\ Executes(c)
          /\ \E d \in Steps : elapsed' = [elapsed EXCEPT ![c] = @ + d]
          /\ UNCHANGED <<hostCores, pc, nextSync, at, late, serverVars>>

\* synchronize() before the barrier time: the clock is noted, nothing else.
SynchronizeEarly(c) ==
    /\ pc[c] = "app" /\ elapsed[c] >= nextSync[c] /\ elapsed[c] < next
    /\ localClock' = [localClock EXCEPT ![c] = elapsed[c]]
    /\ nextSync' = [nextSync EXCEPT ![c] = SyncAfter(elapsed[c])]
    /\ UNCHANGED <<hostCores, pc, elapsed, at, late, acquire, toRelease, next,
                   global, failed>>

(* synchronize() at or after the barrier time: the last running core to    *)
(* come releases the others and goes on, any other core waits.             *)
Synchronize(c) ==
    LET clock == [localClock EXCEPT ![c] = elapsed[c]]
    IN  /\ pc[c] = "app" /\ elapsed[c] >= nextSync[c] /\ elapsed[c] >= next
        /\ localClock' = clock
        /\ IF Reached(pc, clock)
           THEN /\ BarrierRelease(pc, at, {d \in Cores \ {c} : acquire[d]})
                /\ nextSync' = [nextSync EXCEPT ![c] = SyncAfter(elapsed[c])]
           ELSE /\ pc' = [pc EXCEPT ![c] = "barrier"]
                /\ acquire' = [acquire EXCEPT ![c] = TRUE]
                /\ toRelease' = OneReleased
                /\ UNCHANGED <<nextSync, at, next, global, failed>>
        /\ UNCHANGED <<hostCores, elapsed, late>>

\* Mutation: a core that gave up waiting stays in the acquire list.
LeavesEntry(c) == /\ pc[c] = "barrier"
                  /\ pc' = [pc EXCEPT ![c] = "app"]
                  /\ nextSync' = [nextSync EXCEPT ![c] = SyncAfter(elapsed[c])]
                  /\ UNCHANGED <<hostCores, elapsed, at, late, serverVars>>

\* The wait inside synchronize() returns: signalled, or after its 1 ns.
Leave(c) == /\ pc[c] = "barrier"
            /\ pc' = [pc EXCEPT ![c] = "app"]
            /\ acquire' = [acquire EXCEPT ![c] = FALSE]
            /\ nextSync' = [nextSync EXCEPT ![c] = SyncAfter(elapsed[c])]
            /\ UNCHANGED <<hostCores, elapsed, at, late, localClock, toRelease,
                           next, global, failed>>

(* stallThread, waiting until another thread resumes this one or, for a    *)
(* timed wait, its timeout.  If no thread is left running the stalling     *)
(* thread advances the barrier itself before it waits.                     *)
Stall(c, out) ==
    LET p == [pc EXCEPT ![c] = "stalled"]
        a == [at EXCEPT ![c] = out]
    IN  /\ Executes(c)
        /\ IF \E d \in Cores : Runs(p[d]) \/ p[d] = "init"
           THEN Signal(p, a)
           ELSE IF \E d \in Cores : p[d] = "stalled" /\ a[d] # Never
                THEN Advance(p, a)
                ELSE NoTimeoutLeft(p, a)
        /\ UNCHANGED <<hostCores, elapsed, nextSync, late, localClock>>

\* A running thread resumes a stalled one: the resumed one goes on at its time.
Resume(c, d) == /\ Executes(c) /\ pc[d] = "stalled"
                /\ pc' = [pc EXCEPT ![d] = "waking"]
                /\ at' = [at EXCEPT ![d] = elapsed[c]]
                /\ UNCHANGED <<hostCores, elapsed, nextSync, late, serverVars>>

\* A resumed thread moves its core's clock to the time of the resume.
Awake(c) == /\ pc[c] = "waking"
            /\ pc' = [pc EXCEPT ![c] = "app"]
            /\ elapsed' = [elapsed EXCEPT ![c] = Later(@, at[c])]
            /\ at' = [at EXCEPT ![c] = 0]
            /\ UNCHANGED <<hostCores, nextSync, late, serverVars>>

(* A blocking system call: the thread is marked stalled but nothing waits  *)
(* for it.  When it returns, runExit and unblock read the barrier time and *)
(* only then take the lock to mark the thread running.                     *)
SyscallEnter(c) == LET p == [pc EXCEPT ![c] = "syscall"]
                   IN  /\ Executes(c)
                       /\ Signal(p, at)
                       /\ UNCHANGED <<hostCores, elapsed, nextSync, late, localClock>>

SyscallRead(c) == /\ pc[c] = "syscall"
                  /\ pc' = [pc EXCEPT ![c] = "returning"]
                  /\ at' = [at EXCEPT ![c] = next]
                  /\ UNCHANGED <<hostCores, elapsed, nextSync, late, serverVars>>

SyscallExit(c) == /\ pc[c] = "returning"
                  /\ pc' = [pc EXCEPT ![c] = "waking"]
                  /\ late' = (late \/ Later(elapsed[c], at[c]) < global)
                  /\ UNCHANGED <<hostCores, elapsed, nextSync, at, serverVars>>

(* createThread takes a free core; the new thread will start at the time   *)
(* its creator read, whenever its host thread gets to onThreadStart, which *)
(* also signals one released core (HOOK_THREAD_MIGRATE).                   *)
Create(c, d) == /\ Executes(c) /\ pc[d] = "idle"
                /\ pc' = [pc EXCEPT ![d] = "init"]
                /\ at' = [at EXCEPT ![d] = elapsed[c]]
                /\ UNCHANGED <<hostCores, elapsed, nextSync, late, serverVars>>

Start(c) == /\ pc[c] = "init"
            /\ pc' = [pc EXCEPT ![c] = "app"]
            /\ elapsed' = [elapsed EXCEPT ![c] = Later(@, at[c])]
            /\ at' = [at EXCEPT ![c] = 0]
            /\ late' = (late \/ Later(elapsed[c], at[c]) < global)
            /\ toRelease' = OneReleased
            /\ UNCHANGED <<hostCores, nextSync, localClock, acquire, next,
                           global, failed>>

(* onThreadExit: it resumes the thread that joins on this one and a waiter *)
(* on its thread id, then the barrier is checked.                          *)
Exit(c) == /\ Executes(c)
           /\ \E W \in SUBSET {d \in Cores : pc[d] = "stalled"} :
                 /\ Cardinality(W) <= 2
                 /\ Signal(Resumed([pc EXCEPT ![c] = "idle"], W),
                           ResumedAt(at, W, elapsed[c]))
           /\ UNCHANGED <<hostCores, elapsed, nextSync, late, localClock>>

Step(c) == \/ Run(c) \/ SynchronizeEarly(c) \/ Synchronize(c) \/ Leave(c) \/ Awake(c)
           \/ Stall(c, Never)
           \/ \E d \in Timeouts : Stall(c, elapsed[c] + d)
           \/ (c \in Callers /\ SyscallEnter(c)) \/ SyscallRead(c) \/ SyscallExit(c)
           \/ Start(c) \/ Exit(c)
           \/ \E d \in Cores : Resume(c, d) \/ (c \in Spawners /\ Create(c, d))

\* The queues of timed waits after the step.
Queued == ahead' = [c \in Cores |-> {d \in Ahead(c) : /\ Timed(pc', at', c)
                                                     /\ Timed(pc', at', d)}]

\* A failed assertion ends the simulation.
Next == failed = {} /\ \E c \in Cores : Step(c) /\ Queued

Spec == Init /\ [][Next]_vars

(* A thread that runs keeps executing and checking in, one that waits in   *)
(* the barrier or was resumed or created gets the lock in the end.  That a *)
(* thread stalls, exits or returns from a system call is its own affair.   *)
Proceeds(c) == SynchronizeEarly(c) \/ Synchronize(c) \/ Leave(c) \/ Awake(c) \/ Start(c)

Fairness == \A c \in Cores : /\ SF_vars(failed = {} /\ Run(c) /\ Queued)
                             /\ WF_vars(failed = {} /\ Proceeds(c) /\ Queued)

----------------------------------------------------------------------------
(* Times never become negative and the count of unsignalled cores does not  *)
(* wrap below zero, whichever calls take cores from it.                    *)
TypeOK == /\ hostCores \in HostCounts
          /\ pc \in [Cores -> States]
          /\ elapsed \in [Cores -> Nat]
          /\ nextSync \in [Cores -> Nat]
          /\ at \in [Cores -> Nat \cup {Never}]
          /\ ahead \in [Cores -> SUBSET Cores]
          /\ localClock \in [Cores -> Nat]
          /\ acquire \in [Cores -> BOOLEAN]
          /\ toRelease \in Nat
          /\ next \in Nat
          /\ global \in Nat
          /\ failed \subseteq {"not restarted", "deadlocked"}
          /\ late \in BOOLEAN

\* The clock of a running thread, or of a resumed one once it has moved it.
GoesOnAt(c) == IF pc[c] = "waking" THEN Later(elapsed[c], at[c]) ELSE elapsed[c]

(* The global time, which queue models, statistics and DVFS take for the   *)
(* past of every core, is never ahead of a running thread, unless a thread *)
(* has started or come out of a blocking call with a time read before the  *)
(* lock was taken and overtaken since.                                     *)
GlobalTimeIsPast == ~late => \A c \in Cores : Runs(pc[c]) => global <= GoesOnAt(c)

(* The assertion "Reached the barrier while some threads haven't even      *)
(* restarted?" holds when the host can run all cores but two at a time,    *)
(* although released cores that overshot count as having reached the next  *)
(* barrier before they run.                                                *)
RestartedBeforeNextBarrier ==
    (hostCores = -1 \/ hostCores >= Cardinality(Cores) - 2) => "not restarted" \notin failed

(* The acquire list names only threads inside the barrier: the assertion   *)
(* of synchronize() that a core is not in the barrier already.             *)
OnlyWaitersInList == \A c \in Cores : acquire[c] => pc[c] = "barrier"

(* No thread is left that could come to the barrier or stall, and one has  *)
(* exited or is in a system call: nobody calls advance() any more.         *)
NobodyAdvances == /\ \A c \in Cores : pc[c] \in {"idle", "stalled", "syscall", "returning"}
                  /\ \E c \in Cores : pc[c] # "stalled"

(* A timed wait ends: the barrier time passes its timeout and the periodic *)
(* hook, which wakes one thread of a queue at a time, comes to it, however *)
(* often the other threads run, stall, time out again, create threads or   *)
(* enter system calls.  It may go on for ever only if the threads that ran *)
(* have exited or stay in system calls, when nothing advances the barrier, *)
(* or if barrierRelease's first assertion has stopped the simulation.      *)
TimedWaitsEnd ==
    \A c \in Cores :
       []<>~(NobodyAdvances \/ "not restarted" \in failed) => []<>~Timed(pc, at, c)
=============================================================================
