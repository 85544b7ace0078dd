----------------------------- MODULE ThreadSync -----------------------------
(***************************************************************************)
(* How simulated threads wait for each other: the emulated pthread         *)
(* mutexes, condition variables and barriers (SyncServer), the emulated    *)
(* futex and sleep calls (SyscallServer), pthread_join and the start and   *)
(* end of threads (ThreadManager).  All of it runs under the thread        *)
(* manager's lock, so a call is one step.  Times are left out: a timeout   *)
(* lies ahead or has passed, and the clock-skew barrier (BarrierSync) runs *)
(* the periodic hook now and then, from a running thread's check-in or     *)
(* from inside stallThread.                                                *)
(*                                                                         *)
(* The application is assumed to unlock only mutexes it holds and to hold  *)
(* none when a thread exits.  A futex call whose value does not match      *)
(* returns without effect.  Bit masks of waiters and wakers always meet.   *)
(***************************************************************************)
EXTENDS Integers, FiniteSets, SequencesExt

CONSTANTS Threads, Mutexes, Conds, Futexes,
          Main,      \* the thread that runs first
          Count,     \* how many threads the application's barrier is for
          None       \* NO_OWNER, INVALID_THREAD_ID

VARIABLES status,   \* m_thread_state[t].status; "none" before the thread exists
          host,     \* what the thread's host thread does: "run", "wait" in
                    \* Thread::wait, "none" before its start and after its end
          waiter,   \* m_thread_state[t].waiter: who joins on t
          owner,    \* m_owner of each mutex
          queue,    \* the wait queues
          failed,   \* assertions that have failed: the simulation ends
          holds,    \* history: the mutexes each thread holds when it runs
          letGo     \* history: joiners let go by the start of their thread

vars == <<status, host, waiter, owner, queue, failed, holds, letGo>>

\* The queue of the barrier and the list of sleeping threads.
AtBarrier == "barrier"
Sleeping == "sleeping"

Places == Mutexes \cup Conds \cup Futexes \cup {AtBarrier, Sleeping}

\* Mutexes, conditions and futexes are kept in maps of their own.
ASSUME SyncConstants == /\ IsFiniteSet(Threads) /\ Main \in Threads
                        /\ Count \in Nat \ {0}
                        /\ None \notin Threads \cup Mutexes \cup Futexes
                        /\ Mutexes \cap Conds = {} /\ Mutexes \cap Futexes = {}
                        /\ Conds \cap Futexes = {}
                        /\ {AtBarrier, Sleeping} \cap (Mutexes \cup Conds \cup Futexes) = {}

Timeouts == {"never", "ahead", "passed"}

\* A waiter's record: a condition's also names the mutex to lock again.
Waiter(t, out, m) == [thread |-> t, timeout |-> out, mutex |-> m]

Init == /\ status = [t \in Threads |-> IF t = Main THEN "initializing" ELSE "none"]
        /\ host = [t \in Threads |-> "none"]
        /\ waiter = [t \in Threads |-> None]
        /\ owner = [m \in Mutexes |-> None]
        /\ queue = [p \in Places |-> <<>>]
        /\ failed = {}
        /\ holds = [t \in Threads |-> {}]
        /\ letGo = {}

Running(t) == host[t] = "run" /\ failed = {}

----------------------------------------------------------------------------
(* Stalling and resuming *)

Marked(f, S, v) == [x \in DOMAIN f |-> IF x \in S THEN v ELSE f[x]]

\* Enqueued at the end of the queue q[p].
Enqueue(q, p, w) == [q EXCEPT ![p] = Append(@, w)]

\* resumeThread for each thread in W, by a thread that goes on itself.
Resume(W) == /\ status' = Marked(status, W, "running")
             /\ host' = Marked(host, W, "run")
             /\ letGo' = letGo \ W

\* Mutation: only the first waiter is looked at.
LooksAtFirst(s) == IF s # <<>> /\ Head(s).timeout = "passed" THEN 1 ELSE 0

(* The first waiter whose timeout has passed, if there is one.  The hook   *)
(* wakes one sleeper and one waiter of each futex.                         *)
FirstPassed(s) == SelectInSeq(s, LAMBDA w : w.timeout = "passed")

Timed == Futexes \cup {Sleeping}

\* Mutation: a waiter that timed out stays in its queue.
StaysQueued(q) == q

\* What futexPeriodic leaves in the queues and whom it wakes.
AfterPeriodic(q) == [p \in Places |-> IF p \in Timed /\ FirstPassed(q[p]) # 0
                                      THEN RemoveAt(q[p], FirstPassed(q[p]))
                                      ELSE q[p]]

TimedOut(q) == {q[p][FirstPassed(q[p])].thread : p \in {r \in Timed : FirstPassed(q[r]) # 0}}

\* Time passes: some of the timeouts that lie ahead have passed.
Waiters(q, out) == {t \in Threads : \E p \in Timed : \E i \in DOMAIN q[p] :
                                       q[p][i].thread = t /\ q[p][i].timeout = out}

Passing(q, S) == [p \in Places |->
                    [i \in DOMAIN q[p] |->
                       IF q[p][i].thread \in S THEN [q[p][i] EXCEPT !.timeout = "passed"]
                                               ELSE q[p][i]]]

\* Mutation: a thread woken by the hook inside its own stall waits all the same.
WaitsAnyway(t, W) == "wait"

\* A thread resumed before it came to wait does not wait.
WaitOrReturn(t, W) == IF t \in W THEN "run" ELSE "wait"

(* stallThread of t, already in the queues q, after the threads in R were  *)
(* resumed.  The hook may run once, on the way to sleep; when no thread is *)
(* left running or starting, the caller runs it until it wakes somebody,   *)
(* and fails if nobody has a timeout.                                      *)
Stall(t, q, R) ==
    LET st == [Marked(status, R, "running") EXCEPT ![t] = "stalled"]
        Wake(q2, W) == /\ queue' = q2
                       /\ status' = Marked(st, W, "running")
                       /\ host' = [Marked(host, R \cup W, "run") EXCEPT ![t] = WaitOrReturn(t, W)]
                       /\ letGo' = letGo \ (R \cup W \cup {t})
                       /\ failed' = {}
    IN  IF \E u \in Threads : st[u] \in {"running", "initializing"}
        THEN \/ Wake(q, {})
             \/ /\ \E u \in Threads : st[u] = "running"
                /\ \E S \in SUBSET Waiters(q, "ahead") :
                      Wake(AfterPeriodic(Passing(q, S)), TimedOut(Passing(q, S)))
        ELSE IF Waiters(q, "ahead") \cup Waiters(q, "passed") # {}
             THEN \E S \in SUBSET Waiters(q, "ahead") :
                     /\ TimedOut(Passing(q, S)) # {}
                     /\ Wake(AfterPeriodic(Passing(q, S)), TimedOut(Passing(q, S)))
             ELSE /\ failed' = {"deadlocked"}
                  /\ queue' = q /\ status' = st
                  /\ host' = [Marked(host, R, "run") EXCEPT ![t] = "wait"]
                  /\ letGo' = letGo \ {t}

\* The hook as a running thread's check-in at the skew barrier calls it.
Periodic ==
    /\ \E t \in Threads : Running(t) /\ status[t] = "running"
    /\ \E S \in SUBSET Waiters(queue, "ahead") :
          LET q == Passing(queue, S)
          IN  /\ queue' = AfterPeriodic(q)
              /\ Resume(TimedOut(q))
    /\ UNCHANGED <<waiter, owner, failed, holds>>

----------------------------------------------------------------------------
(* Mutexes *)

\* SimMutex::lock for a thread that finds the mutex free, or taken.
MutexLock(t, m) ==
    /\ Running(t)
    /\ IF owner[m] = None
       THEN /\ owner' = [owner EXCEPT ![m] = t]
            /\ UNCHANGED <<status, host, queue, failed, letGo>>
       ELSE /\ Stall(t, Enqueue(queue, m, Waiter(t, "never", None)), {})
            /\ owner' = owner
    /\ holds' = [holds EXCEPT ![t] = @ \cup {m}]
    /\ waiter' = waiter

(* mutexLock with tryLock: it fails when another thread holds the mutex,   *)
(* and a thread that holds it itself is queued behind itself.              *)
MutexTryLock(t, m) == owner[m] \in {None, t} /\ MutexLock(t, m)

\* The next owner: the first waiter, or nobody.
NextOwner(m) == IF queue[m] = <<>> THEN None ELSE Head(queue[m]).thread

\* SimMutex::unlock: the owner, the queues and the threads it resumes.
Unlocked(m) == [owner |-> [owner EXCEPT ![m] = NextOwner(m)],
                queue |-> IF queue[m] = <<>> THEN queue
                                             ELSE [queue EXCEPT ![m] = Tail(@)],
                woken |-> {NextOwner(m)} \ {None}]

MutexUnlock(t, m) == /\ Running(t) /\ m \in holds[t]
                     /\ owner' = Unlocked(m).owner
                     /\ queue' = Unlocked(m).queue
                     /\ Resume(Unlocked(m).woken)
                     /\ holds' = [holds EXCEPT ![t] = @ \ {m}]
                     /\ UNCHANGED <<waiter, failed>>

----------------------------------------------------------------------------
(* Condition variables *)

\* SimCond::wait: unlock, queue up, stall; the thread returns with the mutex.
CondWait(t, c, m) ==
    LET u == Unlocked(m)
    IN  /\ Running(t) /\ m \in holds[t]
        /\ owner' = u.owner
        /\ Stall(t, Enqueue(u.queue, c, Waiter(t, "never", m)), u.woken)
        /\ UNCHANGED <<waiter, holds>>

\* Mutation: a signalled thread runs at once, whoever has its mutex.
RunsAtOnce(s, w) == [s EXCEPT !.woken = @ \cup {w.thread}]

\* SimMutex::lock_async: the woken waiter gets its mutex or queues for it.
LockAsync(s, w) == IF s.owner[w.mutex] = None
                   THEN [s EXCEPT !.owner[w.mutex] = w.thread,
                                  !.woken = @ \cup {w.thread}]
                   ELSE [s EXCEPT !.queue = Enqueue(@, w.mutex, Waiter(w.thread, "never", None))]

\* One turn of the loop: the first waiter is popped and locks its mutex again.
WakeFirst(s, c) == LockAsync([s EXCEPT !.queue[c] = Tail(@)], Head(s.queue[c]))

\* n turns.
Woken(c, n) == LET s[i \in 0..n] ==
                       IF i = 0 THEN [owner |-> owner, queue |-> queue, woken |-> {}]
                                ELSE WakeFirst(s[i - 1], c)
               IN  s[n]

WakeWaiters(t, c, n) == LET s == Woken(c, n)
                        IN  /\ Running(t)
                            /\ owner' = s.owner
                            /\ queue' = s.queue
                            /\ Resume(s.woken)
                            /\ UNCHANGED <<waiter, failed, holds>>

CondSignal(t, c) == queue[c] # <<>> /\ WakeWaiters(t, c, 1)

CondBroadcast(t, c) == WakeWaiters(t, c, Len(queue[c]))

----------------------------------------------------------------------------
(* The application's barrier *)

\* The caller is the last one the barrier is for.
LastToCome == Len(queue[AtBarrier]) = Count - 1

InQueue(s) == {s[i].thread : i \in DOMAIN s}

BarrierWait(t) ==
    /\ Running(t)
    /\ IF LastToCome
       THEN /\ queue' = [queue EXCEPT ![AtBarrier] = <<>>]
            /\ Resume(InQueue(queue[AtBarrier]))
            /\ failed' = failed
       ELSE Stall(t, Enqueue(queue, AtBarrier, Waiter(t, "never", None)), {})
    /\ UNCHANGED <<waiter, owner, holds>>

----------------------------------------------------------------------------
(* Futexes and sleep *)

Sleep(t) == /\ Running(t)
            /\ Stall(t, Enqueue(queue, Sleeping, Waiter(t, "ahead", None)), {})
            /\ UNCHANGED <<waiter, owner, holds>>

\* FUTEX_WAIT whose value matches, with a timeout or none.
FutexWait(t, f, out) == /\ Running(t)
                        /\ Stall(t, Enqueue(queue, f, Waiter(t, out, None)), {})
                        /\ UNCHANGED <<waiter, owner, holds>>

Least(a, b) == IF a < b THEN a ELSE b

\* dequeueWaiter, n times or until nobody waits.
Dequeued(q, f, n) == [q EXCEPT ![f] = SubSeq(@, n + 1, Len(@))]
DequeuedThreads(q, f, n) == InQueue(SubSeq(q[f], 1, Least(n, Len(q[f]))))

FutexWake(t, f, n) == /\ Running(t)
                      /\ queue' = Dequeued(queue, f, n)
                      /\ Resume(DequeuedThreads(queue, f, n))
                      /\ UNCHANGED <<waiter, owner, failed, holds>>

\* FUTEX_WAKE_OP: the second futex only if the compared value says so.
FutexWakeOp(t, f, n, g, k) ==
    LET q == Dequeued(queue, f, n)
    IN  /\ Running(t)
        /\ \/ queue' = q /\ Resume(DequeuedThreads(queue, f, n))
           \/ /\ queue' = Dequeued(q, g, k)
              /\ Resume(DequeuedThreads(queue, f, n) \cup DequeuedThreads(q, g, k))
        /\ UNCHANGED <<waiter, owner, failed, holds>>

\* FUTEX_CMP_REQUEUE: n are woken, the rest moves to g with its timeouts.
FutexCmpRequeue(t, f, n, g) ==
    /\ Running(t) /\ f # g
    /\ queue' = [queue EXCEPT ![f] = <<>>, ![g] = @ \o Dequeued(queue, f, n)[f]]
    /\ Resume(DequeuedThreads(queue, f, n))
    /\ UNCHANGED <<waiter, owner, failed, holds>>

----------------------------------------------------------------------------
(* The life of a thread *)

Create(t, u) == /\ Running(t) /\ status[u] = "none"
                /\ status' = [status EXCEPT ![u] = "initializing"]
                /\ UNCHANGED <<host, waiter, owner, queue, failed, holds, letGo>>

(* onThreadStart signals whoever is registered as waiting for the thread,  *)
(* a caller of joinThread too, and leaves that thread's status as it was.  *)
Start(t) == LET W == {waiter[t]} \ {None}
            IN  /\ status[t] = "initializing" /\ failed = {}
                /\ status' = [status EXCEPT ![t] = "running"]
                /\ host' = [Marked(host, W, "run") EXCEPT ![t] = "run"]
                /\ waiter' = [waiter EXCEPT ![t] = None]
                /\ letGo' = letGo \cup W
                /\ UNCHANGED <<owner, queue, failed, holds>>

\* Mutation: the caller waits for the thread although it has ended.
JoinsTheDead(t, u) == /\ Running(t) /\ u # t /\ status[u] # "none" /\ waiter[u] = None
                      /\ waiter' = [waiter EXCEPT ![u] = t]
                      /\ Stall(t, queue, {})
                      /\ UNCHANGED <<owner, holds>>

\* joinThread on a thread that has not ended and on which nobody joins yet.
Join(t, u) == /\ Running(t) /\ u # t
              /\ status[u] \notin {"none", "idle"} /\ waiter[u] = None
              /\ waiter' = [waiter EXCEPT ![u] = t]
              /\ Stall(t, queue, {})
              /\ UNCHANGED <<owner, holds>>

(* onThreadExit: the joiner is resumed, and one waiter on the futex at the *)
(* thread id (CLONE_CHILD_CLEARTID) if there is one.                       *)
Exit(t) == /\ Running(t) /\ holds[t] = {} /\ status[t] = "running"
           /\ \E f \in Futexes \cup {None} :
                 LET W == ({waiter[t]} \ {None})
                          \cup (IF f = None THEN {} ELSE DequeuedThreads(queue, f, 1))
                 IN  /\ queue' = IF f = None THEN queue ELSE Dequeued(queue, f, 1)
                     /\ status' = [Marked(status, W, "running") EXCEPT ![t] = "idle"]
                     /\ host' = [Marked(host, W, "run") EXCEPT ![t] = "none"]
                     /\ letGo' = letGo \ W
           /\ waiter' = [waiter EXCEPT ![t] = None]
           /\ UNCHANGED <<owner, failed, holds>>

\* Its assertion: a thread let go by a start is still marked as stalled.
ExitStalled(t) == /\ Running(t) /\ holds[t] = {} /\ status[t] # "running"
                  /\ failed' = {"exit while not running"}
                  /\ UNCHANGED <<status, host, waiter, owner, queue, holds, letGo>>

Step(t) ==
    \/ \E m \in Mutexes : \/ MutexLock(t, m) \/ MutexTryLock(t, m) \/ MutexUnlock(t, m)
                          \/ \E c \in Conds : CondWait(t, c, m)
    \/ \E c \in Conds : CondSignal(t, c) \/ CondBroadcast(t, c)
    \/ BarrierWait(t)
    \/ Sleep(t)
    \/ \E f \in Futexes : \/ \E out \in {"never", "ahead"} : FutexWait(t, f, out)
                          \/ \E n \in 1..Cardinality(Threads) : FutexWake(t, f, n)
                          \/ \E g \in Futexes : \/ FutexWakeOp(t, f, 1, g, 1)
                                                \/ FutexCmpRequeue(t, f, 1, g)
    \/ Start(t)
    \/ \E u \in Threads : Create(t, u) \/ Join(t, u)
    \/ Exit(t) \/ ExitStalled(t)

Next == Periodic \/ \E t \in Threads : Step(t)

Spec == Init /\ [][Next]_vars

(* Running threads check in at the skew barrier again and again, and its   *)
(* time moves past every timeout (BarrierSync); a created thread starts.   *)
TimePasses == /\ \E t \in Threads : Running(t) /\ status[t] = "running"
              /\ LET q == Passing(queue, Waiters(queue, "ahead"))
                 IN  /\ queue' = AfterPeriodic(q)
                     /\ Resume(TimedOut(q))
              /\ UNCHANGED <<waiter, owner, failed, holds>>

FairSpec == /\ Spec
            /\ WF_vars(TimePasses)
            /\ \A t \in Threads : WF_vars(Start(t))

----------------------------------------------------------------------------
\* Where t waits: its entries in the queues and the threads it joins on.
PlacesOf(t) == (UNION {{p} \X {i \in DOMAIN queue[p] : queue[p][i].thread = t} : p \in Places})
               \cup ({u \in Threads : waiter[u] = t} \X {0})

(* A thread that waits is registered in exactly one place, so somebody can *)
(* wake it and only once; a thread that runs, whether it was woken,        *)
(* signalled, timed out or requeued before, is registered nowhere.         *)
InOnePlace == \A t \in Threads : Cardinality(PlacesOf(t)) = IF host[t] = "wait" THEN 1 ELSE 0

(* The thread manager's status tells waiting threads from running ones     *)
(* (the skew barrier and the deadlock check rely on it), except for a      *)
(* thread that joined on one not yet started, which that one's start lets  *)
(* go while still marked as stalled.                                       *)
StatusKnown == \A t \in Threads : /\ host[t] = "wait" => status[t] = "stalled"
                                  /\ host[t] = "run" /\ t \notin letGo => status[t] = "running"

(* A thread that runs owns exactly the mutexes it has locked: also when it *)
(* comes back from a condition wait whose mutex others took meanwhile.  A  *)
(* mutex somebody waits for has an owner that has not ended.               *)
HoldersOwn == \A m \in Mutexes :
                 /\ \A t \in Threads : host[t] = "run" => (m \in holds[t] <=> owner[m] = t)
                 /\ queue[m] # <<>> => owner[m] # None /\ host[owner[m]] # "none"

\* Nobody waits in pthread_join for a thread that has ended.
JoinNotStranded == \A t \in Threads : status[t] = "idle" => waiter[t] = None

\* Time passes only while a thread known to run checks in.
NobodyChecksIn == \A t \in Threads : host[t] = "run" => status[t] # "running"

(* A thread that sleeps or waits on a futex with a timeout runs again,     *)
(* although the hook wakes one of them at a time and futexes are requeued, *)
(* unless an assertion fails or there is nobody left whose check-ins make  *)
(* time pass.                                                              *)
TimedWaitsReturn ==
    \A t \in Threads : (t \in Waiters(queue, "ahead") \cup Waiters(queue, "passed"))
                          ~> (host[t] = "run" \/ failed # {} \/ []NobodyChecksIn)
=============================================================================
