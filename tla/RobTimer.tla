------------------------------ MODULE RobTimer ------------------------------
(* The reorder buffer of a core (RobTimer) and how it gives up at a page    *)
(* fault.  Uops wait in program order: the first m_num_in_rob have been     *)
(* dispatched, the others are the pre-ROB buffer.  Time is left out: a uop  *)
(* that is dispatched may issue as soon as its kind allows, and commit once *)
(* it has; a stalled front end is a cycle in which nothing is dispatched.   *)
EXTENDS Naturals, Sequences, FiniteSetsExt, SequencesExt

CONSTANTS DispatchWidth, WindowSize, NoPage
ASSUME RobAssumption == DispatchWidth \in Nat \ {0} /\ WindowSize \in Nat \ {0}

VARIABLES rob,                  \* uops, the oldest first
          m_num_in_rob,         \* how many of them are dispatched
          m_checkpointed_ops    \* what the last page fault flushed, or empty

robVars == <<rob, m_num_in_rob, m_checkpointed_ops>>

\* A uop of instruction number inst; page is NoPage if it touches no memory.
Uop(inst, page, store, last) ==
    [inst |-> inst, page |-> page, store |-> store, last |-> last, done |-> FALSE]

RobInit == rob = <<>> /\ m_num_in_rob = 0 /\ m_checkpointed_ops = <<>>

\* simulate: the checkpoint, if the application runs again, then the new uops.
Simulate(uops, app) ==
    /\ rob' = rob \o (IF app THEN m_checkpointed_ops ELSE <<>>) \o uops
    /\ m_checkpointed_ops' = IF app THEN <<>> ELSE m_checkpointed_ops
    /\ UNCHANGED m_num_in_rob

\* execute wants twice the dispatch width of uops waiting, or asks for more.
Enough == Len(rob) >= m_num_in_rob + 2 * DispatchWidth

\* doDispatch, in a cycle that has enough uops; drainRob takes what there is.
Dispatch(draining) ==
    /\ draining \/ Enough
    /\ \E k \in 1..Min({DispatchWidth, WindowSize - m_num_in_rob, Len(rob) - m_num_in_rob}) :
          m_num_in_rob' = m_num_in_rob + k
    /\ UNCHANGED <<rob, m_checkpointed_ops>>

\* doIssue: a store waits until everything before it has been issued.
CanIssue(i) ==
    /\ ~rob[i].done
    /\ rob[i].store => \A j \in 1..(i - 1) : rob[j].done

\* issueInstruction, if the access does not fault.
Issue(i) ==
    /\ rob' = [rob EXCEPT ![i].done = TRUE]
    /\ UNCHANGED <<m_num_in_rob, m_checkpointed_ops>>

\* Mutations: only the dispatched part is checkpointed; nothing is flushed.
SavesDispatched ==
    [i \in 1..m_num_in_rob |-> [rob[i] EXCEPT !.done = FALSE]]
SaveCheckpoint == [i \in DOMAIN rob |-> [rob[i] EXCEPT !.done = FALSE]]

StopsOnly == UNCHANGED <<rob, m_num_in_rob>>
FlushRobInstant == rob' = <<>> /\ m_num_in_rob' = 0

\* issueInstruction at a page fault: all uops are kept for later.
IssueFaults ==
    /\ m_checkpointed_ops' = SaveCheckpoint
    /\ FlushRobInstant

\* doCommit: the oldest uop leaves.
CanCommit == m_num_in_rob > 0 /\ rob[1].done
Commit ==
    /\ rob' = Tail(rob)
    /\ m_num_in_rob' = m_num_in_rob - 1
    /\ UNCHANGED m_checkpointed_ops
=============================================================================
