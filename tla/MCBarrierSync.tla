--------------------------- MODULE MCBarrierSync ---------------------------
(***************************************************************************)
(* Small instances of the clock-skew barrier, for runs without end.  The   *)
(* server and its clients only compare times, add quanta to them and round *)
(* them to quanta, so all times may be set back by a quantum whenever the  *)
(* global time has come to two.                                            *)
(***************************************************************************)
EXTENDS BarrierSync

CONSTANT Lead   \* bound: how far a clock gets ahead of the barrier time

ASSUME LeadAssumption == Lead \in Nat

Shift == IF global < 2 * Quantum THEN 0 ELSE Quantum

(* The whole quanta by which the clock of core c is further ahead of the   *)
(* barrier time than Lead: the clock is set back by as much, and its next  *)
(* check-in with it.                                                       *)
Excess(c) == LET x == Later(0, elapsed[c] - next - Lead)
             IN  ((x + Quantum - 1) \div Quantum) * Quantum

InBounds == Shift = 0 /\ \A c \in Cores : Excess(c) = 0

(* Bound: a time a quantum or more behind the global time, such as the     *)
(* clock of a thread that stalled long ago, stays a quantum behind it.     *)
Back(t, by) == IF t = Never THEN Never ELSE Later(0, t - by)

Earlier(t, u) == IF u < t THEN u ELSE t

(* Every time goes back, and the history variable forgets a late thread    *)
(* once the running ones have caught up with the global time.              *)
SetBack ==
    /\ ~InBounds
    /\ elapsed' = [c \in Cores |-> Back(elapsed[c], Shift + Excess(c))]
    /\ nextSync' = [c \in Cores |-> Back(nextSync[c], Shift + Excess(c))]
    /\ localClock' = [c \in Cores |-> Earlier(Back(localClock[c], Shift), elapsed'[c])]
    /\ at' = [c \in Cores |-> Back(at[c], Shift)]
    /\ next' = Back(next, Shift)
    /\ global' = Back(global, Shift)
    /\ late' = \E c \in Cores : Runs(pc[c]) /\ GoesOnAt(c) < global
    /\ UNCHANGED <<hostCores, pc, ahead, acquire, toRelease, failed>>

MCNext == (InBounds /\ Next) \/ SetBack

MCSpec == Init /\ [][MCNext]_vars /\ WF_vars(SetBack) /\ Fairness
=============================================================================
