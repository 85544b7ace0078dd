---------------------------- MODULE MCCoherence -----------------------------
(* Machines to explore.  Two or three cores with a last-level cache each,   *)
(* or sharing one; a directory set with a way for every line, or one that   *)
(* must replace entries; entries that hold every sharer, or only one.       *)
EXTENDS Coherence

MachineOf(protocol, nodeOf, addrs, contended, ways, maxHwSharers) ==
  [protocol |-> protocol, nodeOf |-> nodeOf, addrs |-> addrs, contended |-> contended,
   ways |-> ways, maxHwSharers |-> maxHwSharers]
Protocols == {"MSI", "MESI", "MESIF"}

Private(count) == [c \in 0..count - 1 |-> c]
OneNode == [c \in 0..1 |-> 0]
PairAndOne == [c \in 0..2 |-> IF c = 2 THEN 1 ELSE 0]

\* The nodes in N evict the lines in A, the others need not.
Evicting(N, A) == [n \in 0..2 |-> IF n \in N THEN A ELSE {}]
Everywhere(A) == Evicting(0..2, A)

TwoNodes == {MachineOf(p, Private(2), {"a"}, Everywhere({"a"}), 1, 64) : p \in Protocols}
ThreeNodes == {MachineOf("MESIF", Private(3), {"a"}, Evicting({0, 1}, {"a"}), 1, 64)}
SharedLevel == {MachineOf("MESI", PairAndOne, {"a"}, Everywhere({"a"}), 1, 64)}
OneSharer == {MachineOf("MESI", Private(2), {"a"}, Everywhere({"a"}), 1, 1)}
SharedByAll == {MachineOf("MSI", OneNode, {"a"}, Everywhere({"a"}), 1, 64)}
FullSet == {MachineOf("MESI", Private(2), {"a", "b"}, Everywhere({}), 1, 64)}
SmallFullSet == {MachineOf("MESI", Private(1), {"a", "b"}, Everywhere({"a", "b"}), 1, 64)}

LiveMachines == TwoNodes \cup OneSharer \cup SharedByAll \cup SmallFullSet
AllMachines == LiveMachines \cup ThreeNodes \cup SharedLevel \cup FullSet
=============================================================================
