------------------------------ MODULE ShmemMsg ------------------------------
(***************************************************************************)
(* What the last-level caches and the directory exchange.  A machine is    *)
(* the configuration the simulator is started with: the protocol variant,  *)
(* the cores and the last-level cache (node) each one belongs to, the      *)
(* lines in play, those of them that share their sets in a node's caches   *)
(* with other lines the node uses (contended: they may be evicted there),  *)
(* the ways of the one directory set all of them map to and the number of  *)
(* sharers an entry can hold.                                              *)
(*                                                                         *)
(* A node's transport queue is one FIFO filled by every sender.  All       *)
(* causality between two nodes runs through the directory, so one FIFO per *)
(* sender at the directory has the same behaviours and fewer states.       *)
(***************************************************************************)
EXTENDS Naturals, Sequences, FiniteSets

CONSTANTS Machines, \* the configurations to explore
          Nobody    \* INVALID_CORE_ID, and "no line" for the network thread

\* Every node has a core, an entry can hold one sharer, and the directory
\* has at least one way.
ASSUME MachinesAssumption ==
  \A m \in Machines :
    /\ m.protocol \in {"MSI", "MESI", "MESIF"}
    /\ \A c \in DOMAIN m.nodeOf : m.nodeOf[c] \in Nat /\ m.nodeOf[c] # Nobody
    /\ Nobody \notin m.addrs
    /\ \A c \in DOMAIN m.nodeOf : m.contended[m.nodeOf[c]] \subseteq m.addrs
    /\ m.ways \in Nat \ {0} /\ m.maxHwSharers \in Nat \ {0}

VARIABLES machine,  \* the configuration of this execution
          toDir,    \* per node: messages on their way to the directory
          toCache,  \* per node: messages on their way to its last-level cache
          dram,     \* per line: what memory holds
          fromDram, \* read replies on their way from memory to the directory
          todo,     \* the request the directory thread is in the middle of
          failed    \* assertions of the code that have fired

outside == <<machine, toDir, toCache, dram, fromDram, todo, failed>>

Core == DOMAIN machine.nodeOf
Node == {machine.nodeOf[c] : c \in Core}
Addr == machine.addrs
CoresOf(n) == {c \in Core : machine.nodeOf[c] = n}

\* What a buffer holds: the last data written to the line, anything else, or
\* no buffer at all.
Data == {"last", "old"}
NoData == "null"

Requests == {"EX_REQ", "SH_REQ", "UPGRADE_REQ"}
Replies  == {"EX_REP", "SH_REP", "UPGRADE_REP"}
ShmemMsg == [type : Requests \cup {"INV_REP", "FLUSH_REP", "WB_REP"}
                    \cup Replies \cup {"INV_REQ", "FLUSH_REQ", "WB_REQ"},
             addr : Addr, data : Data \cup {NoData}]
Msg(type, a, data) == [type |-> type, addr |-> a, data |-> data]

\* Another core has written a: no buffer made earlier holds the last data.
Aged(data) == IF data = "last" THEN "old" ELSE data
AgedQueue(q, a) ==
  [i \in DOMAIN q |-> IF q[i].addr = a THEN [q[i] EXCEPT !.data = Aged(@)] ELSE q[i]]

\* The assertions whose condition is false, by name.
Broken(checks) == {name \in DOMAIN checks : ~checks[name]}
=============================================================================
