----------------------------- MODULE Coherence ------------------------------
(***************************************************************************)
(* The caches of all nodes, the directory and the memory together: the     *)
(* directory protocol as the cores see it.                                 *)
(***************************************************************************)
EXTENDS CacheCntlr, DramDirectoryCntlr

CONSTANT FairMachines  \* bound: the machines of which liveness is asked
ASSUME FairMachinesAssumption == FairMachines \subseteq Machines

caches == <<stack, waiters, serving>>
directory == <<tags, reqs>>
vars == <<outside, caches, directory>>

Init ==
  /\ machine \in Machines
  /\ toDir = [n \in Node |-> <<>>] /\ toCache = [n \in Node |-> <<>>]
  /\ dram = [a \in Addr |-> "last"] /\ fromDram = <<>>
  /\ todo = Idle /\ failed = {}
  /\ stack = [n \in Node |-> [a \in Addr |-> [l1 |-> [c \in CoresOf(n) |-> Invalid], llc |-> Invalid]]]
  /\ waiters = [n \in Node |-> [a \in Addr |-> <<>>]]
  /\ serving = [n \in Node |-> Nobody]
  /\ tags = [a \in Addr |-> NoEntry]
  /\ reqs = [a \in Addr |-> <<>>]

\* A core's thread: hits and misses, and the room a miss elsewhere makes.
CoreStep(c) ==
  /\ \E a \in Addr :
       \/ StoreHit(c, a)
       \/ \E exclusive \in BOOLEAN : LastLevelHit(c, a, exclusive) \/ LastLevelMiss(c, a, exclusive)
       \/ EvictPrev(c, a)
  /\ UNCHANGED directory

\* The network thread of node n, for the lines of the model.
NetworkStep(n) ==
  /\ WakeNext(n) \/ HandleReply(n) \/ HandleDemand(n)
  /\ UNCHANGED directory

EvictStep(n) ==
  /\ \E a \in Addr : Evict(n, a)
  /\ UNCHANGED directory

\* The directory's thread takes a message of node n, or one of memory, or
\* goes on with the request it is in the middle of.
FromCache(n) ==
  /\ HandleRequest(n) \/ HandleInvRep(n) \/ HandleFlushRep(n) \/ HandleWbRep(n)
  /\ UNCHANGED caches
FromDram == HandleDramReply /\ UNCHANGED caches
Continue ==
  /\ \/ ProcessExReq \/ ProcessShReq \/ ProcessUpgradeReq \/ ProcessNullifyReq
     \/ Allocate
  /\ UNCHANGED caches

\* A failed assertion ends the simulation.
Running == failed = {}
Next ==
  \/ /\ Running
     /\ \/ \E c \in Core : CoreStep(c)
        \/ \E n \in Node : NetworkStep(n) \/ EvictStep(n) \/ FromCache(n)
        \/ FromDram \/ Continue
  \/ ~Running /\ UNCHANGED vars
Spec == Init /\ [][Next]_vars

\* Every thread that handles messages is scheduled and serves its one FIFO
\* queue in order, so none of the per-sender queues here is passed over for
\* ever.  No core has to access anything.
Nodes == UNION {{m.nodeOf[c] : c \in DOMAIN m.nodeOf} : m \in FairMachines}
Cores == UNION {DOMAIN m.nodeOf : m \in FairMachines}
Goes == machine \in FairMachines /\ Running
Fairness ==
  /\ \A n \in Nodes : WF_vars(Goes /\ n \in Node /\ NetworkStep(n))
  /\ \A n \in Nodes : SF_vars(Goes /\ n \in Node /\ FromCache(n))
  /\ SF_vars(Goes /\ FromDram)
  /\ WF_vars(Goes /\ Continue)
FairSpec == Spec /\ Fairness

-----------------------------------------------------------------------------
\* No assertion of the cache and directory controllers fires, whatever order
\* demands, replies, voluntary evictions and memory answers cross in: no reply
\* for a line that is already there or that nobody waits for, no UPGRADE_REP
\* for a line that is not SHARED_UPGRADING, no reply from a node that is not a
\* sharer, no modified data invalidated away.  This is claimed of entries that
\* can name every node, or a single one: with room for some but not all (the
\* limited directory types) a sharer recalled to make room is mistaken for the
\* answer to another demand, and the assertions against an upgrade of an
\* invalid line and against an INV_REP for a modified one do fire.  The
\* allocation that finds requests queued on every way of its set is reached
\* only with more cores than ways.
AssertionsHold ==
  machine.maxHwSharers \notin 2..(Cardinality(Node) - 1) =>
    failed \subseteq IF machine.ways < Cardinality(Core) THEN {"redmine_175"} ELSE {}

\* A node whose last-level cache may write a line is the only one with a copy
\* of it: EX_REP and UPGRADE_REP go out only after every other copy is gone.
SingleWriter ==
  \A a \in Addr, n \in Node : stack[n][a].llc.st \in {"E", "M"} =>
     \A m \in Node \ {n} : stack[m][a].llc.st = "I"

\* The hierarchy is inclusive: a first-level copy has its line in the last
\* level, and a modified one has it in M there, so that its data finds a home
\* on a write-back.
Inclusion ==
  \A a \in Addr, n \in Node : \A c \in CoresOf(n) :
    LET k == stack[n][a] IN
    /\ k.l1[c].st # "I" => k.llc.st # "I"
    /\ k.l1[c].st = "M" => k.llc.st = "M"

\* A copy is known to the directory as long as it exists, replaced entries and
\* replies on their way included.
DirectoryKnowsCopies ==
  \A a \in Addr, n \in Node :
    stack[n][a].llc.st # "I" => tags[a].where # "absent" /\ n \in tags[a].sharers

\* While a node holds a line in M, its newest copy of the line holds the last
\* data any core has stored.
Newest(k) == UpdatePrev(k, DOMAIN k.l1, "I").llc.data
ModifiedKeepsLastWrite ==
  \A a \in Addr, n \in Node : stack[n][a].llc.st = "M" => Newest(stack[n][a]) = "last"

\* A core that missed in its node does not sleep for ever: its request is
\* answered whatever the other nodes do with the line meanwhile.
Served == \A c \in Cores : (Goes /\ Waiting(c)) ~> (~Running \/ ~Waiting(c))
=============================================================================
