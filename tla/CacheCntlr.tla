----------------------------- MODULE CacheCntlr -----------------------------
(***************************************************************************)
(* The cache controllers of one node: the first-level cache of each of its *)
(* cores and the last-level cache they share.  User threads work under the *)
(* set's stack lock, and so does the network thread that handles the       *)
(* directory's messages, hence one action per critical section.  A missing *)
(* core queues in m_directory_waiters and sleeps; only the first waiter of *)
(* a line sends a request.                                                 *)
(***************************************************************************)
EXTENDS ShmemMsg

VARIABLES stack,    \* per node and line: the first-level lines and the last-level line
          waiters,  \* per node and line: m_directory_waiters
          serving   \* per node: the line whose waiters the network thread is waking

\* "U" is SHARED_UPGRADING.
Line == [st : {"I", "S", "U", "E", "M"}, data : Data]
Invalid == [st |-> "I", data |-> "old"]
readable(line) == line.st \in {"S", "E", "M"}
writable(line) == line.st = "M"

Waiter(n) == [core : CoresOf(n), exclusive : BOOLEAN]
Waiting(c) ==
  \E n \in Node, a \in Addr : \E i \in DOMAIN waiters[n][a] : waiters[n][a][i].core = c

\* Mutation: the first level's modified data is not written back.
DropsDirty(k, C, new) ==
  [k EXCEPT !.l1 = [c \in DOMAIN k.l1 |->
                      IF c \notin C \/ k.l1[c].st = "I" THEN k.l1[c]
                      ELSE IF new = "I" THEN Invalid ELSE [k.l1[c] EXCEPT !.st = new]]]

\* updateCacheBlock on the first-level caches of C: modified data is written
\* into the last level, then the copy takes the new state or goes away.
UpdatePrev(k, C, new) ==
  LET dirty == {c \in C : k.l1[c].st = "M"}
  IN [l1 |-> [c \in DOMAIN k.l1 |->
               IF c \notin C \/ k.l1[c].st = "I" THEN k.l1[c]
               ELSE IF new = "I" THEN Invalid
               ELSE [k.l1[c] EXCEPT !.st = new]],
      llc |-> IF dirty = {} THEN k.llc
              ELSE [k.llc EXCEPT !.data = k.l1[CHOOSE c \in dirty : TRUE].data]]

\* writeCacheBlock: "Got writeback for non-MODIFIED line".
WritebackTaken(k, C) == (\E c \in C : k.l1[c].st = "M") => k.llc.st = "M"

\* Mutation: the update is not passed on to the first-level caches.
LastLevelOnly(k, new) ==
  [k EXCEPT !.llc = IF new = "I" THEN Invalid ELSE [@ EXCEPT !.st = new]]

\* updateCacheBlock at the last level, called by the directory's messages.
UpdateStack(k, new) ==
  LET p == UpdatePrev(k, DOMAIN k.l1, new)
  IN [p EXCEPT !.llc = IF new = "I" THEN Invalid ELSE [@ EXCEPT !.st = new]]

-----------------------------------------------------------------------------
\* An access that the last level can serve (processShmemReqFromPrevCache with
\* a hit, then copyDataFromNextLevel into c's first-level cache).
Permits(k, exclusive) == IF exclusive THEN k.llc.st \in {"E", "M"} ELSE readable(k.llc)
Fill(k, c, exclusive) ==
  LET others == DOMAIN k.l1 \ {c}
      p == IF exclusive THEN UpdatePrev(k, others, "I")
           ELSE IF k.llc.st \in {"E", "M"} THEN UpdatePrev(k, others, "S")
           ELSE k
      last == IF exclusive THEN [p.llc EXCEPT !.st = "M"] ELSE p.llc
  IN [l1 |-> [p.l1 EXCEPT ![c] = last], llc |-> last]

\* c stores to the line it now holds in M: every other buffer ages.
Stored(k, c) ==
  [l1 |-> [d \in DOMAIN k.l1 |-> IF d = c THEN [k.l1[d] EXCEPT !.data = "last"]
                                 ELSE [k.l1[d] EXCEPT !.data = Aged(@)]],
   llc |-> [k.llc EXCEPT !.data = Aged(@)]]
AgedStack(k) == [l1 |-> [d \in DOMAIN k.l1 |-> [k.l1[d] EXCEPT !.data = Aged(@)]],
                 llc |-> [k.llc EXCEPT !.data = Aged(@)]]

\* The stacks and messages once node n's copy of a is k and, if c stores, c
\* has written it.
Settle(n, a, k, store, c, td, tc) ==
  IF store
  THEN /\ stack' = [m \in Node |-> [b \in Addr |->
                      IF b # a THEN stack[m][b]
                      ELSE IF m = n THEN Stored(k, c) ELSE AgedStack(stack[m][b])]]
       /\ toDir' = [m \in Node |-> AgedQueue(td[m], a)]
       /\ toCache' = [m \in Node |-> AgedQueue(tc[m], a)]
       /\ fromDram' = AgedQueue(fromDram, a)
       /\ dram' = [dram EXCEPT ![a] = Aged(@)]
       /\ todo' = IF todo.addr = a THEN [todo EXCEPT !.data = Aged(@)] ELSE todo
  ELSE /\ stack' = [stack EXCEPT ![n][a] = k]
       /\ toDir' = td /\ toCache' = tc
       /\ UNCHANGED <<fromDram, dram, todo>>

-----------------------------------------------------------------------------
\* processMemOpFromCore: a hit in the first level.  A load changes nothing; a
\* store needs the line in M.
StoreHit(c, a) ==
  LET n == machine.nodeOf[c] IN
  /\ ~Waiting(c)
  /\ writable(stack[n][a].l1[c])
  /\ Settle(n, a, stack[n][a], TRUE, c, toDir, toCache)
  /\ UNCHANGED <<machine, waiters, serving, failed>>

\* A first-level miss drops the core's own copy and asks the last level.
DropOwn(k, c) == [k EXCEPT !.l1[c] = Invalid]
Misses(c, a, exclusive) ==
  LET line == stack[machine.nodeOf[c]][a].l1[c] IN
  /\ ~Waiting(c)
  /\ IF exclusive THEN ~writable(line) ELSE ~readable(line)

\* The miss hits in the last level.
LastLevelHit(c, a, exclusive) ==
  LET n == machine.nodeOf[c]
      k == DropOwn(stack[n][a], c)
  IN /\ Misses(c, a, exclusive)
     /\ Permits(k, exclusive)
     /\ Settle(n, a, Fill(k, c, exclusive), exclusive, c, toDir, toCache)
     /\ failed' = failed \cup
          Broken([writeback_taken |-> WritebackTaken(k, DOMAIN k.l1 \ {c})])
     /\ UNCHANGED <<machine, waiters, serving>>

\* initiateDirectoryAccess: the message the first waiter of a line sends.
RequestFor(k, exclusive) ==
  CASE ~exclusive -> "SH_REQ"
    [] exclusive /\ k.llc.st = "S" -> "UPGRADE_REQ"
    [] OTHER -> "EX_REQ"

\* The miss goes to the directory; the core sleeps until it is woken.
LastLevelMiss(c, a, exclusive) ==
  LET n == machine.nodeOf[c]
      k == DropOwn(stack[n][a], c)
      p == IF k.llc.st = "S" THEN UpdatePrev(k, DOMAIN k.l1 \ {c}, "I") ELSE k
      first == waiters[n][a] = <<>>
      type == RequestFor(p, exclusive)
  IN /\ Misses(c, a, exclusive)
     /\ ~Permits(k, exclusive)
     /\ waiters' = [waiters EXCEPT ![n][a] =
                      Append(@, [core |-> c, exclusive |-> exclusive])]
     /\ stack' = [stack EXCEPT ![n][a] =
                    IF first /\ type = "UPGRADE_REQ" THEN [p EXCEPT !.llc.st = "U"] ELSE p]
     /\ toDir' = IF first THEN [toDir EXCEPT ![n] = Append(@, Msg(type, a, NoData))] ELSE toDir
     /\ failed' = failed \cup
          Broken([ex_req_for_invalid |-> first /\ type = "EX_REQ" => p.llc.st = "I"])
     /\ UNCHANGED <<machine, serving, toCache, dram, fromDram, todo>>

-----------------------------------------------------------------------------
\* The loop of handleMsgFromDramDirectory over the waiters q of line a, the
\* stack lock held and node n's copy being k.  An exclusive waiter that finds
\* the line SHARED makes the network thread send the upgrade and stop; any
\* other waiter is woken, finds its data in the last level and finishes.
Wake(n, a, k, q, tc, checks) ==
  LET w == Head(q)
      upgrade == q # <<>> /\ w.exclusive /\ k.llc.st = "S"
      wake == q # <<>> /\ ~upgrade /\ Permits(k, w.exclusive)
  IN /\ waiters' = [waiters EXCEPT ![n][a] = q]
     /\ serving' = [serving EXCEPT ![n] = IF wake THEN a ELSE Nobody]
     /\ failed' = failed \cup Broken(checks) \cup
          Broken([data_already_gone |-> q = <<>> \/ upgrade \/ wake,
                  writeback_taken |-> wake => WritebackTaken(k, DOMAIN k.l1 \ {w.core})])
     /\ IF wake
        THEN Settle(n, a, Fill(k, w.core, w.exclusive), w.exclusive, w.core, toDir, tc)
        ELSE Settle(n, a, IF upgrade THEN [k EXCEPT !.llc.st = "U"] ELSE k, FALSE, Nobody,
                    IF upgrade THEN [toDir EXCEPT ![n] = Append(@, Msg("UPGRADE_REQ", a, NoData))]
                    ELSE toDir, tc)

\* The woken core is done with the line: the network thread dequeues it and
\* goes on with the next waiter.
WakeNext(n) ==
  LET a == serving[n] IN
  /\ a # Nobody
  /\ Wake(n, a, stack[n][a], Tail(waiters[n][a]), toCache, <<>>)
  /\ UNCHANGED machine

Receive(n, types) ==
  /\ serving[n] = Nobody
  /\ toCache[n] # <<>>
  /\ Head(toCache[n]).type \in types
Rest(n) == [toCache EXCEPT ![n] = Tail(@)]

\* processExRep, processShRep and processUpgradeRep: the line is inserted or
\* upgraded, then its waiters are served.
HandleReply(n) ==
  LET m == Head(toCache[n])
      k == stack[n][m.addr]
      inserted == [k EXCEPT !.llc = [st |-> IF m.type = "EX_REP" THEN "E" ELSE "S", data |-> m.data]]
  IN /\ Receive(n, Replies)
     /\ Wake(n, m.addr,
             IF m.type = "UPGRADE_REP" THEN UpdateStack(k, "M") ELSE inserted,
             waiters[n][m.addr], Rest(n),
             [someone_waits |-> waiters[n][m.addr] # <<>>,
              not_already_here |-> m.type # "UPGRADE_REP" => k.llc.st = "I",
              upgrading |-> m.type = "UPGRADE_REP" => k.llc.st = "U"])
     /\ UNCHANGED machine

\* processInvReq, processFlushReq, processWbReq: the whole stack gives up or
\* downgrades the line and answers; a node without the line says nothing,
\* "hoping eviction message is underway".  A line that is being upgraded is
\* not read for a write-back: the reply carries an uninitialised buffer.
HandleDemand(n) ==
  LET m == Head(toCache[n])
      a == m.addr
      k == stack[n][a]
      p == UpdateStack(k, IF m.type = "WB_REQ" THEN "S" ELSE "I")
      data == UpdatePrev(k, DOMAIN k.l1, "I").llc.data
      reply == CASE m.type = "INV_REQ" -> Msg("INV_REP", a, NoData)
                 [] m.type = "FLUSH_REQ" -> Msg("FLUSH_REP", a, data)
                 [] m.type = "WB_REQ" -> Msg("WB_REP", a, IF k.llc.st = "U" THEN "old" ELSE data)
  IN /\ Receive(n, {"INV_REQ", "FLUSH_REQ", "WB_REQ"})
     /\ IF k.llc.st = "I"
        THEN Settle(n, a, k, FALSE, Nobody, toDir, Rest(n))
        ELSE Settle(n, a, IF m.type = "WB_REQ" /\ k.llc.st = "U" THEN k ELSE p, FALSE, Nobody,
                    [toDir EXCEPT ![n] = Append(@, reply)], Rest(n))
     /\ failed' = failed \cup
          Broken([data_not_lost |-> m.type = "INV_REQ" => k.llc.st # "M",
                  writeback_taken |-> WritebackTaken(k, DOMAIN k.l1)])
     /\ UNCHANGED <<machine, waiters, serving>>

\* What insertCacheBlock tells the directory about its victim.
EvictMsg(k, a) ==
  IF k.llc.st = "M" THEN Msg("FLUSH_REP", a, UpdatePrev(k, DOMAIN k.l1, "I").llc.data)
  ELSE Msg("INV_REP", a, NoData)

\* Mutation: a line that is being upgraded may be the victim, too.
EvictsUpgrading(n, a) ==
  LET k == stack[n][a]
  IN /\ serving[n] = Nobody
     /\ a \in machine.contended[n]
     /\ k.llc.st # "I"
     /\ Settle(n, a, UpdateStack(k, "I"), FALSE, Nobody,
               [toDir EXCEPT ![n] = Append(@, EvictMsg(k, a))], toCache)
     /\ UNCHANGED <<machine, waiters, serving, failed>>

\* The reply for a line outside the model is inserted over line a.  A line
\* that is being upgraded is never the victim.
Evict(n, a) ==
  LET k == stack[n][a]
  IN /\ serving[n] = Nobody
     /\ a \in machine.contended[n]
     /\ readable(k.llc)
     /\ Settle(n, a, UpdateStack(k, "I"), FALSE, Nobody,
               [toDir EXCEPT ![n] = Append(@, EvictMsg(k, a))], toCache)
     /\ UNCHANGED <<machine, waiters, serving, failed>>

\* A first-level line makes room for one outside the model; modified data goes
\* to the last level.
EvictPrev(c, a) ==
  LET n == machine.nodeOf[c] IN
  /\ ~Waiting(c)
  /\ a \in machine.contended[n]
  /\ stack[n][a].l1[c].st # "I"
  /\ stack' = [stack EXCEPT ![n][a] = UpdatePrev(@, {c}, "I")]
  /\ failed' = failed \cup Broken([writeback_taken |-> WritebackTaken(stack[n][a], {c})])
  /\ UNCHANGED <<machine, waiters, serving, toDir, toCache, dram, fromDram, todo>>
=============================================================================
