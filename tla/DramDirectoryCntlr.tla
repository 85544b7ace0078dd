------------------------- MODULE DramDirectoryCntlr -------------------------
(***************************************************************************)
(* The directory controller, its tag cache and the DRAM behind it.  The    *)
(* directory thread takes one message at a time and runs its handler to    *)
(* the end.  A handler may process several queued requests in a row        *)
(* (processNextReqFromL2Cache); `todo' is the request it is in the middle  *)
(* of, with the data it was handed, and no message is taken meanwhile.     *)
(***************************************************************************)
EXTENDS ShmemMsg

VARIABLES tags,  \* per line: its directory entry and where that entry is
          reqs   \* per line: m_dram_directory_req_queue_list

\* "slot": in its set; "replaced": pushed out of the set, its copies still
\* being called back.
Entry == [where : {"absent", "slot", "replaced"}, st : {"U", "S", "E", "M"},
          sharers : SUBSET Node, owner : Node \cup {Nobody}, fwd : Node \cup {Nobody}]
NewEntry(f) == [where |-> "slot", st |-> "U", sharers |-> {}, owner |-> Nobody, fwd |-> f]
NoEntry == [NewEntry(Nobody) EXCEPT !.where = "absent"]

\* The constructor leaves m_forwarder_id uninitialised: a new entry may name any
\* node, or none.  Only MESIF reads it.
Uninitialised == IF machine.protocol = "MESIF" THEN Node \cup {Nobody} ELSE {Nobody}

\* A queued request: who it is for, whether it waits for memory, which node
\* was asked to forward, and whether setDataBuf left it a buffer.
Req == [type : Requests \cup {"NULLIFY_REQ"}, from : Node, wait : BOOLEAN,
        fwd : Node \cup {Nobody}, buf : BOOLEAN]
NewReq(type, n) == [type |-> type, from |-> n, wait |-> FALSE, fwd |-> Nobody, buf |-> FALSE]

Idle == [addr |-> Nobody, data |-> NoData]
Process(a, data) == [addr |-> a, data |-> data]

Slots == {a \in Addr : tags[a].where = "slot"}
Send(N, type, a, data) ==
  [n \in Node |-> IF n \in N THEN Append(toCache[n], Msg(type, a, data)) ELSE toCache[n]]

-----------------------------------------------------------------------------
\* getDirectoryEntry: an absent line takes a free way if there is one.
Looked(a, f) ==
  IF tags[a].where = "absent" /\ Cardinality(Slots) < machine.ways THEN NewEntry(f) ELSE tags[a]

Take(n, type) ==
  /\ todo = Idle
  /\ toDir[n] # <<>>
  /\ Head(toDir[n]).type \in type
  /\ toDir' = [toDir EXCEPT ![n] = Tail(@)]

\* EX_REQ, SH_REQ and UPGRADE_REQ queue up; the first one is processed.
HandleRequest(n) ==
  LET m == Head(toDir[n])
      a == m.addr
  IN /\ Take(n, Requests)
     /\ \E f \in Uninitialised : tags' = [tags EXCEPT ![a] = Looked(a, f)]
     /\ reqs' = [reqs EXCEPT ![a] = Append(@, NewReq(m.type, n))]
     /\ todo' = IF reqs[a] = <<>> THEN Process(a, NoData) ELSE Idle
     /\ UNCHANGED <<machine, toCache, dram, fromDram, failed>>

\* Does the request r go on when node n has given up its copy and `left'
\* remain?  A reader that waits for memory, or for another node to forward,
\* must not be woken by a voluntary invalidation.
\* Mutation: an upgrade waits until its own copy is gone, too.
WaitsForOwnCopy(r, n, left) ==
  IF r.type = "SH_REQ" THEN ~r.wait /\ r.fwd \in {Nobody, n} ELSE left = {}
GoesOn(r, n, left) ==
  CASE r.type \in {"EX_REQ", "NULLIFY_REQ"} -> left = {}
    [] r.type = "UPGRADE_REQ" -> left \in {{}, {r.from}}
    [] r.type = "SH_REQ" -> ~r.wait /\ r.fwd \in {Nobody, n}

\* processInvRepFromL2Cache: a sharer gave up a clean copy, asked or not.
HandleInvRep(n) ==
  LET a == Head(toDir[n]).addr
      left == tags[a].sharers \ {n}
      q == reqs[a]
  IN /\ Take(n, {"INV_REP"})
     /\ tags' = [tags EXCEPT ![a].sharers = left,
                             ![a].fwd = IF @ = n THEN Nobody ELSE @,
                             ![a].st = IF left = {} THEN "U" ELSE @]
     /\ todo' = IF q # <<>> /\ GoesOn(Head(q), n, left) THEN Process(a, NoData) ELSE Idle
     /\ failed' = failed \cup
          Broken([ooops |-> tags[a].st \in {"S", "E"}, removes_sharer |-> n \in tags[a].sharers])
     /\ UNCHANGED <<machine, toCache, dram, fromDram, reqs>>

\* processFlushRepFromL2Cache: a copy and its data came back.  For an upgrade
\* that still waits for other sharers the data is only remembered: setDataBuf
\* keeps the address of a buffer that is freed with this message.
HandleFlushRep(n) ==
  LET m == Head(toDir[n])
      a == m.addr
      left == tags[a].sharers \ {n}
      q == reqs[a]
      type == IF q = <<>> THEN "none" ELSE Head(q).type
      keep == type = "UPGRADE_REQ" /\ left # {}
  IN /\ Take(n, {"FLUSH_REP"})
     /\ tags' = [tags EXCEPT ![a] = [tags[a] EXCEPT !.sharers = left, !.owner = Nobody, !.fwd = Nobody,
                                                    !.st = IF left = {} THEN "U" ELSE @]]
     /\ reqs' = IF keep THEN [reqs EXCEPT ![a][1].buf = TRUE] ELSE reqs
     /\ dram' = IF type \in {"EX_REQ", "UPGRADE_REQ"} THEN dram ELSE [dram EXCEPT ![a] = m.data]
     /\ todo' = IF type = "none" \/ keep THEN Idle
                ELSE Process(a, IF type = "NULLIFY_REQ" THEN NoData ELSE m.data)
     /\ failed' = failed \cup
          Broken([flush_from_sharer |-> n \in tags[a].sharers,
                  others_share |-> left # {} => tags[a].st = "S"])
     /\ UNCHANGED <<machine, toCache, fromDram>>

\* processWbRepFromL2Cache: the owner (or the forwarder) keeps a shared copy
\* and hands its data to the waiting reader.  Memory is not written.
HandleWbRep(n) ==
  LET m == Head(toDir[n])
      a == m.addr
  IN /\ Take(n, {"WB_REP"})
     /\ tags' = [tags EXCEPT ![a].owner = Nobody, ![a].st = "S"]
     /\ todo' = Process(a, m.data)
     /\ failed' = failed \cup
          Broken([wb_from_sharer |-> n \in tags[a].sharers,
                  wb_for_sh_req |-> reqs[a] # <<>> /\ Head(reqs[a]).type = "SH_REQ"])
     /\ UNCHANGED <<machine, toCache, dram, fromDram, reqs>>

-----------------------------------------------------------------------------
\* processNextReqFromL2Cache: the front request is done, the next one is up.
NextReq(a) ==
  /\ reqs' = [reqs EXCEPT ![a] = Tail(@)]
  /\ todo' = IF Len(reqs[a]) > 1 THEN Process(a, NoData) ELSE Idle

\* processDRAMReply: the front request gets the data it waited for.
HandleDramReply ==
  LET a == Head(fromDram).addr
      q == Head(reqs[a])
      reply == IF q.type = "SH_REQ" /\ tags[a].st # "E" THEN "SH_REP" ELSE "EX_REP"
  IN /\ todo = Idle
     /\ fromDram # <<>>
     /\ fromDram' = Tail(fromDram)
     /\ toCache' = Send({q.from}, reply, a, Head(fromDram).data)
     /\ NextReq(a)
     /\ failed' = failed \cup
          Broken([dram_for_reader |-> q.type = "SH_REQ" => tags[a].st \in {"S", "E"},
                  dram_for_writer |-> q.type = "EX_REQ" => tags[a].st = "M"])
     /\ UNCHANGED <<machine, toDir, dram, tags>>

\* retrieveDataAndSendToL2Cache, the entry having become e: the data at hand,
\* else (MESIF) that of the forwarder, else that of memory.
Retrieve(a, e, reply, data) ==
  LET r == Head(reqs[a])
      forwarded == /\ machine.protocol = "MESIF"
                   /\ r.fwd = Nobody /\ e.st = "S" /\ e.fwd # Nobody
  IN /\ tags' = [tags EXCEPT ![a] = IF data = NoData THEN e ELSE [e EXCEPT !.fwd = r.from]]
     /\ IF data # NoData
        THEN /\ toCache' = Send({r.from}, reply, a, data)
             /\ NextReq(a)
             /\ UNCHANGED fromDram
        ELSE /\ todo' = Idle
             /\ reqs' = [reqs EXCEPT ![a][1] = IF forwarded THEN [@ EXCEPT !.fwd = e.fwd]
                                              ELSE [@ EXCEPT !.wait = TRUE]]
             /\ toCache' = IF forwarded THEN Send({e.fwd}, "WB_REQ", a, NoData) ELSE toCache
             /\ fromDram' = IF forwarded THEN fromDram
                            ELSE Append(fromDram, [addr |-> a, data |-> dram[a]])

\* The sharers in N are asked for their copies; the request stays in front.
CallBack(N, type, a) ==
  /\ toCache' = Send(N, type, a, NoData)
  /\ todo' = Idle
  /\ UNCHANGED <<tags, reqs, fromDram>>

Front(type) ==
  /\ todo # Idle
  /\ tags[todo.addr].where # "absent"
  /\ Head(reqs[todo.addr]).type = type
  /\ UNCHANGED <<machine, toDir, dram>>

\* An uncached line gets its first sharer, who owns it.
FirstSharer(e, n, st) == [e EXCEPT !.sharers = {n}, !.owner = n, !.st = st]

ProcessExReq ==
  LET a == todo.addr
      e == tags[a]
      r == Head(reqs[a])
  IN /\ Front("EX_REQ")
     /\ CASE e.st \in {"E", "M"} -> CallBack({e.owner}, "FLUSH_REQ", a)
          [] e.st = "S" -> CallBack(e.sharers, "INV_REQ", a)
          [] e.st = "U" -> Retrieve(a, FirstSharer(e, r.from, "M"), "EX_REP", todo.data)
     /\ failed' = failed \cup Broken([no_data_yet |-> e.st # "U" => todo.data = NoData])

ProcessShReq ==
  LET a == todo.addr
      e == tags[a]
      n == Head(reqs[a]).from
      shared == [e EXCEPT !.sharers = @ \cup {n}]
      room == n \in e.sharers \/ Cardinality(e.sharers) < machine.maxHwSharers
  IN /\ Front("SH_REQ")
     /\ CASE e.st \in {"E", "M"} -> CallBack({e.owner}, "WB_REQ", a)
          [] e.st = "S" /\ room -> Retrieve(a, shared, "SH_REP", todo.data)
          [] e.st = "S" /\ ~room -> \E s \in e.sharers : CallBack({s}, "INV_REQ", a)
          [] e.st = "U" /\ machine.protocol = "MSI" ->
               Retrieve(a, FirstSharer(e, n, "S"), "SH_REP", todo.data)
          [] e.st = "U" /\ machine.protocol # "MSI" ->
               Retrieve(a, FirstSharer(e, n, "E"), "EX_REP", todo.data)
     /\ failed' = failed \cup
          Broken([reader_owns_not |-> e.st = "E" => n # e.owner,
                  no_data_yet |-> e.st \in {"E", "M"} => todo.data = NoData])

\* Mutation: the requester's own copy is enough.
HasCopy(e, n) == n \in e.sharers
OnlySharer(e, n) == e.sharers = {n}

\* An upgrade that finds itself the only sharer is granted at once.  A
\* requester that lost its copy meanwhile has one sharer flush its data.
Granted(a, n) ==
  /\ tags' = [tags EXCEPT ![a].owner = n, ![a].st = "M"]
  /\ toCache' = Send({n}, "UPGRADE_REP", a, NoData)
  /\ NextReq(a)
  /\ UNCHANGED fromDram

ProcessUpgradeReq ==
  LET a == todo.addr
      e == tags[a]
      r == Head(reqs[a])
      others == e.sharers \ {r.from}
      first == CHOOSE s \in others : \A t \in others : s <= t
      flushed == IF r.from \in e.sharers THEN {} ELSE {first}
  IN /\ Front("UPGRADE_REQ")
     /\ CASE e.st # "U" /\ OnlySharer(e, r.from) -> Granted(a, r.from)
          [] e.st \in {"E", "M"} /\ ~OnlySharer(e, r.from) -> CallBack({e.owner}, "FLUSH_REQ", a)
          [] e.st = "S" /\ ~OnlySharer(e, r.from) ->
               /\ toCache' = [n \in Node |->
                     IF n \notin others THEN toCache[n]
                     ELSE Append(toCache[n],
                            Msg(IF n \in flushed THEN "FLUSH_REQ" ELSE "INV_REQ", a, NoData))]
               /\ todo' = Idle
               /\ UNCHANGED <<tags, reqs, fromDram>>
          [] e.st = "U" ->
               \E data \in IF todo.data # NoData THEN {todo.data}
                           ELSE IF r.buf THEN Data ELSE {NoData} :
                 Retrieve(a, FirstSharer(e, r.from, "M"), "EX_REP", data)
     /\ failed' = failed \cup
          Broken([owner_upgrades |-> e.st \in {"E", "M"} /\ OnlySharer(e, r.from) => e.owner = r.from])

\* processNullifyReq, called again when the last copy is gone: the replaced
\* entry is dropped.  (Allocate made the first call, which recalls the copies;
\* nullified_uncached records that no copy is left to recall here.)
ProcessNullifyReq ==
  /\ Front("NULLIFY_REQ")
  /\ tags' = [tags EXCEPT ![todo.addr] = NoEntry]
  /\ NextReq(todo.addr)
  /\ failed' = failed \cup Broken([nullified_uncached |-> tags[todo.addr].st = "U"])
  /\ UNCHANGED <<toCache, fromDram>>

\* replaceDirectoryEntry: the entry leaves its set; an uncached one is dropped
\* at once, any other is kept until its copies are back.
\* Mutation: the entry is dropped with its sharers.
DropsSharers(e) == NoEntry
Displaced(e) == IF e.st = "U" THEN NoEntry ELSE [e EXCEPT !.where = "replaced"]

\* processDirectoryEntryAllocationReq: the set is full; the entry with the
\* fewest sharers among those without requests makes room and its copies are
\* called back by a NULLIFY_REQ.  If all have requests: "Cannot find a
\* directory entry to be replaced with a non-zero request list (see Redmine
\* #175)".
Allocate ==
  LET a == todo.addr
      free == {b \in Slots : reqs[b] = <<>>}
      size(b) == Cardinality(tags[b].sharers)
  IN /\ todo # Idle
     /\ Looked(a, Nobody).where = "absent"
     /\ IF free = {} THEN UNCHANGED <<tags, reqs, toCache>>
        ELSE \E v \in free, f \in Uninitialised :
          /\ \A b \in free : size(v) <= size(b)
          /\ tags' = [tags EXCEPT ![a] = NewEntry(f), ![v] = Displaced(@)]
          /\ reqs' = IF tags[v].st = "U" THEN reqs
                     ELSE [reqs EXCEPT ![v] = <<NewReq("NULLIFY_REQ", Head(reqs[a]).from)>>]
          /\ toCache' = CASE tags[v].st \in {"E", "M"} ->
                               Send({tags[v].owner}, "FLUSH_REQ", v, NoData)
                          [] tags[v].st = "S" -> Send(tags[v].sharers, "INV_REQ", v, NoData)
                          [] tags[v].st = "U" -> toCache
     /\ failed' = failed \cup Broken([redmine_175 |-> free # {}])
     /\ UNCHANGED <<machine, toDir, dram, fromDram, todo>>
=============================================================================
