---------------------------- MODULE MCUserSpace -----------------------------
(* Short traces: a load and a store, an instruction with two operands, one  *)
(* that crosses into a new code page, and one that touches no memory.       *)
EXTENDS UserSpace

MCPages == {"code1", "code2", "heap1", "heap2"}
\* Three levels below the root would only add frames to each request.
MCPath ==
  [p \in MCPages |-> CASE p = "code1" -> <<"a", "a1">> [] p = "code2" -> <<"a", "a1">>
                       [] p = "heap1" -> <<"a", "a2">> [] p = "heap2" -> <<"b", "b1">>]

Load(p) == [page |-> p, store |-> FALSE]
Store(p) == [page |-> p, store |-> TRUE]
Alu == Load(NoPage)
I(fetch, ops) == [fetch |-> fetch, ops |-> ops]

MCTraces ==
  { <<I("code1", <<Load("heap1")>>), I("code1", <<Load("heap2"), Alu>>), I("code1", <<Alu>>),
      I("code1", <<Alu>>), I("code1", <<Alu>>)>>,
    <<I("code1", <<Load("heap1"), Store("heap2")>>), I("code2", <<Alu>>),
      I("code1", <<Load("heap1")>>), I("code1", <<Alu>>), I("code1", <<Alu>>)>>,
    <<I("code1", <<Alu>>), I("code1", <<Load("heap1")>>), I("code2", <<Store("heap1")>>),
      I("code2", <<Alu>>), I("code2", <<Alu>>)>> }
=============================================================================
