------------------------- MODULE MCRandomWalkLogic -------------------------
(***************************************************************************)
(* Walks over all graphs of a few flows from a pool that has, for every    *)
(* condition, flows that meet it, and flows that miss it by one.           *)
(***************************************************************************)
EXTENDS RandomWalkLogic

CONSTANT MaxFlows

Connection(src, dst, src_port, dst_port, start, end) ==
  [src |-> src, dst |-> dst, src_port |-> src_port, dst_port |-> dst_port,
   start |-> start, end |-> end]

Pool == {
  Connection(1, 2, 5, 8, 1, 6),         \* a request, the flow it makes its
  Connection(2, 3, 6, 8, 2, 4),         \* target open, another request,
  Connection(1, 2, 5, 9, 3, 6),
  Connection(2, 1, 8, 5, 1, 6),         \* its reply, a late one, one that
  Connection(2, 1, 8, 5, 1, 8),         \* does not end in time,
  Connection(2, 1, 7, 5, 2, 5),         \* a flow back that is no reply,
  Connection(1, 3, 5, 8, 7, 8),         \* what the source opens next,
  Connection(1, 3, 5, 8, 9, 9),         \* one too long after that,
  Connection(3, 2, 8, 5, 7, 8),         \* a flow that mirrors another pair,
  Connection(3, 2, 8, 6, 2, 5),         \* another reply, a flow around it,
  Connection(3, 1, 4, 4, 1, 7),         \* one back around all,
  Connection(2, 2, 7, 7, 3, 4) }        \* and a host talking to itself

MCGraphs == {graph \in SUBSET Pool : Cardinality(graph) \in 1 .. MaxFlows}

=============================================================================
