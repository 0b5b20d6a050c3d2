----------------------------- MODULE MCIngestion -----------------------------
(***************************************************************************)
(* Instances of Ingestion for TLC, in which addresses 1 to 3 are internal, *)
(* 4 to 6 are not, and 5 is blocked; and of EvictingCounter beside it.  A  *)
(* behaviour is of one of the two.                                         *)
(***************************************************************************)
EXTENDS Ingestion, EvictingCounter

VARIABLE part

PartsInit ==
  /\ part \in {"ingestion", "evicting counter"}
  /\ IngestInit /\ CounterInit
  /\ part = "ingestion" => \A limit \in Limits : m_limit <= limit

PartsNext ==
  \/ part = "ingestion" /\ Next /\ UNCHANGED <<part, counterVars>>
  \/ part = "evicting counter" /\ CounterNext /\ UNCHANGED <<part, vars>>

PartsSpec == PartsInit /\ [][PartsNext]_<<part, vars, counterVars>>

MCValid == 1 .. 6
MCInternal == 1 .. 3
MCBlocked == {5}

Flow(src, dst, protocol, fwd, rev) ==
  [json |-> TRUE, src |-> src, dst |-> dst, protocol |-> protocol,
   src_port |-> 7, dst_port |-> None, ports_ok |-> TRUE, fwd |-> fwd, rev |-> rev]

At(s, e) == [start |-> s, end |-> e]

MCLines ==
  { Flow(1, 2, 6, At(2, 5), At(3, 4)),
    Flow(1, 2, 6, At(-4, 1), None),
    Flow(6, 6, 6, At(4, 4), Absent),
    Flow(2, 4, 17, At(1, 3), At(6, 9)),
    Flow(4, 3, 17, None, At(1, 2)),
    Flow(1, 5, 6, At(0, 9), Absent),
    Flow(1, 2, None, At(1, 2), Absent),
    [Flow(3, 4, 6, At(0, 8), Absent) EXCEPT !.ports_ok = FALSE],
    [Flow(1, 2, 6, None, Absent) EXCEPT !.json = FALSE] }

=============================================================================
