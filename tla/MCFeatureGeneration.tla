-------------------------- MODULE MCFeatureGeneration --------------------------
(***************************************************************************)
(* An instance of FeatureGeneration for TLC: graphs of any of eight flows  *)
(* among four vertices, with a flow twice, a cycle, a self-loop and a chain *)
(* of three, and a vertex that no address is mapped to.                    *)
(***************************************************************************)
EXTENDS FeatureGeneration

Flow(u, v, start, finish, src_port, dst_port, protocol) ==
  [source |-> u, target |-> v, start |-> 250 * start, finish |-> 250 * finish,
   src_port |-> src_port, dst_port |-> dst_port, protocol |-> protocol]

MCFlows ==
  <<Flow(2, 0, 1, 4, 51000, 443, 6), Flow(2, 0, 5, 9, 51000, 8080, 17),
    Flow(0, 2, 4, 6, 443, 51000, 6), Flow(0, 0, 2, 3, 53, 53, 17),
    Flow(0, 3, 2, 7, 0, 0, 1), Flow(3, 4, 3, 8, 49151, 1024, 6),
    Flow(2, 3, 3, 3, 65536 + 1023, 0, 256 + 47), Flow(4, 2, 6, 7, 8080, 22, -1)>>

\* The flows at some of the places, in their order.
Taken(places) ==
  LET taken == SelectSeq([k \in DOMAIN MCFlows |-> k], LAMBDA k : k \in places)
  IN  [n \in DOMAIN taken |-> MCFlows[taken[n]]]

\* Addresses are numbered in one order, vertices in the order of their flows.
MCVertices == (1 :> 2) @@ (2 :> 0) @@ (3 :> 3) @@ (4 :> 4)
\* A reference may name addresses that the graph does not know.
MCGroundTruth == {<<1, 2>>, <<4, 1>>, <<9, 1>>}

Call(flows_of, vertices, config, dependencies, asked, rounded) ==
  [flows |-> flows_of, ip_to_vertex |-> vertices, config |-> config,
   ground_truth |-> dependencies, mode |-> asked, rounded_up |-> rounded]

\* All features of any graph; any of seven features of one graph; all features but
\* one; any rounding of the degrees of one graph; no pair.
MCFeatures == {"time_avg_duration", "time_regularity", "time_spike_score", "flow_causality_score",
               "flow_dst_in_share", "struct_shortest_path", "emb_dot_src_dst"}
MCCalls ==
  {Call(Taken(places), MCVertices, AllFeatures, MCGroundTruth, {"labels", "pairs"}, {1, 3}) :
     places \in SUBSET DOMAIN MCFlows}
  \cup {Call(Taken({1, 3, 6}), MCVertices, config, MCGroundTruth, {"labels"}, {}) :
     config \in SUBSET MCFeatures}
  \cup {Call(Taken({2, 5}), MCVertices, AllFeatures \ {name}, {}, {"pairs"}, {}) :
     name \in AllFeatures}
  \cup {Call(Taken(1..7), MCVertices, AllFeatures, {}, {"pairs"}, rounded) :
     rounded \in SUBSET (1..4)}
  \cup {Call(Taken({4}), (1 :> 0), AllFeatures, {}, {"pairs"}, {})}

=============================================================================
