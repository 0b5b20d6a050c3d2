-------------------------- MODULE FeatureGeneration --------------------------
(***************************************************************************)
(* FeatureGenerator: the rows of features, labels and pairs for all        *)
(* ordered pairs of addresses, with the graph distances cached before, and *)
(* the flow data that the extractors collect for the enabled features.     *)
(*                                                                         *)
(* A feature is a rational <<numerator, denominator>>; monotone rescaling  *)
(* (log1p, roots) is left out, and what depends on the order of a sort or  *)
(* of a hash table is Number.  A column of the embeddings is the pair of   *)
(* vertices whose embeddings it is computed from.                          *)
(***************************************************************************)
EXTENDS FeatureConfig

CONSTANT
  Calls   \* what generate_impl may be called with: a graph [source, target, start,
          \* finish, src_port, dst_port, protocol] per flow, the vertex of each address,
          \* the enabled features, the dependencies, what is returned with the features,
          \* the degrees whose logarithm a float rounds up

Unreachable == 999

FlowType ==
  [source : Nat, target : Nat, start : Int, finish : Int,
   src_port : Int, dst_port : Int, protocol : Int]

\* The ends of a flow were looked up by their addresses.
ASSUME FeatureAssumption ==
  \A call \in Calls :
    /\ IsFiniteSet(DOMAIN call.ip_to_vertex) /\ DOMAIN call.ip_to_vertex \subseteq Nat
    /\ IsInjective(call.ip_to_vertex)
    /\ call.flows \in Seq(FlowType)
    /\ \A a \in DOMAIN call.ip_to_vertex : call.ip_to_vertex[a] \in Nat
    /\ \A f \in DOMAIN call.flows :
         {call.flows[f].source, call.flows[f].target} \subseteq ToSet(call.ip_to_vertex)
    /\ call.config \subseteq AllFeatures
    /\ call.mode \subseteq {"labels", "pairs"}

VARIABLES
  flows, ip_to_vertex, m_config, ground_truth, mode, rounded_up,
  phase,
  left, source,         \* vertices yet to be precomputed, the one at hand
  queue, distances,     \* of its breadth-first search
  m_shortest_path_cache, m_transitive_path_cache,
  i, j,                 \* the pair of addresses, by position, to be written next
  features, labels, pairs

inputs == <<flows, ip_to_vertex, m_config, ground_truth, mode, rounded_up>>
search == <<left, source, queue, distances>>
caches == <<m_shortest_path_cache, m_transitive_path_cache>>
rows == <<i, j, features, labels, pairs>>
vars == <<inputs, phase, search, caches, rows>>

Nobody == -1
Vertices == {ip_to_vertex[a] : a \in DOMAIN ip_to_vertex}

-----------------------------------------------------------------------------
(* The graph.                                                              *)

Between(u, v) == {f \in DOMAIN flows : flows[f].source = u /\ flows[f].target = v}
Edges(u, v) == Cardinality(Between(u, v))
get_out_neighbors(v) == {flows[f].target : f \in {g \in DOMAIN flows : flows[g].source = v}}
out_degree(v) == Cardinality({f \in DOMAIN flows : flows[f].source = v})
in_degree(v) == Cardinality({f \in DOMAIN flows : flows[f].target = v})

Lesser(a, b) == IF a < b THEN a ELSE b
Sorted(S) == [k \in 1..Cardinality(S) |-> CHOOSE x \in S : Cardinality({y \in S : y <= x}) = k]

\* Seeded fault: the successors of the target instead of its predecessors.
faulty_get_common_neighbors(u, v) ==
  [w \in get_out_neighbors(u) |-> Lesser(Edges(u, w), Edges(v, w))]

\* Seeded fault: every combination of flows by way of w instead of the intersection.
faulty_common_paths(u, v) ==
  [w \in get_out_neighbors(u) |-> Edges(u, w) * Edges(w, v)]

\* An intersection of multisets: w as often as in both.
get_common_neighbors(u, v) ==
  [w \in get_out_neighbors(u) |-> Lesser(Edges(u, w), Edges(w, v))]

-----------------------------------------------------------------------------
(* Flow data of a pair: what is collected, and what is read.               *)

StartTimesOnly == {"ForwardStartTimes", "ReverseStartTimes"}
ResponseTiming == {"ForwardEndTimes", "ReverseStartTimes"}
CountsOnly == {"ForwardCount", "ReverseCount"}
AllFields == StartTimesOnly \cup ResponseTiming \cup CountsOnly \cup {"Duration", "ReverseEndTimes"}

\* The combinations that are collected as asked for.
Dispatched ==
  {{}, CountsOnly, StartTimesOnly, ResponseTiming, CountsOnly \cup ResponseTiming,
   {"Duration"}, StartTimesOnly \cup ResponseTiming,
   CountsOnly \cup StartTimesOnly \cup ResponseTiming, StartTimesOnly \cup {"Duration"},
   ResponseTiming \cup {"Duration"}, StartTimesOnly \cup ResponseTiming \cup {"Duration"}}
\* Seeded fault: the dispatch for start and response times collects the latter only.
faulty_collect(fields) ==
  IF fields = StartTimesOnly \cup ResponseTiming THEN ResponseTiming
  ELSE IF fields \in Dispatched THEN fields ELSE AllFields

collect(fields) == IF fields \in Dispatched THEN fields ELSE AllFields

CanCount(fields) ==
  /\ fields \cap {"ForwardCount", "ForwardStartTimes", "ForwardEndTimes"} # {}
  /\ fields \cap {"ReverseCount", "ReverseStartTimes", "ReverseEndTimes"} # {}

Enabled(names) == m_config \cap names # {}

StartTimeFeatures == {"time_avg_interarrival", "time_regularity", "time_direction_bias",
                      "time_initiation_order", "time_crosscorr_peak"}
TemporalFeatures == StartTimeFeatures \cup {"time_avg_duration", "time_spike_score"}
TimingFeatures == {"flow_response_time", "flow_causality_score"}
CountFeatures == {"flow_request_ratio", "flow_direction_asymmetry",
                  "flow_src_out_share", "flow_dst_in_share"}

TemporalNeeds ==
  (IF Enabled({"time_avg_duration"}) THEN {"Duration"} ELSE {})
  \cup (IF Enabled(StartTimeFeatures) THEN StartTimesOnly ELSE {})
  \cup (IF Enabled({"time_spike_score"}) THEN ResponseTiming ELSE {})
FlowNeeds ==
  (IF Enabled(TimingFeatures) THEN ResponseTiming ELSE {})
  \cup (IF Enabled(CountFeatures) THEN CountsOnly ELSE {})

\* All that extract reads is there; the start times are read whatever is enabled.
TemporalReadable ==
  LET fields == collect(TemporalNeeds)
  IN  /\ CanCount(fields)
      /\ StartTimesOnly \subseteq fields
      /\ Enabled({"time_spike_score"}) => ResponseTiming \subseteq fields
      /\ Enabled({"time_avg_duration"}) => "Duration" \in fields
FlowReadable ==
  LET fields == collect(FlowNeeds)
  IN  /\ CanCount(fields)
      /\ Enabled(TimingFeatures) => ResponseTiming \subseteq fields

Extractable ==
  /\ Enabled(TemporalFeatures) => TemporalReadable
  /\ Enabled(TimingFeatures \cup CountFeatures) => FlowReadable

-----------------------------------------------------------------------------
(* The writers, one per family: its columns, of which the enabled ones are *)
(* written from left to right.                                             *)

Number == "number"
Zero == <<0, 1>>
Integer(n) == <<n, 1>>
Ratio(n, d) == IF d > 0 THEN <<n, d>> ELSE Zero

Column(name, value) == [name |-> name, value |-> value]
Write(columns) == Selected(columns, {c \in DOMAIN columns : columns[c].name \in m_config})

embedding_columns(u, v) ==
  <<Column("emb_dot_src_dst", <<u, v>>), Column("emb_cosine_src_dst", <<u, v>>),
    Column("emb_l1_src_dst", <<u, v>>), Column("emb_l2_src_dst", <<u, v>>),
    Column("emb_src_norm", <<u>>), Column("emb_dst_norm", <<v>>),
    Column("emb_norm_ratio", <<u, v>>),
    Column("emb_hadamard_sum", <<u, v>>), Column("emb_hadamard_mean", <<u, v>>)>>

write_embedding_features(u, v) == Write(embedding_columns(u, v))

Cached(cache, u, v, default) == IF <<u, v>> \in DOMAIN cache THEN cache[<<u, v>>] ELSE default

\* The distance of a pair that is not cached is Unreachable, and a distance
\* that happens to be as large counts as none.
Closeness(u, v) ==
  LET dist == Cached(m_shortest_path_cache, u, v, Unreachable)
  IN  IF dist = Unreachable THEN Zero ELSE <<1, dist>>

\* The statistics: all degrees, in and out, of the vertices with an address.
Degrees == {<<v, d>> : v \in Vertices, d \in {"in", "out"}}
Degree(e) == IF e[2] = "in" THEN in_degree(e[1]) ELSE out_degree(e[1])

\* The place of a degree among them.  The logarithm of a row is a float, those it is
\* looked up in are doubles: rounded up, it comes after its equals.
Percentile(degree) ==
  LET before == {e \in Degrees : Degree(e) < degree \/ (Degree(e) = degree /\ degree \in rounded_up)}
  IN  Ratio(Cardinality(before), Cardinality(Degrees))

\* The sums over common neighbours are reduced to the number of their terms.
structural_columns(src, dst) ==
  LET common == get_common_neighbors(src, dst)
      size == SumFunction(common)
      forwards(w) == out_degree(w) > 1
      in_dst == in_degree(dst)
      out_src == out_degree(src)
  IN  <<Column("struct_in_degree_src", Percentile(in_degree(src))),
        Column("struct_out_degree_src", Percentile(out_src)),
        Column("struct_in_degree_dst", Percentile(in_dst)),
        Column("struct_out_degree_dst", Percentile(out_degree(dst))),
        Column("struct_degree_ratio", Ratio(out_src, in_dst)),
        Column("struct_common_neighbors", Ratio(size, Lesser(out_src, in_dst))),
        Column("struct_jaccard_coefficient", Ratio(size, out_src + in_dst - size)),
        Column("struct_adamic_adar_index",
               Integer(SumFunctionOnSet(common, {w \in DOMAIN common : forwards(w)}))),
        Column("struct_preferential_attachment", Integer(out_src * in_dst)),
        Column("struct_resource_allocation", Integer(size)),
        Column("struct_transitive_reachability",
               Integer(Cached(m_transitive_path_cache, src, dst, 0))),
        Column("struct_shortest_path", Closeness(src, dst)),
        Column("struct_hierarchy_diff",      \* the argument of the logarithm
               <<(in_dst + 1) * (out_src + 1),
                 (out_degree(dst) + 1) * (in_degree(src) + 1)>>)>>

write_structural_features(src, dst) == Write(structural_columns(src, dst))

Starts(fs) == {flows[f].start : f \in fs}
Earliest(times) == CHOOSE t \in times : \A s \in times : t <= s
Latest(times) == CHOOSE t \in times : \A s \in times : s <= t

\* Seeded fault: whoever spoke alone is taken for the source.
FaultyInitiationOrder(forward, reverse) ==
  IF forward = {} /\ reverse = {} THEN 0
  ELSE IF reverse = {} \/ forward = {} THEN 1
  ELSE IF Earliest(Starts(forward)) < Earliest(Starts(reverse)) THEN 1 ELSE -1

\* Whether the flows of one side begin before those of the other, if it has any.
SpeaksFirst(fs, others) == fs # {} /\ (others = {} \/ Earliest(Starts(fs)) < Earliest(Starts(others)))

\* Who spoke first: a side without flows comes last.
InitiationOrder(forward, reverse) ==
  IF SpeaksFirst(forward, reverse) THEN 1 ELSE IF SpeaksFirst(reverse, forward) THEN -1 ELSE 0

\* The time from the end of a forward flow to the next start of a reverse one.
After(f, reverse) == {t \in Starts(reverse) : flows[f].finish <= t}
Delay(f, reverse) == Earliest(After(f, reverse)) - flows[f].finish
Answered(forward, reverse) == {f \in forward : After(f, reverse) # {}}

MeanReply(forward, reverse) ==
  LET answered == Answered(forward, reverse)
  IN  Ratio(SumFunction([f \in answered |-> Delay(f, reverse)]), Cardinality(answered))

\* One if all delays are equal, zero if there are none: mean^2 / (mean^2 + deviation^2).
Spike(forward, reverse) ==
  LET answered == Answered(forward, reverse)
      sum == SumFunction([f \in answered |-> Delay(f, reverse)])
      squares == SumFunction([f \in answered |-> Delay(f, reverse) * Delay(f, reverse)])
  IN  Ratio(sum * sum, Cardinality(answered) * squares)

\* The square of the deviation of the times between starts, over that of their mean.
Regularity(both) ==
  LET times == Sorted(Starts(both))
      count == Cardinality(both) - 1
      gap(k) == times[k + 1] - times[k]
      span == Latest(Starts(both)) - Earliest(Starts(both))
      squares == SumFunction([k \in 1..(Len(times) - 1) |-> gap(k) * gap(k)])
  IN  IF count < 1 THEN Zero ELSE Ratio(count * squares - span * span, span * span)

kMaxCorrelationLag == 5
kCorrelationTolerance == 500
Lags == -kMaxCorrelationLag..kMaxCorrelationLag

\* The forward flows with a reverse start about lag tenths of a second later.
Matches(forward, reverse, lag) ==
  Cardinality({f \in forward : \E t \in Starts(reverse) :
                 t - (flows[f].start + 100 * lag)
                   \in (1 - kCorrelationTolerance)..(kCorrelationTolerance - 1)})

\* The most matches, and the first lag that has them.
CrossCorrelation(forward, reverse) ==
  LET matches == [lag \in Lags |-> Matches(forward, reverse, lag)]
      best == Latest({matches[lag] : lag \in Lags})
  IN  IF forward = {} \/ reverse = {} THEN [max |-> Zero, lag |-> Zero]
      ELSE [max |-> Ratio(best, Cardinality(forward)),
            lag |-> Integer(Earliest({lag \in Lags : matches[lag] = best}))]

\* How much more often a reply follows the end of a forward flow than the other way
\* around.  Events at one time are in no particular order.
Causality(forward, reverse) ==
  LET ends == {flows[f].finish : f \in forward}
      replies == Starts(reverse)
      times == Sorted(ends \cup replies)
      followed(A, B) ==
        Cardinality({k \in 1..(Len(times) - 1) : times[k] \in A /\ times[k + 1] \in B})
      answers == followed(ends, replies)
      requests == followed(replies, ends)
  IN  IF ends \cap replies # {} THEN Number ELSE Ratio(answers - requests, answers + requests)

temporal_columns(src, dst) ==
  LET forward == Between(src, dst)
      reverse == Between(dst, src)
      both == forward \cup reverse
      total == Cardinality(both)
      gaps == IF total < 2 THEN Zero
              ELSE <<Latest(Starts(both)) - Earliest(Starts(both)), total - 1>>
      correlation == CrossCorrelation(forward, reverse)
  IN  <<Column("time_avg_duration",
               Ratio(SumFunction([f \in both |-> flows[f].finish - flows[f].start]), total)),
        Column("time_avg_interarrival", gaps),
        Column("time_regularity", Regularity(both)),
        Column("time_direction_bias",
               Ratio(Cardinality(forward) - Cardinality(reverse), total)),
        Column("time_initiation_order", Integer(InitiationOrder(forward, reverse))),
        Column("time_crosscorr_peak", correlation.max),
        Column("time_crosscorr_peak", correlation.lag),
        Column("time_spike_score", Spike(forward, reverse))>>

write_temporal_features(src, dst) == Write(temporal_columns(src, dst))

flow_columns(src, dst) ==
  LET forward == Between(src, dst)
      reverse == Between(dst, src)
      forward_count == Cardinality(forward)
      reverse_count == Cardinality(reverse)
      total == forward_count + reverse_count
  IN  <<Column("flow_response_time", MeanReply(forward, reverse)),
        Column("flow_request_ratio", Ratio(forward_count, total)),
        Column("flow_direction_asymmetry", Ratio(forward_count - reverse_count, total)),
        Column("flow_causality_score", Causality(forward, reverse)),
        Column("flow_src_out_share", Ratio(forward_count, out_degree(src))),
        Column("flow_dst_in_share", Ratio(forward_count, in_degree(dst)))>>

write_flow_features(src, dst) == Write(flow_columns(src, dst))

\* Halves and quarters; the last registered port counts as a client's.  A port is cut down to
\* 16 bits, a protocol to 8.
classify_port_role(number) ==
  LET port == number % 65536
  IN  IF port < 1024 THEN 2 ELSE IF port < 49151 THEN 1 ELSE 0
classify_protocol_role(number) ==
  LET protocol == number % 256
  IN  CASE protocol = 6 -> 4 [] protocol = 17 -> 2 [] protocol = 1 -> 1 [] OTHER -> 0

\* The mean role of one end: its ports in the flows to it and in those from it.
PortRole(as_source, as_target) ==
  LET sources == {f \in as_source : flows[f].src_port > 0}
      targets == {f \in as_target : flows[f].dst_port > 0}
  IN  Ratio(SumFunction([f \in sources |-> classify_port_role(flows[f].src_port)])
              + SumFunction([f \in targets |-> classify_port_role(flows[f].dst_port)]),
            Cardinality(sources) + Cardinality(targets))
Minus(p, q) == <<p[1] * q[2] - q[1] * p[2], p[2] * q[2]>>

protocol_columns(src, dst) ==
  LET forward == Between(src, dst)
      reverse == Between(dst, src)
      both == forward \cup reverse
      known == {f \in both : flows[f].protocol >= 0}
      src_role == PortRole(forward, reverse)
      dst_role == PortRole(reverse, forward)
  IN  <<Column("net_protocol_role",
               Ratio(SumFunction([f \in known |-> classify_protocol_role(flows[f].protocol)]),
                     Cardinality(both))),
        Column("net_port_role", Minus(dst_role, src_role)),
        Column("net_top_port", IF both = {} THEN Zero ELSE Number)>>

write_protocol_features(src, dst) == Write(protocol_columns(src, dst))

write_pair_features(src, dst, u, v) ==
  write_embedding_features(u, v) \o write_structural_features(src, dst)
    \o write_temporal_features(src, dst) \o write_flow_features(src, dst)
    \o write_protocol_features(src, dst)

-----------------------------------------------------------------------------
(* One call of generate_impl.                                              *)

Init ==
  /\ \E call \in Calls :
       /\ flows = call.flows /\ ip_to_vertex = call.ip_to_vertex /\ m_config = call.config
       /\ ground_truth = call.ground_truth /\ mode = call.mode /\ rounded_up = call.rounded_up
  /\ phase = "start"
  /\ left = {} /\ source = Nobody /\ queue = << >> /\ distances = << >>
  /\ m_shortest_path_cache = << >> /\ m_transitive_path_cache = << >>
  /\ i = 1 /\ j = 1 /\ features = << >> /\ labels = << >> /\ pairs = << >>

prepare_sorted_vertices == Sorted(DOMAIN ip_to_vertex)
\* Seeded fault: the vertices are sorted on their own, not along with their addresses.
FaultyIndices == Sorted(Vertices)

indices == [k \in DOMAIN prepare_sorted_vertices |-> ip_to_vertex[prepare_sorted_vertices[k]]]

\* Nothing to write: no columns, or no pairs.
Refuse ==
  /\ phase = "start"
  /\ m_config = {} \/ Cardinality(Vertices) < 2
  /\ phase' = "failed"
  /\ UNCHANGED <<inputs, search, caches, rows>>

AfterPaths == IF "struct_transitive_reachability" \in m_config THEN "hops" ELSE "rows"

Begin ==
  /\ phase = "start"
  /\ m_config # {} /\ Cardinality(Vertices) >= 2
  /\ phase' = IF "struct_shortest_path" \in m_config THEN "paths" ELSE AfterPaths
  /\ left' = Vertices
  /\ UNCHANGED <<inputs, source, queue, distances, caches, rows>>

BeginSource ==
  /\ phase = "paths" /\ source = Nobody
  /\ \E v \in left :
       /\ source' = v
       /\ left' = left \ {v}
       /\ queue' = <<v>>
       /\ distances' = [u \in {v} |-> 0]
  /\ UNCHANGED <<inputs, phase, caches, rows>>

\* Seeded fault: the search does not look whether it has seen a vertex.
FaultyFresh(current) == get_out_neighbors(current)

Fresh(current) == get_out_neighbors(current) \ DOMAIN distances

VisitNext ==
  /\ phase = "paths" /\ queue # << >>
  /\ LET current == Head(queue)
     IN  /\ distances' = Joined([v \in Fresh(current) |-> distances[current] + 1], distances)
         /\ queue' = Tail(queue) \o Sorted(Fresh(current))
  /\ UNCHANGED <<inputs, phase, left, source, caches, rows>>

\* Seeded fault: direct flows are left out of the cache.
FaultyStorable == {v \in DOMAIN distances : distances[v] > 1}

Storable == DOMAIN distances \ {source}

StorePaths ==
  /\ phase = "paths" /\ source # Nobody /\ queue = << >>
  /\ m_shortest_path_cache' =
       Joined([p \in {source} \X Storable |-> distances[p[2]]], m_shortest_path_cache)
  /\ source' = Nobody /\ distances' = << >>
  /\ UNCHANGED <<inputs, phase, left, queue, m_transitive_path_cache, rows>>

FinishPaths ==
  /\ phase = "paths" /\ source = Nobody /\ left = {}
  /\ phase' = AfterPaths
  /\ left' = Vertices
  /\ UNCHANGED <<inputs, source, queue, distances, caches, rows>>

\* Every pair of flows that leads from src to dst by way of one vertex.
TwoHops(src) ==
  LET middles == get_out_neighbors(src)
      ends == (UNION {get_out_neighbors(w) : w \in middles}) \ {src}
  IN  [p \in {src} \X ends |-> SumFunction([w \in middles |-> Edges(src, w) * Edges(w, p[2])])]

CountTwoHops ==
  /\ phase = "hops"
  /\ \E v \in left :
       /\ left' = left \ {v}
       /\ m_transitive_path_cache' = Joined(TwoHops(v), m_transitive_path_cache)
  /\ UNCHANGED <<inputs, phase, source, queue, distances, m_shortest_path_cache, rows>>

FinishHops ==
  /\ phase = "hops" /\ left = {}
  /\ phase' = "rows"
  /\ UNCHANGED <<inputs, search, caches, rows>>

\* The loop counters after the pair (i, j).
NextPair ==
  IF j < Len(prepare_sorted_vertices)
  THEN i' = i /\ j' = j + 1
  ELSE i' = i + 1 /\ j' = 1

Writing == phase = "rows" /\ i <= Len(prepare_sorted_vertices)

SkipSelf ==
  /\ Writing /\ i = j
  /\ NextPair
  /\ UNCHANGED <<inputs, phase, search, caches, features, labels, pairs>>

Row ==
  LET ips == prepare_sorted_vertices
  IN  write_pair_features(ip_to_vertex[ips[i]], ip_to_vertex[ips[j]], indices[i], indices[j])

\* The extractors read what was collected, and the columns add up.
Writable == Extractable /\ Len(Row) = get_dimension(m_config)

WritePair ==
  /\ Writing /\ i # j /\ Writable
  /\ LET pair == <<prepare_sorted_vertices[i], prepare_sorted_vertices[j]>>
     IN  /\ labels' = IF "labels" \in mode THEN Append(labels, pair \in ground_truth) ELSE labels
         /\ pairs' = IF "pairs" \in mode THEN Append(pairs, pair) ELSE pairs
  /\ features' = Append(features, [c \in DOMAIN Row |-> Row[c].value])
  /\ NextPair
  /\ UNCHANGED <<inputs, phase, search, caches>>

WriteFails ==
  /\ Writing /\ i # j /\ ~Writable
  /\ phase' = "failed"
  /\ UNCHANGED <<inputs, search, caches, rows>>

FinishRows ==
  /\ phase = "rows" /\ i > Len(prepare_sorted_vertices)
  /\ phase' = "done"
  /\ UNCHANGED <<inputs, search, caches, rows>>

Ended ==
  /\ phase \in {"done", "failed"}
  /\ UNCHANGED vars

Next ==
  \/ Refuse \/ Begin
  \/ BeginSource \/ VisitNext \/ StorePaths \/ FinishPaths
  \/ CountTwoHops \/ FinishHops
  \/ SkipSelf \/ WritePair \/ WriteFails \/ FinishRows
  \/ Ended

Spec == Init /\ [][Next]_vars

-----------------------------------------------------------------------------
(* Properties.                                                             *)

Addresses == DOMAIN ip_to_vertex
OrderedPairs == {p \in Addresses \X Addresses : p[1] # p[2]}
Position(p) ==
  Cardinality({q \in OrderedPairs : q[1] < p[1] \/ (q[1] = p[1] /\ q[2] <= p[2])})

\* A feature as its reader finds it: in the column of its name, in the row of its pair.
Has(names) == names \subseteq ToSet(get_feature_names(m_config))
Feature(p, name) ==
  features[Position(p)][CHOOSE c \in DOMAIN get_feature_names(m_config) : get_feature_names(m_config)[c] = name]
Swap(p) == <<p[2], p[1]>>
Source(p) == ip_to_vertex[p[1]]
Target(p) == ip_to_vertex[p[2]]

(* Types; the search never holds more vertices than there are, and finds   *)
(* none further away than that.                                            *)
TypeOK ==
  /\ phase \in {"start", "paths", "hops", "rows", "done", "failed"}
  /\ left \subseteq Vertices /\ source \in Vertices \cup {Nobody}
  /\ Len(queue) <= Cardinality(Vertices) /\ ToSet(queue) \subseteq DOMAIN distances
  /\ \A v \in DOMAIN distances : v \in Vertices /\ distances[v] < Cardinality(Vertices)
  /\ DOMAIN m_shortest_path_cache \subseteq Vertices \X Vertices
  /\ DOMAIN m_transitive_path_cache \subseteq Vertices \X Vertices
  /\ i \in 1..(Cardinality(Addresses) + 1) /\ j \in {1} \cup 1..Cardinality(Addresses)
  /\ Len(features) <= Cardinality(OrderedPairs)

(* The row, the label and the pair at one index belong together: the       *)
(* embeddings in the row are those of the vertices of the two addresses,   *)
(* sorted by address although vertices are numbered in another order, and  *)
(* the row has the columns that get_feature_names announces.               *)
RowsBelongToPairs ==
  phase = "done" =>
    /\ Len(features) = Cardinality(OrderedPairs)
    /\ \A p \in OrderedPairs :
         LET k == Position(p)
         IN  /\ Len(features[k]) = Len(get_feature_names(m_config))
             /\ "labels" \in mode => labels[k] = (p \in ground_truth)
             /\ "pairs" \in mode => pairs[k] = p
             /\ Has({"emb_dot_src_dst"}) =>
                  Feature(p, "emb_dot_src_dst") = <<Source(p), Target(p)>>
             /\ Has({"emb_hadamard_mean"}) =>
                  Feature(p, "emb_hadamard_mean") = <<Source(p), Target(p)>>

\* The vertices at the ends of the walks of n flows from v.
WalksFrom(v) ==
  LET ends[n \in 0..Cardinality(Vertices)] ==
        IF n = 0 THEN {v} ELSE UNION {get_out_neighbors(w) : w \in ends[n - 1]}
  IN  ends

(* What a row says of the distance of its pair is the length of the        *)
(* shortest walk in the graph, whatever the order of the searches; zero    *)
(* says that there is no walk.                                             *)
DistancesAreShortest ==
  phase = "done" /\ Has({"struct_shortest_path"}) =>
    \A p \in OrderedPairs :
      LET ends == WalksFrom(Source(p))
          lengths == {n \in DOMAIN ends : Target(p) \in ends[n]}
      IN  Feature(p, "struct_shortest_path") =
            IF lengths = {} THEN Zero ELSE <<1, Earliest(lengths)>>

(* The features of a row that come from the caches, from the intersection  *)
(* of neighbourhoods and from the flow data of the pair tell one story:    *)
(* flows from source to target, the distance one and a share of the degree *)
(* come together; common neighbours and paths of two flows come together,  *)
(* at distance two unless there is a flow; replies have one delay, and a   *)
(* score that calls them caused by requests comes with a delay.            *)
RowsAgree ==
  phase = "done" /\ Has(ToSet(FeatureNames)) =>
    \A p \in OrderedPairs :
      LET positive(name) == Feature(p, name)[1] > 0
          direct == positive("flow_request_ratio")
          indirect == positive("struct_transitive_reachability")
      IN  /\ direct <=> Feature(p, "struct_shortest_path") = <<1, 1>>
          /\ direct <=> positive("flow_src_out_share")
          /\ direct <=> positive("flow_dst_in_share")
          /\ indirect <=> positive("struct_common_neighbors")
          /\ ~direct => (indirect <=> Feature(p, "struct_shortest_path") = <<1, 2>>)
          /\ Feature(p, "time_direction_bias") = Feature(p, "flow_direction_asymmetry")
          /\ positive("time_spike_score") <=> positive("flow_response_time")
          /\ LET score == Feature(p, "flow_causality_score")
             IN  score # Number /\ score[1] > 0 => positive("flow_response_time")

(* Normalised features are fractions although flows between the same two   *)
(* vertices are counted one by one, so the unsigned differences under them *)
(* never wrap around; percentiles order vertices as their degrees do,      *)
(* however logarithms are rounded; and the shares of a source add up to    *)
(* all its flows but those to itself.                                      *)
SharesAddUp ==
  phase = "done" /\ Has(ToSet(FeatureNames)) =>
    /\ \A p \in OrderedPairs :
         \A name \in {"struct_common_neighbors", "struct_jaccard_coefficient",
                      "flow_request_ratio", "flow_src_out_share", "flow_dst_in_share",
                      "time_crosscorr_max", "time_spike_score",
                      "struct_in_degree_src", "struct_out_degree_dst"} :
           0 <= Feature(p, name)[1] /\ Feature(p, name)[1] <= Feature(p, name)[2]
    /\ \A p, q \in OrderedPairs :
         in_degree(Target(p)) <= out_degree(Source(q)) =>
           Feature(p, "struct_in_degree_dst")[1] <= Feature(q, "struct_out_degree_src")[1]
    /\ \A a \in Addresses :
         out_degree(ip_to_vertex[a]) =
           Edges(ip_to_vertex[a], ip_to_vertex[a])
             + SumFunction([p \in {q \in OrderedPairs : q[1] = a} |->
                             Feature(p, "flow_src_out_share")[1]])

(* The rows of a pair and of the swapped pair describe the same flows:     *)
(* what has a direction is reversed, what has none is equal, and a flow    *)
(* that follows another at some lag is followed by it at the opposite one. *)
MirrorRows ==
  phase = "done" =>
    \A p \in OrderedPairs :
      LET here(name) == Feature(p, name)
          there(name) == Feature(Swap(p), name)
      IN  /\ \A name \in {"time_avg_duration", "time_avg_interarrival", "time_regularity",
                           "net_protocol_role"} :
               Has({name}) => here(name) = there(name)
          /\ \A name \in {"time_direction_bias", "time_initiation_order",
                           "flow_direction_asymmetry", "net_port_role"} :
               Has({name}) => here(name)[1] * there(name)[2] = -there(name)[1] * here(name)[2]
          /\ Has({"struct_hierarchy_diff"}) =>
               here("struct_hierarchy_diff")[1] * there("struct_hierarchy_diff")[1] =
                 here("struct_hierarchy_diff")[2] * there("struct_hierarchy_diff")[2]
          /\ Has({"time_crosscorr_max"}) =>
               (here("time_crosscorr_max")[1] > 0 <=> there("time_crosscorr_max")[1] > 0)
          /\ Has({"flow_request_ratio"}) /\ Between(Source(p), Target(p)) # {} =>
               here("flow_request_ratio")[1] + there("flow_request_ratio")[1]
                 = here("flow_request_ratio")[2]

(* Of all configurations with a feature, and with two addresses, none makes *)
(* an extractor read what was not collected but those with temporal        *)
(* features of which none needs start times; and no configuration makes    *)
(* the columns of a row disagree with the dimension of the matrix.         *)
FailsOnlyWithoutStartTimes ==
  phase = "failed" =>
    \/ m_config = {} \/ Cardinality(Addresses) < 2
    \/ Enabled(TemporalFeatures) /\ ~Enabled(StartTimeFeatures)

=============================================================================
