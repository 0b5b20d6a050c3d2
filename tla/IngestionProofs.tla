-------------------------- MODULE IngestionProofs --------------------------
(***************************************************************************)
(* What holds of the ingestion for every input file, every capacity and    *)
(* every pair of limits.  The inductive invariant IInv follows an address  *)
(* through the program: it is counted only when it is allowed (StatsInv),  *)
(* retained only when it is counted (SelectedInv), stored in the reservoir *)
(* only when it is retained (ReservoirInv) and made a vertex only when it  *)
(* is stored (GraphInv).  At the end, by itself, the eviction of counters.  *)
(***************************************************************************)
EXTENDS Ingestion, EvictingCounter, SequenceTheorems, FiniteSetTheorems, TLAPS

-----------------------------------------------------------------------------
(* What one add does to a reservoir, for every capacity, key and value and  *)
(* every index the generator may draw.                                      *)

\* An entry holds between one and Capacity of the values V.
IsEntry(entry, V) ==
  /\ entry.values \in Seq(V)
  /\ Len(entry.values) \in 1 .. Capacity
  /\ entry.total_seen \in Nat \ {0}

(* An add to a new key or to a full, or not yet full, entry leaves an entry *)
(* of at most Capacity values behind, all of them offered under that key.   *)
LEMMA AddKeepsEntry ==
  ASSUME NEW V, NEW data, NEW key, NEW value \in V,
         key \in DOMAIN data => IsEntry(data[key], V),
         NEW entry \in AddToEntry(Entry(data, key), value)
  PROVE  IsEntry(entry, V)
<1> DEFINE old == Entry(data, key)
<1>1. /\ old.values \in Seq(V) /\ Len(old.values) \in 0 .. Capacity
      /\ old.total_seen \in Nat
  BY CapacityAssumption DEF Entry, EmptyEntry, IsEntry
<1> HIDE DEF old
<1>2. CASE Len(old.values) < Capacity
  <2>1. entry = [values |-> Append(old.values, value), total_seen |-> old.total_seen + 1]
    BY <1>2 DEF AddToEntry, old
  <2>2. /\ Append(old.values, value) \in Seq(V)
        /\ Len(Append(old.values, value)) = Len(old.values) + 1
    BY <1>1, AppendProperties
  <2>. QED BY <1>1, <1>2, <2>1, <2>2, CapacityAssumption DEF IsEntry
<1>3. CASE ~(Len(old.values) < Capacity)
  <2>1. PICK idx \in 0 .. old.total_seen :
          entry = [values |-> Replace(old.values, idx, value), total_seen |-> old.total_seen + 1]
    BY <1>1, <1>3 DEF AddToEntry, old
  <2>2. /\ Replace(old.values, idx, value) \in Seq(V)
        /\ Len(Replace(old.values, idx, value)) = Len(old.values)
    <3>1. CASE idx < Capacity
      <4>1. idx + 1 \in 1 .. Len(old.values)
        BY <1>1, <1>3, <3>1, CapacityAssumption
      <4>. QED BY <1>1, <3>1, <4>1, ExceptSeq DEF Replace
    <3>2. CASE ~(idx < Capacity)
      BY <1>1, <3>2 DEF Replace
    <3>. QED BY <3>1, <3>2
  <2>. QED BY <1>1, <1>3, <2>1, <2>2, CapacityAssumption DEF IsEntry
<1>. QED BY <1>2, <1>3

(* An add touches the entry of its key ...                                  *)
LEMMA AddReachesItsKey ==
  ASSUME NEW data, NEW key, NEW value, NEW data2 \in add(data, key, value)
  PROVE  /\ DOMAIN data2 = DOMAIN data \cup {key}
         /\ data2[key] \in AddToEntry(Entry(data, key), value)
<1>1. PICK entry \in AddToEntry(Entry(data, key), value) : data2 = StoreEntry(data, key, entry)
  BY DEF add
<1>. QED BY <1>1 DEF StoreEntry

(* ... and the entry of no other key.                                       *)
LEMMA AddLeavesOtherKeys ==
  ASSUME NEW data, NEW key, NEW value, NEW data2 \in add(data, key, value),
         NEW k \in DOMAIN data, k # key
  PROVE  data2[k] = data[k]
<1>1. PICK entry \in AddToEntry(Entry(data, key), value) : data2 = StoreEntry(data, key, entry)
  BY DEF add
<1>. QED BY <1>1 DEF StoreEntry

-----------------------------------------------------------------------------
(* The ranking, the selection and the buckets.                              *)

Scores == Int \X Int \X Int \X Int

(* Scores are compared lexicographically.                                   *)
LEMMA ExceedsLexicographically ==
  ASSUME NEW x \in Scores, NEW y \in Scores
  PROVE  Exceeds(x, y) <=>
           \/ x[1] > y[1]
           \/ x[1] = y[1] /\ x[2] > y[2]
           \/ x[1] = y[1] /\ x[2] = y[2] /\ x[3] > y[3]
           \/ x[1] = y[1] /\ x[2] = y[2] /\ x[3] = y[3] /\ x[4] > y[4]
<1> DEFINE D(i) == x[i] > y[i] /\ \A j \in 1 .. i - 1 : x[j] = y[j]
<1>1. Exceeds(x, y) <=> D(1) \/ D(2) \/ D(3) \/ D(4)
  BY DEF Exceeds
<1>2. D(1) <=> x[1] > y[1]
  OBVIOUS
<1>3. D(2) <=> x[1] = y[1] /\ x[2] > y[2]
  OBVIOUS
<1>4. D(3) <=> x[1] = y[1] /\ x[2] = y[2] /\ x[3] > y[3]
  OBVIOUS
<1>5. D(4) <=> x[1] = y[1] /\ x[2] = y[2] /\ x[3] = y[3] /\ x[4] > y[4]
  OBVIOUS
<1> HIDE DEF D
<1>. QED BY <1>1, <1>2, <1>3, <1>4, <1>5

\* Every endpoint has a score that can be compared.
IsScored(stats) == \A ip \in DOMAIN stats : ip \in Nat /\ Score(stats[ip]) \in Scores

(* Outranks is a strict total order of the endpoints.                       *)
LEMMA OutranksIsTotalOrder ==
  ASSUME NEW stats, IsScored(stats),
         NEW a \in DOMAIN stats, NEW b \in DOMAIN stats, NEW c \in DOMAIN stats
  PROVE  /\ ~Outranks(stats, a, a)
         /\ Outranks(stats, a, b) /\ Outranks(stats, b, c) => Outranks(stats, a, c)
         /\ a # b => Outranks(stats, a, b) \/ Outranks(stats, b, a)
<1> DEFINE x == Score(stats[a])
           y == Score(stats[b])
           z == Score(stats[c])
<1>1. /\ a \in Nat /\ b \in Nat /\ c \in Nat
      /\ x \in Scores /\ y \in Scores /\ z \in Scores
  BY DEF IsScored
<1>2. /\ Outranks(stats, a, a) <=> Exceeds(x, x)
      /\ Outranks(stats, a, b) <=> Exceeds(x, y) \/ (x = y /\ a < b)
      /\ Outranks(stats, b, a) <=> Exceeds(y, x) \/ (x = y /\ b < a)
      /\ Outranks(stats, b, c) <=> Exceeds(y, z) \/ (y = z /\ b < c)
      /\ Outranks(stats, a, c) <=> Exceeds(x, z) \/ (x = z /\ a < c)
  BY <1>1 DEF Outranks
<1> HIDE DEF x, y, z
<1>3. x = y <=> x[1] = y[1] /\ x[2] = y[2] /\ x[3] = y[3] /\ x[4] = y[4]
  BY <1>1 DEF Scores
<1>4. ~Exceeds(x, x)
  BY <1>1, ExceedsLexicographically DEF Scores
<1>5. Exceeds(x, y) /\ Exceeds(y, z) => Exceeds(x, z)
  BY <1>1, ExceedsLexicographically DEF Scores
<1>6. x # y => Exceeds(x, y) \/ Exceeds(y, x)
  BY <1>1, <1>3, ExceedsLexicographically DEF Scores
<1>. QED BY <1>1, <1>2, <1>4, <1>5, <1>6

(* The cut keeps at most as many endpoints as the limit allows: the number  *)
(* of endpoints above one differs from one to the next and is below it.     *)
THEOREM SelectionWithinLimit ==
  ASSUME NEW stats, IsScored(stats), IsFiniteSet(DOMAIN stats), NEW limit \in Nat
  PROVE  /\ select_top_endpoints(stats, limit) \subseteq DOMAIN stats
         /\ IsFiniteSet(select_top_endpoints(stats, limit))
         /\ Cardinality(select_top_endpoints(stats, limit)) <= limit
<1> DEFINE S == select_top_endpoints(stats, limit)
           T == 0 .. limit - 1
           rank == [ip \in S |-> Cardinality(Above(stats, ip))]
<1>1. S \subseteq DOMAIN stats /\ \A ip \in S : Cardinality(Above(stats, ip)) < limit
  BY DEF select_top_endpoints
<1>2. \A ip \in DOMAIN stats : /\ IsFiniteSet(Above(stats, ip))
                               /\ Cardinality(Above(stats, ip)) \in Nat
  BY FS_Subset, FS_CardinalityType DEF Above
<1>3. rank \in [S -> T]
  BY <1>1, <1>2
<1>4. ASSUME NEW a \in S, NEW b \in S, Outranks(stats, a, b) PROVE rank[a] # rank[b]
  <2>1. Above(stats, a) \subseteq Above(stats, b)
    BY <1>1, <1>4, OutranksIsTotalOrder DEF Above
  <2>2. a \in Above(stats, b) /\ a \notin Above(stats, a)
    BY <1>1, <1>4, OutranksIsTotalOrder DEF Above
  <2>3. Above(stats, a) # Above(stats, b)
    BY <2>2
  <2>. QED BY <1>1, <1>2, <2>1, <2>3, FS_Subset
<1>5. \A a, b \in S : a # b => rank[a] # rank[b]
  BY <1>1, <1>4, OutranksIsTotalOrder
<1>6. rank \in Injection(S, T)
  BY <1>3, <1>5 DEF Injection, IsInjective
<1>7. IsFiniteSet(T) /\ Cardinality(T) = limit
  BY FS_Interval
<1>. QED BY <1>1, <1>6, <1>7, FS_Injection

(* Whatever timestamp a flow carries, its bucket is one of the window's.    *)
LEMMA BucketInRange ==
  ASSUME NEW timestamp \in Int, m_observation_start \in Int, m_observation_end \in Int
  PROVE  get_temporal_bucket(timestamp) \in 0 .. Buckets - 1
<1>1. Buckets \in Nat \ {0}
  BY LimitsAssumption DEF Buckets, Larger
<1> DEFINE span == m_observation_end - m_observation_start
           offset == Clamp(timestamp - m_observation_start, 0, span)
           quotient == (offset * Buckets) \div Larger(1, span + 1)
<1>2. CASE Buckets <= 1 \/ m_observation_start = MaxMs \/ m_observation_end <= m_observation_start
  BY <1>1, <1>2 DEF get_temporal_bucket
<1>3. CASE ~(Buckets <= 1 \/ m_observation_start = MaxMs \/ m_observation_end <= m_observation_start)
  <2>1. span \in Nat /\ offset \in Nat /\ Larger(1, span + 1) \in Nat \ {0}
    BY <1>3 DEF Clamp, Smaller, Larger
  <2>2. get_temporal_bucket(timestamp) = Smaller(quotient, Buckets - 1)
    BY <1>3 DEF get_temporal_bucket
  <2> HIDE DEF span, offset
  <2>3. quotient \in Nat
    <3>1. offset * Buckets \in Nat
      BY <1>1, <2>1
    <3>. QED BY <2>1, <3>1
  <2>. QED BY <1>1, <2>2, <2>3 DEF Smaller
<1>. QED BY <1>2, <1>3

-----------------------------------------------------------------------------
(* The inductive invariant.                                                *)

IsStats(s) ==
  /\ s \in StatsType
  /\ IsFiniteSet(s.peers) /\ IsFiniteSet(s.protocols)

\* The statistics of one class of endpoints.
StatsFor(stats) ==
  /\ IsFiniteSet(DOMAIN stats)
  /\ \A ip \in DOMAIN stats : ip \in Nat /\ check_allowed(ip) /\ IsStats(stats[ip])

StatsInv ==
  /\ StatsFor(m_internal_endpoint_stats)
  /\ StatsFor(m_external_endpoint_stats)

\* Only the cut after the first pass retains anything.
SelectedInv ==
  \/ /\ phase \in {"scan", "failed"}
     /\ m_selected_internal_ips = {} /\ m_selected_external_ips = {}
  \/ /\ phase # "scan"
     /\ m_selected_internal_ips = select_top_endpoints(m_internal_endpoint_stats, InternalLimit)
     /\ m_selected_external_ips = select_top_endpoints(m_external_endpoint_stats, ExternalLimit)

Retained == m_selected_internal_ips \cup m_selected_external_ips

EdgesOf(key) == {e \in IPEdge : e.src_ip = key[1] /\ e.dst_ip = key[2]}

IsKey(key) == key \in KeyType /\ key[3] < Buckets /\ {key[1], key[2]} \subseteq Retained

\* The reservoir holds flows between retained endpoints, under their own pair.
IsReservoir(data) == \A k \in DOMAIN data : IsKey(k) /\ IsEntry(data[k], EdgesOf(k))

ReservoirInv ==
  /\ IsReservoir(m_data)
  /\ phase = "scan" => m_data = NoData

\* The variables that are counted, listed or ordered.
ScalarInv ==
  /\ phase \in {"scan", "sample", "sampled", "failed"}
  /\ file \in Seq(Lines)
  /\ scanned \in 0 .. Len(file) /\ line_no \in 0 .. Len(file)
  /\ m_observation_start \in Int /\ m_observation_end \in Int
  /\ m_total_flows \in Nat
  /\ stage \in {"process_data", "build_graph", "built", "empty"}
  /\ keys \subseteq DOMAIN m_data
  /\ edge_no \in Nat

\* The graph is begun only when the reservoir is complete.
StageInv ==
  /\ stage = "process_data" => keys = {} /\ graph = EmptyGraph
  /\ stage # "process_data" => phase = "sampled"

EdgeType ==
  [src : Nat, dst : Nat, properties : {EdgeProperties(e) : e \in IPEdge}]

\* A graph over the addresses in R: its edges and its index lead to vertices.
IsGraph(g, R) ==
  /\ g.vertices \in Seq(R)
  /\ g.edges \in Seq(EdgeType)
  /\ \A i \in 1 .. Len(g.edges) :
       g.edges[i].src \in 1 .. Len(g.vertices) /\ g.edges[i].dst \in 1 .. Len(g.vertices)
  /\ \A ip \in DOMAIN g.ip_to_vertex :
       ip \in R /\ g.ip_to_vertex[ip] \in 1 .. Len(g.vertices)

GraphInv == IsGraph(graph, Retained)

IInv ==
  /\ ScalarInv /\ StatsInv /\ SelectedInv
  /\ ReservoirInv /\ StageInv /\ GraphInv

-----------------------------------------------------------------------------
(* The statistics.                                                          *)

(* What a line that passes the checks of the first pass carries.            *)
LEMMA LineFields ==
  ASSUME NEW l \in Lines
  PROVE  /\ l.src \in Nat \cup {None} /\ l.dst \in Nat \cup {None}
         /\ l.protocol \in Nat \cup {None}
         /\ l.src_port \in Nat \cup {None} /\ l.dst_port \in Nat \cup {None}
         /\ l.fwd # None => l.fwd.start \in Int /\ l.fwd.end \in Int
         /\ HasReverse(l) => l.rev.start \in Int /\ l.rev.end \in Int
<1>1. l \in LineType
  BY LinesAssumption
<1>2. l.fwd # None => l.fwd \in Timestamps
  BY <1>1 DEF LineType
<1>3. HasReverse(l) => l.rev \in Timestamps
  BY <1>1 DEF LineType, HasReverse
<1>4. \A t \in Timestamps : t.start \in Int /\ t.end \in Int
  BY DEF Timestamps
<1>. QED BY <1>1, <1>2, <1>3, <1>4 DEF LineType

(* update_endpoint_stats adds an endpoint, or updates it, and no other.     *)
LEMMA ObserveKeepsStats ==
  ASSUME NEW stats, StatsFor(stats), NEW ip \in Nat, check_allowed(ip), NEW peer \in Nat,
         NEW l \in Lines, l.protocol \in Nat, l.fwd # None
  PROVE  StatsFor(Observe(stats, ip, peer, l))
<1> DEFINE old == IF ip \in DOMAIN stats THEN stats[ip] ELSE NewStats
           new == [flow_count |-> old.flow_count + 1,
                   peers      |-> old.peers \cup {peer},
                   protocols  |-> old.protocols \cup {l.protocol},
                   first_seen |-> Smaller(old.first_seen, l.fwd.start),
                   last_seen  |-> Larger(old.last_seen, l.fwd.end)]
           result == Observe(stats, ip, peer, l)
<1>1. IsStats(old)
  BY FS_EmptySet, LimitsAssumption DEF StatsFor, NewStats, IsStats, StatsType
<1>2. result = [k \in DOMAIN stats \cup {ip} |-> IF k = ip THEN new ELSE stats[k]]
  BY DEF Observe
<1> HIDE DEF old, result
<1>3. IsStats(new)
  <2>1. IsFiniteSet(new.peers) /\ IsFiniteSet(new.protocols)
    BY <1>1, FS_AddElement DEF IsStats
  <2>2. new \in StatsType
    BY <1>1, LineFields DEF IsStats, StatsType, Smaller, Larger
  <2>. QED BY <2>1, <2>2 DEF IsStats
<1> HIDE DEF new
<1>4. IsFiniteSet(DOMAIN result)
  BY <1>2, FS_AddElement DEF StatsFor
<1>5. \A k \in DOMAIN result : k \in Nat /\ check_allowed(k) /\ IsStats(result[k])
  BY <1>2, <1>3 DEF StatsFor
<1>. QED BY <1>4, <1>5 DEF StatsFor, result

(* Both updates of a flow between allowed addresses, in either class.       *)
LEMMA ObserveFlowKeepsStats ==
  ASSUME NEW stats, StatsFor(stats), NEW l \in Lines, Complete(l), BothAllowed(l), l.fwd # None
  PROVE  /\ StatsFor(ObserveFlow(stats, check_internal, l))
         /\ StatsFor(ObserveFlow(stats, External, l))
<1>1. l.src \in Nat /\ l.dst \in Nat /\ l.protocol \in Nat
  BY LineFields DEF Complete
<1>2. check_allowed(l.src) /\ check_allowed(l.dst)
  BY DEF BothAllowed
<1> DEFINE afterSrc == Observe(stats, l.src, l.dst, l)
<1>3. StatsFor(afterSrc)
  BY <1>1, <1>2, ObserveKeepsStats
<1> HIDE DEF afterSrc
<1>4. StatsFor(Observe(stats, l.dst, l.src, l)) /\ StatsFor(Observe(afterSrc, l.dst, l.src, l))
  BY <1>1, <1>2, <1>3, ObserveKeepsStats
<1>. QED BY <1>3, <1>4 DEF ObserveFlow, afterSrc

(* Statistics can be scored, so that SelectionWithinLimit applies.          *)
LEMMA StatsAreScored ==
  ASSUME NEW stats, StatsFor(stats)
  PROVE  IsScored(stats)
<1> SUFFICES ASSUME NEW ip \in DOMAIN stats
             PROVE  ip \in Nat /\ Score(stats[ip]) \in Scores
  BY DEF IsScored
<1> DEFINE s == stats[ip]
<1>1. ip \in Nat /\ IsStats(s)
  BY DEF StatsFor
<1> HIDE DEF s
<1>2. Cardinality(s.peers) \in Nat /\ Cardinality(s.protocols) \in Nat
  BY <1>1, FS_CardinalityType DEF IsStats
<1>3. s.flow_count \in Nat /\ Span(s) \in Int
  BY <1>1 DEF IsStats, StatsType, Span
<1>. QED BY <1>1, <1>2, <1>3 DEF Score, Scores, s

(* What is retained is allowed, and no more than the limits say.            *)
LEMMA RetainedFacts ==
  ASSUME StatsInv, SelectedInv
  PROVE  /\ \A ip \in Retained : ip \in Nat /\ check_allowed(ip)
         /\ IsFiniteSet(Retained)
         /\ Cardinality(Retained) <= InternalLimit + ExternalLimit
<1> DEFINE int == m_selected_internal_ips
           ext == m_selected_external_ips
<1>1. /\ int \subseteq DOMAIN m_internal_endpoint_stats
      /\ IsFiniteSet(int) /\ Cardinality(int) <= InternalLimit
  <2>1. CASE int = {}
    BY <2>1, FS_EmptySet, LimitsAssumption
  <2>2. CASE int = select_top_endpoints(m_internal_endpoint_stats, InternalLimit)
    <3>1. StatsFor(m_internal_endpoint_stats)
      BY DEF StatsInv
    <3>2. IsFiniteSet(DOMAIN m_internal_endpoint_stats)
      BY <3>1 DEF StatsFor
    <3>. QED BY <2>2, <3>1, <3>2, StatsAreScored, SelectionWithinLimit, LimitsAssumption
  <2>. QED BY <2>1, <2>2 DEF SelectedInv
<1>2. /\ ext \subseteq DOMAIN m_external_endpoint_stats
      /\ IsFiniteSet(ext) /\ Cardinality(ext) <= ExternalLimit
  <2>1. CASE ext = {}
    BY <2>1, FS_EmptySet, LimitsAssumption
  <2>2. CASE ext = select_top_endpoints(m_external_endpoint_stats, ExternalLimit)
    <3>1. StatsFor(m_external_endpoint_stats)
      BY DEF StatsInv
    <3>2. IsFiniteSet(DOMAIN m_external_endpoint_stats)
      BY <3>1 DEF StatsFor
    <3>. QED BY <2>2, <3>1, <3>2, StatsAreScored, SelectionWithinLimit, LimitsAssumption
  <2>. QED BY <2>1, <2>2 DEF SelectedInv
<1>3. \A ip \in Retained : ip \in Nat /\ check_allowed(ip)
  BY <1>1, <1>2 DEF Retained, StatsInv, StatsFor
<1>4. /\ IsFiniteSet(int \cup ext)
      /\ Cardinality(int \cup ext) = Cardinality(int) + Cardinality(ext) - Cardinality(int \cap ext)
  BY <1>1, <1>2, FS_Union
<1>5. /\ Cardinality(int) \in Nat /\ Cardinality(ext) \in Nat
      /\ Cardinality(int \cap ext) \in Nat
  <2>1. IsFiniteSet(int \cap ext)
    BY <1>1, FS_Subset
  <2>. QED BY <1>1, <1>2, <2>1, FS_CardinalityType
<1>. QED BY <1>1, <1>2, <1>3, <1>4, <1>5, LimitsAssumption DEF Retained

-----------------------------------------------------------------------------
(* The reservoir and the graph.                                             *)

(* Both edges of a flow between retained endpoints have a key of their own. *)
LEMMA FlowKeys ==
  ASSUME ScalarInv, StatsInv, SelectedInv, NEW l \in Lines, BothRetained(l), ParsesForward(l)
  PROVE  LET forward == parse_flow_from_json(l)
             reverse == parse_rev_flow_from_json(l)
         IN  /\ IsKey(make_edge_bucket_key(forward))
             /\ forward \in EdgesOf(make_edge_bucket_key(forward))
             /\ HasReverse(l) =>
                  /\ IsKey(make_edge_bucket_key(reverse))
                  /\ reverse \in EdgesOf(make_edge_bucket_key(reverse))
<1>1. /\ l.src \in Nat /\ l.dst \in Nat /\ l.protocol \in Nat
      /\ l.src_port \in Nat \cup {None} /\ l.dst_port \in Nat \cup {None}
      /\ l.fwd.start \in Int /\ l.fwd.end \in Int
      /\ HasReverse(l) => l.rev.start \in Int /\ l.rev.end \in Int
  BY LineFields DEF BothRetained, ParsesForward
<1>2. l.src \in Retained /\ l.dst \in Retained
  BY DEF BothRetained, is_retained_endpoint, Retained
<1>3. \A t \in Int : get_temporal_bucket(t) \in Nat /\ get_temporal_bucket(t) < Buckets
  <2>1. Buckets \in Nat
    BY LimitsAssumption DEF Buckets, Larger
  <2>2. m_observation_start \in Int /\ m_observation_end \in Int
    BY DEF ScalarInv
  <2>3. \A t \in Int : get_temporal_bucket(t) \in 0 .. Buckets - 1
    BY <2>2, BucketInRange
  <2>. QED BY <2>1, <2>3
<1>4. parse_flow_from_json(l) \in IPEdge
  BY <1>1 DEF parse_flow_from_json, IPEdge
<1>5. HasReverse(l) => parse_rev_flow_from_json(l) \in IPEdge
  BY <1>1 DEF parse_rev_flow_from_json, IPEdge
<1>. QED BY <1>1, <1>2, <1>3, <1>4, <1>5
         DEF make_edge_bucket_key, parse_flow_from_json, parse_rev_flow_from_json, IsKey, KeyType, EdgesOf

(* Offering an edge under its own key keeps the reservoir in order.         *)
LEMMA OfferKeepsReservoir ==
  ASSUME NEW data, IsReservoir(data), NEW edge, NEW key,
         IsKey(key), edge \in EdgesOf(key), NEW data2 \in add(data, key, edge)
  PROVE  IsReservoir(data2) /\ DOMAIN data \subseteq DOMAIN data2
<1>1. /\ DOMAIN data2 = DOMAIN data \cup {key}
      /\ data2[key] \in AddToEntry(Entry(data, key), edge)
  BY AddReachesItsKey
<1>2. IsEntry(data2[key], EdgesOf(key))
  <2>1. key \in DOMAIN data => IsEntry(data[key], EdgesOf(key))
    BY DEF IsReservoir
  <2>. QED BY <1>1, <2>1, AddKeepsEntry
<1>3. \A k \in DOMAIN data : k # key => data2[k] = data[k]
  BY AddLeavesOtherKeys
<1>. QED BY <1>1, <1>2, <1>3 DEF IsReservoir

(* A new vertex carries a retained address and gets a descriptor in range.  *)
LEMMA EmplaceKeepsGraph ==
  ASSUME NEW R, NEW g, IsGraph(g, R), NEW ip \in R
  PROVE  /\ IsGraph(EmplaceNewVertex(g, ip), R)
         /\ DOMAIN EmplaceNewVertex(g, ip).ip_to_vertex = DOMAIN g.ip_to_vertex \cup {ip}
<1> DEFINE g2 == EmplaceNewVertex(g, ip)
           index == IF ip \in DOMAIN g.ip_to_vertex THEN g.ip_to_vertex
                    ELSE [k \in DOMAIN g.ip_to_vertex \cup {ip} |->
                            IF k = ip THEN Len(g.vertices) + 1 ELSE g.ip_to_vertex[k]]
<1>1. g2 = [vertices |-> Append(g.vertices, ip), edges |-> g.edges, ip_to_vertex |-> index]
  BY DEF EmplaceNewVertex
<1>2. /\ Append(g.vertices, ip) \in Seq(R)
      /\ Len(Append(g.vertices, ip)) = Len(g.vertices) + 1 /\ Len(g.vertices) \in Nat
  BY AppendProperties DEF IsGraph
<1>3. /\ DOMAIN index = DOMAIN g.ip_to_vertex \cup {ip}
      /\ \A k \in DOMAIN index : k \in R /\ index[k] \in 1 .. Len(g.vertices) + 1
  BY <1>2 DEF IsGraph
<1> HIDE DEF g2, index
<1>4. \A i \in 1 .. Len(g.edges) :
        /\ g.edges[i].src \in 1 .. Len(g.vertices) + 1
        /\ g.edges[i].dst \in 1 .. Len(g.vertices) + 1
  BY <1>2 DEF IsGraph
<1>. QED BY <1>1, <1>2, <1>3, <1>4 DEF IsGraph, g2

(* An edge between two vertices keeps the graph in order.                   *)
LEMMA BoostAddEdgeKeepsGraph ==
  ASSUME NEW R, NEW g, IsGraph(g, R), NEW src \in 1 .. Len(g.vertices),
         NEW dst \in 1 .. Len(g.vertices), NEW p \in {EdgeProperties(e) : e \in IPEdge}
  PROVE  IsGraph(BoostAddEdge(g, src, dst, p), R)
<1> DEFINE edge == [src |-> src, dst |-> dst, properties |-> p]
           g2 == BoostAddEdge(g, src, dst, p)
<1>1. g2 = [vertices |-> g.vertices, edges |-> Append(g.edges, edge), ip_to_vertex |-> g.ip_to_vertex]
  BY DEF BoostAddEdge, BoostEdge
<1>2. edge \in EdgeType
  BY DEF EdgeType, IsGraph
<1>3. edge.src = src /\ edge.dst = dst
  OBVIOUS
<1> HIDE DEF edge, g2
<1>4. /\ Append(g.edges, edge) \in Seq(EdgeType)
      /\ Len(Append(g.edges, edge)) = Len(g.edges) + 1 /\ Len(g.edges) \in Nat
      /\ \A i \in 1 .. Len(g.edges) : Append(g.edges, edge)[i] = g.edges[i]
      /\ Append(g.edges, edge)[Len(g.edges) + 1] = edge
  BY <1>2, AppendProperties DEF IsGraph
<1>5. \A i \in 1 .. Len(g.edges) + 1 :
        /\ Append(g.edges, edge)[i].src \in 1 .. Len(g.vertices)
        /\ Append(g.edges, edge)[i].dst \in 1 .. Len(g.vertices)
  <2> SUFFICES ASSUME NEW i \in 1 .. Len(g.edges) + 1
               PROVE  /\ Append(g.edges, edge)[i].src \in 1 .. Len(g.vertices)
                      /\ Append(g.edges, edge)[i].dst \in 1 .. Len(g.vertices)
    OBVIOUS
  <2>1. CASE i = Len(g.edges) + 1
    BY <1>3, <1>4, <2>1
  <2>2. CASE i # Len(g.edges) + 1
    <3>1. i \in 1 .. Len(g.edges)
      BY <1>4, <2>2
    <3>. QED BY <1>4, <3>1 DEF IsGraph
  <2>. QED BY <2>1, <2>2
<1>. QED BY <1>1, <1>4, <1>5 DEF IsGraph, g2

(* A stored flow becomes an edge between vertices of its two addresses.     *)
LEMMA AddFlowKeepsGraph ==
  ASSUME NEW R, NEW g, IsGraph(g, R), NEW src_ip \in R, NEW dst_ip \in R,
         NEW p \in {EdgeProperties(e) : e \in IPEdge}
  PROVE  IsGraph(add_edge_and_vertex_if_not_exists(g, src_ip, dst_ip, p), R)
<1> DEFINE withSrc == IF src_ip \in DOMAIN g.ip_to_vertex THEN g ELSE EmplaceNewVertex(g, src_ip)
           withDst == IF dst_ip \in DOMAIN g.ip_to_vertex THEN withSrc
                      ELSE EmplaceNewVertex(withSrc, dst_ip)
<1>1. add_edge_and_vertex_if_not_exists(g, src_ip, dst_ip, p)
        = BoostAddEdge(withDst, withDst.ip_to_vertex[src_ip], withDst.ip_to_vertex[dst_ip], p)
  BY DEF add_edge_and_vertex_if_not_exists
<1>2. IsGraph(withSrc, R) /\ DOMAIN withSrc.ip_to_vertex = DOMAIN g.ip_to_vertex \cup {src_ip}
  BY EmplaceKeepsGraph
<1> HIDE DEF withSrc
<1>3. /\ IsGraph(withDst, R)
      /\ {src_ip, dst_ip} \subseteq DOMAIN withDst.ip_to_vertex
  BY <1>2, EmplaceKeepsGraph
<1> HIDE DEF withDst
<1>4. /\ withDst.ip_to_vertex[src_ip] \in 1 .. Len(withDst.vertices)
      /\ withDst.ip_to_vertex[dst_ip] \in 1 .. Len(withDst.vertices)
  BY <1>3 DEF IsGraph
<1>. QED BY <1>1, <1>3, <1>4, BoostAddEdgeKeepsGraph

-----------------------------------------------------------------------------
(* The steps.                                                               *)

(* Before the input is opened nothing is known, kept or built.              *)
LEMMA InitEstablishesIInv == IngestInit => IInv
<1> SUFFICES ASSUME IngestInit PROVE IInv
  OBVIOUS
<1>1. /\ << >> \in Seq(Lines) /\ Len(<< >>) = 0
      /\ DOMAIN NoData = {}
      /\ LimitsAssumption
  BY LimitsAssumption DEF NoData
<1>2. ScalarInv /\ StageInv
  BY <1>1, LimitsAssumption DEF IngestInit, Init, ScalarInv, StageInv
<1>3. StatsInv
  BY <1>1, FS_EmptySet DEF IngestInit, Init, StatsInv, StatsFor
<1>4. SelectedInv
  BY DEF IngestInit, Init, SelectedInv
<1>5. ReservoirInv
  BY <1>1 DEF IngestInit, Init, ReservoirInv, IsReservoir
<1>6. GraphInv
  BY DEF IngestInit, GraphInv, IsGraph, EmptyGraph
<1>. QED BY <1>2, <1>3, <1>4, <1>5, <1>6 DEF IInv

(* What only depends on the selections keeps its meaning with them.         *)
LEMMA SameSelection ==
  ASSUME UNCHANGED selectedVars
  PROVE  /\ Retained' = Retained
         /\ \A k : IsKey(k)' <=> IsKey(k)
         /\ \A data : IsReservoir(data)' <=> IsReservoir(data)
  BY DEF selectedVars, Retained, IsKey, IsReservoir

(* A line is appended to the file.                                          *)
LEMMA FileGrows ==
  ASSUME file \in Seq(Lines), NEW l \in Lines
  PROVE  Append(file, l) \in Seq(Lines) /\ Len(Append(file, l)) = Len(file) + 1
  BY AppendProperties

(* The first pass.                                                          *)
LEMMA ScanPreservesIInv ==
  ASSUME IInv, UNCHANGED buildVars, NEW l \in Lines,
         ScanMalformed(l) \/ ScanInvalid(l) \/ ScanBlocked(l) \/ ScanFlow(l)
  PROVE  IInv'
<1>1. /\ phase = "scan" /\ phase' \in {"scan", "failed"}
      /\ file' = Append(file, l) /\ scanned' = scanned + 1
      /\ UNCHANGED <<line_no, selectedVars, m_data>>
      /\ m_total_flows' \in {m_total_flows, m_total_flows + 1}
  BY DEF ScanMalformed, ScanInvalid, ScanBlocked, ScanFlow, ReadForScan
<1>2. stage = "process_data" /\ stage' = stage /\ m_data = NoData
      /\ keys' = keys /\ edge_no' = edge_no /\ graph' = graph
  BY <1>1 DEF IInv, StageInv, ReservoirInv, buildVars
<1>3. m_observation_start' \in Int /\ m_observation_end' \in Int
  BY LineFields DEF IInv, ScalarInv, ScanMalformed, ScanInvalid, ScanBlocked, ScanFlow,
                    windowVars, Smaller, Larger
<1>4. ScalarInv'
  BY <1>1, <1>2, <1>3, FileGrows DEF IInv, ScalarInv
<1>5. StatsInv'
  <2>1. CASE ScanFlow(l)
    BY <2>1, ObserveFlowKeepsStats DEF ScanFlow, IInv, StatsInv
  <2>2. CASE UNCHANGED statsVars
    BY <2>2 DEF statsVars, IInv, StatsInv
  <2>. QED BY <2>1, <2>2 DEF ScanMalformed, ScanInvalid, ScanBlocked
<1>6. SelectedInv'
  BY <1>1 DEF IInv, SelectedInv, selectedVars
<1>7. ReservoirInv'
  BY <1>1, <1>2, SameSelection DEF IInv, ReservoirInv
<1>8. StageInv' /\ GraphInv'
  BY <1>1, <1>2, SameSelection DEF IInv, StageInv, GraphInv
<1>. QED BY <1>4, <1>5, <1>6, <1>7, <1>8 DEF IInv

(* The cut between the passes: nothing has been kept or built yet.          *)
LEMMA FinishScanPreservesIInv ==
  ASSUME IInv, UNCHANGED buildVars, FinishScan
  PROVE  IInv'
<1>1. /\ phase = "scan" /\ phase' = "sample"
      /\ UNCHANGED <<file, scanned, line_no, statsVars, windowVars, m_total_flows, m_data>>
      /\ stage = "process_data" /\ m_data = NoData
      /\ stage' = stage /\ keys' = keys /\ edge_no' = edge_no /\ graph' = EmptyGraph
  BY DEF FinishScan, IInv, StageInv, ReservoirInv, buildVars
<1>2. ScalarInv'
  BY <1>1 DEF IInv, ScalarInv, windowVars
<1>3. StatsInv'
  BY <1>1 DEF IInv, StatsInv, statsVars
<1>4. SelectedInv'
  BY <1>1 DEF FinishScan, SelectedInv, statsVars
<1>5. ReservoirInv'
  BY <1>1 DEF ReservoirInv, IsReservoir, NoData
<1>6. StageInv'
  BY <1>1 DEF IInv, StageInv
<1>7. GraphInv'
  BY <1>1 DEF GraphInv, IsGraph, EmptyGraph
<1>. QED BY <1>2, <1>3, <1>4, <1>5, <1>6, <1>7 DEF IInv

(* The second pass.                                                         *)
LEMMA SamplePreservesIInv ==
  ASSUME IInv, UNCHANGED buildVars,
         (\E l \in Lines : GrowFile(l)) \/ SampleMalformed \/ SampleSkip \/ SampleFlow \/ FinishSample
  PROVE  IInv'
<1>1. /\ phase = "sample" /\ phase' \in {"sample", "sampled", "failed"}
      /\ UNCHANGED <<scanned, statsVars, selectedVars, windowVars, m_total_flows>>
  BY DEF GrowFile, SampleMalformed, SampleSkip, SampleFlow, FinishSample, ReadForSample
<1>2. stage = "process_data" /\ stage' = stage /\ keys = {}
      /\ keys' = keys /\ edge_no' = edge_no /\ graph' = graph
  BY <1>1 DEF IInv, StageInv, buildVars
<1> DEFINE Lengthened ==
      /\ file' \in Seq(Lines) /\ Len(file') \in Nat /\ Len(file') >= Len(file)
      /\ line_no' \in 0 .. Len(file')
<1>3. Lengthened
  <2>1. ASSUME NEW l \in Lines, GrowFile(l) PROVE Lengthened
    BY <2>1, FileGrows DEF GrowFile, IInv, ScalarInv
  <2>2. CASE SampleMalformed \/ SampleSkip \/ SampleFlow
    BY <2>2 DEF SampleMalformed, SampleSkip, SampleFlow, ReadForSample, IInv, ScalarInv
  <2>3. CASE FinishSample
    BY <2>3 DEF FinishSample, IInv, ScalarInv
  <2>. QED BY <2>1, <2>2, <2>3
<1>4. IsReservoir(m_data')
  <2>1. CASE SampleFlow
    <3> DEFINE l == CurrentLine
               forward == parse_flow_from_json(l)
               reverse == parse_rev_flow_from_json(l)
               fkey == make_edge_bucket_key(forward)
               rkey == make_edge_bucket_key(reverse)
    <3>1. l \in Lines
      BY <2>1 DEF SampleFlow, ReadForSample, CurrentLine, IInv, ScalarInv
    <3>2. BothRetained(l) /\ ParsesForward(l)
      BY <2>1 DEF SampleFlow
    <3> HIDE DEF l
    <3>3. /\ IsKey(fkey) /\ forward \in EdgesOf(fkey)
          /\ HasReverse(l) => IsKey(rkey) /\ reverse \in EdgesOf(rkey)
      BY <3>1, <3>2, FlowKeys DEF IInv
    <3>4. PICK d \in add(m_data, fkey, forward) :
            IF HasReverse(l) THEN m_data' \in add(d, rkey, reverse) ELSE m_data' = d
      BY <2>1 DEF SampleFlow, add_edge_to_reservoir, l
    <3> HIDE DEF forward, reverse, fkey, rkey
    <3>5. IsReservoir(m_data)
      BY DEF IInv, ReservoirInv
    <3>6. IsReservoir(d)
      BY <3>3, <3>4, <3>5, OfferKeepsReservoir
    <3>. QED BY <3>3, <3>4, <3>6, OfferKeepsReservoir
  <2>2. CASE UNCHANGED m_data
    BY <2>2 DEF IInv, ReservoirInv
  <2>. QED BY <2>1, <2>2 DEF GrowFile, SampleMalformed, SampleSkip, FinishSample
<1>5. ScalarInv'
  BY <1>1, <1>2, <1>3 DEF IInv, ScalarInv, windowVars
<1>6. StatsInv' /\ SelectedInv'
  BY <1>1 DEF IInv, StatsInv, SelectedInv, statsVars, selectedVars
<1>7. ReservoirInv'
  BY <1>1, <1>4, SameSelection DEF ReservoirInv, IsReservoir
<1>8. StageInv' /\ GraphInv'
  BY <1>1, <1>2, SameSelection DEF IInv, StageInv, GraphInv
<1>. QED BY <1>5, <1>6, <1>7, <1>8 DEF IInv

(* The graph is built from a reservoir that no longer changes.              *)
LEMMA BuildPreservesIInv ==
  ASSUME IInv,
         StartBuild \/ (\E key \in keys : AddEdge(key) \/ NextKey(key)) \/ FinishBuild
  PROVE  IInv'
<1>1. /\ UNCHANGED flowVars
      /\ stage' \in {"build_graph", "built", "empty"}
      /\ phase = "sampled"
      /\ keys' \subseteq DOMAIN m_data /\ edge_no' \in Nat
  BY DEF StartBuild, AddEdge, NextKey, FinishBuild, IInv, StageInv, ScalarInv, get_keys
<1>2. ScalarInv' /\ StatsInv' /\ SelectedInv' /\ StageInv'
  BY <1>1 DEF flowVars, IInv, ScalarInv, StatsInv, SelectedInv, StageInv, statsVars, selectedVars,
              windowVars
<1>3. Retained' = Retained
  BY <1>1, SameSelection DEF flowVars
<1>4. ReservoirInv'
  BY <1>1, SameSelection DEF flowVars, IInv, ReservoirInv
<1>5. GraphInv'
  <2>1. ASSUME NEW key \in keys, AddEdge(key) PROVE GraphInv'
    <3> DEFINE e == get(m_data, key)[edge_no + 1]
    <3>1. /\ IsKey(key) /\ get(m_data, key) \in Seq(EdgesOf(key))
          /\ edge_no + 1 \in 1 .. Len(get(m_data, key))
      BY <2>1 DEF IInv, ScalarInv, ReservoirInv, IsReservoir, IsEntry, AddEdge, get
    <3>2. e \in EdgesOf(key)
      BY <3>1
    <3> HIDE DEF e
    <3>3. e \in IPEdge /\ e.src_ip \in Retained /\ e.dst_ip \in Retained
      BY <3>1, <3>2 DEF EdgesOf, IsKey
    <3>4. graph' = add_edge_and_vertex_if_not_exists(graph, e.src_ip, e.dst_ip, EdgeProperties(e))
      BY <2>1 DEF AddEdge, e
    <3>5. EdgeProperties(e) \in {EdgeProperties(f) : f \in IPEdge}
      BY <3>3
    <3>6. IsGraph(graph', Retained)
      BY <3>3, <3>4, <3>5, AddFlowKeepsGraph DEF IInv, GraphInv
    <3>. QED BY <1>3, <3>6 DEF GraphInv
  <2>2. CASE UNCHANGED graph
    BY <1>3, <2>2 DEF IInv, GraphInv
  <2>. QED BY <2>1, <2>2 DEF StartBuild, NextKey, FinishBuild
<1>. QED BY <1>2, <1>4, <1>5 DEF IInv

(* The inductive invariant holds throughout every run of the ingestion.     *)
THEOREM Invariance == Spec => []IInv
<1>1. ASSUME IInv, [Next]_vars PROVE IInv'
  <2>1. CASE ProcessData
    BY <1>1, <2>1, ScanPreservesIInv, FinishScanPreservesIInv, SamplePreservesIInv
    DEF ProcessData, FlowNext
  <2>2. CASE UNCHANGED vars
    BY <1>1, <2>2, SameSelection
    DEF vars, flowVars, buildVars, IInv, ScalarInv, StatsInv, SelectedInv, ReservoirInv, StageInv,
        GraphInv, statsVars, selectedVars, windowVars
  <2>. QED BY <1>1, <2>1, <2>2, BuildPreservesIInv DEF Next, Ended
<1>. QED BY InitEstablishesIInv, <1>1, PTL DEF Spec

(* Every variable of the ingestion keeps its type; in particular no entry   *)
(* of the reservoir outgrows its capacity and every edge joins two vertices. *)
THEOREM TypeCorrectness == Spec => []TypeOK
<1>1. IInv => TypeOK
  <2> SUFFICES ASSUME IInv PROVE TypeOK
    OBVIOUS
  <2>1. \A stats \in {m_internal_endpoint_stats, m_external_endpoint_stats} :
          \A ip \in DOMAIN stats : ip \in Nat /\ stats[ip] \in StatsType
    BY DEF IInv, StatsInv, StatsFor, IsStats
  <2>2. \A ip \in Retained : ip \in Nat
    BY RetainedFacts DEF IInv
  <2>3. m_selected_internal_ips \subseteq Nat /\ m_selected_external_ips \subseteq Nat
    BY <2>2 DEF Retained
  <2>4. ASSUME NEW k \in DOMAIN m_data
        PROVE  /\ k \in KeyType /\ k[3] < Buckets
               /\ m_data[k].values \in Seq(IPEdge)
               /\ Len(m_data[k].values) \in 1 .. Capacity
               /\ m_data[k].total_seen \in Nat \ {0}
    <3>1. IsKey(k) /\ IsEntry(m_data[k], EdgesOf(k))
      BY DEF IInv, ReservoirInv, IsReservoir
    <3>2. EdgesOf(k) \subseteq IPEdge
      BY DEF EdgesOf
    <3>3. m_data[k].values \in Seq(IPEdge)
      BY <3>1, <3>2 DEF IsEntry
    <3>. QED BY <3>1, <3>3 DEF IsKey, IsEntry
  <2>5. graph.vertices \in Seq(Nat)
    BY <2>2 DEF IInv, GraphInv, IsGraph
  <2>6. \A i \in DOMAIN graph.edges :
          {graph.edges[i].src, graph.edges[i].dst} \subseteq DOMAIN graph.vertices
    BY DEF IInv, GraphInv, IsGraph
  <2>. QED BY <2>1, <2>3, <2>4, <2>5, <2>6 DEF IInv, ScalarInv, TypeOK
<1>. QED BY Invariance, <1>1, PTL

(* No address the checker refuses is stored in the reservoir or the graph,  *)
(* although the second pass and build_graph never ask the checker.          *)
THEOREM AllowedAddresses == Spec => []OnlyAllowedAddresses
<1>1. IInv => OnlyAllowedAddresses
  <2> SUFFICES ASSUME IInv PROVE OnlyAllowedAddresses
    OBVIOUS
  <2>1. \A ip \in Retained : check_allowed(ip)
    BY RetainedFacts DEF IInv
  <2>2. \A k \in DOMAIN m_data : k[1] \in Retained /\ k[2] \in Retained
    BY DEF IInv, ReservoirInv, IsReservoir, IsKey
  <2>3. \A v \in DOMAIN graph.vertices : graph.vertices[v] \in Retained
    BY DEF IInv, GraphInv, IsGraph
  <2>. QED BY <2>1, <2>2, <2>3 DEF OnlyAllowedAddresses
<1>. QED BY Invariance, <1>1, PTL

(* The graph never indexes more addresses than the two limits allow.        *)
THEOREM AddressLimits == Spec => []AddressesWithinLimits
<1>1. IInv => AddressesWithinLimits
  <2> SUFFICES ASSUME IInv PROVE AddressesWithinLimits
    OBVIOUS
  <2>1. DOMAIN graph.ip_to_vertex \subseteq Retained
    BY DEF IInv, GraphInv, IsGraph
  <2>2. IsFiniteSet(Retained) /\ Cardinality(Retained) <= InternalLimit + ExternalLimit
    BY RetainedFacts DEF IInv
  <2>3. /\ Cardinality(DOMAIN graph.ip_to_vertex) <= Cardinality(Retained)
        /\ Cardinality(DOMAIN graph.ip_to_vertex) \in Nat /\ Cardinality(Retained) \in Nat
    BY <2>1, <2>2, FS_Subset, FS_CardinalityType
  <2>. QED BY <2>2, <2>3, LimitsAssumption DEF AddressesWithinLimits
<1>. QED BY Invariance, <1>1, PTL

-----------------------------------------------------------------------------
(* The graph and the reservoir it is built from.                            *)

IndexedIn(g, v) ==
  g.vertices[v] \in DOMAIN g.ip_to_vertex /\ g.ip_to_vertex[g.vertices[v]] = v

\* The index leads to vertices of the address looked up, every address that has a vertex is
\* in it, edges end at indexed vertices, and a vertex that is not indexed is the only one of
\* its address, which is in loops.
IsIndexed(g, loops) ==
  /\ \A ip \in DOMAIN g.ip_to_vertex : g.vertices[g.ip_to_vertex[ip]] = ip
  /\ \A v \in 1 .. Len(g.vertices) : g.vertices[v] \in DOMAIN g.ip_to_vertex
  /\ \A i \in 1 .. Len(g.edges) : IndexedIn(g, g.edges[i].src) /\ IndexedIn(g, g.edges[i].dst)
  /\ \A v, w \in 1 .. Len(g.vertices) :
       ~IndexedIn(g, v) => /\ g.vertices[v] \in loops
                           /\ g.vertices[w] = g.vertices[v] => w = v \/ IndexedIn(g, w)

(* A new vertex takes the next descriptor and leaves the others alone.      *)
LEMMA EmplaceAppends ==
  ASSUME NEW R, NEW g, IsGraph(g, R), NEW ip \in R
  PROVE  LET g2 == EmplaceNewVertex(g, ip)
         IN  /\ Len(g.vertices) \in Nat
             /\ Len(g2.vertices) = Len(g.vertices) + 1
             /\ \A v \in 1 .. Len(g.vertices) : g2.vertices[v] = g.vertices[v]
             /\ g2.vertices[Len(g.vertices) + 1] = ip
             /\ g2.edges = g.edges
             /\ DOMAIN g2.ip_to_vertex = DOMAIN g.ip_to_vertex \cup {ip}
             /\ \A k \in DOMAIN g.ip_to_vertex : g2.ip_to_vertex[k] = g.ip_to_vertex[k]
             /\ ip \notin DOMAIN g.ip_to_vertex => g2.ip_to_vertex[ip] = Len(g.vertices) + 1
<1>1. g.vertices \in Seq(R)
  BY DEF IsGraph
<1>2. /\ Len(Append(g.vertices, ip)) = Len(g.vertices) + 1 /\ Len(g.vertices) \in Nat
      /\ \A v \in 1 .. Len(g.vertices) : Append(g.vertices, ip)[v] = g.vertices[v]
      /\ Append(g.vertices, ip)[Len(g.vertices) + 1] = ip
  BY <1>1, AppendProperties
<1>. QED BY <1>2 DEF EmplaceNewVertex

(* The first vertex of an address is indexed, and the only one.             *)
LEMMA FirstVertexIsIndexed ==
  ASSUME NEW R, NEW loops, NEW g, IsGraph(g, R), IsIndexed(g, loops),
         NEW ip \in R, ip \notin DOMAIN g.ip_to_vertex
  PROVE  LET g2 == EmplaceNewVertex(g, ip)
         IN  /\ IsIndexed(g2, loops)
             /\ \A v \in 1 .. Len(g2.vertices) : g2.vertices[v] = ip => IndexedIn(g2, v)
<1> DEFINE g2 == EmplaceNewVertex(g, ip)
           n == Len(g.vertices)
<1>1. /\ n \in Nat /\ Len(g2.vertices) = n + 1
      /\ \A v \in 1 .. n : g2.vertices[v] = g.vertices[v]
      /\ g2.vertices[n + 1] = ip
      /\ g2.edges = g.edges
      /\ DOMAIN g2.ip_to_vertex = DOMAIN g.ip_to_vertex \cup {ip}
      /\ \A k \in DOMAIN g.ip_to_vertex : g2.ip_to_vertex[k] = g.ip_to_vertex[k]
      /\ g2.ip_to_vertex[ip] = n + 1
  BY EmplaceAppends
<1>2. /\ \A k \in DOMAIN g.ip_to_vertex : g.ip_to_vertex[k] \in 1 .. n
      /\ \A i \in 1 .. Len(g.edges) : g.edges[i].src \in 1 .. n /\ g.edges[i].dst \in 1 .. n
  BY DEF IsGraph
<1> HIDE DEF g2, n
<1>3. \A v \in 1 .. n : IndexedIn(g2, v) <=> IndexedIn(g, v)
  BY <1>1 DEF IsIndexed, IndexedIn, n
<1>4. IndexedIn(g2, n + 1)
  BY <1>1 DEF IndexedIn
<1>5. \A v \in 1 .. n : g.vertices[v] # ip
  BY DEF IsIndexed, n
<1>6. \A v \in 1 .. n + 1 : v \in 1 .. n \/ v = n + 1
  BY <1>1
<1>7. \A k \in DOMAIN g2.ip_to_vertex : g2.vertices[g2.ip_to_vertex[k]] = k
  BY <1>1, <1>2 DEF IsIndexed
<1>8. \A v \in 1 .. n + 1 : g2.vertices[v] \in DOMAIN g2.ip_to_vertex
  BY <1>1, <1>6 DEF IsIndexed, n
<1>9. \A i \in 1 .. Len(g2.edges) : IndexedIn(g2, g2.edges[i].src) /\ IndexedIn(g2, g2.edges[i].dst)
  BY <1>1, <1>2, <1>3 DEF IsIndexed
<1>10. ASSUME NEW v \in 1 .. n + 1, NEW w \in 1 .. n + 1, ~IndexedIn(g2, v)
       PROVE  /\ g2.vertices[v] \in loops
              /\ g2.vertices[w] = g2.vertices[v] => w = v \/ IndexedIn(g2, w)
  <2>1. v \in 1 .. n /\ ~IndexedIn(g, v)
    BY <1>3, <1>4, <1>6, <1>10
  <2>. QED BY <1>1, <1>3, <1>4, <1>6, <2>1 DEF IsIndexed, n
<1>11. \A v \in 1 .. n + 1 : g2.vertices[v] = ip => IndexedIn(g2, v)
  BY <1>1, <1>4, <1>5, <1>6
<1>. QED BY <1>1, <1>7, <1>8, <1>9, <1>10, <1>11 DEF IsIndexed, g2

(* A second vertex of an address, made only for a loop, is not indexed.     *)
LEMMA SecondVertexIsAlone ==
  ASSUME NEW R, NEW loops, NEW g, IsGraph(g, R), IsIndexed(g, loops),
         NEW ip \in R, ip \in DOMAIN g.ip_to_vertex, ip \in loops,
         \A v \in 1 .. Len(g.vertices) : g.vertices[v] = ip => IndexedIn(g, v)
  PROVE  IsIndexed(EmplaceNewVertex(g, ip), loops)
<1> DEFINE g2 == EmplaceNewVertex(g, ip)
           n == Len(g.vertices)
<1>1. /\ n \in Nat /\ Len(g2.vertices) = n + 1
      /\ \A v \in 1 .. n : g2.vertices[v] = g.vertices[v]
      /\ g2.vertices[n + 1] = ip
      /\ g2.edges = g.edges
      /\ DOMAIN g2.ip_to_vertex = DOMAIN g.ip_to_vertex \cup {ip}
      /\ \A k \in DOMAIN g.ip_to_vertex : g2.ip_to_vertex[k] = g.ip_to_vertex[k]
  BY EmplaceAppends
<1>2. /\ \A k \in DOMAIN g.ip_to_vertex : g.ip_to_vertex[k] \in 1 .. n
      /\ \A i \in 1 .. Len(g.edges) : g.edges[i].src \in 1 .. n /\ g.edges[i].dst \in 1 .. n
  BY DEF IsGraph
<1> HIDE DEF g2, n
<1>3. \A v \in 1 .. n : IndexedIn(g2, v) <=> IndexedIn(g, v)
  BY <1>1 DEF IsIndexed, IndexedIn, n
<1>6. \A v \in 1 .. n + 1 : v \in 1 .. n \/ v = n + 1
  BY <1>1
<1>7. \A k \in DOMAIN g2.ip_to_vertex : g2.vertices[g2.ip_to_vertex[k]] = k
  BY <1>1, <1>2 DEF IsIndexed
<1>8. \A v \in 1 .. n + 1 : g2.vertices[v] \in DOMAIN g2.ip_to_vertex
  BY <1>1, <1>6 DEF IsIndexed, n
<1>9. \A i \in 1 .. Len(g2.edges) : IndexedIn(g2, g2.edges[i].src) /\ IndexedIn(g2, g2.edges[i].dst)
  BY <1>1, <1>2, <1>3 DEF IsIndexed
<1>10. ASSUME NEW v \in 1 .. n + 1, NEW w \in 1 .. n + 1, ~IndexedIn(g2, v)
       PROVE  /\ g2.vertices[v] \in loops
              /\ g2.vertices[w] = g2.vertices[v] => w = v \/ IndexedIn(g2, w)
  <2>1. CASE v = n + 1
    BY <1>1, <1>3, <1>6, <2>1 DEF n
  <2>2. CASE v \in 1 .. n
    <3>1. ~IndexedIn(g, v) /\ g.vertices[v] # ip
      BY <1>3, <1>10, <2>2 DEF n
    <3>2. g2.vertices[v] = g.vertices[v] /\ g.vertices[v] \in loops
      BY <1>1, <2>2, <3>1 DEF IsIndexed, n
    <3>3. ASSUME g2.vertices[w] = g2.vertices[v] PROVE w = v \/ IndexedIn(g2, w)
      <4>1. CASE w = n + 1
        BY <1>1, <3>1, <3>2, <3>3, <4>1
      <4>2. CASE w \in 1 .. n
        <5>1. g2.vertices[w] = g.vertices[w]
          BY <1>1, <4>2
        <5>2. w = v \/ IndexedIn(g, w)
          BY <2>2, <3>1, <3>2, <3>3, <4>2, <5>1 DEF IsIndexed, n
        <5>. QED BY <1>3, <4>2, <5>2
      <4>. QED BY <1>6, <4>1, <4>2
    <3>. QED BY <3>2, <3>3
  <2>. QED BY <1>6, <2>1, <2>2
<1>. QED BY <1>1, <1>7, <1>8, <1>9, <1>10 DEF IsIndexed, g2

(* What a stored flow adds: an edge at the end between indexed vertices of  *)
(* its addresses; the vertices there were stay.                             *)
LEMMA AddFlowKeepsIndex ==
  ASSUME NEW R, NEW loops, NEW g, IsGraph(g, R), IsIndexed(g, loops),
         NEW src_ip \in R, NEW dst_ip \in R, src_ip = dst_ip => src_ip \in loops,
         NEW p
  PROVE  LET g2 == add_edge_and_vertex_if_not_exists(g, src_ip, dst_ip, p)
             n == Len(g.edges)
         IN  /\ IsIndexed(g2, loops)
             /\ Len(g2.edges) = n + 1 /\ n \in Nat
             /\ \A i \in 1 .. n : g2.edges[i] = g.edges[i]
             /\ \A v \in 1 .. Len(g.vertices) : g2.vertices[v] = g.vertices[v]
             /\ g2.vertices[g2.edges[n + 1].src] = src_ip
             /\ g2.vertices[g2.edges[n + 1].dst] = dst_ip
             /\ g2.edges[n + 1].properties = p
<1> DEFINE withSrc == IF src_ip \in DOMAIN g.ip_to_vertex THEN g ELSE EmplaceNewVertex(g, src_ip)
           withDst == IF dst_ip \in DOMAIN g.ip_to_vertex THEN withSrc
                      ELSE EmplaceNewVertex(withSrc, dst_ip)
           src == withDst.ip_to_vertex[src_ip]
           dst == withDst.ip_to_vertex[dst_ip]
           g2 == add_edge_and_vertex_if_not_exists(g, src_ip, dst_ip, p)
           n == Len(g.edges)
<1>1. g2 = BoostAddEdge(withDst, src, dst, p)
  BY DEF add_edge_and_vertex_if_not_exists
<1>2. /\ IsGraph(withSrc, R) /\ IsIndexed(withSrc, loops)
      /\ DOMAIN withSrc.ip_to_vertex = DOMAIN g.ip_to_vertex \cup {src_ip}
      /\ withSrc.edges = g.edges
      /\ Len(g.vertices) \in Nat /\ Len(withSrc.vertices) \in Nat
      /\ Len(g.vertices) <= Len(withSrc.vertices)
      /\ \A v \in 1 .. Len(g.vertices) : withSrc.vertices[v] = g.vertices[v]
  <2>1. CASE src_ip \in DOMAIN g.ip_to_vertex
    BY <2>1 DEF IsGraph
  <2>2. CASE src_ip \notin DOMAIN g.ip_to_vertex
    BY <2>2, EmplaceAppends, EmplaceKeepsGraph, FirstVertexIsIndexed
  <2>. QED BY <2>1, <2>2
<1>3. src_ip \notin DOMAIN g.ip_to_vertex =>
        \A v \in 1 .. Len(withSrc.vertices) : withSrc.vertices[v] = src_ip => IndexedIn(withSrc, v)
  BY FirstVertexIsIndexed
<1> HIDE DEF withSrc
<1>4. /\ IsGraph(withDst, R) /\ IsIndexed(withDst, loops)
      /\ {src_ip, dst_ip} \subseteq DOMAIN withDst.ip_to_vertex
      /\ withDst.edges = g.edges
      /\ \A v \in 1 .. Len(g.vertices) : withDst.vertices[v] = g.vertices[v]
  <2>1. CASE dst_ip \in DOMAIN g.ip_to_vertex
    BY <1>2, <2>1
  <2>2. CASE dst_ip \notin DOMAIN g.ip_to_vertex
    <3>1. withDst = EmplaceNewVertex(withSrc, dst_ip)
      BY <2>2
    <3> HIDE DEF withDst
    <3>2. /\ IsGraph(withDst, R)
          /\ DOMAIN withDst.ip_to_vertex = DOMAIN withSrc.ip_to_vertex \cup {dst_ip}
      BY <1>2, <3>1, EmplaceKeepsGraph
    <3>3. /\ withDst.edges = withSrc.edges
          /\ \A v \in 1 .. Len(withSrc.vertices) : withDst.vertices[v] = withSrc.vertices[v]
      BY <1>2, <3>1, EmplaceAppends
    <3>4. IsIndexed(withDst, loops)
      <4>1. CASE dst_ip \in DOMAIN withSrc.ip_to_vertex
        <5>1. src_ip = dst_ip
          BY <1>2, <2>2, <4>1
        <5>. QED BY <1>2, <1>3, <2>2, <3>1, <4>1, <5>1, SecondVertexIsAlone
      <4>2. CASE dst_ip \notin DOMAIN withSrc.ip_to_vertex
        BY <1>2, <3>1, <4>2, FirstVertexIsIndexed
      <4>. QED BY <4>1, <4>2
    <3>. QED BY <1>2, <3>2, <3>3, <3>4
  <2>. QED BY <2>1, <2>2
<1> HIDE DEF withDst
<1>5. /\ withDst.vertices[src] = src_ip /\ IndexedIn(withDst, src)
      /\ withDst.vertices[dst] = dst_ip /\ IndexedIn(withDst, dst)
  BY <1>4 DEF IsIndexed, IndexedIn
<1> HIDE DEF src, dst, g2
<1> DEFINE edge == [src |-> src, dst |-> dst, properties |-> p]
<1>6. /\ g2.vertices = withDst.vertices /\ g2.ip_to_vertex = withDst.ip_to_vertex
      /\ g2.edges = Append(g.edges, edge)
  BY <1>1, <1>4 DEF BoostAddEdge, BoostEdge
<1>7. edge.src = src /\ edge.dst = dst /\ edge.properties = p
  OBVIOUS
<1> HIDE DEF edge
<1>8. /\ Len(g2.edges) = n + 1 /\ n \in Nat
      /\ \A i \in 1 .. n : g2.edges[i] = g.edges[i]
      /\ g2.edges[n + 1] = edge
  <2>1. g.edges \in Seq(EdgeType)
    BY DEF IsGraph
  <2>. QED BY <1>6, <2>1, AppendProperties
<1>9. \A v : IndexedIn(g2, v) <=> IndexedIn(withDst, v)
  BY <1>6 DEF IndexedIn
<1>10. \A i \in 1 .. Len(g2.edges) : IndexedIn(g2, g2.edges[i].src) /\ IndexedIn(g2, g2.edges[i].dst)
  <2> SUFFICES ASSUME NEW i \in 1 .. n + 1
               PROVE  IndexedIn(withDst, g2.edges[i].src) /\ IndexedIn(withDst, g2.edges[i].dst)
    BY <1>8, <1>9
  <2>1. CASE i = n + 1
    BY <1>5, <1>7, <1>8, <2>1
  <2>2. CASE i \in 1 .. n
    BY <1>4, <1>8, <2>2 DEF IsIndexed
  <2>. QED BY <1>8, <2>1, <2>2
<1>11. IsIndexed(g2, loops)
  BY <1>4, <1>6, <1>9, <1>10 DEF IsIndexed
<1>. QED BY <1>4, <1>5, <1>6, <1>7, <1>8, <1>11 DEF g2

-----------------------------------------------------------------------------
(* The graph and the stored flows.                                          *)

\* The addresses that have a stored flow to themselves.
Loops == {ip \in Retained : \E k \in DOMAIN m_data : k[1] = ip /\ k[2] = ip}

\* The stored flows that are edges already.
Done ==
  {s \in Slots : \/ s[1] \notin keys
                 \/ IsFirstKey(s[1], keys) /\ s[2] <= edge_no}

LabelIn(g, i) ==
  [src |-> g.vertices[g.edges[i].src], dst |-> g.vertices[g.edges[i].dst],
   properties |-> g.edges[i].properties]

IsMirror(f) ==
  /\ f \in Bijection(Done, 1 .. Len(graph.edges))
  /\ \A s \in Done : LabelIn(graph, f[s]) = SlotLabel(s)

BuiltInv ==
  /\ stage = "process_data" => edge_no = 0
  /\ stage \in {"built", "empty"} => keys = {}
  /\ stage # "process_data" => IsIndexed(graph, Loops) /\ \E f : IsMirror(f)

(* No two keys come first.                                                  *)
LEMMA OneFirstKey ==
  ASSUME NEW ks, ks \subseteq KeyType, NEW k1, NEW k2, IsFirstKey(k1, ks), IsFirstKey(k2, ks)
  PROVE  k1 = k2
<1> SUFFICES ASSUME k1 # k2 PROVE FALSE
  OBVIOUS
<1>1. k1 \in KeyType /\ k2 \in KeyType /\ KeyBefore(k1, k2) /\ KeyBefore(k2, k1)
  BY DEF IsFirstKey
<1>2. /\ k1[1] \in Nat /\ k1[2] \in Nat /\ k1[3] \in Nat
      /\ k2[1] \in Nat /\ k2[2] \in Nat /\ k2[3] \in Nat
  BY <1>1 DEF KeyType
<1>3. PICK i \in 1 .. 3 : k1[i] < k2[i] /\ \A m \in 1 .. i - 1 : k1[m] = k2[m]
  BY <1>1 DEF KeyBefore
<1>4. PICK j \in 1 .. 3 : k2[j] < k1[j] /\ \A m \in 1 .. j - 1 : k2[m] = k1[m]
  BY <1>1 DEF KeyBefore
<1>5. CASE i < j
  <2>1. i \in 1 .. j - 1
    BY <1>5
  <2>2. i = 1 \/ i = 2 \/ i = 3
    OBVIOUS
  <2>. QED BY <1>2, <1>3, <1>4, <2>1, <2>2
<1>6. CASE j < i
  <2>1. j \in 1 .. i - 1
    BY <1>6
  <2>2. j = 1 \/ j = 2 \/ j = 3
    OBVIOUS
  <2>. QED BY <1>2, <1>3, <1>4, <2>1, <2>2
<1>7. CASE i = j
  <2>2. i = 1 \/ i = 2 \/ i = 3
    OBVIOUS
  <2>. QED BY <1>2, <1>3, <1>4, <1>7, <2>2
<1>. QED BY <1>5, <1>6, <1>7

(* Nothing is numbered by the empty sequence.                               *)
LEMMA EmptyBijection ==
  << >> \in Bijection({}, 1 .. 0) /\ DOMAIN << >> = {}
<1>1. << >> = [x \in {} |-> x]
  OBVIOUS
<1>2. 1 .. 0 = {}
  OBVIOUS
<1>. QED BY <1>1, <1>2 DEF Bijection, Injection, Surjection, IsInjective

(* One more element on both sides of a bijection.                           *)
LEMMA ExtendBijection ==
  ASSUME NEW S, NEW n \in Nat, NEW f \in Bijection(S, 1 .. n), NEW x, x \notin S
  PROVE  \E g : /\ g \in Bijection(S \cup {x}, 1 .. n + 1)
                /\ \A s \in S : g[s] = f[s] /\ f[s] \in 1 .. n
                /\ g[x] = n + 1
<1> DEFINE g == [s \in S \cup {x} |-> IF s = x THEN n + 1 ELSE f[s]]
<1>1. /\ f \in [S -> 1 .. n]
      /\ \A a, b \in S : f[a] = f[b] => a = b
      /\ \A m \in 1 .. n : \E s \in S : f[s] = m
  BY DEF Bijection, Injection, Surjection, IsInjective
<1>2. \A s \in S : g[s] = f[s] /\ f[s] \in 1 .. n
  BY <1>1
<1>3. g[x] = n + 1
  OBVIOUS
<1>4. g \in [S \cup {x} -> 1 .. n + 1]
  BY <1>1
<1> HIDE DEF g
<1>5. \A a, b \in S \cup {x} : g[a] = g[b] => a = b
  BY <1>1, <1>2, <1>3
<1>6. ASSUME NEW m \in 1 .. n + 1 PROVE \E s \in S \cup {x} : g[s] = m
  <2>1. CASE m = n + 1
    BY <1>3, <2>1
  <2>2. CASE m \in 1 .. n
    BY <1>1, <1>2, <2>2
  <2>. QED BY <2>1, <2>2
<1>7. g \in Bijection(S \cup {x}, 1 .. n + 1)
  BY <1>4, <1>5, <1>6 DEF Bijection, Injection, Surjection, IsInjective
<1>. QED BY <1>2, <1>3, <1>7

(* When the build begins no slot is done and the graph is empty.            *)
LEMMA StartMirrors ==
  ASSUME IInv, BuiltInv, StartBuild
  PROVE  BuiltInv'
<1>1. /\ stage' = "build_graph" /\ keys' = DOMAIN m_data /\ edge_no' = 0
      /\ graph' = graph /\ graph = EmptyGraph /\ m_data' = m_data
  BY DEF StartBuild, BuiltInv, IInv, StageInv, flowVars, get_keys
<1>2. Done' = {}
  <2>1. \A s \in Slots' : s[1] \in DOMAIN m_data /\ s[2] >= 1
    BY <1>1 DEF Slots
  <2>2. \A s \in Slots' : s[2] \in Int
    BY CapacityAssumption DEF Slots
  <2>. QED BY <1>1, <2>1, <2>2 DEF Done
<1>3. IsIndexed(graph', Loops')
  BY <1>1 DEF IsIndexed, EmptyGraph
<1>4. IsMirror(<< >>)'
  BY <1>1, <1>2, EmptyBijection DEF IsMirror, EmptyGraph
<1>. QED BY <1>1, <1>3, <1>4 DEF BuiltInv

(* An edge that is added is that of the slot that was next.                 *)
LEMMA AddEdgeMirrors ==
  ASSUME IInv, BuiltInv, NEW key \in keys, AddEdge(key)
  PROVE  BuiltInv'
<1> DEFINE e == get(m_data, key)[edge_no + 1]
           slot == <<key, edge_no + 1>>
           n == Len(graph.edges)
           after == add_edge_and_vertex_if_not_exists(graph, e.src_ip, e.dst_ip, EdgeProperties(e))
<1>1. /\ stage = "build_graph" /\ stage' = stage /\ keys' = keys /\ edge_no' = edge_no + 1
      /\ UNCHANGED flowVars /\ m_data' = m_data
      /\ IsFirstKey(key, keys) /\ edge_no < Len(get(m_data, key)) /\ edge_no \in Nat
      /\ graph' = after
  BY DEF AddEdge, IInv, ScalarInv, flowVars
<1>2. /\ key \in DOMAIN m_data /\ IsKey(key) /\ get(m_data, key) \in Seq(EdgesOf(key))
      /\ Len(get(m_data, key)) \in 1 .. Capacity
      /\ keys \subseteq KeyType
  BY DEF IInv, ScalarInv, ReservoirInv, IsReservoir, IsEntry, get, IsKey
<1>3. e \in EdgesOf(key) /\ edge_no + 1 \in 1 .. Capacity
  BY <1>1, <1>2, CapacityAssumption
<1> HIDE DEF e
<1>4. /\ e.src_ip = key[1] /\ e.dst_ip = key[2]
      /\ e.src_ip \in Retained /\ e.dst_ip \in Retained
      /\ e.src_ip = e.dst_ip => e.src_ip \in Loops
  BY <1>2, <1>3 DEF EdgesOf, IsKey, Loops
<1>5. IsGraph(graph, Retained) /\ IsIndexed(graph, Loops)
  BY <1>1 DEF IInv, GraphInv, BuiltInv
<1>6. /\ IsIndexed(after, Loops)
      /\ Len(after.edges) = n + 1 /\ n \in Nat
      /\ \A i \in 1 .. n : after.edges[i] = graph.edges[i]
      /\ \A v \in 1 .. Len(graph.vertices) : after.vertices[v] = graph.vertices[v]
      /\ after.vertices[after.edges[n + 1].src] = e.src_ip
      /\ after.vertices[after.edges[n + 1].dst] = e.dst_ip
      /\ after.edges[n + 1].properties = EdgeProperties(e)
  BY <1>4, <1>5, AddFlowKeepsIndex
<1> HIDE DEF after
<1>7. Loops' = Loops
  BY <1>1, SameSelection DEF Loops, flowVars
<1>8. Slots' = Slots /\ slot \in Slots /\ \A s \in Slots : SlotLabel(s)' = SlotLabel(s)
  BY <1>1, <1>2, <1>3 DEF Slots, SlotLabel
<1>9. Done' = Done \cup {slot} /\ slot \notin Done
  <2>1. \A s \in Slots : s = <<s[1], s[2]>> /\ s[2] \in Nat
    BY CapacityAssumption DEF Slots
  <2>2. \A s \in Slots : s[1] # key => ~IsFirstKey(s[1], keys)
    BY <1>1, <1>2, OneFirstKey
  <2>3. slot[1] = key /\ slot[2] = edge_no + 1
    OBVIOUS
  <2>4. Done = {s \in Slots : s[1] \notin keys \/ (s[1] = key /\ s[2] <= edge_no)}
    BY <1>1, <2>2 DEF Done
  <2>5. Done' = {s \in Slots : s[1] \notin keys \/ (s[1] = key /\ s[2] <= edge_no + 1)}
    BY <1>1, <1>8, <2>2 DEF Done
  <2>6. \A s \in Slots : s[1] = key /\ s[2] = edge_no + 1 => s = slot
    BY <2>1
  <2>. QED BY <1>1, <1>8, <2>1, <2>3, <2>4, <2>5, <2>6
<1>10. PICK f : IsMirror(f)
  BY <1>1 DEF BuiltInv
<1>11. n \in Nat /\ f \in Bijection(Done, 1 .. n)
  BY <1>6, <1>10 DEF IsMirror
<1> HIDE DEF slot, n
<1>12. PICK h : /\ h \in Bijection(Done \cup {slot}, 1 .. n + 1)
                /\ \A s \in Done : h[s] = f[s] /\ f[s] \in 1 .. n
                /\ h[slot] = n + 1
  BY <1>9, <1>11, ExtendBijection
<1> USE DEF slot, n
<1>13. LabelIn(after, n + 1) = SlotLabel(slot)
  BY <1>4, <1>6 DEF LabelIn, SlotLabel, e
<1>14. \A i \in 1 .. n : LabelIn(after, i) = LabelIn(graph, i)
  BY <1>5, <1>6 DEF LabelIn, IsGraph
<1> HIDE DEF slot
<1>15. IsMirror(h)'
  <2>1. h \in Bijection(Done', 1 .. Len(after.edges))
    BY <1>6, <1>9, <1>12
  <2>2. ASSUME NEW s \in Done' PROVE LabelIn(after, h[s]) = SlotLabel(s)'
    <3>1. CASE s = slot
      BY <1>8, <1>12, <1>13, <3>1
    <3>2. CASE s \in Done
      <4>1. LabelIn(graph, f[s]) = SlotLabel(s) /\ s \in Slots
        BY <1>10, <3>2 DEF IsMirror, Done
      <4>. QED BY <1>8, <1>12, <1>14, <3>2, <4>1
    <3>. QED BY <1>9, <3>1, <3>2
  <2>. QED BY <1>1, <2>1, <2>2 DEF IsMirror
<1>. QED BY <1>1, <1>6, <1>7, <1>15 DEF BuiltInv

(* Going on to another key leaves the slots done as they are.               *)
LEMMA NextKeyMirrors ==
  ASSUME IInv, BuiltInv, NEW key \in keys, NextKey(key)
  PROVE  BuiltInv'
<1>1. /\ stage = "build_graph" /\ stage' = stage /\ keys' = keys \ {key} /\ edge_no' = 0
      /\ UNCHANGED flowVars /\ m_data' = m_data /\ graph' = graph
      /\ IsFirstKey(key, keys) /\ edge_no = Len(get(m_data, key))
  BY DEF NextKey, flowVars
<1>2. keys \subseteq KeyType
  BY DEF IInv, ScalarInv, ReservoirInv, IsReservoir, IsKey
<1>3. Done' = Done
  <2>1. \A s \in Slots : s[2] \in Nat \ {0} /\ s[2] <= Len(get(m_data, s[1]))
    BY CapacityAssumption DEF Slots
  <2>2. \A s \in Slots : IsFirstKey(s[1], keys) <=> s[1] = key
    BY <1>1, <1>2, OneFirstKey
  <2>3. Slots' = Slots
    BY <1>1 DEF Slots
  <2>4. Done = {s \in Slots : s[1] \notin keys \/ s[1] = key}
    BY <1>1, <2>1, <2>2 DEF Done
  <2>5. Done' = {s \in Slots : s[1] \notin keys \ {key}}
    BY <1>1, <2>1, <2>3 DEF Done
  <2>. QED BY <2>4, <2>5
<1>4. Loops' = Loops
  BY <1>1, SameSelection DEF Loops, flowVars
<1>5. PICK f : IsMirror(f)
  BY <1>1 DEF BuiltInv
<1>6. IsMirror(f)'
  BY <1>1, <1>3, <1>5 DEF IsMirror, SlotLabel
<1>. QED BY <1>1, <1>4, <1>6 DEF BuiltInv

(* When no key is left every slot is done.                                  *)
LEMMA FinishMirrors ==
  ASSUME IInv, BuiltInv, FinishBuild
  PROVE  BuiltInv'
<1>1. /\ stage = "build_graph" /\ stage' \in {"built", "empty"} /\ keys = {}
      /\ UNCHANGED flowVars /\ m_data' = m_data /\ graph' = graph
      /\ keys' = keys /\ edge_no' = edge_no
  BY DEF FinishBuild, flowVars
<1>2. Loops' = Loops
  BY <1>1, SameSelection DEF Loops, flowVars
<1>3. PICK f : IsMirror(f)
  BY <1>1 DEF BuiltInv
<1>4. IsMirror(f)'
  BY <1>1, <1>3 DEF IsMirror, SlotLabel, Done, Slots
<1>. QED BY <1>1, <1>2, <1>4 DEF BuiltInv

(* What has been built at any point mirrors what has been read of the       *)
(* reservoir.                                                               *)
THEOREM BuildInvariance == Spec => []BuiltInv
<1>1. IngestInit => BuiltInv
  BY DEF IngestInit, BuiltInv
<1>2. ASSUME IInv, BuiltInv, [Next]_vars PROVE BuiltInv'
  <2>1. CASE ProcessData
    BY <1>2, <2>1 DEF ProcessData, BuiltInv, buildVars
  <2>2. CASE UNCHANGED vars
    BY <1>2, <2>2 DEF vars, flowVars, buildVars, selectedVars, BuiltInv, Loops, Retained, IsMirror, Done, Slots,
       SlotLabel
  <2>. QED BY <1>2, <2>1, <2>2, StartMirrors, AddEdgeMirrors, NextKeyMirrors, FinishMirrors DEF Next, Ended
<1>. QED BY Invariance, <1>1, <1>2, PTL DEF Spec

(* A vertex without a place in the index is the second one of an address    *)
(* with a flow to itself; no edge ends there and no third vertex is made.   *)
THEOREM SecondVertices == Spec => []SecondVerticesAreIsolated
<1>1. IInv /\ BuiltInv => SecondVerticesAreIsolated
  <2> SUFFICES ASSUME IInv, BuiltInv PROVE SecondVerticesAreIsolated
    OBVIOUS
  <2>1. IsIndexed(graph, Loops)
    BY DEF IInv, StageInv, BuiltInv, IsIndexed, EmptyGraph
  <2>2. DOMAIN graph.vertices = 1 .. Len(graph.vertices) /\ DOMAIN graph.edges = 1 .. Len(graph.edges)
    BY DEF IInv, GraphInv, IsGraph
  <2>3. \A v : Indexed(v) <=> IndexedIn(graph, v)
    BY DEF Indexed, IndexedIn
  <2>. QED BY <2>1, <2>2, <2>3 DEF SecondVerticesAreIsolated, IsIndexed, Loops
<1>. QED BY Invariance, BuildInvariance, <1>1, PTL

(* The finished graph has one edge for each stored flow, with its addresses *)
(* and properties: no flow is lost, doubled or joined to another.           *)
THEOREM GraphIsReservoir == Spec => []GraphMirrorsReservoir
<1>1. IInv /\ BuiltInv => GraphMirrorsReservoir
  <2> SUFFICES ASSUME IInv, BuiltInv, stage \in {"built", "empty"}
               PROVE  /\ Len(graph.edges) = Cardinality(Slots)
                      /\ \A s \in Slots :
                           Cardinality({i \in DOMAIN graph.edges : Label(graph.edges[i]) = SlotLabel(s)})
                             = Cardinality({t \in Slots : SlotLabel(t) = SlotLabel(s)})
    BY DEF GraphMirrorsReservoir
  <2> DEFINE n == Len(graph.edges)
  <2>1. graph.edges \in Seq(EdgeType) /\ n \in Nat /\ DOMAIN graph.edges = 1 .. n
    BY DEF IInv, GraphInv, IsGraph
  <2>2. Done = Slots
    BY DEF BuiltInv, Done
  <2>3. PICK f : IsMirror(f)
    BY DEF BuiltInv
  <2>4. f \in Bijection(Slots, 1 .. n)
    BY <2>2, <2>3 DEF IsMirror
  <2>5. /\ f \in [Slots -> 1 .. n]
        /\ \A a, b \in Slots : f[a] = f[b] => a = b
        /\ \A i \in 1 .. n : \E s \in Slots : f[s] = i
    BY <2>4 DEF Bijection, Injection, Surjection, IsInjective
  <2>6. \A s \in Slots : Label(graph.edges[f[s]]) = SlotLabel(s)
    BY <2>2, <2>3 DEF IsMirror, Label, LabelIn
  <2>7. IsFiniteSet(1 .. n) /\ Cardinality(1 .. n) = n
    BY <2>1, FS_Interval
  <2>8. f \in Injection(Slots, 1 .. n) /\ f \in Surjection(Slots, 1 .. n)
    BY <2>4 DEF Bijection
  <2>9. IsFiniteSet(Slots) /\ Cardinality(Slots) = n
    BY <2>7, <2>8, FS_Injection
  <2>10. ASSUME NEW s \in Slots
         PROVE  Cardinality({i \in DOMAIN graph.edges : Label(graph.edges[i]) = SlotLabel(s)})
                  = Cardinality({t \in Slots : SlotLabel(t) = SlotLabel(s)})
    <3> DEFINE E == {i \in DOMAIN graph.edges : Label(graph.edges[i]) = SlotLabel(s)}
               T == {t \in Slots : SlotLabel(t) = SlotLabel(s)}
               h == [t \in T |-> f[t]]
    <3>1. \A t \in T : t \in Slots /\ SlotLabel(t) = SlotLabel(s) /\ h[t] = f[t]
      OBVIOUS
    <3>2. \A i \in E : i \in 1 .. n /\ Label(graph.edges[i]) = SlotLabel(s)
      BY <2>1
    <3>3. \A t \in T : f[t] \in E
      BY <2>1, <2>5, <2>6
    <3>4. h \in [T -> E]
      BY <3>3
    <3>5. ASSUME NEW i \in E PROVE \E t \in T : h[t] = i
      <4>1. PICK t \in Slots : f[t] = i
        BY <2>5, <3>2
      <4>2. t \in T
        BY <2>6, <3>2, <4>1
      <4>. QED BY <3>1, <4>1, <4>2
    <3>6. \A a, b \in T : h[a] = h[b] => a = b
      BY <2>5, <3>1
    <3> HIDE DEF E, T, h
    <3>7. h \in Injection(T, E) /\ h \in Surjection(T, E)
      BY <3>4, <3>5, <3>6 DEF Injection, Surjection, IsInjective
    <3>8. IsFiniteSet(T)
      BY <2>9, FS_Subset DEF T
    <3>9. Cardinality(E) = Cardinality(T)
      BY <3>7, <3>8, FS_Surjection
    <3>. QED BY <3>9 DEF E, T
  <2>. QED BY <2>9, <2>10
<1>. QED BY Invariance, BuildInvariance, <1>1, PTL

-----------------------------------------------------------------------------
(* The statistics and the lines they stand for.  An end of a flow is the    *)
(* number of its line with one of its two addresses; each is observed once. *)

EndIp(f, e) == IF e[2] = "src" THEN f[e[1]].src ELSE f[e[1]].dst
EndPeer(f, e) == IF e[2] = "src" THEN f[e[1]].dst ELSE f[e[1]].src
EndsAt(f, E, ip) == {e \in E : EndIp(f, e) = ip}

IsTally(f, E, s) ==
  /\ s.flow_count = Cardinality(E)
  /\ s.peers = {EndPeer(f, e) : e \in E}
  /\ s.protocols = {f[e[1]].protocol : e \in E}
  /\ \E e \in E : f[e[1]].fwd.start = s.first_seen
  /\ s.last_seen = 0 \/ \E e \in E : f[e[1]].fwd.end = s.last_seen
  /\ 0 <= s.last_seen
  /\ \A e \in E : s.first_seen <= f[e[1]].fwd.start /\ f[e[1]].fwd.end <= s.last_seen

\* The statistics of the class C tell what the ends E show.
Tallies(f, E, C, stats) ==
  /\ DOMAIN stats = {EndIp(f, e) : e \in E} \cap C
  /\ \A ip \in DOMAIN stats : IsTally(f, EndsAt(f, E, ip), stats[ip])

\* A line that can be observed.
Observable(l) ==
  /\ l.src \in Nat /\ l.dst \in Nat /\ l.protocol \in Nat
  /\ l.fwd.start \in Int /\ l.fwd.end \in Int
  /\ l.fwd.start < MaxMs /\ l.fwd.end < MaxMs

Side == {"src", "dst"}

(* The ends of one class are not affected by an end of another.             *)
LEMMA OtherClass ==
  ASSUME NEW f, NEW E, NEW C, NEW stats, Tallies(f, E, C, stats), NEW e, EndIp(f, e) \notin C
  PROVE  Tallies(f, E \cup {e}, C, stats)
<1>1. DOMAIN stats = {EndIp(f, x) : x \in E \cup {e}} \cap C
  BY DEF Tallies
<1>2. \A ip \in DOMAIN stats : EndsAt(f, E \cup {e}, ip) = EndsAt(f, E, ip)
  BY DEF Tallies, EndsAt
<1>. QED BY <1>1, <1>2 DEF Tallies

(* update_endpoint_stats accounts for exactly one more end.                 *)
LEMMA ObserveTallies ==
  ASSUME NEW f, NEW E, IsFiniteSet(E), NEW C, NEW stats, Tallies(f, E, C, stats),
         \A ip \in DOMAIN stats : stats[ip] \in StatsType,
         \A x \in E : Observable(f[x[1]]),
         NEW e, e \notin E, e[2] \in Side, Observable(f[e[1]]), EndIp(f, e) \in C
  PROVE  Tallies(f, E \cup {e}, C, Observe(stats, EndIp(f, e), EndPeer(f, e), f[e[1]]))
<1> DEFINE ip == EndIp(f, e)
           l == f[e[1]]
           old == IF ip \in DOMAIN stats THEN stats[ip] ELSE NewStats
           new == [flow_count |-> old.flow_count + 1,
                   peers      |-> old.peers \cup {EndPeer(f, e)},
                   protocols  |-> old.protocols \cup {l.protocol},
                   first_seen |-> Smaller(old.first_seen, l.fwd.start),
                   last_seen  |-> Larger(old.last_seen, l.fwd.end)]
           here == EndsAt(f, E, ip)
           result == Observe(stats, ip, EndPeer(f, e), l)
<1>1. result = [k \in DOMAIN stats \cup {ip} |-> IF k = ip THEN new ELSE stats[k]]
  BY DEF Observe
<1>2. EndsAt(f, E \cup {e}, ip) = here \cup {e} /\ e \notin here
  BY DEF EndsAt
<1>3. \A k : k # ip => EndsAt(f, E \cup {e}, k) = EndsAt(f, E, k)
  BY DEF EndsAt
<1>4. IsFiniteSet(here)
  BY FS_Subset DEF EndsAt
<1>5. Cardinality(here \cup {e}) = Cardinality(here) + 1
  BY <1>2, <1>4, FS_AddElement
<1>6. /\ l.fwd.start \in Int /\ l.fwd.end \in Int /\ l.fwd.start < MaxMs
      /\ \A x \in here : f[x[1]].fwd.start \in Int /\ f[x[1]].fwd.end \in Int
  BY DEF Observable, EndsAt
<1>7. IsTally(f, here \cup {e}, new)
  <2>1. /\ new.flow_count = old.flow_count + 1
        /\ new.peers = old.peers \cup {EndPeer(f, e)}
        /\ new.protocols = old.protocols \cup {l.protocol}
        /\ new.first_seen = Smaller(old.first_seen, l.fwd.start)
        /\ new.last_seen = Larger(old.last_seen, l.fwd.end)
    OBVIOUS
  <2> HIDE DEF new
  <2>2. CASE ip \in DOMAIN stats
    <3>1. IsTally(f, here, old) /\ old.first_seen \in Int /\ old.last_seen \in Int
      BY <2>2 DEF Tallies, StatsType
    <3> HIDE DEF old, here, ip
    <3>2. \A x \in here \cup {e} : x \in here \/ x = e
      OBVIOUS
    <3>3. new.flow_count = Cardinality(here \cup {e})
      BY <1>5, <2>1, <3>1 DEF IsTally
    <3>4. /\ new.peers = {EndPeer(f, x) : x \in here \cup {e}}
          /\ new.protocols = {f[x[1]].protocol : x \in here \cup {e}}
      BY <2>1, <3>1 DEF IsTally
    <3>5. /\ \E x \in here \cup {e} : f[x[1]].fwd.start = new.first_seen
          /\ new.last_seen = 0 \/ \E x \in here \cup {e} : f[x[1]].fwd.end = new.last_seen
          /\ 0 <= new.last_seen
      BY <1>6, <2>1, <3>1 DEF IsTally, Smaller, Larger
    <3>6. \A x \in here \cup {e} : new.first_seen <= f[x[1]].fwd.start /\ f[x[1]].fwd.end <= new.last_seen
      BY <1>6, <2>1, <3>1, <3>2 DEF IsTally, Smaller, Larger
    <3>. QED BY <3>3, <3>4, <3>5, <3>6 DEF IsTally
  <2>3. CASE ip \notin DOMAIN stats
    <3>1. old = NewStats
      BY <2>3
    <3>2. here = {}
      BY <2>3 DEF Tallies, EndsAt
    <3>3. /\ old.flow_count = 0 /\ old.peers = {} /\ old.protocols = {}
          /\ old.first_seen = MaxMs /\ old.last_seen = 0
      BY <3>1 DEF NewStats
    <3> HIDE DEF old, here, ip
    <3>4. Cardinality(here) = 0
      BY <3>2, FS_EmptySet
    <3>5. /\ new.first_seen = l.fwd.start
          /\ new.last_seen \in {0, l.fwd.end} /\ 0 <= new.last_seen /\ l.fwd.end <= new.last_seen
      BY <1>6, <2>1, <3>3, LimitsAssumption DEF Smaller, Larger
    <3>. QED BY <1>5, <1>6, <2>1, <3>2, <3>3, <3>4, <3>5 DEF IsTally
  <2>. QED BY <2>2, <2>3
<1>8. DOMAIN result = {EndIp(f, x) : x \in E \cup {e}} \cap C
  BY <1>1 DEF Tallies
<1> HIDE DEF new, result, here
<1>9. \A k \in DOMAIN result : IsTally(f, EndsAt(f, E \cup {e}, k), result[k])
  BY <1>1, <1>2, <1>3, <1>7 DEF Tallies
<1>. QED BY <1>8, <1>9 DEF Tallies, result

(* Both ends of a line, in one class.                                       *)
LEMMA ObserveFlowTallies ==
  ASSUME NEW f, NEW S, IsFiniteSet(S), NEW i, i \notin S,
         \A j \in S \cup {i} : /\ Observable(f[j]) /\ BothAllowed(f[j]) /\ f[j] \in Lines
                              /\ Complete(f[j]) /\ f[j].fwd # None,
         NEW stats, StatsFor(stats)
  PROVE  /\ Tallies(f, S \X Side, {ip \in Nat : check_internal(ip)}, stats) =>
              Tallies(f, (S \cup {i}) \X Side, {ip \in Nat : check_internal(ip)},
                      ObserveFlow(stats, check_internal, f[i]))
         /\ Tallies(f, S \X Side, {ip \in Nat : External(ip)}, stats) =>
              Tallies(f, (S \cup {i}) \X Side, {ip \in Nat : External(ip)},
                      ObserveFlow(stats, External, f[i]))
<1> DEFINE a == <<i, "src">>
           b == <<i, "dst">>
           E == S \X Side
           E1 == E \cup {a}
           afterSrc == Observe(stats, f[i].src, f[i].dst, f[i])
<1>1. IsFiniteSet(E) /\ IsFiniteSet(E1)
  <2>1. IsFiniteSet(Side)
    <3>1. Side = {"src"} \cup {"dst"}
      BY DEF Side
    <3>. QED BY <3>1, FS_Singleton, FS_AddElement
  <2>. QED BY <2>1, FS_Product, FS_AddElement
<1>2. (S \cup {i}) \X Side = E1 \cup {b}
  BY DEF Side
<1>3. a \notin E /\ b \notin E1 /\ a[2] \in Side /\ b[2] \in Side /\ a[1] = i /\ b[1] = i
  BY DEF Side
<1>4. /\ EndIp(f, a) = f[i].src /\ EndPeer(f, a) = f[i].dst
      /\ EndIp(f, b) = f[i].dst /\ EndPeer(f, b) = f[i].src
      /\ f[i].src \in Nat /\ f[i].dst \in Nat
  BY DEF EndIp, EndPeer, Observable
<1>5. Observable(f[i]) /\ (\A x \in E : Observable(f[x[1]])) /\ (\A x \in E1 : Observable(f[x[1]]))
  BY <1>3
<1>6. /\ \A ip \in DOMAIN stats : stats[ip] \in StatsType
      /\ \A ip \in DOMAIN afterSrc : afterSrc[ip] \in StatsType
  <2>1. StatsFor(afterSrc)
    BY <1>4, ObserveKeepsStats DEF BothAllowed, Observable
  <2>. QED BY <2>1 DEF StatsFor, IsStats
<1> HIDE DEF a, b, E, E1
<1>7. ASSUME NEW C, Tallies(f, E, C, stats)
      PROVE  LET first == IF f[i].src \in C THEN afterSrc ELSE stats
             IN  Tallies(f, E1 \cup {b}, C,
                         IF f[i].dst \in C THEN Observe(first, f[i].dst, f[i].src, f[i]) ELSE first)
  <2> DEFINE first == IF f[i].src \in C THEN afterSrc ELSE stats
  <2>1. Tallies(f, E1, C, first)
    <3>1. CASE f[i].src \in C
      BY <1>1, <1>3, <1>4, <1>5, <1>6, <1>7, <3>1, ObserveTallies DEF E1
    <3>2. CASE f[i].src \notin C
      BY <1>4, <1>7, <3>2, OtherClass DEF E1
    <3>. QED BY <3>1, <3>2
  <2>2. \A ip \in DOMAIN first : first[ip] \in StatsType
    BY <1>6
  <2> HIDE DEF first
  <2>3. CASE f[i].dst \in C
    <3>1. Tallies(f, E1 \cup {b}, C, Observe(first, f[i].dst, f[i].src, f[i]))
      BY <1>1, <1>3, <1>4, <1>5, <2>1, <2>2, <2>3, ObserveTallies
    <3>. QED BY <2>3, <3>1 DEF first
  <2>4. CASE f[i].dst \notin C
    <3>1. Tallies(f, E1 \cup {b}, C, first)
      BY <1>4, <2>1, <2>4, OtherClass
    <3>. QED BY <2>4, <3>1 DEF first
  <2>. QED BY <2>3, <2>4
<1> HIDE DEF afterSrc
<1>8. ASSUME Tallies(f, E, {ip \in Nat : check_internal(ip)}, stats)
      PROVE  Tallies(f, E1 \cup {b}, {ip \in Nat : check_internal(ip)},
                     ObserveFlow(stats, check_internal, f[i]))
  <2> DEFINE C == {ip \in Nat : check_internal(ip)}
             first == IF f[i].src \in C THEN afterSrc ELSE stats
  <2>1. ObserveFlow(stats, check_internal, f[i])
          = IF f[i].dst \in C THEN Observe(first, f[i].dst, f[i].src, f[i]) ELSE first
    BY <1>4 DEF ObserveFlow, afterSrc
  <2>. QED BY <1>7, <1>8, <2>1
<1>9. ASSUME Tallies(f, E, {ip \in Nat : External(ip)}, stats)
      PROVE  Tallies(f, E1 \cup {b}, {ip \in Nat : External(ip)}, ObserveFlow(stats, External, f[i]))
  <2> DEFINE C == {ip \in Nat : External(ip)}
             first == IF f[i].src \in C THEN afterSrc ELSE stats
  <2>1. ObserveFlow(stats, External, f[i])
          = IF f[i].dst \in C THEN Observe(first, f[i].dst, f[i].src, f[i]) ELSE first
    BY <1>4 DEF ObserveFlow, afterSrc
  <2>. QED BY <1>7, <1>9, <2>1
<1>. QED BY <1>2, <1>8, <1>9 DEF E

-----------------------------------------------------------------------------
(* The first pass.                                                          *)

Internal == {ip \in Nat : check_internal(ip)}
Other == {ip \in Nat : External(ip)}

IsWindow(f, S, start, end) ==
  /\ S = {} => start = MaxMs /\ end = 0
  /\ S # {} => \E i \in S : f[i].fwd.start = start
  /\ end = 0 \/ \E i \in S : f[i].fwd.end = end
  /\ 0 <= end
  /\ \A i \in S : start <= f[i].fwd.start /\ f[i].fwd.end <= end

ScanInv ==
  /\ phase = "scan" => scanned = Len(file)
  /\ Tallies(file, Scanned \X Side, Internal, m_internal_endpoint_stats)
  /\ Tallies(file, Scanned \X Side, Other, m_external_endpoint_stats)
  /\ IsWindow(file, Scanned, m_observation_start, m_observation_end)

(* A complete line with timestamps can be observed ...                      *)
LEMMA CompleteIsObservable ==
  ASSUME NEW l \in Lines, Complete(l), l.fwd # None
  PROVE  Observable(l)
<1>1. l.fwd \in Timestamps
  BY LinesAssumption DEF LineType
<1>2. /\ l.fwd.start \in Int /\ l.fwd.end \in Int
      /\ l.fwd.start <= l.fwd.end /\ l.fwd.end < MaxMs
  BY <1>1 DEF Timestamps
<1>. QED BY <1>2, LineFields, LimitsAssumption DEF Observable, Complete

(* ... and what was scanned is complete.                                    *)
LEMMA ScannedLines ==
  ASSUME file \in Seq(Lines), scanned \in 0 .. Len(file)
  PROVE  /\ IsFiniteSet(Scanned) /\ Scanned \subseteq 1 .. Len(file)
         /\ \A i \in Scanned : /\ file[i] \in Lines /\ Observable(file[i]) /\ BothAllowed(file[i])
                               /\ Complete(file[i]) /\ file[i].fwd # None
<1>1. /\ Scanned \subseteq 1 .. scanned /\ IsFiniteSet(1 .. scanned)
      /\ scanned \in Nat /\ scanned <= Len(file) /\ Len(file) \in Nat
  BY FS_Interval DEF Scanned
<1>2. IsFiniteSet(Scanned)
  BY <1>1, FS_Subset
<1>3. Scanned \subseteq 1 .. Len(file)
  BY <1>1
<1>4. \A i \in Scanned : /\ file[i] \in Lines /\ BothAllowed(file[i])
                         /\ Complete(file[i]) /\ file[i].fwd # None
  BY <1>3 DEF Scanned
<1>. QED BY <1>2, <1>3, <1>4, CompleteIsObservable

(* Tallies only look at the lines they are about.                           *)
LEMMA SameLines ==
  ASSUME NEW S, NEW f, NEW g, \A i \in S : g[i] = f[i]
  PROVE  /\ \A C, stats : Tallies(f, S \X Side, C, stats) => Tallies(g, S \X Side, C, stats)
         /\ \A start, end : IsWindow(f, S, start, end) => IsWindow(g, S, start, end)
<1> DEFINE E == S \X Side
<1>1. \A e \in E : g[e[1]] = f[e[1]]
  OBVIOUS
<1>2. \A e \in E : EndIp(g, e) = EndIp(f, e) /\ EndPeer(g, e) = EndPeer(f, e)
  BY <1>1 DEF EndIp, EndPeer
<1> HIDE DEF E
<1>3. ASSUME NEW C, NEW stats, Tallies(f, E, C, stats) PROVE Tallies(g, E, C, stats)
  <2>1. DOMAIN stats = {EndIp(g, e) : e \in E} \cap C
    BY <1>2, <1>3 DEF Tallies
  <2>2. ASSUME NEW ip \in DOMAIN stats PROVE IsTally(g, EndsAt(g, E, ip), stats[ip])
    <3>1. EndsAt(g, E, ip) = EndsAt(f, E, ip) /\ EndsAt(f, E, ip) \subseteq E
      BY <1>2 DEF EndsAt
    <3>2. IsTally(f, EndsAt(f, E, ip), stats[ip])
      BY <1>3 DEF Tallies
    <3> DEFINE H == EndsAt(f, E, ip)
    <3>3. \A e \in H : g[e[1]] = f[e[1]] /\ EndPeer(g, e) = EndPeer(f, e)
      BY <1>1, <1>2, <3>1
    <3> HIDE DEF H
    <3>4. {EndPeer(g, e) : e \in H} = {EndPeer(f, e) : e \in H}
      BY <3>3
    <3>5. {g[e[1]].protocol : e \in H} = {f[e[1]].protocol : e \in H}
      BY <3>3
    <3>6. IsTally(g, H, stats[ip])
      BY <3>2, <3>3, <3>4, <3>5 DEF IsTally, H
    <3>. QED BY <3>1, <3>6 DEF H
  <2>. QED BY <2>1, <2>2 DEF Tallies
<1>4. ASSUME NEW start, NEW end, IsWindow(f, S, start, end) PROVE IsWindow(g, S, start, end)
  BY <1>4 DEF IsWindow
<1>. QED BY <1>3, <1>4 DEF E

(* A line of the first pass.                                                *)
LEMMA ScanKeepsScanInv ==
  ASSUME IInv, ScanInv, NEW l \in Lines,
         ScanMalformed(l) \/ ScanInvalid(l) \/ ScanBlocked(l) \/ ScanFlow(l)
  PROVE  ScanInv'
<1> DEFINE n == Len(file) + 1
           Counts == l.json /\ Complete(l) /\ BothAllowed(l) /\ l.fwd # None
<1>1. /\ phase = "scan" /\ file' = Append(file, l) /\ scanned' = n /\ scanned = n - 1
      /\ n \in Nat
  BY DEF IInv, ScalarInv, ScanInv, ScanMalformed, ScanInvalid, ScanBlocked, ScanFlow, ReadForScan
<1>2. /\ Len(file') = n /\ file'[n] = l
      /\ \A i \in 1 .. n - 1 : file'[i] = file[i]
  BY <1>1, AppendProperties DEF IInv, ScalarInv
<1>3. n \notin Scanned /\ Scanned \subseteq 1 .. n - 1
  BY <1>1 DEF Scanned
<1>4. Scanned' = IF Counts THEN Scanned \cup {n} ELSE Scanned
  <2>1. \A i : i \in 1 .. n <=> i \in 1 .. n - 1 \/ i = n
    BY <1>1
  <2>. QED BY <1>1, <1>2, <2>1 DEF Scanned
<1>5. /\ Tallies(file', Scanned \X Side, Internal, m_internal_endpoint_stats)
      /\ Tallies(file', Scanned \X Side, Other, m_external_endpoint_stats)
      /\ IsWindow(file', Scanned, m_observation_start, m_observation_end)
  <2>1. \A i \in Scanned : file'[i] = file[i]
    BY <1>2, <1>3
  <2>. QED BY <2>1, SameLines DEF ScanInv
<1>6. CASE ~ScanFlow(l)
  <2>1. ~Counts /\ UNCHANGED <<statsVars, windowVars>>
    BY <1>6 DEF ScanMalformed, ScanInvalid, ScanBlocked, ScanFlow
  <2>. QED BY <1>1, <1>2, <1>4, <1>5, <2>1 DEF ScanInv, statsVars, windowVars
<1>7. CASE ScanFlow(l)
  <2>1. Counts /\ Scanned' = Scanned \cup {n}
    BY <1>4, <1>7 DEF ScanFlow
  <2>2. /\ m_internal_endpoint_stats' = ObserveFlow(m_internal_endpoint_stats, check_internal, file'[n])
        /\ m_external_endpoint_stats' = ObserveFlow(m_external_endpoint_stats, External, file'[n])
        /\ m_observation_start' = Smaller(m_observation_start, l.fwd.start)
        /\ m_observation_end' = Larger(m_observation_end, l.fwd.end)
    BY <1>2, <1>7 DEF ScanFlow
  <2>3. \A i \in Scanned \cup {n} : /\ file'[i] \in Lines /\ Observable(file'[i]) /\ BothAllowed(file'[i])
                                     /\ Complete(file'[i]) /\ file'[i].fwd # None
    <3>1. \A i \in Scanned : /\ file[i] \in Lines /\ Observable(file[i]) /\ BothAllowed(file[i])
                             /\ Complete(file[i]) /\ file[i].fwd # None
      BY ScannedLines DEF IInv, ScalarInv
    <3>2. Observable(l)
      BY <2>1, CompleteIsObservable
    <3>. QED BY <1>2, <1>3, <2>1, <3>1, <3>2
  <2>4. IsFiniteSet(Scanned) /\ StatsFor(m_internal_endpoint_stats) /\ StatsFor(m_external_endpoint_stats)
    BY ScannedLines DEF IInv, ScalarInv, StatsInv
  <2>5. /\ Tallies(file', (Scanned \cup {n}) \X Side, Internal, m_internal_endpoint_stats')
        /\ Tallies(file', (Scanned \cup {n}) \X Side, Other, m_external_endpoint_stats')
    BY <1>3, <1>5, <2>2, <2>3, <2>4, ObserveFlowTallies DEF Internal, Other
  <2>6. IsWindow(file', Scanned \cup {n}, m_observation_start', m_observation_end')
    <3>1. /\ m_observation_start \in Int /\ m_observation_end \in Int
          /\ l.fwd.start \in Int /\ l.fwd.end \in Int /\ l.fwd.start < MaxMs
          /\ \A i \in Scanned : file'[i].fwd.start \in Int /\ file'[i].fwd.end \in Int
      BY <1>2, <2>3 DEF IInv, ScalarInv, Observable
    <3>2. /\ \E i \in Scanned \cup {n} : file'[i].fwd.start = m_observation_start'
          /\ m_observation_end' = 0 \/ \E i \in Scanned \cup {n} : file'[i].fwd.end = m_observation_end'
          /\ 0 <= m_observation_end'
      <4>1. CASE Scanned = {}
        BY <1>2, <1>5, <2>2, <3>1, <4>1, LimitsAssumption DEF IsWindow, Smaller, Larger
      <4>2. CASE Scanned # {}
        <5>1. PICK i \in Scanned : file'[i].fwd.start = m_observation_start
          BY <1>5, <4>2 DEF IsWindow
        <5>2. /\ m_observation_end = 0 \/ \E j \in Scanned : file'[j].fwd.end = m_observation_end
              /\ 0 <= m_observation_end
          BY <1>5 DEF IsWindow
        <5>3. \/ m_observation_start' = file'[i].fwd.start
              \/ m_observation_start' = file'[n].fwd.start
          BY <1>2, <2>2, <5>1 DEF Smaller
        <5>4. m_observation_end' \in {m_observation_end, file'[n].fwd.end} /\ 0 <= m_observation_end'
          BY <1>2, <2>2, <3>1, <5>2 DEF Larger
        <5>. QED BY <5>2, <5>3, <5>4
      <4>. QED BY <4>1, <4>2
    <3>3. ASSUME NEW i \in Scanned \cup {n}
          PROVE  m_observation_start' <= file'[i].fwd.start /\ file'[i].fwd.end <= m_observation_end'
      <4>1. CASE i = n
        BY <1>2, <2>2, <3>1, <4>1 DEF Smaller, Larger
      <4>2. CASE i \in Scanned
        <5>1. /\ m_observation_start <= file'[i].fwd.start
              /\ file'[i].fwd.end <= m_observation_end
          BY <1>5, <4>2 DEF IsWindow
        <5>2. file'[i].fwd.start \in Int /\ file'[i].fwd.end \in Int
          BY <3>1, <4>2
        <5>3. m_observation_start' <= m_observation_start
          BY <2>2, <3>1 DEF Smaller
        <5>4. m_observation_end <= m_observation_end'
          BY <2>2, <3>1 DEF Larger
        <5>5. m_observation_start' \in Int /\ m_observation_end' \in Int
          BY <2>2, <3>1 DEF Smaller, Larger
        <5>. QED BY <3>1, <5>1, <5>2, <5>3, <5>4, <5>5
      <4>. QED BY <4>1, <4>2
    <3>. QED BY <3>2, <3>3 DEF IsWindow
  <2>. QED BY <1>1, <1>2, <2>1, <2>5, <2>6 DEF ScanInv
<1>. QED BY <1>6, <1>7

(* Afterwards the lines that were scanned stay as they are.                 *)
LEMMA LaterKeepsScanInv ==
  ASSUME IInv, ScanInv, phase' # "scan" \/ phase' = phase,
         UNCHANGED <<scanned, statsVars, windowVars>>,
         file' = file \/ (phase # "scan" /\ \E l \in Lines : file' = Append(file, l))
  PROVE  ScanInv'
<1>1. \A i \in 1 .. Len(file) : file'[i] = file[i]
  BY AppendProperties DEF IInv, ScalarInv
<1>2. \A i \in 1 .. scanned : file'[i] = file[i]
  BY <1>1 DEF IInv, ScalarInv
<1>3. Scanned' = Scanned
  BY <1>2 DEF Scanned
<1>4. \A i \in Scanned : file'[i] = file[i]
  BY <1>2 DEF Scanned
<1>5. /\ Tallies(file', Scanned \X Side, Internal, m_internal_endpoint_stats)
      /\ Tallies(file', Scanned \X Side, Other, m_external_endpoint_stats)
      /\ IsWindow(file', Scanned, m_observation_start, m_observation_end)
  BY <1>4, SameLines DEF ScanInv
<1>6. phase' = "scan" => scanned' = Len(file')
  BY DEF ScanInv
<1>. QED BY <1>3, <1>5, <1>6 DEF ScanInv, statsVars, windowVars

(* After every line of the first pass the statistics tally with the lines   *)
(* read so far.                                                             *)
THEOREM ScanInvariance == Spec => []ScanInv
<1>1. IngestInit => ScanInv
  <2> SUFFICES ASSUME IngestInit PROVE ScanInv
    OBVIOUS
  <2>1. /\ phase = "scan" /\ scanned = 0 /\ Len(file) = 0 /\ Scanned = {}
        /\ DOMAIN m_internal_endpoint_stats = {} /\ DOMAIN m_external_endpoint_stats = {}
        /\ m_observation_start = MaxMs /\ m_observation_end = 0
    BY DEF IngestInit, Init, Scanned, NoData
  <2>2. Scanned \X Side = {}
    BY <2>1
  <2>. QED BY <2>1, <2>2 DEF ScanInv, Tallies, IsWindow
<1>2. ASSUME IInv, ScanInv, [Next]_vars PROVE ScanInv'
  <2>1. CASE ProcessData
    <3>1. ASSUME NEW l \in Lines, ScanMalformed(l) \/ ScanInvalid(l) \/ ScanBlocked(l) \/ ScanFlow(l)
          PROVE  ScanInv'
      BY <1>2, <3>1, ScanKeepsScanInv
    <3>2. CASE FinishScan
      BY <1>2, <3>2, LaterKeepsScanInv DEF FinishScan
    <3>3. CASE \E l \in Lines : GrowFile(l)
      BY <1>2, <3>3, LaterKeepsScanInv DEF GrowFile
    <3>4. CASE SampleMalformed \/ SampleSkip \/ SampleFlow \/ FinishSample
      BY <1>2, <3>4, LaterKeepsScanInv DEF SampleMalformed, SampleSkip, SampleFlow, FinishSample, ReadForSample
    <3>. QED BY <2>1, <3>1, <3>2, <3>3, <3>4 DEF ProcessData, FlowNext
  <2>2. CASE UNCHANGED flowVars
    <3>1. UNCHANGED <<phase, file, scanned, statsVars, windowVars>>
      BY <2>2 DEF flowVars
    <3>. QED BY <1>2, <3>1, LaterKeepsScanInv
  <2>. QED BY <1>2, <2>1, <2>2 DEF Next, Ended, vars, StartBuild, AddEdge, NextKey, FinishBuild
<1>. QED BY Invariance, <1>1, <1>2, PTL DEF Spec

-----------------------------------------------------------------------------
(* The selection.                                                           *)

(* The cut keeps exactly as many endpoints as the limit allows or as there  *)
(* are, and each of them outranks every other: no rank is taken twice, so   *)
(* the ranks are the numbers below that of the endpoints.                   *)
LEMMA SelectionIsTop ==
  ASSUME NEW stats, IsScored(stats), IsFiniteSet(DOMAIN stats), NEW limit \in Nat
  PROVE  LET S == select_top_endpoints(stats, limit)
         IN  /\ Cardinality(S) = Smaller(limit, Cardinality(DOMAIN stats))
             /\ \A a \in S, b \in DOMAIN stats \ S : Outranks(stats, a, b)
<1> DEFINE D == DOMAIN stats
           n == Cardinality(D)
           S == select_top_endpoints(stats, limit)
           rank == [ip \in D |-> Cardinality(Above(stats, ip))]
           part == [ip \in S |-> rank[ip]]
           T == 0 .. Smaller(limit, n) - 1
<1>1. n \in Nat
  BY FS_CardinalityType
<1>2. \A ip \in D : IsFiniteSet(Above(stats, ip)) /\ Cardinality(Above(stats, ip)) \in Nat
  BY FS_Subset, FS_CardinalityType DEF Above
<1>3. ASSUME NEW a \in D, NEW b \in D, Outranks(stats, a, b) PROVE rank[a] < rank[b]
  <2>1. Above(stats, a) \subseteq Above(stats, b)
    BY <1>3, OutranksIsTotalOrder DEF Above
  <2>2. a \in Above(stats, b) /\ a \notin Above(stats, a)
    BY <1>3, OutranksIsTotalOrder DEF Above
  <2>3. /\ Cardinality(Above(stats, a)) <= Cardinality(Above(stats, b))
        /\ Cardinality(Above(stats, a)) # Cardinality(Above(stats, b))
    BY <1>2, <2>1, <2>2, FS_Subset
  <2>. QED BY <1>2, <2>3
<1>4. \A a, b \in D : a # b => rank[a] # rank[b]
  BY <1>2, <1>3, OutranksIsTotalOrder
<1>5. \A ip \in D : rank[ip] \in 0 .. n - 1
  <2> SUFFICES ASSUME NEW ip \in D PROVE rank[ip] \in 0 .. n - 1
    OBVIOUS
  <2>1. Above(stats, ip) \subseteq D /\ ip \notin Above(stats, ip)
    BY OutranksIsTotalOrder DEF Above
  <2>2. Cardinality(Above(stats, ip)) <= n /\ Cardinality(Above(stats, ip)) # n
    BY <2>1, FS_Subset
  <2>. QED BY <1>1, <1>2, <2>2
<1>6. rank \in Injection(D, 0 .. n - 1)
  BY <1>4, <1>5 DEF Injection, IsInjective
<1>7. IsFiniteSet(0 .. n - 1) /\ Cardinality(0 .. n - 1) = n
  <2>1. 0 \in Int /\ n - 1 \in Int
    BY <1>1
  <2>2. /\ IsFiniteSet(0 .. n - 1)
        /\ Cardinality(0 .. n - 1) = IF 0 > n - 1 THEN 0 ELSE (n - 1) - 0 + 1
    BY <2>1, FS_Interval
  <2>. QED BY <1>1, <2>2
<1>8. rank \in Surjection(D, 0 .. n - 1)
  BY <1>6, <1>7, FS_Injection
<1>9. \A m \in 0 .. n - 1 : \E ip \in D : rank[ip] = m
  BY <1>8 DEF Surjection
<1>10. S = {ip \in D : rank[ip] < limit}
  BY DEF select_top_endpoints
<1> HIDE DEF rank, S, n, D
<1>11. part \in [S -> T]
  BY <1>1, <1>5, <1>10 DEF Smaller
<1>12. \A a, b \in S : part[a] = part[b] => a = b
  BY <1>4, <1>10
<1>13. ASSUME NEW m \in T PROVE \E ip \in S : part[ip] = m
  <2>1. m \in 0 .. n - 1 /\ m < limit
    BY <1>1 DEF Smaller
  <2>2. PICK ip \in D : rank[ip] = m
    BY <1>9, <2>1
  <2>. QED BY <1>10, <2>1, <2>2
<1> HIDE DEF part
<1>14. part \in Injection(S, T) /\ part \in Surjection(S, T)
  BY <1>11, <1>12, <1>13 DEF Injection, Surjection, IsInjective
<1>15. Smaller(limit, n) \in Nat
  BY <1>1 DEF Smaller
<1>16. IsFiniteSet(T) /\ Cardinality(T) = Smaller(limit, n)
  <2> DEFINE k == Smaller(limit, n)
             last == k - 1
  <2>1. k \in Nat /\ T = 0 .. last
    BY <1>15
  <2>2. 0 \in Int /\ last \in Int /\ last = k - 1
    BY <2>1
  <2> HIDE DEF T, k, last
  <2>3. /\ IsFiniteSet(0 .. last)
        /\ Cardinality(0 .. last) = IF 0 > last THEN 0 ELSE last - 0 + 1
    BY <2>2, FS_Interval
  <2>4. Cardinality(0 .. last) = k
    BY <2>1, <2>2, <2>3
  <2>. QED BY <2>1, <2>3, <2>4 DEF k
<1>17. Cardinality(S) = Smaller(limit, n)
  BY <1>14, <1>16, FS_Injection
<1>18. ASSUME NEW a \in S, NEW b \in D \ S PROVE Outranks(stats, a, b)
  <2>1. a \in D /\ b \in D /\ rank[a] < limit /\ ~(rank[b] < limit) /\ a # b
    BY <1>10
  <2>2. rank[a] \in Int /\ rank[b] \in Int
    BY <1>5, <2>1
  <2>3. ~(rank[b] < rank[a])
    BY <2>1, <2>2
  <2>. QED BY <1>3, <2>1, <2>3, OutranksIsTotalOrder DEF D
<1>. QED BY <1>17, <1>18 DEF S, n, D

(* The ends of the flows of an address, counted from either side.           *)
LEMMA EndsAreCounted ==
  ASSUME file \in Seq(Lines), scanned \in 0 .. Len(file), NEW ip
  PROVE  Cardinality(EndsAt(file, Scanned \X Side, ip)) = EndsOf(ip)
<1> DEFINE H == EndsAt(file, Scanned \X Side, ip)
           A == {i \in Scanned : file[i].src = ip}
           B == {i \in Scanned : file[i].dst = ip}
           HA == A \X {"src"}
           HB == B \X {"dst"}
<1>1. H = HA \cup HB /\ HA \cap HB = {}
  BY DEF EndsAt, EndIp, Side
<1>2. IsFiniteSet(A) /\ IsFiniteSet(B)
  BY ScannedLines, FS_Subset
<1>3. /\ IsFiniteSet({"src"}) /\ Cardinality({"src"}) = 1
      /\ IsFiniteSet({"dst"}) /\ Cardinality({"dst"}) = 1
  BY FS_Singleton
<1>4. Cardinality(A) \in Nat /\ Cardinality(B) \in Nat
  BY <1>2, FS_CardinalityType
<1> HIDE DEF A, B
<1>5. /\ IsFiniteSet(HA) /\ Cardinality(HA) = Cardinality(A) * 1
      /\ IsFiniteSet(HB) /\ Cardinality(HB) = Cardinality(B) * 1
  BY <1>2, <1>3, FS_Product
<1> HIDE DEF HA, HB, H
<1>6. Cardinality(H) = Cardinality(HA) + Cardinality(HB) - Cardinality(HA \cap HB)
  BY <1>1, <1>5, FS_Union
<1>7. Cardinality(HA \cap HB) = 0
  BY <1>1, FS_EmptySet
<1>8. Cardinality(H) = Cardinality(A) + Cardinality(B)
  BY <1>4, <1>5, <1>6, <1>7
<1>. QED BY <1>8 DEF H, A, B, EndsOf

(* The latest end is the greatest, the epoch among them.                    *)
LEMMA LatestIs ==
  ASSUME NEW is, \A t \in Ends(is) : t \in Int,
         NEW end \in Ends(is), \A t \in Ends(is) : end >= t
  PROVE  Latest(is) = end
<1> DEFINE m == CHOOSE t \in Ends(is) : \A u \in Ends(is) : t >= u
<1>1. m \in Ends(is) /\ \A u \in Ends(is) : m >= u
  OBVIOUS
<1> HIDE DEF m
<1>2. m = end
  BY <1>1
<1>. QED BY <1>2 DEF Latest, m


(* The score of an endpoint is its rank as the file shows it.               *)
LEMMA ScoreIsRank ==
  ASSUME IInv, ScanInv, NEW C, NEW stats, Tallies(file, Scanned \X Side, C, stats),
         NEW ip \in DOMAIN stats
  PROVE  Score(stats[ip]) = Rank(ip)
<1> DEFINE E == Scanned \X Side
           H == EndsAt(file, E, ip)
           s == stats[ip]
<1>1. IsTally(file, H, s)
  BY DEF Tallies
<1>2. \A i \in Scanned : Observable(file[i])
  BY ScannedLines DEF IInv, ScalarInv
<1>3. s.flow_count = EndsOf(ip)
  BY <1>1, EndsAreCounted DEF IsTally, IInv, ScalarInv
<1>4. \A e : e \in H <=> /\ e \in Scanned \X Side
                         /\ \/ e[2] = "src" /\ file[e[1]].src = ip
                            \/ e[2] # "src" /\ file[e[1]].dst = ip
  BY DEF EndsAt, EndIp
<1>5. s.peers = PeersOf(ip)
  <2>1. s.peers = {EndPeer(file, e) : e \in H}
    BY <1>1 DEF IsTally
  <2>2. ASSUME NEW p \in s.peers PROVE p \in PeersOf(ip)
    <3>1. PICK e \in H : p = EndPeer(file, e)
      BY <2>1
    <3>2. e[1] \in Scanned
      BY <1>4, <3>1
    <3>3. CASE e[2] = "src"
      <4>1. file[e[1]].src = ip /\ p = file[e[1]].dst
        BY <1>4, <3>1, <3>3 DEF EndPeer
      <4>. QED BY <3>2, <4>1 DEF PeersOf
    <3>4. CASE e[2] # "src"
      <4>1. file[e[1]].dst = ip /\ p = file[e[1]].src
        BY <1>4, <3>1, <3>4 DEF EndPeer
      <4>. QED BY <3>2, <4>1 DEF PeersOf
    <3>. QED BY <3>3, <3>4
  <2>3. ASSUME NEW p \in PeersOf(ip) PROVE p \in s.peers
    <3>1. CASE p \in {file[i].dst : i \in {j \in Scanned : file[j].src = ip}}
      <4>1. PICK i \in Scanned : file[i].src = ip /\ p = file[i].dst
        BY <3>1
      <4>2. <<i, "src">> \in H /\ EndPeer(file, <<i, "src">>) = p
        BY <1>4, <4>1 DEF EndPeer, Side
      <4>. QED BY <2>1, <4>2
    <3>2. CASE p \in {file[i].src : i \in {j \in Scanned : file[j].dst = ip}}
      <4>1. PICK i \in Scanned : file[i].dst = ip /\ p = file[i].src
        BY <3>2
      <4>2. <<i, "dst">> \in H /\ EndPeer(file, <<i, "dst">>) = p
        BY <1>4, <4>1 DEF EndPeer, Side
      <4>. QED BY <2>1, <4>2
    <3>. QED BY <3>1, <3>2 DEF PeersOf
  <2>. QED BY <2>2, <2>3
<1>6. /\ \A e \in H : e[1] \in FlowsOf(ip)
      /\ \A i \in FlowsOf(ip) : \E e \in H : e[1] = i
  <2>1. \A e \in H : e[1] \in FlowsOf(ip)
    BY <1>4 DEF FlowsOf
  <2>2. ASSUME NEW i \in FlowsOf(ip) PROVE \E e \in H : e[1] = i
    <3>1. <<i, "src">> \in H \/ <<i, "dst">> \in H
      BY <1>4 DEF FlowsOf, Side
    <3>. QED BY <3>1
  <2>. QED BY <2>1, <2>2
<1> HIDE DEF H
<1>7. s.protocols = ProtocolsOf(ip)
  <2>1. s.protocols = {file[e[1]].protocol : e \in H}
    BY <1>1 DEF IsTally
  <2>. QED BY <1>6, <2>1 DEF ProtocolsOf
<1>8. \A i \in FlowsOf(ip) : /\ file[i].fwd.start \in Int /\ file[i].fwd.start < MaxMs
                             /\ file[i].fwd.end \in Int
  BY <1>2 DEF FlowsOf, Observable
<1>9. /\ \E i \in FlowsOf(ip) : file[i].fwd.start = s.first_seen
      /\ \A i \in FlowsOf(ip) : s.first_seen <= file[i].fwd.start
      /\ s.last_seen = 0 \/ \E i \in FlowsOf(ip) : file[i].fwd.end = s.last_seen
      /\ \A i \in FlowsOf(ip) : file[i].fwd.end <= s.last_seen
      /\ 0 <= s.last_seen
  BY <1>1, <1>6 DEF IsTally
<1> HIDE DEF s
<1>10. Earliest(FlowsOf(ip)) = s.first_seen
  <2> DEFINE P(i) == \A j \in FlowsOf(ip) : file[i].fwd.start <= file[j].fwd.start
             m == CHOOSE i \in FlowsOf(ip) : P(i)
  <2>1. \E i \in FlowsOf(ip) : P(i)
    BY <1>9
  <2>2. m \in FlowsOf(ip) /\ P(m)
    BY <2>1
  <2> HIDE DEF m
  <2>3. file[m].fwd.start = s.first_seen
    BY <1>8, <1>9, <2>2
  <2>. QED BY <2>3 DEF Earliest, m
<1>11. Latest(FlowsOf(ip)) = s.last_seen
  <2>1. \A t \in Ends(FlowsOf(ip)) : t \in Int
    BY <1>8 DEF Ends
  <2>2. s.last_seen \in Ends(FlowsOf(ip)) /\ \A t \in Ends(FlowsOf(ip)) : s.last_seen >= t
    BY <1>8, <1>9, <2>1 DEF Ends
  <2>. QED BY <2>1, <2>2, LatestIs
<1>12. Span(s) = Latest(FlowsOf(ip)) - Earliest(FlowsOf(ip))
  <2>1. s.first_seen # MaxMs
    BY <1>8, <1>9, LimitsAssumption
  <2>. QED BY <1>10, <1>11, <2>1 DEF Span
<1>. QED BY <1>3, <1>5, <1>7, <1>12 DEF Score, Rank, s

(* One class of endpoints.                                                  *)
LEMMA ClassIsTopSelection ==
  ASSUME IInv, ScanInv, NEW C, NEW stats, StatsFor(stats), Tallies(file, Scanned \X Side, C, stats),
         NEW seen, seen = DOMAIN stats, NEW limit \in Nat
  PROVE  IsTopSelection(select_top_endpoints(stats, limit), seen, limit)
<1> DEFINE S == select_top_endpoints(stats, limit)
<1>1. /\ Cardinality(S) = Smaller(limit, Cardinality(DOMAIN stats))
      /\ \A a \in S, b \in DOMAIN stats \ S : Outranks(stats, a, b)
  BY StatsAreScored, SelectionIsTop DEF StatsFor
<1>2. S \subseteq DOMAIN stats
  BY DEF select_top_endpoints
<1>3. \A ip \in DOMAIN stats : Score(stats[ip]) = Rank(ip)
  BY ScoreIsRank
<1> HIDE DEF S
<1>4. \A a \in S, b \in DOMAIN stats \ S : PrecedesInRank(a, b)
  BY <1>1, <1>2, <1>3 DEF Outranks, PrecedesInRank
<1>. QED BY <1>1, <1>2, <1>4 DEF IsTopSelection, S

(* Whatever the file, the first pass retains the best endpoints of each     *)
(* class by the score of all its flows, as many as the limit allows.        *)
THEOREM BestEndpoints == Spec => []TopEndpointsRetained
<1>1. IInv /\ ScanInv => TopEndpointsRetained
  <2> SUFFICES ASSUME IInv, ScanInv, phase \in {"sample", "sampled"}
               PROVE  /\ IsTopSelection(m_selected_internal_ips, Seen(check_internal), InternalLimit)
                      /\ IsTopSelection(m_selected_external_ips, Seen(External), ExternalLimit)
    BY DEF TopEndpointsRetained
  <2>1. \A i \in Scanned : file[i].src \in Nat /\ file[i].dst \in Nat
    BY ScannedLines DEF IInv, ScalarInv, Observable
  <2>2. {EndIp(file, e) : e \in Scanned \X Side}
          = {file[i].src : i \in Scanned} \cup {file[i].dst : i \in Scanned}
    <3>1. \A i \in Scanned : /\ <<i, "src">> \in Scanned \X Side /\ EndIp(file, <<i, "src">>) = file[i].src
                             /\ <<i, "dst">> \in Scanned \X Side /\ EndIp(file, <<i, "dst">>) = file[i].dst
      BY DEF Side, EndIp
    <3>2. \A e \in Scanned \X Side : e[1] \in Scanned /\ EndIp(file, e) \in {file[e[1]].src, file[e[1]].dst}
      BY DEF EndIp
    <3> DEFINE L == {EndIp(file, e) : e \in Scanned \X Side}
    <3>3. \A ip \in L : \E i \in Scanned : ip = file[i].src \/ ip = file[i].dst
      BY <3>2
    <3>4. \A i \in Scanned : file[i].src \in L /\ file[i].dst \in L
      <4> SUFFICES ASSUME NEW i \in Scanned PROVE file[i].src \in L /\ file[i].dst \in L
        OBVIOUS
      <4>1. PICK a \in Scanned \X Side : EndIp(file, a) = file[i].src
        BY <3>1
      <4>2. PICK b \in Scanned \X Side : EndIp(file, b) = file[i].dst
        BY <3>1
      <4>. QED BY <4>1, <4>2
    <3> HIDE DEF L
    <3>5. L = {file[i].src : i \in Scanned} \cup {file[i].dst : i \in Scanned}
      BY <3>3, <3>4
    <3>. QED BY <3>5 DEF L
  <2>3. Seen(check_internal) = DOMAIN m_internal_endpoint_stats
    <3> DEFINE A == {file[i].src : i \in Scanned} \cup {file[i].dst : i \in Scanned}
    <3>1. A \subseteq Nat
      BY <2>1
    <3>2. DOMAIN m_internal_endpoint_stats = A \cap {ip \in Nat : check_internal(ip)}
      BY <2>2 DEF ScanInv, Tallies, Internal
    <3>3. Seen(check_internal) = {ip \in A : check_internal(ip)}
      BY DEF Seen
    <3> HIDE DEF A
    <3>. QED BY <3>1, <3>2, <3>3
  <2>4. Seen(External) = DOMAIN m_external_endpoint_stats
    <3> DEFINE A == {file[i].src : i \in Scanned} \cup {file[i].dst : i \in Scanned}
    <3>1. A \subseteq Nat
      BY <2>1
    <3>2. DOMAIN m_external_endpoint_stats = A \cap {ip \in Nat : External(ip)}
      BY <2>2 DEF ScanInv, Tallies, Other
    <3>3. Seen(External) = {ip \in A : External(ip)}
      BY DEF Seen
    <3> HIDE DEF A
    <3>. QED BY <3>1, <3>2, <3>3
  <2>5. /\ m_selected_internal_ips = select_top_endpoints(m_internal_endpoint_stats, InternalLimit)
        /\ m_selected_external_ips = select_top_endpoints(m_external_endpoint_stats, ExternalLimit)
    BY DEF IInv, SelectedInv
  <2>6. IsTopSelection(m_selected_internal_ips, Seen(check_internal), InternalLimit)
    BY <2>3, <2>5, ClassIsTopSelection, LimitsAssumption DEF ScanInv, IInv, StatsInv
  <2>7. IsTopSelection(m_selected_external_ips, Seen(External), ExternalLimit)
    BY <2>4, <2>5, ClassIsTopSelection, LimitsAssumption DEF ScanInv, IInv, StatsInv
  <2>. QED BY <2>6, <2>7
<1>. QED BY Invariance, ScanInvariance, <1>1, PTL

-----------------------------------------------------------------------------
(* The slices of the window.                                                *)

(* A common positive factor can be dropped from a strict inequality.        *)
LEMMA FactorDrops ==
  ASSUME NEW a \in Int, NEW b \in Int, NEW w \in Nat \ {0}, a * w < b * w
  PROVE  a < b
<1> SUFFICES ASSUME b <= a PROVE FALSE
  OBVIOUS
<1>1. PICK d \in Nat : a = b + d
  <2>1. a - b \in Nat /\ a = b + (a - b)
    OBVIOUS
  <2>. QED BY <2>1
<1>2. a * w = b * w + d * w
  BY <1>1
<1>3. d * w \in Nat /\ a * w \in Int /\ b * w \in Int
  BY <1>1
<1>. QED BY <1>2, <1>3

(* What an integer division leaves.                                         *)
LEMMA DivisionBounds ==
  ASSUME NEW m \in Nat, NEW w \in Nat \ {0}
  PROVE  LET q == m \div w IN q \in Nat /\ q * w <= m /\ m < (q + 1) * w
<1>1. m \div w \in Nat
  OBVIOUS
<1>2. m % w \in 0 .. w - 1
  OBVIOUS
<1>3. m = w * (m \div w) + (m % w)
  OBVIOUS
<1> DEFINE q == m \div w
           r == m % w
<1>4. q \in Nat /\ r \in Nat /\ r < w /\ m = w * q + r
  BY <1>1, <1>2, <1>3
<1> HIDE DEF q, r
<1>5. q * w = w * q /\ (q + 1) * w = w * q + w /\ w * q \in Nat
  BY <1>4
<1>6. q \in Nat /\ q * w <= m /\ m < (q + 1) * w
  BY <1>4, <1>5
<1>. QED BY <1>6 DEF q

(* get_temporal_bucket finds the slice of every timestamp in the window of  *)
(* the scanned flows.                                                       *)
LEMMA BucketIsSlice ==
  ASSUME IInv, ScanInv, NEW t \in Int
  PROVE  get_temporal_bucket(t) = SliceOf(t)
<1> DEFINE start == m_observation_start
           end == m_observation_end
<1>1. start \in Int /\ end \in Int /\ Buckets \in Nat \ {0}
  BY LimitsAssumption DEF IInv, ScalarInv, Buckets, Larger
<1>2. CASE Scanned = {}
  <2>1. start = MaxMs
    BY <1>2 DEF ScanInv, IsWindow
  <2>. QED BY <1>2, <2>1 DEF get_temporal_bucket, SliceOf
<1>3. CASE Scanned # {}
  <2>1. \A i \in Scanned : /\ file[i].fwd.start \in Int /\ file[i].fwd.start < MaxMs
                           /\ file[i].fwd.end \in Int
    BY ScannedLines DEF IInv, ScalarInv, Observable
  <2>2. /\ \E i \in Scanned : file[i].fwd.start = start
        /\ \A i \in Scanned : start <= file[i].fwd.start
        /\ end = 0 \/ \E i \in Scanned : file[i].fwd.end = end
        /\ \A i \in Scanned : file[i].fwd.end <= end
        /\ 0 <= end
    BY <1>3 DEF ScanInv, IsWindow
  <2>3. Earliest(Scanned) = start
    <3> DEFINE P(i) == \A j \in Scanned : file[i].fwd.start <= file[j].fwd.start
               first == CHOOSE i \in Scanned : P(i)
    <3>1. \E i \in Scanned : P(i)
      BY <2>2
    <3>2. first \in Scanned /\ P(first)
      BY <3>1
    <3> HIDE DEF first
    <3>3. file[first].fwd.start = start
      BY <1>1, <2>1, <2>2, <3>2
    <3>. QED BY <3>3 DEF Earliest, first
  <2>4. Latest(Scanned) = end
    <3>1. \A u \in Ends(Scanned) : u \in Int
      BY <2>1 DEF Ends
    <3>2. end \in Ends(Scanned) /\ \A u \in Ends(Scanned) : end >= u
      BY <2>1, <2>2, <3>1 DEF Ends
    <3>. QED BY <3>1, <3>2, LatestIs
  <2>5. start # MaxMs
    BY <2>1, <2>2, LimitsAssumption
  <2> DEFINE w == end - start + 1
             x == Smaller(t, end) - start
             m == x * Buckets
             q == m \div w
             IsSlice(b) == b * w <= m /\ m < (b + 1) * w
  <2>6. SliceOf(t) = IF Buckets = 1 \/ end <= start \/ t <= start THEN 0
                     ELSE CHOOSE b \in 0 .. Buckets - 1 : IsSlice(b)
    BY <1>3, <2>3, <2>4 DEF SliceOf
  <2>7. CASE Buckets = 1 \/ end <= start
    BY <1>1, <2>6, <2>7 DEF get_temporal_bucket
  <2>8. CASE Buckets # 1 /\ end > start /\ t <= start
    <3>1. Clamp(t - start, 0, end - start) = 0
      BY <1>1, <2>8 DEF Clamp, Smaller, Larger
    <3>2. get_temporal_bucket(t) = Smaller((0 * Buckets) \div Larger(1, end - start + 1), Buckets - 1)
      BY <1>1, <2>5, <2>8, <3>1 DEF get_temporal_bucket
    <3>3. 0 * Buckets = 0 /\ Larger(1, end - start + 1) \in Nat \ {0}
      BY <1>1, <2>8 DEF Larger
    <3>4. 0 \div Larger(1, end - start + 1) = 0
      BY <3>3
    <3>5. get_temporal_bucket(t) = 0
      BY <1>1, <3>2, <3>3, <3>4 DEF Smaller
    <3>. QED BY <2>6, <2>8, <3>5
  <2>9. CASE Buckets # 1 /\ end > start /\ t > start
    <3>1. w \in Nat \ {0} /\ x \in Nat /\ x < w /\ Buckets - 1 \in Nat
      BY <1>1, <2>9 DEF Smaller
    <3>2. Clamp(t - start, 0, end - start) = x /\ Larger(1, end - start + 1) = w
      BY <1>1, <2>9 DEF Clamp, Smaller, Larger
    <3>3. get_temporal_bucket(t) = Smaller(q, Buckets - 1)
      BY <1>1, <2>5, <2>9, <3>2 DEF get_temporal_bucket
    <3>4. SliceOf(t) = CHOOSE b \in 0 .. Buckets - 1 : IsSlice(b)
      BY <1>1, <2>6, <2>9
    <3> HIDE DEF w, x
    <3>5. m \in Nat
      BY <1>1, <3>1
    <3>6. m < Buckets * w
      <4>1. PICK d \in Nat : w = x + 1 + d
        <5>1. w - x - 1 \in Nat /\ w = x + 1 + (w - x - 1)
          BY <3>1
        <5>. QED BY <5>1
      <4>2. Buckets * w = Buckets * x + Buckets + Buckets * d
        BY <1>1, <3>1, <4>1
      <4>3. Buckets * d \in Nat /\ Buckets * x = m
        BY <1>1, <3>1, <4>1
      <4>. QED BY <1>1, <3>5, <4>2, <4>3
    <3> HIDE DEF m
    <3>7. q \in Nat /\ IsSlice(q)
      BY <3>1, <3>5, DivisionBounds
    <3> HIDE DEF q
    <3>8. q \in 0 .. Buckets - 1
      <4>1. q * w < Buckets * w
        BY <1>1, <3>1, <3>5, <3>6, <3>7
      <4>2. q < Buckets
        BY <1>1, <3>1, <3>7, <4>1, FactorDrops
      <4>. QED BY <1>1, <3>7, <4>2
    <3>9. ASSUME NEW b \in 0 .. Buckets - 1, IsSlice(b) PROVE b = q
      <4>1. b * w < (q + 1) * w /\ q * w < (b + 1) * w
        BY <1>1, <3>1, <3>5, <3>7, <3>9
      <4>2. b < q + 1
        BY <1>1, <3>1, <3>7, <4>1, FactorDrops
      <4>3. q < b + 1
        BY <1>1, <3>1, <3>7, <4>1, FactorDrops
      <4>. QED BY <1>1, <3>7, <4>2, <4>3
    <3>10. SliceOf(t) = q
      BY <3>4, <3>7, <3>8, <3>9
    <3>11. Smaller(q, Buckets - 1) = q
      BY <1>1, <3>8 DEF Smaller
    <3>. QED BY <3>3, <3>10, <3>11
  <2>. QED BY <1>1, <2>7, <2>8, <2>9
<1>. QED BY <1>2, <1>3

-----------------------------------------------------------------------------
(* One entry: how often it holds a value.                                   *)

Multiplicity(values, v) == Cardinality({j \in DOMAIN values : values[j] = v})

(* An add makes room for the new value at the cost of at most one other: no *)
(* value becomes more frequent, except that the new one may gain one.       *)
LEMMA AddedOnce ==
  ASSUME NEW V, NEW entry, entry.values \in Seq(V), NEW value \in V,
         Len(entry.values) <= Capacity, entry.total_seen \in Nat,
         NEW new \in AddToEntry(entry, value)
  PROVE  /\ new.values \in Seq(V) /\ new.total_seen = entry.total_seen + 1
         /\ Len(new.values) = Smaller(Capacity, Len(entry.values) + 1)
         /\ \A v : Multiplicity(new.values, v) <= IF v = value THEN Multiplicity(entry.values, v) + 1
                                                  ELSE Multiplicity(entry.values, v)
<1> DEFINE old == entry.values
           vals == new.values
           n == Len(old)
           Holds(s, v) == {j \in DOMAIN s : s[j] = v}
<1>1. n \in Nat /\ DOMAIN old = 1 .. n /\ IsFiniteSet(1 .. n)
  <2>1. 1 \in Int /\ n \in Int /\ n \in Nat /\ DOMAIN old = 1 .. n
    OBVIOUS
  <2>. QED BY <2>1, FS_Interval
<1>2. new.total_seen = entry.total_seen + 1
  BY DEF AddToEntry
<1>3. /\ vals \in Seq(V) /\ Len(vals) = Smaller(Capacity, n + 1)
      /\ \E c \in 1 .. n + 1 : \A v : /\ v # value => Holds(vals, v) \subseteq Holds(old, v)
                                      /\ Holds(vals, v) \subseteq Holds(old, v) \cup {c}
  <2>1. CASE n < Capacity
    <3>1. vals = Append(old, value)
      BY <2>1 DEF AddToEntry
    <3>2. /\ Append(old, value) \in Seq(V) /\ Len(Append(old, value)) = n + 1
          /\ \A j \in 1 .. n : Append(old, value)[j] = old[j]
          /\ Append(old, value)[n + 1] = value
      BY AppendProperties
    <3>3. DOMAIN vals = 1 .. n + 1
      BY <1>1, <3>1, <3>2
    <3>4. \A j \in DOMAIN vals : j = n + 1 \/ (j \in DOMAIN old /\ vals[j] = old[j])
      BY <1>1, <3>1, <3>2, <3>3
    <3>5. \A v : /\ v # value => Holds(vals, v) \subseteq Holds(old, v)
                 /\ Holds(vals, v) \subseteq Holds(old, v) \cup {n + 1}
      BY <3>1, <3>2, <3>4
    <3>6. Smaller(Capacity, n + 1) = n + 1 /\ n + 1 \in 1 .. n + 1
      BY <1>1, <2>1, CapacityAssumption DEF Smaller
    <3>. QED BY <3>1, <3>2, <3>5, <3>6
  <2>2. CASE ~(n < Capacity)
    <3>1. n = Capacity /\ Smaller(Capacity, n + 1) = n
      BY <1>1, <2>2, CapacityAssumption DEF Smaller
    <3>2. PICK idx \in 0 .. entry.total_seen : vals = Replace(old, idx, value)
      BY <2>2 DEF AddToEntry
    <3>3. CASE idx < Capacity
      <4>1. vals = [old EXCEPT ![idx + 1] = value] /\ idx + 1 \in 1 .. n
        BY <1>1, <3>1, <3>2, <3>3, CapacityAssumption DEF Replace
      <4>2. vals \in Seq(V) /\ Len(vals) = n
        BY <4>1, ExceptSeq
      <4>3. \A j \in DOMAIN vals : j \in DOMAIN old /\ (j # idx + 1 => vals[j] = old[j])
        BY <4>1
      <4>4. vals[idx + 1] = value
        BY <1>1, <4>1
      <4>5. \A v : /\ v # value => Holds(vals, v) \subseteq Holds(old, v)
                   /\ Holds(vals, v) \subseteq Holds(old, v) \cup {idx + 1}
        BY <4>3, <4>4
      <4>6. idx + 1 \in 1 .. n + 1
        BY <1>1, <4>1
      <4>. QED BY <3>1, <4>2, <4>5, <4>6
    <3>4. CASE ~(idx < Capacity)
      <4>1. vals = old
        BY <3>2, <3>4 DEF Replace
      <4>. QED BY <1>1, <3>1, <4>1
    <3>. QED BY <3>3, <3>4
  <2>. QED BY <2>1, <2>2
<1>4. ASSUME NEW v
      PROVE  Cardinality(Holds(vals, v)) <= IF v = value THEN Cardinality(Holds(old, v)) + 1
                                            ELSE Cardinality(Holds(old, v))
  <2> DEFINE A == Holds(vals, v)
             B == Holds(old, v)
  <2>1. PICK c \in 1 .. n + 1 : (v # value => A \subseteq B) /\ A \subseteq B \cup {c}
    BY <1>3
  <2>2. IsFiniteSet(B)
    BY <1>1, FS_Subset
  <2> HIDE DEF A, B
  <2>3. IsFiniteSet(B \cup {c}) /\ Cardinality(B) \in Nat
        /\ Cardinality(B \cup {c}) = IF c \in B THEN Cardinality(B) ELSE Cardinality(B) + 1
    BY <2>2, FS_AddElement, FS_CardinalityType
  <2>4. v # value => Cardinality(A) <= Cardinality(B)
    BY <2>1, <2>2, FS_Subset
  <2>5. Cardinality(A) <= Cardinality(B \cup {c}) /\ IsFiniteSet(A)
    BY <2>1, <2>3, FS_Subset
  <2>6. Cardinality(A) \in Nat
    BY <2>5, FS_CardinalityType
  <2>7. Cardinality(A) <= IF v = value THEN Cardinality(B) + 1 ELSE Cardinality(B)
    BY <2>3, <2>4, <2>5, <2>6
  <2>. QED BY <2>7 DEF A, B
<1> HIDE DEF old, vals
<1>. QED BY <1>2, <1>3, <1>4 DEF Multiplicity, old, vals

-----------------------------------------------------------------------------
(* The whole reservoir, as a sample of the offers O with the keys and edges *)
(* they have.                                                               *)

OffersUnder(O, key, k) == {o \in O : key[o] = k}

IsSampleOf(entry, offered, edge) ==
  /\ entry.total_seen = Cardinality(offered)
  /\ entry.values \in Seq(IPEdge)
  /\ Len(entry.values) = Smaller(Capacity, Cardinality(offered))
  /\ \A v : Multiplicity(entry.values, v) <= Cardinality({o \in offered : edge[o] = v})

IsSample(data, O, key, edge) ==
  /\ DOMAIN data = {key[o] : o \in O}
  /\ \A k \in DOMAIN data : IsSampleOf(data[k], OffersUnder(O, key, k), edge)

(* An offer more, whatever the generator draws.                             *)
LEMMA OfferKeepsSample ==
  ASSUME NEW O, IsFiniteSet(O), NEW o, o \notin O, NEW key, NEW edge, edge[o] \in IPEdge,
         NEW data, IsSample(data, O, key, edge), NEW data2 \in add(data, key[o], edge[o])
  PROVE  IsSample(data2, O \cup {o}, key, edge)
<1> DEFINE K == key[o]
           e == edge[o]
           offered == OffersUnder(O, key, K)
           old == Entry(data, K)
           new == data2[K]
           WithEdge(S, v) == {x \in S : edge[x] = v}
<1>1. DOMAIN data2 = DOMAIN data \cup {K} /\ new \in AddToEntry(old, e)
  BY AddReachesItsKey
<1>2. IsFiniteSet(offered) /\ o \notin offered
  BY FS_Subset DEF OffersUnder
<1>3. OffersUnder(O \cup {o}, key, K) = offered \cup {o}
  BY DEF OffersUnder
<1>4. IsSampleOf(old, offered, edge)
  <2>1. CASE K \in DOMAIN data
    BY <2>1 DEF Entry, IsSample
  <2>2. CASE K \notin DOMAIN data
    <3>1. offered = {}
      BY <2>2 DEF IsSample, OffersUnder
    <3>2. old.values = << >> /\ old.total_seen = 0
      BY <2>2 DEF Entry, EmptyEntry
    <3> HIDE DEF old, offered
    <3>3. Cardinality(offered) = 0
      BY <3>1, FS_EmptySet
    <3>4. \A v : {j \in DOMAIN old.values : old.values[j] = v} = {} /\ WithEdge(offered, v) = {}
      BY <3>1, <3>2
    <3>5. \A v : Multiplicity(old.values, v) = 0 /\ Cardinality(WithEdge(offered, v)) = 0
      BY <3>4, FS_EmptySet DEF Multiplicity
    <3>6. << >> \in Seq(IPEdge) /\ Len(<< >>) = 0 /\ Smaller(Capacity, 0) = 0
      BY CapacityAssumption DEF Smaller
    <3>7. \A v : Multiplicity(old.values, v) <= Cardinality(WithEdge(offered, v))
      BY <3>5
    <3>. QED BY <3>2, <3>3, <3>6, <3>7 DEF IsSampleOf
  <2>. QED BY <2>1, <2>2
<1> HIDE DEF old, new, offered
<1>5. Cardinality(offered) \in Nat /\ Cardinality(offered \cup {o}) = Cardinality(offered) + 1
  BY <1>2, FS_AddElement, FS_CardinalityType
<1>6. Len(old.values) = Smaller(Capacity, Cardinality(offered)) /\ old.values \in Seq(IPEdge)
      /\ old.total_seen = Cardinality(offered)
  BY <1>4 DEF IsSampleOf
<1>7. Len(old.values) \in Nat /\ Len(old.values) <= Capacity
  BY <1>5, <1>6, CapacityAssumption DEF Smaller
<1>8. /\ new.values \in Seq(IPEdge) /\ new.total_seen = old.total_seen + 1
      /\ Len(new.values) = Smaller(Capacity, Len(old.values) + 1)
      /\ \A v : Multiplicity(new.values, v) <= IF v = e THEN Multiplicity(old.values, v) + 1
                                               ELSE Multiplicity(old.values, v)
  <2>1. old.total_seen \in Nat /\ e \in IPEdge
    BY <1>5, <1>6
  <2> HIDE DEF e
  <2>. QED BY <1>1, <1>6, <1>7, <2>1, AddedOnce
<1>9. Len(new.values) = Smaller(Capacity, Cardinality(offered \cup {o}))
  BY <1>5, <1>6, <1>8, CapacityAssumption DEF Smaller
<1>10. ASSUME NEW v
       PROVE  Multiplicity(new.values, v) <= Cardinality(WithEdge(offered \cup {o}, v))
  <2> DEFINE B == WithEdge(offered, v)
  <2>1. IsFiniteSet(B) /\ o \notin B
    BY <1>2, FS_Subset
  <2>2. WithEdge(offered \cup {o}, v) = IF v = e THEN B \cup {o} ELSE B
    OBVIOUS
  <2>3. Multiplicity(old.values, v) <= Cardinality(B)
    BY <1>4 DEF IsSampleOf
  <2>4. Multiplicity(old.values, v) \in Nat /\ Multiplicity(new.values, v) \in Nat
    <3>1. \A s \in Seq(IPEdge) : IsFiniteSet({j \in DOMAIN s : s[j] = v})
      <4> SUFFICES ASSUME NEW s \in Seq(IPEdge) PROVE IsFiniteSet({j \in DOMAIN s : s[j] = v})
        OBVIOUS
      <4>1. IsFiniteSet(1 .. Len(s)) /\ DOMAIN s = 1 .. Len(s)
        BY FS_Interval
      <4>. QED BY <4>1, FS_Subset
    <3>. QED BY <1>6, <1>8, <3>1, FS_CardinalityType DEF Multiplicity
  <2> HIDE DEF B
  <2>5. Cardinality(B) \in Nat /\ Cardinality(B \cup {o}) = Cardinality(B) + 1
    BY <2>1, FS_AddElement, FS_CardinalityType
  <2>6. Multiplicity(new.values, v) <= IF v = e THEN Cardinality(B \cup {o}) ELSE Cardinality(B)
    BY <1>8, <2>3, <2>4, <2>5
  <2>. QED BY <2>2, <2>6
<1>11. IsSampleOf(new, OffersUnder(O \cup {o}, key, K), edge)
  BY <1>3, <1>5, <1>6, <1>8, <1>9, <1>10 DEF IsSampleOf
<1>12. ASSUME NEW k \in DOMAIN data2, k # K
       PROVE  IsSampleOf(data2[k], OffersUnder(O \cup {o}, key, k), edge)
  <2>1. k \in DOMAIN data /\ data2[k] = data[k]
    BY <1>1, <1>12, AddLeavesOtherKeys
  <2>2. OffersUnder(O \cup {o}, key, k) = OffersUnder(O, key, k)
    BY <1>12 DEF OffersUnder
  <2>. QED BY <2>1, <2>2 DEF IsSample
<1>13. DOMAIN data2 = {key[x] : x \in O \cup {o}}
  BY <1>1 DEF IsSample
<1>. QED BY <1>11, <1>12, <1>13 DEF IsSample, new

-----------------------------------------------------------------------------
(* The second pass.                                                         *)

EdgeOf == [o \in Offers |-> OfferedEdge(o)]
KeyOf == [o \in Offers |-> make_edge_bucket_key(OfferedEdge(o))]

SampleInv ==
  /\ phase = "scan" => line_no = 0
  /\ IsSample(m_data, Offers, KeyOf, EdgeOf)

(* Only the keys and edges of the offers count.                             *)
LEMMA SameOffers ==
  ASSUME NEW O, NEW key, NEW edge, NEW key2, NEW edge2,
         \A o \in O : key2[o] = key[o] /\ edge2[o] = edge[o],
         NEW data, IsSample(data, O, key, edge)
  PROVE  IsSample(data, O, key2, edge2)
<1>1. \A k : OffersUnder(O, key2, k) = OffersUnder(O, key, k)
  BY DEF OffersUnder
<1>2. \A k, v : {o \in OffersUnder(O, key, k) : edge2[o] = v} = {o \in OffersUnder(O, key, k) : edge[o] = v}
  BY DEF OffersUnder
<1>3. {key2[o] : o \in O} = {key[o] : o \in O}
  OBVIOUS
<1>4. ASSUME NEW k \in DOMAIN data
      PROVE  IsSampleOf(data[k], OffersUnder(O, key2, k), edge2)
  <2> DEFINE offered == OffersUnder(O, key, k)
  <2>1. IsSampleOf(data[k], offered, edge)
    BY DEF IsSample
  <2>2. \A v : {o \in offered : edge2[o] = v} = {o \in offered : edge[o] = v}
    BY <1>2
  <2>3. offered = OffersUnder(O, key2, k)
    BY <1>1
  <2> HIDE DEF offered
  <2>4. \A v : Multiplicity(data[k].values, v) <= Cardinality({o \in offered : edge2[o] = v})
    BY <2>1, <2>2 DEF IsSampleOf
  <2>5. IsSampleOf(data[k], offered, edge2)
    BY <2>1, <2>4 DEF IsSampleOf
  <2>. QED BY <2>3, <2>5
<1>. QED BY <1>3, <1>4 DEF IsSample

(* A line that is offered carries whole edges.                              *)
LEMMA OfferedEdges ==
  ASSUME IInv
  PROVE  /\ IsFiniteSet(Offers)
         /\ \A l \in Lines : BothRetained(l) /\ ParsesForward(l) =>
              /\ parse_flow_from_json(l) \in IPEdge
              /\ HasReverse(l) => parse_rev_flow_from_json(l) \in IPEdge
<1>1. IsFiniteSet(Offers)
  <2> DEFINE N == 1 .. line_no
             D == {"forward", "reverse"}
  <2>1. 1 \in Int /\ line_no \in Int
    BY DEF IInv, ScalarInv
  <2>2. IsFiniteSet(N)
    BY <2>1, FS_Interval
  <2>3. IsFiniteSet(D)
    <3>1. D = {"forward"} \cup {"reverse"}
      OBVIOUS
    <3> HIDE DEF D
    <3>. QED BY <3>1, FS_Singleton, FS_AddElement
  <2>4. Offers \subseteq N \X D
    BY DEF Offers
  <2> HIDE DEF N, D
  <2>5. IsFiniteSet(N \X D)
    BY <2>2, <2>3, FS_Product
  <2>. QED BY <2>4, <2>5, FS_Subset
<1>2. ASSUME NEW l \in Lines, BothRetained(l), ParsesForward(l)
      PROVE  /\ parse_flow_from_json(l) \in IPEdge
             /\ HasReverse(l) => parse_rev_flow_from_json(l) \in IPEdge
  <2>1. /\ l.src \in Nat /\ l.dst \in Nat /\ l.protocol \in Nat
        /\ l.src_port \in Nat \cup {None} /\ l.dst_port \in Nat \cup {None}
        /\ l.fwd.start \in Int /\ l.fwd.end \in Int
        /\ HasReverse(l) => l.rev.start \in Int /\ l.rev.end \in Int
    BY <1>2, LineFields DEF BothRetained, ParsesForward
  <2>. QED BY <2>1 DEF parse_flow_from_json, parse_rev_flow_from_json, IPEdge
<1>. QED BY <1>1, <1>2

(* Nothing is offered, and what was offered looks as before.                *)
LEMMA NoOffer ==
  ASSUME IInv, SampleInv, m_data' = m_data, Offers' = Offers,
         \A o \in Offers : o[1] \in 1 .. line_no => file'[o[1]] = file[o[1]],
         line_no = 0 \/ UNCHANGED windowVars,
         phase' = "scan" => line_no' = 0
  PROVE  SampleInv'
<1>1. \A o \in Offers : o[1] \in 1 .. line_no
  BY DEF Offers
<1>2. \A o \in Offers : UNCHANGED windowVars
  BY <1>1 DEF IInv, ScalarInv
<1>3. \A o \in Offers : OfferedEdge(o)' = OfferedEdge(o)
  BY <1>1 DEF OfferedEdge
<1>4. \A o \in Offers : make_edge_bucket_key(OfferedEdge(o))' = make_edge_bucket_key(OfferedEdge(o))
  BY <1>2, <1>3 DEF make_edge_bucket_key, get_temporal_bucket, windowVars
<1>5. \A o \in Offers : KeyOf'[o] = KeyOf[o] /\ EdgeOf'[o] = EdgeOf[o]
  BY <1>3, <1>4 DEF KeyOf, EdgeOf
<1>6. IsSample(m_data, Offers, KeyOf, EdgeOf)
  BY DEF SampleInv
<1>7. IsSample(m_data, Offers, KeyOf', EdgeOf')
  BY <1>5, <1>6, SameOffers
<1>. QED BY <1>7 DEF SampleInv

(* One line more is read.                                                   *)
LEMMA NextLine ==
  ASSUME IInv, ReadForSample
  PROVE  LET n == line_no + 1
         IN  /\ line_no \in Nat /\ line_no' = n /\ file[n] \in Lines
             /\ Offers' = Offers \cup {<<n, d>> : d \in OffersOf(file[n])}
             /\ \A o \in Offers : o[1] # n
<1> DEFINE n == line_no + 1
<1>1. /\ line_no \in Nat /\ n \in 1 .. Len(file) /\ line_no' = n
      /\ file' = file /\ UNCHANGED selectedVars
  BY DEF IInv, ScalarInv, ReadForSample
<1>2. file[n] \in Lines
  BY <1>1 DEF IInv, ScalarInv
<1>3. \A l : OffersOf(l)' = OffersOf(l)
  BY <1>1 DEF OffersOf, BothRetained, is_retained_endpoint, selectedVars
<1>4. \A i : i \in 1 .. n <=> i \in 1 .. line_no \/ i = n
  BY <1>1
<1>5. \A l : OffersOf(l) \subseteq {"forward", "reverse"}
  BY DEF OffersOf
<1>6. Offers' = {o \in (1 .. n) \X {"forward", "reverse"} : o[2] \in OffersOf(file[o[1]])}
  BY <1>1, <1>3 DEF Offers
<1> DEFINE old == Offers
           new == {<<n, d>> : d \in OffersOf(file[n])}
<1>7. \A o \in Offers' : o \in old \cup new
  BY <1>4, <1>6 DEF Offers
<1>8. \A o \in old \cup new : o \in Offers'
  BY <1>1, <1>4, <1>5, <1>6 DEF Offers
<1>9. \A o \in Offers : o[1] # n
  BY <1>1 DEF Offers
<1>. QED BY <1>1, <1>2, <1>7, <1>8, <1>9

(* A line of the second pass.                                               *)
LEMMA SampleKeepsSampleInv ==
  ASSUME IInv, SampleInv, SampleMalformed \/ SampleSkip \/ SampleFlow
  PROVE  SampleInv'
<1> DEFINE n == line_no + 1
           l == file[n]
<1>1. /\ ReadForSample /\ phase = "sample" /\ phase' # "scan" /\ file' = file
      /\ UNCHANGED windowVars
  BY DEF SampleMalformed, SampleSkip, SampleFlow, ReadForSample
<1>2. /\ line_no \in Nat /\ line_no' = n /\ l \in Lines
      /\ Offers' = Offers \cup {<<n, d>> : d \in OffersOf(l)}
      /\ \A o \in Offers : o[1] # n
  BY <1>1, NextLine
<1>3. CASE SampleMalformed \/ SampleSkip
  <2>1. m_data' = m_data /\ OffersOf(l) = {}
    BY <1>3 DEF SampleMalformed, SampleSkip, OffersOf, CurrentLine
  <2>2. Offers' = Offers
    BY <1>2, <2>1
  <2>. QED BY <1>1, <2>1, <2>2, NoOffer
<1>4. CASE SampleFlow
  <2> DEFINE f == <<n, "forward">>
             r == <<n, "reverse">>
             forward == parse_flow_from_json(l)
             reverse == parse_rev_flow_from_json(l)
  <2>1. BothRetained(l) /\ ParsesForward(l) /\ l.json
    BY <1>4 DEF SampleFlow, CurrentLine
  <2>2. OffersOf(l) = {"forward"} \cup (IF HasReverse(l) THEN {"reverse"} ELSE {})
    BY <2>1 DEF OffersOf
  <2>3. Offers' = IF HasReverse(l) THEN (Offers \cup {f}) \cup {r} ELSE Offers \cup {f}
    BY <1>2, <2>2
  <2>4. f \notin Offers /\ r \notin Offers \cup {f}
    BY <1>2
  <2>5. \A o \in Offers : KeyOf'[o] = KeyOf[o] /\ EdgeOf'[o] = EdgeOf[o]
    <3>1. \A o \in Offers : OfferedEdge(o)' = OfferedEdge(o)
      BY <1>1 DEF OfferedEdge
    <3>2. \A o \in Offers : make_edge_bucket_key(OfferedEdge(o))' = make_edge_bucket_key(OfferedEdge(o))
      BY <1>1, <3>1 DEF make_edge_bucket_key, get_temporal_bucket, windowVars
    <3>. QED BY <2>3, <3>1, <3>2 DEF KeyOf, EdgeOf
  <2>6. /\ EdgeOf'[f] = forward /\ KeyOf'[f] = make_edge_bucket_key(forward)
        /\ HasReverse(l) => EdgeOf'[r] = reverse /\ KeyOf'[r] = make_edge_bucket_key(reverse)
    <3>1. f \in Offers' /\ (HasReverse(l) => r \in Offers')
      BY <2>3
    <3>2. \A o : /\ o = f => OfferedEdge(o)' = forward
                 /\ o = r => OfferedEdge(o)' = reverse
      BY <1>1 DEF OfferedEdge
    <3>3. \A e : make_edge_bucket_key(e)' = make_edge_bucket_key(e)
      BY <1>1 DEF make_edge_bucket_key, get_temporal_bucket, windowVars
    <3>4. \A o : make_edge_bucket_key(OfferedEdge(o))' = make_edge_bucket_key(OfferedEdge(o)')
      BY <3>3 DEF make_edge_bucket_key
    <3>5. \A o \in Offers' : /\ EdgeOf'[o] = OfferedEdge(o)'
                              /\ KeyOf'[o] = make_edge_bucket_key(OfferedEdge(o)')
      BY <3>4 DEF KeyOf, EdgeOf
    <3> HIDE DEF f, r, forward, reverse
    <3>. QED BY <3>1, <3>2, <3>5
  <2>7. IsFiniteSet(Offers) /\ forward \in IPEdge /\ (HasReverse(l) => reverse \in IPEdge)
    BY <1>2, <2>1, OfferedEdges
  <2>8. PICK key, edge : key = KeyOf' /\ edge = EdgeOf'
    OBVIOUS
  <2>9. IsSample(m_data, Offers, key, edge)
    <3>1. IsSample(m_data, Offers, KeyOf, EdgeOf)
      BY DEF SampleInv
    <3>. QED BY <2>5, <2>8, <3>1, SameOffers
  <2>10. PICK first \in add(m_data, key[f], edge[f]) :
           IF HasReverse(l) THEN m_data' \in add(first, key[r], edge[r]) ELSE m_data' = first
    BY <1>4, <2>6, <2>8 DEF SampleFlow, CurrentLine, add_edge_to_reservoir
  <2>11. edge[f] \in IPEdge /\ (HasReverse(l) => edge[r] \in IPEdge)
    BY <2>6, <2>7, <2>8
  <2> HIDE DEF f, r
  <2>12. IsSample(first, Offers \cup {f}, key, edge)
    BY <2>4, <2>7, <2>9, <2>10, <2>11, OfferKeepsSample
  <2>13. IsFiniteSet(Offers \cup {f})
    BY <2>7, FS_AddElement
  <2>14. IsSample(m_data', Offers', key, edge)
    <3>1. CASE HasReverse(l)
      <4>1. m_data' \in add(first, key[r], edge[r]) /\ edge[r] \in IPEdge
        BY <2>10, <2>11, <3>1
      <4>2. IsSample(m_data', (Offers \cup {f}) \cup {r}, key, edge)
        BY <2>4, <2>12, <2>13, <4>1, OfferKeepsSample
      <4>. QED BY <2>3, <3>1, <4>2
    <3>2. CASE ~HasReverse(l)
      BY <2>3, <2>10, <2>12, <3>2
    <3>. QED BY <3>1, <3>2
  <2>. QED BY <1>1, <2>8, <2>14 DEF SampleInv
<1>. QED BY <1>3, <1>4

(* Every step accounts for exactly the flows it offers.                     *)
LEMMA SampleInvariance == Spec => []SampleInv
<1>1. IngestInit => SampleInv
  <2> SUFFICES ASSUME IngestInit PROVE SampleInv
    OBVIOUS
  <2>1. phase = "scan" /\ line_no = 0 /\ m_data = NoData
    BY DEF IngestInit, Init
  <2>2. Offers = {}
    BY <2>1 DEF Offers
  <2>3. DOMAIN NoData = {}
    BY DEF NoData
  <2>4. IsSample(m_data, Offers, KeyOf, EdgeOf)
    BY <2>1, <2>2, <2>3 DEF IsSample
  <2>. QED BY <2>1, <2>4 DEF SampleInv
<1>2. IInv /\ SampleInv /\ [Next]_vars => SampleInv'
  <2> SUFFICES ASSUME IInv, SampleInv, [Next]_vars PROVE SampleInv'
    OBVIOUS
  <2>1. CASE SampleMalformed \/ SampleSkip \/ SampleFlow
    BY <2>1, SampleKeepsSampleInv
  <2>2. CASE phase = "scan" /\ UNCHANGED <<line_no, m_data>>
    <3>1. line_no = 0 /\ line_no' = 0
      BY <2>2 DEF SampleInv
    <3>2. Offers = {} /\ Offers' = {}
      BY <3>1 DEF Offers
    <3>. QED BY <2>2, <3>1, <3>2, NoOffer
  <2>3. CASE /\ UNCHANGED <<line_no, m_data, selectedVars, windowVars>>
             /\ phase # "scan" /\ phase' # "scan"
             /\ file' = file \/ \E l \in Lines : file' = Append(file, l)
    <3>1. \A i \in 1 .. line_no : i \in 1 .. Len(file)
      BY DEF IInv, ScalarInv
    <3>2. \A i \in 1 .. line_no : file'[i] = file[i]
      BY <2>3, <3>1, AppendProperties DEF IInv, ScalarInv
    <3>3. \A l : OffersOf(l)' = OffersOf(l)
      BY <2>3 DEF OffersOf, BothRetained, is_retained_endpoint, selectedVars
    <3>4. Offers' = Offers
      BY <2>3, <3>2, <3>3 DEF Offers
    <3>. QED BY <2>3, <3>2, <3>4, NoOffer
  <2>4. CASE UNCHANGED flowVars
    <3>1. UNCHANGED <<phase, file, line_no, m_data, selectedVars, windowVars>>
      BY <2>4 DEF flowVars
    <3>2. CASE phase = "scan"
      BY <2>2, <3>1, <3>2
    <3>3. CASE phase # "scan"
      BY <2>3, <3>1, <3>3
    <3>. QED BY <3>2, <3>3
  <2>5. CASE FlowNext
    <3>1. CASE \E l \in Lines : ScanMalformed(l) \/ ScanInvalid(l) \/ ScanBlocked(l) \/ ScanFlow(l)
      BY <2>2, <3>1 DEF ScanMalformed, ScanInvalid, ScanBlocked, ScanFlow, ReadForScan
    <3>2. CASE FinishScan
      BY <2>2, <3>2 DEF FinishScan
    <3>3. CASE \E l \in Lines : GrowFile(l)
      BY <2>3, <3>3 DEF GrowFile
    <3>4. CASE FinishSample
      BY <2>3, <3>4 DEF FinishSample
    <3>. QED BY <2>1, <2>5, <3>1, <3>2, <3>3, <3>4 DEF FlowNext
  <2>. QED BY <2>4, <2>5 DEF Next, ProcessData, StartBuild, AddEdge, NextKey, FinishBuild, Ended, vars
<1>. QED BY Invariance, <1>1, <1>2, PTL DEF Spec

(* At all times the reservoir is a sample of what the second pass read:     *)
(* under the directed pair and slice of every offered flow, no other, as    *)
(* many of the offered edges as fit and none more often than it was         *)
(* offered - for every file, capacity, window and choice of the generator.  *)
THEOREM ReservoirIsSample == Spec => []ReservoirHoldsSample
<1>1. IInv /\ ScanInv /\ SampleInv => ReservoirHoldsSample
  <2> SUFFICES ASSUME IInv, ScanInv, SampleInv PROVE ReservoirHoldsSample
    OBVIOUS
  <2>1. ASSUME NEW o \in Offers
        PROVE  OfferedKey(o) = KeyOf[o] /\ OfferedEdge(o) = EdgeOf[o]
    <3> DEFINE l == file[o[1]]
    <3>1. l \in Lines /\ BothRetained(l) /\ ParsesForward(l) /\ o[2] \in OffersOf(l)
      <4>1. o[1] \in 1 .. Len(file) /\ o[2] \in OffersOf(l)
        BY DEF IInv, ScalarInv, Offers
      <4>. QED BY <4>1 DEF IInv, ScalarInv, OffersOf
    <3>2. l.fwd.start \in Int /\ (HasReverse(l) => l.rev.start \in Int)
      BY <3>1, LineFields DEF ParsesForward
    <3>3. o[2] = "forward" \/ (o[2] = "reverse" /\ HasReverse(l))
      BY <3>1 DEF OffersOf
    <3>4. make_edge_bucket_key(OfferedEdge(o)) = OfferedKey(o)
      <4>1. CASE o[2] = "forward"
        <5>1. get_temporal_bucket(l.fwd.start) = SliceOf(l.fwd.start)
          BY <3>2, BucketIsSlice
        <5>. QED BY <4>1, <5>1 DEF OfferedEdge, OfferedKey, make_edge_bucket_key, parse_flow_from_json
      <4>2. CASE o[2] = "reverse" /\ HasReverse(l)
        <5>1. get_temporal_bucket(l.rev.start) = SliceOf(l.rev.start)
          BY <3>2, <4>2, BucketIsSlice
        <5>. QED BY <4>2, <5>1 DEF OfferedEdge, OfferedKey, make_edge_bucket_key, parse_rev_flow_from_json
      <4>. QED BY <3>3, <4>1, <4>2
    <3>. QED BY <3>4 DEF KeyOf, EdgeOf
  <2>2. \A k : {o \in Offers : OfferedKey(o) = k} = OffersUnder(Offers, KeyOf, k)
    BY <2>1 DEF OffersUnder
  <2>3. {OfferedKey(o) : o \in Offers} = {KeyOf[o] : o \in Offers}
    BY <2>1
  <2>4. \A k, v : {o \in OffersUnder(Offers, KeyOf, k) : OfferedEdge(o) = v}
                    = {o \in OffersUnder(Offers, KeyOf, k) : EdgeOf[o] = v}
    BY <2>1 DEF OffersUnder
  <2>5. /\ DOMAIN m_data = {KeyOf[o] : o \in Offers}
        /\ \A k \in DOMAIN m_data : IsSampleOf(m_data[k], OffersUnder(Offers, KeyOf, k), EdgeOf)
    BY DEF SampleInv, IsSample
  <2>6. ASSUME NEW k \in DOMAIN m_data
        PROVE  LET offered == {o \in Offers : OfferedKey(o) = k}
                   values  == get(m_data, k)
               IN  /\ Len(values) = Smaller(Capacity, Cardinality(offered))
                   /\ \A i \in DOMAIN values :
                        Cardinality({j \in DOMAIN values : values[j] = values[i]})
                          <= Cardinality({o \in offered : OfferedEdge(o) = values[i]})
    <3> DEFINE offered == {o \in Offers : OfferedKey(o) = k}
               values == get(m_data, k)
    <3>1. offered = OffersUnder(Offers, KeyOf, k)
      BY <2>2
    <3>2. IsSampleOf(m_data[k], offered, EdgeOf) /\ values = m_data[k].values
      BY <2>5, <3>1 DEF get
    <3>3. \A v : {o \in offered : OfferedEdge(o) = v} = {o \in offered : EdgeOf[o] = v}
      BY <2>4, <3>1
    <3> HIDE DEF offered, values
    <3>4. Len(values) = Smaller(Capacity, Cardinality(offered))
      BY <3>2 DEF IsSampleOf
    <3>5. \A v : Cardinality({j \in DOMAIN values : values[j] = v})
                   <= Cardinality({o \in offered : OfferedEdge(o) = v})
      BY <3>2, <3>3 DEF IsSampleOf, Multiplicity
    <3>. QED BY <3>4, <3>5 DEF offered, values
  <2>. QED BY <2>3, <2>5, <2>6 DEF ReservoirHoldsSample
<1>. QED BY Invariance, ScanInvariance, SampleInvariance, <1>1, PTL

-----------------------------------------------------------------------------
(* The evicting counter, for every limit and every sequence of additions.   *)
(* CounterInv counts the decrements: a unit is lost only by one, and each   *)
(* of them costs m_limit + 1 additions.                                     *)

Places(s, key) == {n \in DOMAIN s : s[n] = key}

\* One token for every unit of every count.
Tokens(counter) ==
  {token \in (DOMAIN counter) \X (Nat \ {0}) : token[2] <= counter[token[1]]}

(* The counts are what is left of the additions after d decrements, each of *)
(* which took one unit from m_limit keys and cost the key that was added    *)
(* another.                                                                 *)
IsLeftAfter(d) ==
  /\ d \in Nat
  /\ Cardinality(Tokens(m_counter)) + (m_limit + 1) * d = Len(added)
  /\ \A key \in CountedKeys :
       /\ Count(key) <= Occurrences(key)
       /\ Occurrences(key) <= Count(key) + d

CounterInv ==
  /\ CounterTypeOK
  /\ IsFiniteSet(Tokens(m_counter))
  /\ \E d \in Nat : IsLeftAfter(d)

(* A key that is added occurs once more, the others as often as before.     *)
LEMMA OccursOnceMore ==
  ASSUME NEW S, NEW s \in Seq(S), NEW key \in S, NEW other
  PROVE  /\ Cardinality(Places(s, other)) \in Nat
         /\ Cardinality(Places(Append(s, key), other)) =
              Cardinality(Places(s, other)) + (IF other = key THEN 1 ELSE 0)
<1>1. /\ Len(s) \in Nat /\ DOMAIN s = 1 .. Len(s)
      /\ Append(s, key) \in Seq(S) /\ DOMAIN Append(s, key) = 1 .. Len(s) + 1
      /\ \A n \in 1 .. Len(s) : Append(s, key)[n] = s[n]
      /\ Append(s, key)[Len(s) + 1] = key
  BY AppendProperties
<1>2. IsFiniteSet(Places(s, other)) /\ Cardinality(Places(s, other)) \in Nat
  <2>1. Places(s, other) \subseteq 1 .. Len(s)
    BY <1>1 DEF Places
  <2>2. IsFiniteSet(1 .. Len(s))
    <3>1. Len(s) \in Int
      BY <1>1
    <3>. QED BY <3>1, FS_Interval
  <2>. QED BY <2>1, <2>2, FS_Subset, FS_CardinalityType
<1>3. CASE other = key
  <2>1. Places(Append(s, key), other) = Places(s, other) \cup {Len(s) + 1}
    BY <1>1, <1>3 DEF Places
  <2>2. Len(s) + 1 \notin Places(s, other)
    BY <1>1 DEF Places
  <2>. QED BY <1>2, <1>3, <2>1, <2>2, FS_AddElement
<1>4. CASE other # key
  <2>1. Places(Append(s, key), other) = Places(s, other)
    BY <1>1, <1>4 DEF Places
  <2>. QED BY <1>2, <1>4, <2>1
<1>. QED BY <1>2, <1>3, <1>4

(* A unit more of one count is a token more.                                *)
LEMMA OneToken ==
  ASSUME NEW counter, NEW counter2, NEW key,
         IsFiniteSet(Tokens(counter)),
         counter \in [DOMAIN counter -> Nat \ {0}],
         \/ key \in DOMAIN counter /\ counter2 = Incremented(counter, key)
         \/ key \notin DOMAIN counter /\ counter2 = Inserted(counter, key)
  PROVE  /\ IsFiniteSet(Tokens(counter2))
         /\ Cardinality(Tokens(counter2)) = Cardinality(Tokens(counter)) + 1
<1> DEFINE top == <<key, counter2[key]>>
<1>1. /\ DOMAIN counter2 = DOMAIN counter \cup {key}
      /\ counter2[key] = (IF key \in DOMAIN counter THEN counter[key] + 1 ELSE 1)
      /\ \A k \in DOMAIN counter \ {key} : counter2[k] = counter[k]
  BY DEF Incremented, Inserted
<1>2. /\ counter2[key] \in Nat \ {0}
      /\ \A n \in Nat \ {0} : n <= counter2[key] <=>
           \/ n = counter2[key]
           \/ key \in DOMAIN counter /\ n <= counter[key]
  BY <1>1
<1>3. Tokens(counter2) \subseteq Tokens(counter) \cup {top}
  <2>1. SUFFICES ASSUME NEW k \in DOMAIN counter2, NEW n \in Nat \ {0}, n <= counter2[k],
                        <<k, n>> # top
                 PROVE  k \in DOMAIN counter /\ n <= counter[k]
    BY DEF Tokens
  <2>. QED BY <1>1, <1>2, <2>1
<1>4. Tokens(counter) \subseteq Tokens(counter2)
  BY <1>1, <1>2 DEF Tokens
<1>5. top \in Tokens(counter2) /\ top \notin Tokens(counter)
  BY <1>1, <1>2 DEF Tokens
<1>6. Tokens(counter2) = Tokens(counter) \cup {top}
  BY <1>3, <1>4, <1>5
<1>. QED BY <1>5, <1>6, FS_AddElement

(* A decrement takes one token from every key.                              *)
LEMMA TokensTaken ==
  ASSUME NEW counter,
         IsFiniteSet(Tokens(counter)), IsFiniteSet(DOMAIN counter),
         counter \in [DOMAIN counter -> Nat \ {0}]
  PROVE  /\ IsFiniteSet(Tokens(Decremented(counter)))
         /\ Cardinality(Tokens(counter)) =
              Cardinality(Tokens(Decremented(counter))) + Cardinality(DOMAIN counter)
<1> DEFINE left == Tokens(Decremented(counter))
           top == [k \in DOMAIN counter |-> <<k, counter[k]>>]
           taken == {top[k] : k \in DOMAIN counter}
<1>1. /\ DOMAIN Decremented(counter) = {k \in DOMAIN counter : counter[k] > 1}
      /\ \A k \in DOMAIN Decremented(counter) : Decremented(counter)[k] = counter[k] - 1
  BY DEF Decremented
<1>2. left = {t \in Tokens(counter) : t[2] < counter[t[1]]}
  <2>1. ASSUME NEW k, NEW n \in Nat \ {0}
        PROVE  (k \in DOMAIN Decremented(counter) /\ n <= Decremented(counter)[k])
               <=> (k \in DOMAIN counter /\ n <= counter[k] /\ n < counter[k])
    BY <1>1
  <2>. QED BY <1>1, <2>1 DEF Tokens
<1>3. taken = {t \in Tokens(counter) : t[2] = counter[t[1]]}
  BY DEF Tokens
<1>4. /\ Tokens(counter) = left \cup taken
      /\ left \cap taken = {}
  <2>1. \A t \in Tokens(counter) : /\ t[2] \in Nat /\ counter[t[1]] \in Nat
                                   /\ t[2] <= counter[t[1]]
    BY DEF Tokens
  <2>. QED BY <1>2, <1>3, <2>1
<1>5. Cardinality(taken) = Cardinality(DOMAIN counter) /\ IsFiniteSet(taken)
  <2>1. top \in Bijection(DOMAIN counter, taken)
    BY Zenon DEF Bijection, Injection, Surjection, IsInjective
  <2>2. ExistsBijection(DOMAIN counter, taken)
    BY <2>1 DEF ExistsBijection
  <2>. QED BY <2>2, FS_Bijection
<1>6. IsFiniteSet(left)
  BY <1>2, FS_Subset
<1> HIDE DEF left, taken
<1>7. Cardinality(Tokens(counter)) = Cardinality(left) + Cardinality(taken)
  <2>1. Cardinality(left) \in Nat /\ Cardinality(taken) \in Nat
    BY <1>5, <1>6, FS_CardinalityType
  <2>2. Cardinality(left \cup taken) =
          Cardinality(left) + Cardinality(taken) - Cardinality(left \cap taken)
    BY <1>5, <1>6, FS_Union
  <2>3. Cardinality(left \cap taken) = 0
    BY <1>4, FS_EmptySet
  <2>. QED BY <1>4, <2>1, <2>2, <2>3
<1>. QED BY <1>5, <1>6, <1>7 DEF left

(* An empty counter has lost nothing.                                       *)
LEMMA CounterInitInv == CounterInit => CounterInv
<1> SUFFICES ASSUME CounterInit
             PROVE  CounterInv
  OBVIOUS
<1>1. m_limit \in Nat /\ m_counter = << >> /\ added = << >> /\ DOMAIN m_counter = {}
  BY CountedLimitsAssumption DEF CounterInit
<1>2. IsFiniteSet({}) /\ Cardinality({}) = 0
  BY FS_EmptySet
<1>3. CounterTypeOK
  BY <1>1, <1>2 DEF CounterTypeOK, CounterInit
<1>4. Tokens(m_counter) = {}
  BY <1>1 DEF Tokens
<1>5. \A key \in CountedKeys : Count(key) = 0 /\ Occurrences(key) = 0
  <2>1. SUFFICES ASSUME NEW key \in CountedKeys
                 PROVE  Count(key) = 0 /\ {n \in DOMAIN added : added[n] = key} = {}
    BY <1>2 DEF Occurrences
  <2>. QED BY <1>1 DEF Count, contains
<1>6. IsLeftAfter(0)
  BY <1>1, <1>2, <1>4, <1>5 DEF IsLeftAfter
<1>. QED BY <1>2, <1>3, <1>4, <1>6 DEF CounterInv

(* An addition gains a token, or takes m_limit of them and counts for one   *)
(* decrement more.                                                          *)
LEMMA AddKeepsCounterInv ==
  ASSUME CounterInv, NEW key \in CountedKeys, add_or_decrement(key)
  PROVE  CounterInv'
<1>1. PICK d \in Nat : IsLeftAfter(d)
  BY DEF CounterInv
<1>2. /\ m_limit \in Limits /\ m_limit \in Nat /\ m_limit' = m_limit
      /\ added \in Seq(CountedKeys) /\ added' = Append(added, key)
      /\ added' \in Seq(CountedKeys) /\ Len(added) \in Nat
      /\ Len(added') = Len(added) + 1
  BY CountedLimitsAssumption, AppendProperties DEF CounterInv, CounterTypeOK, add_or_decrement
<1>3. /\ m_counter \in [DOMAIN m_counter -> Nat \ {0}]
      /\ DOMAIN m_counter \subseteq CountedKeys
      /\ IsFiniteSet(DOMAIN m_counter)
      /\ Cardinality(DOMAIN m_counter) \in Nat
      /\ Cardinality(DOMAIN m_counter) <= m_limit
      /\ IsFiniteSet(Tokens(m_counter))
      /\ Cardinality(Tokens(m_counter)) \in Nat
  BY FS_CardinalityType DEF CounterInv, CounterTypeOK
<1>4. \A other \in CountedKeys :
        /\ Occurrences(other) \in Nat
        /\ Occurrences(other)' = Occurrences(other) + (IF other = key THEN 1 ELSE 0)
        /\ Count(other) \in Nat
        /\ Count(other) <= Occurrences(other)
        /\ Occurrences(other) <= Count(other) + d
  <2>1. SUFFICES ASSUME NEW other \in CountedKeys
                 PROVE  /\ Occurrences(other) \in Nat
                        /\ Occurrences(other)' =
                             Occurrences(other) + (IF other = key THEN 1 ELSE 0)
                        /\ Count(other) \in Nat
    BY <1>1 DEF IsLeftAfter
  <2>2. Count(other) \in Nat
    BY <1>3 DEF Count, contains
  <2>3. /\ Occurrences(other) = Cardinality(Places(added, other))
        /\ Occurrences(other)' = Cardinality(Places(Append(added, key), other))
    BY <1>2 DEF Occurrences, Places
  <2>. QED BY <1>2, <2>2, <2>3, OccursOnceMore
<1>5. CASE contains(key) \/ HasRoom(m_counter, m_limit)
  <2>1. \/ key \in DOMAIN m_counter /\ m_counter' = Incremented(m_counter, key)
        \/ /\ key \notin DOMAIN m_counter /\ m_counter' = Inserted(m_counter, key)
           /\ Cardinality(DOMAIN m_counter) < m_limit
    BY <1>5 DEF add_or_decrement, contains, HasRoom
  <2>2. /\ IsFiniteSet(Tokens(m_counter'))
        /\ Cardinality(Tokens(m_counter')) = Cardinality(Tokens(m_counter)) + 1
    BY <1>3, <2>1, OneToken
  <2>3. /\ DOMAIN m_counter' = DOMAIN m_counter \cup {key}
        /\ m_counter' \in [DOMAIN m_counter' -> Nat \ {0}]
        /\ m_counter'[key] = Count(key) + 1
        /\ \A k \in DOMAIN m_counter \ {key} : m_counter'[k] = m_counter[k]
    BY <1>3, <2>1 DEF Incremented, Inserted, Count, contains
  <2>4. IsFiniteSet(DOMAIN m_counter') /\ Cardinality(DOMAIN m_counter') <= m_limit
    <3>1. CASE key \in DOMAIN m_counter
      BY <1>3, <2>3, <3>1
    <3>2. CASE key \notin DOMAIN m_counter
      <4>1. /\ IsFiniteSet(DOMAIN m_counter \cup {key})
            /\ Cardinality(DOMAIN m_counter \cup {key}) = Cardinality(DOMAIN m_counter) + 1
        BY <1>3, <3>2, FS_AddElement
      <4>2. Cardinality(DOMAIN m_counter) < m_limit
        BY <2>1, <3>2
      <4>. QED BY <1>2, <1>3, <2>3, <4>1, <4>2
    <3>. QED BY <3>1, <3>2
  <2>5. CounterTypeOK'
    BY <1>2, <1>3, <2>3, <2>4 DEF CounterTypeOK
  <2>6. \A other \in CountedKeys :
          Count(other)' = Count(other) + (IF other = key THEN 1 ELSE 0)
    BY <1>4, <2>3 DEF Count, contains
  <2>7. \A other \in CountedKeys :
          /\ Count(other)' <= Occurrences(other)'
          /\ Occurrences(other)' <= Count(other)' + d
    BY <1>4, <2>6
  <2>8. Cardinality(Tokens(m_counter')) + (m_limit + 1) * d = Len(added) + 1
    <3>1. (m_limit + 1) * d \in Nat
      BY <1>2
    <3>2. Cardinality(Tokens(m_counter)) + (m_limit + 1) * d = Len(added)
      BY <1>1 DEF IsLeftAfter
    <3>. QED BY <1>2, <1>3, <2>2, <3>1, <3>2
  <2>9. IsLeftAfter(d)'
    BY <1>2, <2>7, <2>8 DEF IsLeftAfter
  <2>. QED BY <2>2, <2>5, <2>9 DEF CounterInv
<1>6. CASE ~(contains(key) \/ HasRoom(m_counter, m_limit))
  <2>1. /\ key \notin DOMAIN m_counter /\ m_counter' = Decremented(m_counter)
        /\ Cardinality(DOMAIN m_counter) = m_limit
    BY <1>2, <1>3, <1>6 DEF add_or_decrement, contains, HasRoom
  <2>2. /\ IsFiniteSet(Tokens(m_counter'))
        /\ Cardinality(Tokens(m_counter')) \in Nat
        /\ Cardinality(Tokens(m_counter)) = Cardinality(Tokens(m_counter')) + m_limit
    BY <1>3, <2>1, TokensTaken, FS_CardinalityType
  <2>3. /\ DOMAIN m_counter' = {k \in DOMAIN m_counter : m_counter[k] > 1}
        /\ \A k \in DOMAIN m_counter' : m_counter'[k] = m_counter[k] - 1
        /\ m_counter' \in [DOMAIN m_counter' -> Nat \ {0}]
    BY <1>3, <2>1 DEF Decremented
  <2>4. IsFiniteSet(DOMAIN m_counter') /\ Cardinality(DOMAIN m_counter') <= m_limit
    BY <1>3, <2>1, <2>3, FS_Subset
  <2>5. CounterTypeOK'
    BY <1>2, <1>3, <2>3, <2>4 DEF CounterTypeOK
  <2>6. \A other \in CountedKeys :
          /\ Count(other)' \in Nat
          /\ Count(other)' <= Count(other) /\ Count(other) <= Count(other)' + 1
          /\ other = key => Count(other) = 0 /\ Count(other)' = 0
    BY <1>3, <2>1, <2>3 DEF Count, contains
  <2>7. \A other \in CountedKeys :
          /\ Count(other)' <= Occurrences(other)'
          /\ Occurrences(other)' <= Count(other)' + (d + 1)
    BY <1>4, <2>6
  <2>8. Cardinality(Tokens(m_counter')) + (m_limit + 1) * (d + 1) = Len(added) + 1
    <3> DEFINE before == (m_limit + 1) * d
               after == (m_limit + 1) * (d + 1)
    <3>1. before \in Nat /\ after = before + m_limit + 1
      BY <1>2
    <3>2. Cardinality(Tokens(m_counter)) + before = Len(added)
      BY <1>1 DEF IsLeftAfter
    <3> HIDE DEF before, after
    <3>3. Cardinality(Tokens(m_counter')) + after = Len(added) + 1
      BY <1>2, <1>3, <2>2, <3>1, <3>2
    <3>. QED BY <3>3 DEF after
  <2>9. IsLeftAfter(d + 1)'
    BY <1>2, <2>7, <2>8 DEF IsLeftAfter
  <2>. QED BY <2>2, <2>5, <2>9 DEF CounterInv
<1>. QED BY <1>5, <1>6

(* What is forgotten is forgotten on both sides.                            *)
LEMMA ClearKeepsCounterInv ==
  ASSUME CounterInv, clear
  PROVE  CounterInv'
<1>1. /\ m_limit \in Limits /\ m_limit' = m_limit /\ m_limit \in Nat
      /\ m_counter' = << >> /\ added' = << >> /\ DOMAIN m_counter' = {}
  BY CountedLimitsAssumption DEF clear, CounterInv, CounterTypeOK
<1>2. IsFiniteSet({}) /\ Cardinality({}) = 0
  BY FS_EmptySet
<1>3. CounterTypeOK'
  BY <1>1, <1>2 DEF CounterTypeOK
<1>4. Tokens(m_counter') = {}
  BY <1>1 DEF Tokens
<1>5. \A key \in CountedKeys : Count(key)' = 0 /\ Occurrences(key)' = 0
  <2>1. SUFFICES ASSUME NEW key \in CountedKeys
                 PROVE  Count(key)' = 0 /\ {n \in DOMAIN added' : added'[n] = key} = {}
    BY <1>2 DEF Occurrences
  <2>. QED BY <1>1 DEF Count, contains
<1>6. IsLeftAfter(0)'
  <2>1. Cardinality(Tokens(m_counter')) = 0 /\ Len(added') = 0 /\ (m_limit' + 1) * 0 = 0
    BY <1>1, <1>2, <1>4
  <2>. QED BY <1>5, <2>1 DEF IsLeftAfter
<1>. QED BY <1>2, <1>3, <1>4, <1>6 DEF CounterInv

(* CounterInv holds throughout.                                             *)
LEMMA CounterInvariance == CounterSpec => []CounterInv
<1>1. CounterInit => CounterInv
  BY CounterInitInv
<1>2. CounterInv /\ [CounterNext]_counterVars => CounterInv'
  <2> SUFFICES ASSUME CounterInv, [CounterNext]_counterVars
               PROVE  CounterInv'
    OBVIOUS
  <2>1. CASE clear
    BY <2>1, ClearKeepsCounterInv
  <2>2. CASE \E key \in CountedKeys : add_or_decrement(key)
    BY <2>2, AddKeepsCounterInv
  <2>3. CASE UNCHANGED counterVars
    BY <2>3 DEF counterVars, CounterInv, CounterTypeOK, IsLeftAfter, Tokens, Count, contains,
                Occurrences
  <2>. QED BY <2>1, <2>2, <2>3 DEF CounterNext
<1>. QED BY <1>1, <1>2, PTL DEF CounterSpec

(* However many keys are added, no more than m_limit are tracked, and none  *)
(* with a count of zero.                                                    *)
THEOREM CounterWithinLimit == CounterSpec => []CounterTypeOK
BY CounterInvariance, PTL DEF CounterInv

(* For every limit and every order of additions a count is never too high,  *)
(* and too low by at most one in m_limit + 1 of all additions.              *)
THEOREM CounterError == CounterSpec => []CountsWithinError
<1>1. CounterInv => CountsWithinError
  <2> SUFFICES ASSUME CounterInv, NEW key \in CountedKeys
               PROVE  /\ Count(key) <= Occurrences(key)
                      /\ (Occurrences(key) - Count(key)) * (m_limit + 1) <= Len(added)
    BY DEF CountsWithinError
  <2>1. PICK d \in Nat : IsLeftAfter(d)
    BY DEF CounterInv
  <2>2. /\ m_limit \in Nat /\ Len(added) \in Nat
        /\ Cardinality(Tokens(m_counter)) \in Nat
        /\ Count(key) \in Nat /\ Occurrences(key) \in Nat
    <3>1. m_limit \in Nat /\ added \in Seq(CountedKeys) /\ Count(key) \in Nat
      BY CountedLimitsAssumption DEF CounterInv, CounterTypeOK, Count, contains
    <3>2. Occurrences(key) \in Nat
      <4>1. Occurrences(key) = Cardinality(Places(added, key))
        BY DEF Occurrences, Places
      <4>. QED BY <3>1, <4>1, OccursOnceMore
    <3>. QED BY <3>1, <3>2, FS_CardinalityType DEF CounterInv
  <2>3. (m_limit + 1) * d \in Nat /\ (m_limit + 1) * d <= Len(added)
    BY <2>1, <2>2 DEF IsLeftAfter
  <2>4. PICK missing \in 0 .. d : Occurrences(key) - Count(key) = missing
    BY <2>1, <2>2 DEF IsLeftAfter
  <2>5. missing * (m_limit + 1) <= (m_limit + 1) * d
    BY <2>2, <2>4
  <2>. QED BY <2>1, <2>2, <2>3, <2>4, <2>5 DEF IsLeftAfter
<1>. QED BY <1>1, CounterInvariance, PTL

=============================================================================
