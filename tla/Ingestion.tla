------------------------------ MODULE Ingestion ------------------------------
(***************************************************************************)
(* LinkPredictionApp::process_data followed by build_graph: the sampled    *)
(* flows of FlowProcessor become the edges of the network graph, one       *)
(* reservoir entry after the other in the order of the keys.               *)
(***************************************************************************)
EXTENDS FlowProcessor, NetworkGraphManager

VARIABLES
  stage,      \* "process_data", "build_graph", "built" or "empty"
  keys,       \* the reservoir keys whose edges are not all added yet
  edge_no,    \* how many edges of the first of them are added
  graph

buildVars == <<stage, keys, edge_no, graph>>
vars == <<flowVars, buildVars>>

\* The keys are sorted as text.  Any total order does: here that of the directed
\* pair, then of the bucket.
KeyBefore(k1, k2) ==
  \E i \in 1 .. 3 : k1[i] < k2[i] /\ \A j \in 1 .. i - 1 : k1[j] = k2[j]

IsFirstKey(k, ks) == k \in ks /\ \A other \in ks \ {k} : KeyBefore(k, other)

\* A port the flow does not carry becomes -1.
EdgeProperties(e) ==
  [start_timestamp |-> e.start_timestamp, end_timestamp |-> e.end_timestamp,
   protocol |-> e.protocol,
   src_port |-> IF e.src_port = None THEN -1 ELSE e.src_port,
   dst_port |-> IF e.dst_port = None THEN -1 ELSE e.dst_port]

-----------------------------------------------------------------------------
IngestInit ==
  /\ Init
  /\ stage = "process_data"
  /\ keys = {} /\ edge_no = 0
  /\ graph = EmptyGraph

ProcessData ==
  /\ stage = "process_data"
  /\ FlowNext
  /\ UNCHANGED buildVars

StartBuild ==
  /\ stage = "process_data" /\ phase = "sampled"
  /\ stage' = "build_graph"
  /\ keys' = get_keys(m_data)
  /\ UNCHANGED <<flowVars, edge_no, graph>>

\* The two nested loops: over the sorted keys, and over the edges of one key.
AddEdge(key) ==
  /\ stage = "build_graph"
  /\ IsFirstKey(key, keys)
  /\ edge_no < Len(get(m_data, key))
  /\ LET e == get(m_data, key)[edge_no + 1]
     IN  graph' = add_edge_and_vertex_if_not_exists(graph, e.src_ip, e.dst_ip,
                                                    EdgeProperties(e))
  /\ edge_no' = edge_no + 1
  /\ UNCHANGED <<flowVars, stage, keys>>

NextKey(key) ==
  /\ stage = "build_graph"
  /\ IsFirstKey(key, keys)
  /\ edge_no = Len(get(m_data, key))
  /\ keys' = keys \ {key}
  /\ edge_no' = 0
  /\ UNCHANGED <<flowVars, stage, graph>>

FinishBuild ==
  /\ stage = "build_graph" /\ keys = {}
  /\ stage' = IF get_vertex_count(graph) = 0 THEN "empty" ELSE "built"
  /\ UNCHANGED <<flowVars, keys, edge_no, graph>>

\* The run has ended: by a FlowProcessorException, by a GraphEmptyException or
\* by handing the graph to the embedding stage.
Ended ==
  /\ stage \in {"built", "empty"} \/ phase = "failed"
  /\ UNCHANGED vars

Next ==
  \/ ProcessData
  \/ StartBuild
  \/ \E key \in keys : AddEdge(key) \/ NextKey(key)
  \/ FinishBuild
  \/ Ended

Spec == IngestInit /\ [][Next]_vars

-----------------------------------------------------------------------------
(* Type invariant.                                                         *)

StatsType ==
  [flow_count : Nat, peers : SUBSET Nat, protocols : SUBSET Nat,
   first_seen : Int, last_seen : Int]

KeyType == Nat \X Nat \X Nat

TypeOK ==
  /\ phase \in {"scan", "sample", "sampled", "failed"}
  /\ file \in Seq(Lines)
  /\ scanned \in 0 .. Len(file) /\ line_no \in 0 .. Len(file)
  /\ \A stats \in {m_internal_endpoint_stats, m_external_endpoint_stats} :
       \A ip \in DOMAIN stats : ip \in Nat /\ stats[ip] \in StatsType
  /\ m_selected_internal_ips \subseteq Nat /\ m_selected_external_ips \subseteq Nat
  /\ m_observation_start \in Int /\ m_observation_end \in Int
  /\ m_total_flows \in Nat
  /\ \A k \in DOMAIN m_data :
       /\ k \in KeyType /\ k[3] < Buckets
       /\ m_data[k].values \in Seq(IPEdge)
       /\ Len(m_data[k].values) \in 1 .. Capacity
       /\ m_data[k].total_seen \in Nat \ {0}
  /\ stage \in {"process_data", "build_graph", "built", "empty"}
  /\ keys \subseteq DOMAIN m_data
  /\ edge_no \in Nat
  /\ graph.vertices \in Seq(Nat)
  /\ \A i \in DOMAIN graph.edges :
       {graph.edges[i].src, graph.edges[i].dst} \subseteq DOMAIN graph.vertices

-----------------------------------------------------------------------------
(* What the first pass must have computed, read off the file itself.       *)

Scanned ==
  {i \in 1 .. scanned :
     file[i].json /\ Complete(file[i]) /\ BothAllowed(file[i]) /\ file[i].fwd # None}

Seen(Class(_)) ==
  {ip \in {file[i].src : i \in Scanned} \cup {file[i].dst : i \in Scanned} : Class(ip)}

FlowsOf(ip) == {i \in Scanned : ip \in {file[i].src, file[i].dst}}

PeersOf(ip) ==
  {file[i].dst : i \in {j \in Scanned : file[j].src = ip}}
    \cup {file[i].src : i \in {j \in Scanned : file[j].dst = ip}}

\* A flow of an address to itself counts once for each of its ends.
EndsOf(ip) ==
  Cardinality({i \in Scanned : file[i].src = ip})
    + Cardinality({i \in Scanned : file[i].dst = ip})

ProtocolsOf(ip) == {file[i].protocol : i \in FlowsOf(ip)}

Earliest(is) == file[CHOOSE i \in is : \A j \in is : file[i].fwd.start <= file[j].fwd.start].fwd.start
\* Nothing is taken to end before the epoch, at which the maxima begin.
Ends(is) == {0} \cup {file[i].fwd.end : i \in is}
Latest(is) == CHOOSE t \in Ends(is) : \A u \in Ends(is) : t >= u

Rank(ip) ==
  <<Cardinality(PeersOf(ip)), EndsOf(ip), Cardinality(ProtocolsOf(ip)),
    Latest(FlowsOf(ip)) - Earliest(FlowsOf(ip))>>

PrecedesInRank(a, b) == Exceeds(Rank(a), Rank(b)) \/ (Rank(a) = Rank(b) /\ a < b)

IsTopSelection(retained, seen, limit) ==
  /\ retained \subseteq seen
  /\ Cardinality(retained) = Smaller(limit, Cardinality(seen))
  /\ \A a \in retained, b \in seen \ retained : PrecedesInRank(a, b)

(* After the first pass each class retains exactly its best endpoints, as   *)
(* many as the limit allows, by the score computed from the whole prefix of *)
(* the file that pass read and with ties broken by address: what the        *)
(* incremental statistics and select_top_endpoints have to add up to.       *)
TopEndpointsRetained ==
  phase \in {"sample", "sampled"} =>
    /\ IsTopSelection(m_selected_internal_ips, Seen(check_internal), InternalLimit)
    /\ IsTopSelection(m_selected_external_ips, Seen(External), ExternalLimit)

-----------------------------------------------------------------------------
(* What the second pass must have offered to the reservoir.                *)

\* The temporal bucket of a timestamp: the window is cut in Buckets slices of
\* equal width, and what lies outside belongs to the slice of the nearer end -
\* after the window the last slice that is not empty, which is not always the
\* last one when the window has fewer milliseconds than slices.
SliceOf(t) ==
  IF Scanned = {} THEN 0
  ELSE LET start == Earliest(Scanned)
           end   == Latest(Scanned)
       IN  IF Buckets = 1 \/ end <= start \/ t <= start THEN 0
           ELSE CHOOSE b \in 0 .. Buckets - 1 :
                  LET position == (Smaller(t, end) - start) * Buckets
                  IN  /\ b * (end - start + 1) <= position
                      /\ position < (b + 1) * (end - start + 1)

OffersOf(l) ==
  IF l.json /\ BothRetained(l) /\ ParsesForward(l)
    THEN {"forward"} \cup (IF HasReverse(l) THEN {"reverse"} ELSE {})
    ELSE {}

Offers == {o \in (1 .. line_no) \X {"forward", "reverse"} : o[2] \in OffersOf(file[o[1]])}

OfferedEdge(o) ==
  IF o[2] = "forward" THEN parse_flow_from_json(file[o[1]])
  ELSE parse_rev_flow_from_json(file[o[1]])

OfferedKey(o) ==
  LET l == file[o[1]]
  IN  IF o[2] = "forward" THEN <<l.src, l.dst, SliceOf(l.fwd.start)>>
      ELSE <<l.dst, l.src, SliceOf(l.rev.start)>>

(* The reservoir is at all times a sample of what the second pass read: a   *)
(* directed pair and time slice has an entry exactly when some flow of      *)
(* theirs was offered, the entry holds as many of the offered edges as fit, *)
(* and none more often than it was offered - although the slices depend on  *)
(* the window of the first pass and the file may have grown since.          *)
ReservoirHoldsSample ==
  /\ DOMAIN m_data = {OfferedKey(o) : o \in Offers}
  /\ \A k \in DOMAIN m_data :
       LET offered == {o \in Offers : OfferedKey(o) = k}
           values  == get(m_data, k)
       IN  /\ Len(values) = Smaller(Capacity, Cardinality(offered))
           /\ \A i \in DOMAIN values :
                Cardinality({j \in DOMAIN values : values[j] = values[i]})
                  <= Cardinality({o \in offered : OfferedEdge(o) = values[i]})

-----------------------------------------------------------------------------
(* The graph.                                                              *)

(* No blocked, unlisted or malformed address reaches the reservoir or the   *)
(* graph.  The second pass never asks the allowed-address checker: it       *)
(* relies on the retained sets the first pass left.                         *)
OnlyAllowedAddresses ==
  /\ \A k \in DOMAIN m_data : check_allowed(k[1]) /\ check_allowed(k[2])
  /\ \A v \in DOMAIN graph.vertices : check_allowed(graph.vertices[v])

(* The graph never knows more addresses than the endpoint limits allow      *)
(* (configuration MAX_INTERNAL_ENDPOINTS and MAX_EXTERNAL_ENDPOINTS).       *)
AddressesWithinLimits ==
  Cardinality(DOMAIN graph.ip_to_vertex) <= InternalLimit + ExternalLimit

Slots == {s \in (DOMAIN m_data) \X (1 .. Capacity) : s[2] <= Len(get(m_data, s[1]))}

Label(e) ==
  [src |-> graph.vertices[e.src], dst |-> graph.vertices[e.dst], properties |-> e.properties]

SlotLabel(s) ==
  LET e == get(m_data, s[1])[s[2]]
  IN  [src |-> s[1][1], dst |-> s[1][2], properties |-> EdgeProperties(e)]

(* The finished graph is the reservoir: as many edges as stored flows, and  *)
(* between each two addresses each flow as often as it is stored, whatever  *)
(* the order in which the vertices were created.                            *)
GraphMirrorsReservoir ==
  stage \in {"built", "empty"} =>
    /\ Len(graph.edges) = Cardinality(Slots)
    /\ \A s \in Slots :
         Cardinality({i \in DOMAIN graph.edges : Label(graph.edges[i]) = SlotLabel(s)})
           = Cardinality({t \in Slots : SlotLabel(t) = SlotLabel(s)})

Indexed(v) ==
  LET ip == graph.vertices[v]
  IN  ip \in DOMAIN graph.ip_to_vertex /\ graph.ip_to_vertex[ip] = v

(* A vertex is the one its address is indexed under, or else a second       *)
(* vertex made for a flow from an address to itself; such a vertex has no   *)
(* edge, and there is at most one per address.                              *)
SecondVerticesAreIsolated ==
  \A v \in DOMAIN graph.vertices :
    \/ Indexed(v)
    \/ LET ip == graph.vertices[v]
       IN  /\ \E k \in DOMAIN m_data : k[1] = ip /\ k[2] = ip
           /\ \A i \in DOMAIN graph.edges : v \notin {graph.edges[i].src, graph.edges[i].dst}
           /\ \A w \in DOMAIN graph.vertices :
                graph.vertices[w] = ip => w = v \/ Indexed(w)

(* The retained graph respects the configured graph-size limits: it has no  *)
(* more vertices than endpoints may be retained.                            *)
VerticesWithinLimits ==
  get_vertex_count(graph) <= InternalLimit + ExternalLimit

=============================================================================
