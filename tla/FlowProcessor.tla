---------------------------- MODULE FlowProcessor ----------------------------
(***************************************************************************)
(* data_preprocessing/FlowProcessor: two passes over one JSON Lines file.  *)
(* The first pass gathers exact statistics of every allowed endpoint and   *)
(* the observation window, then retains the best endpoints of each class.  *)
(* The second pass opens the file again and offers the flows between       *)
(* retained endpoints to the reservoir, keyed by directed pair and         *)
(* temporal bucket of the window.                                          *)
(*                                                                         *)
(* A line of the file is a record; None stands for a field that is absent  *)
(* or of the wrong type.  rev is Absent unless a complete pair of reverse  *)
(* keys is present, in which case it is a pair of timestamps or, when they *)
(* are invalid, None.  ports_ok is FALSE when a port is no integer.        *)
(* Addresses are numbers: only their identity and order matter.            *)
(***************************************************************************)
EXTENDS CapacityLimitedReservoir, AllowedIPChecker, FiniteSets

CONSTANTS
  Lines,            \* the lines the input file may hold
  InternalList,     \* the addresses the internal-range checker matches
  InternalLimit,    \* get_limit() of the internal counter
  ExternalLimit,    \* get_limit() of the external counter
  BucketCount,      \* the constructor's temporal_bucket_count
  MaxMs,            \* milliseconds::max()
  MaxLines,         \* bound on the length of the file
  Absent            \* no reverse flow

Timestamps == {t \in [start : Int, end : Int] : t.start <= t.end /\ t.end < MaxMs}

LineType ==
  [json : BOOLEAN, src : Nat \cup {None}, dst : Nat \cup {None},
   protocol : Nat \cup {None}, src_port : Nat \cup {None},
   dst_port : Nat \cup {None}, ports_ok : BOOLEAN,
   fwd : Timestamps \cup {None}, rev : Timestamps \cup {None, Absent}]

ASSUME LinesAssumption == Lines \subseteq LineType
ASSUME LimitsAssumption ==
  /\ InternalLimit \in Nat
  /\ ExternalLimit \in Nat
  /\ BucketCount \in Nat
  /\ MaxMs \in Nat
  /\ MaxLines \in Nat
ASSUME NoneAssumption == None \notin Nat \cup Timestamps \cup {Absent}
ASSUME AbsentAssumption == Absent \notin Timestamps

-----------------------------------------------------------------------------
(* BoostIPHandler over the internal ranges.                                *)

check_internal(ip) == ip \in ValidIPs /\ ip \in InternalList

-----------------------------------------------------------------------------
VARIABLES
  phase,                      \* "scan", "sample", "sampled" or "failed"
  file,                       \* the lines of the file, as far as they are read
  scanned,                    \* how many of them the first pass read
  line_no,                    \* how many of them the second pass read
  m_internal_endpoint_stats,
  m_external_endpoint_stats,
  m_selected_internal_ips,
  m_selected_external_ips,
  m_observation_start,
  m_observation_end,
  m_total_flows,
  m_data                      \* the reservoir

windowVars == <<m_observation_start, m_observation_end>>
statsVars == <<m_internal_endpoint_stats, m_external_endpoint_stats>>
selectedVars == <<m_selected_internal_ips, m_selected_external_ips>>
flowVars == <<phase, file, scanned, line_no, statsVars, selectedVars,
              windowVars, m_total_flows, m_data>>

NewStats ==
  [flow_count |-> 0, peers |-> {}, protocols |-> {},
   first_seen |-> MaxMs, last_seen |-> 0]

Smaller(a, b) == IF a <= b THEN a ELSE b
Larger(a, b) == IF a >= b THEN a ELSE b

\* update_endpoint_stats on the map of one class of endpoints.
Observe(stats, ip, peer, line) ==
  LET old == IF ip \in DOMAIN stats THEN stats[ip] ELSE NewStats
      new == [flow_count |-> old.flow_count + 1,
              peers      |-> old.peers \cup {peer},
              protocols  |-> old.protocols \cup {line.protocol},
              first_seen |-> Smaller(old.first_seen, line.fwd.start),
              last_seen  |-> Larger(old.last_seen, line.fwd.end)]
  IN  [k \in DOMAIN stats \cup {ip} |-> IF k = ip THEN new ELSE stats[k]]

\* Both updates of one flow, restricted to the endpoints that class holds of:
\* the source is observed first and, in a flow to itself, twice.
ObserveFlow(stats, Class(_), line) ==
  LET first == IF Class(line.src) THEN Observe(stats, line.src, line.dst, line)
               ELSE stats
  IN  IF Class(line.dst) THEN Observe(first, line.dst, line.src, line) ELSE first

External(ip) == ~check_internal(ip)

-----------------------------------------------------------------------------
(* Ranking and selection.                                                  *)

Span(s) == IF s.first_seen = MaxMs THEN 0 ELSE s.last_seen - s.first_seen

\* Seeded fault: the flow count weighs more than the peer count.
FaultyScore(s) ==
  <<s.flow_count, Cardinality(s.peers), Cardinality(s.protocols), Span(s)>>

Score(s) ==
  <<Cardinality(s.peers), s.flow_count, Cardinality(s.protocols), Span(s)>>

Exceeds(x, y) == \E i \in 1 .. 4 : x[i] > y[i] /\ \A j \in 1 .. i - 1 : x[j] = y[j]

\* a stands before b in the sorted vector.
Outranks(stats, a, b) ==
  \/ Exceeds(Score(stats[a]), Score(stats[b]))
  \/ Score(stats[a]) = Score(stats[b]) /\ a < b

Above(stats, ip) == {other \in DOMAIN stats : Outranks(stats, other, ip)}

\* Seeded fault: one endpoint too many.
FaultySelect(stats, limit) ==
  {ip \in DOMAIN stats : Cardinality(Above(stats, ip)) <= limit}

select_top_endpoints(stats, limit) ==
  {ip \in DOMAIN stats : Cardinality(Above(stats, ip)) < limit}

is_retained_endpoint(ip) ==
  IF check_internal(ip) THEN ip \in m_selected_internal_ips
  ELSE ip \in m_selected_external_ips

-----------------------------------------------------------------------------
(* Edges and their temporal buckets.                                       *)

IPEdge ==
  [src_ip : Nat, dst_ip : Nat, src_port : Nat \cup {None}, dst_port : Nat \cup {None},
   protocol : Nat, start_timestamp : Int, end_timestamp : Int]

parse_flow_from_json(l) ==
  [src_ip |-> l.src, dst_ip |-> l.dst, src_port |-> l.src_port,
   dst_port |-> l.dst_port, protocol |-> l.protocol,
   start_timestamp |-> l.fwd.start, end_timestamp |-> l.fwd.end]

parse_rev_flow_from_json(l) ==
  [src_ip |-> l.dst, dst_ip |-> l.src, src_port |-> l.dst_port,
   dst_port |-> l.src_port, protocol |-> l.protocol,
   start_timestamp |-> l.rev.start, end_timestamp |-> l.rev.end]

Buckets == Larger(1, BucketCount)

Clamp(x, low, high) == Smaller(Larger(x, low), high)

get_temporal_bucket(timestamp) ==
  IF \/ Buckets <= 1
     \/ m_observation_start = MaxMs
     \/ m_observation_end <= m_observation_start
    THEN 0
    ELSE LET span   == m_observation_end - m_observation_start
             offset == Clamp(timestamp - m_observation_start, 0, span)
         IN  Smaller((offset * Buckets) \div Larger(1, span + 1), Buckets - 1)

make_edge_bucket_key(edge) ==
  <<edge.src_ip, edge.dst_ip, get_temporal_bucket(edge.start_timestamp)>>

add_edge_to_reservoir(data, edge) == add(data, make_edge_bucket_key(edge), edge)

\* Nothing of a retained flow is kept unless its forward edge parses: a bad
\* timestamp returns nullopt, a bad port or protocol throws.
ParsesForward(l) == l.fwd # None /\ l.protocol # None /\ l.ports_ok

\* A reverse edge needs a complete pair of reverse keys and a valid pair among
\* their values; otherwise the forward edge stays alone.
HasReverse(l) == l.rev \notin {None, Absent}

-----------------------------------------------------------------------------
Init ==
  /\ phase = "scan"
  /\ file = << >> /\ scanned = 0 /\ line_no = 0
  /\ m_internal_endpoint_stats = NoData
  /\ m_external_endpoint_stats = NoData
  /\ m_selected_internal_ips = {}
  /\ m_selected_external_ips = {}
  /\ m_observation_start = MaxMs
  /\ m_observation_end = 0
  /\ m_total_flows = 0
  /\ m_data = NoData

(* First pass: process_flow_file.                                          *)

ReadForScan(l) ==
  /\ phase = "scan"
  /\ Len(file) < MaxLines
  /\ file' = Append(file, l)
  /\ scanned' = scanned + 1

Complete(l) == l.src # None /\ l.dst # None /\ l.protocol # None

\* Seeded fault: one allowed endpoint is enough.
FaultyAllowed(l) == check_allowed(l.src) \/ check_allowed(l.dst)

BothAllowed(l) == check_allowed(l.src) /\ check_allowed(l.dst)

\* A line that is no JSON object ends the run with a FlowProcessorException.
ScanMalformed(l) ==
  /\ ReadForScan(l)
  /\ ~l.json
  /\ phase' = "failed"
  /\ UNCHANGED <<line_no, statsVars, selectedVars, windowVars, m_total_flows, m_data>>

\* A flow without addresses, protocol or, between allowed addresses, forward
\* timestamps is logged and skipped.
ScanInvalid(l) ==
  /\ ReadForScan(l)
  /\ l.json
  /\ Complete(l) => BothAllowed(l) /\ l.fwd = None
  /\ UNCHANGED <<phase, line_no, statsVars, selectedVars, windowVars, m_total_flows, m_data>>

\* A flow of a blocked address counts as processed and leaves no other trace.
ScanBlocked(l) ==
  /\ ReadForScan(l)
  /\ l.json /\ Complete(l) /\ ~BothAllowed(l)
  /\ m_total_flows' = m_total_flows + 1
  /\ UNCHANGED <<phase, line_no, statsVars, selectedVars, windowVars, m_data>>

ScanFlow(l) ==
  /\ ReadForScan(l)
  /\ l.json /\ Complete(l) /\ BothAllowed(l) /\ l.fwd # None
  /\ m_internal_endpoint_stats' = ObserveFlow(m_internal_endpoint_stats, check_internal, l)
  /\ m_external_endpoint_stats' = ObserveFlow(m_external_endpoint_stats, External, l)
  /\ m_observation_start' = Smaller(m_observation_start, l.fwd.start)
  /\ m_observation_end' = Larger(m_observation_end, l.fwd.end)
  /\ m_total_flows' = m_total_flows + 1
  /\ UNCHANGED <<phase, line_no, selectedVars, m_data>>

\* End of file: finalize_endpoint_selection.
FinishScan ==
  /\ phase = "scan"
  /\ m_selected_internal_ips' = select_top_endpoints(m_internal_endpoint_stats, InternalLimit)
  /\ m_selected_external_ips' = select_top_endpoints(m_external_endpoint_stats, ExternalLimit)
  /\ phase' = "sample"
  /\ UNCHANGED <<file, scanned, line_no, statsVars, windowVars, m_total_flows, m_data>>

(* Second pass: process_filtered_flows.                                    *)

\* The file is opened by name a second time: whoever writes it may have
\* appended lines the first pass never saw.
GrowFile(l) ==
  /\ phase = "sample"
  /\ Len(file) < MaxLines
  /\ file' = Append(file, l)
  /\ UNCHANGED <<phase, scanned, line_no, statsVars, selectedVars, windowVars,
                 m_total_flows, m_data>>

ReadForSample ==
  /\ phase = "sample"
  /\ line_no < Len(file)
  /\ line_no' = line_no + 1
  /\ UNCHANGED <<file, scanned, statsVars, selectedVars, windowVars, m_total_flows>>

CurrentLine == file[line_no + 1]

BothRetained(l) ==
  /\ l.src # None /\ l.dst # None
  /\ is_retained_endpoint(l.src)
  /\ is_retained_endpoint(l.dst)

SampleMalformed ==
  /\ ReadForSample
  /\ ~CurrentLine.json
  /\ phase' = "failed"
  /\ UNCHANGED m_data

\* A flow with an endpoint that is not retained, or one that does not parse,
\* leaves the reservoir alone.
SampleSkip ==
  /\ ReadForSample
  /\ CurrentLine.json
  /\ BothRetained(CurrentLine) => ~ParsesForward(CurrentLine)
  /\ UNCHANGED <<phase, m_data>>

\* The forward edge is offered, then the reverse edge if there is one.
SampleFlow ==
  /\ ReadForSample
  /\ CurrentLine.json
  /\ BothRetained(CurrentLine) /\ ParsesForward(CurrentLine)
  /\ \E forward \in add_edge_to_reservoir(m_data, parse_flow_from_json(CurrentLine)) :
       IF HasReverse(CurrentLine)
         THEN m_data' \in add_edge_to_reservoir(forward, parse_rev_flow_from_json(CurrentLine))
         ELSE m_data' = forward
  /\ UNCHANGED phase

FinishSample ==
  /\ phase = "sample"
  /\ line_no = Len(file)
  /\ phase' = "sampled"
  /\ UNCHANGED <<file, scanned, line_no, statsVars, selectedVars, windowVars,
                 m_total_flows, m_data>>

FlowNext ==
  \/ \E l \in Lines : ScanMalformed(l) \/ ScanInvalid(l) \/ ScanBlocked(l) \/ ScanFlow(l)
  \/ FinishScan
  \/ \E l \in Lines : GrowFile(l)
  \/ SampleMalformed \/ SampleSkip \/ SampleFlow
  \/ FinishSample

FlowSpec == Init /\ [][FlowNext]_flowVars

=============================================================================
