------------------------ MODULE ServiceClassification ------------------------
(***************************************************************************)
(* service: the service that a predicted dependency is reported to use,    *)
(* from the destination ports of its flows and the port configuration, a   *)
(* sequence of services with ports of any protocol, of TCP and of UDP (an  *)
(* array stands for the first alone).  A file with anything but integers   *)
(* for ports fails to load like one with an unknown service.               *)
(***************************************************************************)
EXTENDS Integers, Sequences, FiniteSets, SequencesExt, Selection

Classifiable ==
  <<"WEB_SERVER", "DATABASE", "CACHE", "MESSAGE_QUEUE", "DNS", "MAIL", "FILE_TRANSFER",
    "REMOTE_ACCESS", "MONITORING", "DIRECTORY", "TIME_SYNC", "OTHER">>
UNKNOWN == "UNKNOWN"
ServiceTypes == ToSet(Classifiable) \cup {UNKNOWN}

Metadata == {"_comment"}    \* keys with an underscore before them
Services(file) == Selected(file, {n \in DOMAIN file : file[n].name \notin Metadata})

LoadsServices(file) == \A n \in DOMAIN Services(file) : Services(file)[n].name \in ServiceTypes

AnyProtocol == 0
TCP == 6
UDP == 17

PortsOf(service, protocol) ==
  CASE protocol = AnyProtocol -> service.ports
    [] protocol = TCP -> service.tcp_ports
    [] protocol = UDP -> service.udp_ports
    [] OTHER -> << >>

\* A port is kept in 16 bits, an unknown protocol, -1, is all ones in the 8 bits it is kept in.
InPortBits(number) == number % 65536
Port(flow) == InPortBits(flow.dst_port)
Protocol(flow) == flow.protocol % 256

HasPort(service, port, protocol) ==
  \E k \in DOMAIN PortsOf(service, protocol) : InPortBits(PortsOf(service, protocol)[k]) = port

\* A later service takes over the port of an earlier one.
Mapped(file, port, protocol) ==
  LET services == Services(file)
      having == {n \in DOMAIN services : HasPort(services[n], port, protocol)}
  IN  IF having = {} THEN << >>
      ELSE <<services[CHOOSE n \in having : \A k \in having : k <= n].name>>

\* An optional service: that of the protocol, if it has one, before that of any.
lookup(file, port, protocol) ==
  IF protocol # AnyProtocol /\ Mapped(file, port, protocol) # << >>
  THEN Mapped(file, port, protocol)
  ELSE Mapped(file, port, AnyProtocol)

\* Seeded fault: ports of the ephemeral range count as well.
FaultyCounts(flow, svc_config) == flow.dst_port > 0

\* A flow whose destination port says something of the service.
Counts(flow, svc_config) == flow.dst_port > 0 /\ Port(flow) < svc_config.ephemeral_port_min

ServiceOf(file, flow) == lookup(file, Port(flow), Protocol(flow))

Unclassified == [service |-> UNKNOWN, confidence |-> <<0, 1>>, top_k |-> << >>]

\* Which services may stand at each place: those with equal counts come in any order.
format_top_k(count, k) ==
  [place \in 1..(IF k < Len(Classifiable) THEN k ELSE Len(Classifiable)) |->
     {type \in DOMAIN count :
        /\ Cardinality({other \in DOMAIN count : count[other] > count[type]}) < place
        /\ place <= Cardinality({other \in DOMAIN count : count[other] >= count[type]})}]

\* What classify returns for the flows from one vertex to another.
classify(file, svc_config, flows) ==
  LET counted == {f \in DOMAIN flows : Counts(flows[f], svc_config)}
      using(type) == {f \in counted : ServiceOf(file, flows[f]) = <<type>>}
      count == [type \in ToSet(Classifiable) |-> Cardinality(using(type))]
      total_mapped == Cardinality(UNION {using(type) : type \in DOMAIN count})
      alpha == svc_config.smoothing_alpha
      probability(type) == <<count[type] * alpha[2] + alpha[1],
                             total_mapped * alpha[2] + alpha[1] * Len(Classifiable)>>
      likeliest == Classifiable[CHOOSE n \in DOMAIN Classifiable :
                     \A k \in DOMAIN Classifiable :
                       \/ count[Classifiable[k]] < count[Classifiable[n]]
                       \/ count[Classifiable[k]] = count[Classifiable[n]] /\ n <= k]
      confidence == probability(likeliest)
      least == svc_config.min_confidence
  IN  IF Cardinality(counted) < svc_config.min_flows \/ total_mapped = 0 THEN Unclassified
      ELSE [service |-> IF confidence[1] * least[2] >= least[1] * confidence[2]
                        THEN likeliest ELSE UNKNOWN,
            confidence |-> confidence,
            top_k |-> format_top_k(count, svc_config.top_k)]

=============================================================================
