-------------------------- MODULE DependencyAnalyzer --------------------------
(***************************************************************************)
(* ground_truth/DependencyAnalyzer: what the tool takes for the truth.     *)
(* From the flows of a JSON Lines file it derives direct (DD), transitive  *)
(* (TD2, TD3) and remote-remote (RR2, RR3) dependencies, stage by stage,   *)
(* and may write them to a CSV file that later processes load.             *)
(*                                                                         *)
(* A dependency is a triple <<source, destination, type>>.                 *)
(* m_all_dependencies is the projection of m_dependency_types on pairs,    *)
(* and m_oss lists exactly what is registered during a calculation, type   *)
(* after type, so neither is a variable of its own.  The containers are    *)
(* hash maps: sets, since nothing depends on their order.                  *)
(***************************************************************************)
EXTENDS AllowedIPChecker, Integers, Sequences, FiniteSetsExt

CONSTANTS
  NOccurrences,     \* m_n_occurrences
  Epsilon,          \* m_epsilon, in milliseconds
  FlowLines,        \* the lines the flow file may hold
  MaxFlows,         \* bound on the length of the flow file
  MaxCalculations,  \* bound on the number of calculations
  SuppliedRows,     \* sets of rows a user may supply as the CSV file
  Prefixes          \* the valid addresses a cut off address may read as

UDP_PROTOCOL == 17
TCP_PROTOCOL == 6
Types == <<"DD", "TD2", "RR2", "TD3", "RR3">>
KnownTypes == {Types[i] : i \in DOMAIN Types}

Interval == {t \in [start : Int, end : Int] : t.start <= t.end}

FlowLineType ==
  [json : BOOLEAN, src : Nat \cup {None}, dst : Nat \cup {None},
   protocol : Nat \cup {None}, fwd : Interval \cup {None}, rev : Interval \cup {None}]

\* A row of the CSV file; None stands for what is no address and "other" for
\* a missing or unrecognised type.
Row == [src : Nat \cup {None}, dst : Nat \cup {None}, token : KnownTypes \cup {"other"}]

ASSUME ConfigAssumption ==
  NOccurrences \in Nat \ {0} /\ Epsilon \in Nat /\ MaxFlows \in Nat /\ MaxCalculations \in Nat
ASSUME AddressAssumption == ValidIPs \subseteq Nat /\ None \notin Nat \cup Interval
ASSUME InputAssumption ==
  /\ FlowLines \subseteq FlowLineType
  /\ SuppliedRows \subseteq SUBSET Row
  /\ Prefixes \in [ValidIPs -> SUBSET ValidIPs]

VARIABLES
  stage,                \* where the process is in its one call
  file,                 \* the lines of the flow file, as far as they are read
  output,               \* does the calculation write its result?
  m_ip_dict,            \* pair of addresses |-> the flows between them
  direct, td2, rr2,     \* results of the stages later stages read
  m_dependency_types,   \* the registered dependencies
  csv,                  \* the CSV file: its rows and how they got there
  calculated,           \* history: the result the CSV file was written from
  calculations          \* calculations begun so far

analyzerVars == <<file, output, m_ip_dict, direct, td2, rr2, m_dependency_types>>
diskVars == <<csv, calculated>>
vars == <<stage, analyzerVars, diskVars, calculations>>

NoFlows == [p \in {} |-> << >>]
NoFile == [origin |-> "missing", rows |-> {}]

get_dependencies == {<<d[1], d[2]>> : d \in m_dependency_types}

-----------------------------------------------------------------------------
(* The occurrence and timing rules.                                        *)

meets_occurrence_threshold(count) == count >= NOccurrences

Within(inner, outer) == outer.start <= inner.start /\ inner.end <= outer.end

\* Flows b -> c that lie within the flow a -> b, in both directions.
count_appearances_of_LR_dependency(edge, edges) ==
  Cardinality({i \in DOMAIN edges :
    /\ edge.rev # None /\ edges[i].rev # None
    /\ Within(edges[i].fwd, edge.fwd)
    /\ Within(edges[i].rev, edge.rev)})

\* Flows a -> c that begin soon after the flow a -> b is answered.
count_appearances_of_RR_dependency(edge, edges) ==
  Cardinality({i \in DOMAIN edges :
    /\ edge.rev # None /\ edges[i].rev # None
    /\ edge.fwd.start <= edge.rev.start
    /\ edge.rev.end <= edges[i].fwd.start
    /\ edges[i].fwd.start <= edges[i].rev.start
    /\ edges[i].fwd.start - edge.rev.end <= Epsilon})

\* The loop over the outer flows adds up the counts and leaves as soon as the
\* threshold is met, which the total then meets too.
Total(Count(_, _), outer, inner) ==
  MapThenSumSet(LAMBDA i : Count(outer[i], inner), DOMAIN outer)

Hosts == UNION {{p[1], p[2]} : p \in DOMAIN m_ip_dict}
Frequent(p) == p \in DOMAIN m_ip_dict /\ meets_occurrence_threshold(Len(m_ip_dict[p]))

\* Both pairs have flows, and those of the second lie within, or follow,
\* those of the first often enough.
Linked(Count(_, _), outer, inner) ==
  /\ {outer, inner} \subseteq DOMAIN m_ip_dict
  /\ meets_occurrence_threshold(Total(Count, m_ip_dict[outer], m_ip_dict[inner]))

Nested(outer, inner) == Linked(count_appearances_of_LR_dependency, outer, inner)
Follows(fst, snd) == Linked(count_appearances_of_RR_dependency, fst, snd)

-----------------------------------------------------------------------------
(* The stages.                                                             *)

TD2Dependency(from) == [source : from, destination : from, middle : from]
RR2Dependency(from) == [source : from, depends_on : from, originator : from]

DirectDependencies == {p \in DOMAIN m_ip_dict : Frequent(p)}

\* Seeded fault: the second hop need not be frequent.
FaultyTD2Dependencies ==
  {e \in TD2Dependency(Hosts) :
    /\ <<e.source, e.middle>> \in direct
    /\ e.destination # e.source
    /\ Nested(<<e.source, e.middle>>, <<e.middle, e.destination>>)}

TD2Dependencies ==
  {e \in TD2Dependency(Hosts) :
    /\ <<e.source, e.middle>> \in direct
    /\ Frequent(<<e.middle, e.destination>>)
    /\ e.destination # e.source
    /\ Nested(<<e.source, e.middle>>, <<e.middle, e.destination>>)}

\* Seeded fault: the two remote flows trade places.
FaultyRR2Dependencies ==
  {e \in RR2Dependency(Hosts) :
    /\ <<e.originator, e.depends_on>> \in direct
    /\ Frequent(<<e.originator, e.source>>)
    /\ e.source # e.depends_on
    /\ Follows(<<e.originator, e.source>>, <<e.originator, e.depends_on>>)}

RR2Dependencies ==
  {e \in RR2Dependency(Hosts) :
    /\ <<e.originator, e.depends_on>> \in direct
    /\ Frequent(<<e.originator, e.source>>)
    /\ e.source # e.depends_on
    /\ Follows(<<e.originator, e.depends_on>>, <<e.originator, e.source>>)}

\* The loop binds mid_ip to the destination of the two-stage dependency and
\* mid_ip2 to its middle.
TD3Dependencies ==
  {p \in Hosts \X Hosts :
    \E e \in td2 :
      LET mid_ip == e.destination
          mid_ip2 == e.middle
      IN  /\ p[1] = e.source
          /\ <<mid_ip2, p[2]>> \in direct
          /\ p[2] \notin {e.source, mid_ip}
          /\ Nested(<<mid_ip, mid_ip2>>, <<mid_ip2, p[2]>>)}

RR3Dependencies ==
  {p \in Hosts \X Hosts :
    \E e \in rr2 :
      /\ p[2] = e.depends_on
      /\ <<e.originator, p[1]>> \in direct
      /\ p[1] \notin {e.source, e.depends_on}
      /\ Follows(<<e.originator, e.source>>, <<e.originator, p[1]>>)}

register_dependency(pairs, type) ==
  m_dependency_types' = m_dependency_types \cup {<<p[1], p[2], type>> : p \in pairs}

-----------------------------------------------------------------------------
Init ==
  /\ stage = "idle"
  /\ file = << >> /\ output = FALSE
  /\ m_ip_dict = NoFlows
  /\ direct = {} /\ td2 = {} /\ rr2 = {}
  /\ m_dependency_types = {}
  /\ csv \in {NoFile} \cup {[origin |-> "supplied", rows |-> rows] : rows \in SuppliedRows}
  /\ calculated = {}
  /\ calculations = 0

\* A process ends, normally or at any point of its work, and the next begins.
NewProcess ==
  /\ stage # "idle"
  /\ stage' = "idle"
  /\ file' = << >> /\ output' = FALSE
  /\ m_ip_dict' = NoFlows
  /\ direct' = {} /\ td2' = {} /\ rr2' = {}
  /\ m_dependency_types' = {}
  /\ UNCHANGED <<diskVars, calculations>>

\* calculate_dependencies, with or without an output file name; the reset
\* leaves nothing of an earlier call.
BeginCalculation ==
  /\ stage = "idle" /\ calculations < MaxCalculations
  /\ calculations' = calculations + 1
  /\ stage' = "parse"
  /\ output' \in BOOLEAN
  /\ m_ip_dict' = NoFlows
  /\ m_dependency_types' = {}
  /\ UNCHANGED <<file, direct, td2, rr2, diskVars>>

Kept(l) ==
  /\ l.protocol \in {UDP_PROTOCOL, TCP_PROTOCOL} /\ l.src # None /\ l.dst # None
  /\ check_allowed(l.src) /\ check_allowed(l.dst)
  /\ l.fwd # None

Edge(l) == [fwd |-> l.fwd, rev |-> l.rev]

FlowsOf(p) == IF p \in DOMAIN m_ip_dict THEN m_ip_dict[p] ELSE << >>

ReadFlow(l) ==
  /\ stage = "parse" /\ Len(file) < MaxFlows
  /\ file' = Append(file, l)
  /\ UNCHANGED <<output, direct, td2, rr2, m_dependency_types, diskVars, calculations>>

\* A line that is no JSON ends the call with an exception.
ParseMalformed(l) ==
  /\ ReadFlow(l) /\ ~l.json
  /\ stage' = "failed"
  /\ UNCHANGED m_ip_dict

ParseSkipped(l) ==
  /\ ReadFlow(l) /\ l.json /\ ~Kept(l)
  /\ UNCHANGED <<stage, m_ip_dict>>

ParseFlow(l) ==
  /\ ReadFlow(l) /\ l.json /\ Kept(l)
  /\ LET pair == <<l.src, l.dst>>
     IN  m_ip_dict' = [p \in DOMAIN m_ip_dict \cup {pair} |->
                         IF p = pair THEN Append(FlowsOf(p), Edge(l)) ELSE m_ip_dict[p]]
  /\ UNCHANGED stage

FinishParse ==
  /\ stage = "parse" /\ stage' = "DD"
  /\ UNCHANGED <<analyzerVars, diskVars, calculations>>

Step(from, to) ==
  /\ stage = from /\ stage' = to
  /\ UNCHANGED <<file, output, m_ip_dict, diskVars, calculations>>

determine_direct_dependencies ==
  /\ Step("DD", "TD2")
  /\ direct' = DirectDependencies
  /\ register_dependency(direct', "DD")
  /\ UNCHANGED <<td2, rr2>>

determine_TD2_dependencies ==
  /\ Step("TD2", "RR2")
  /\ td2' = TD2Dependencies
  /\ register_dependency({<<e.source, e.destination>> : e \in td2'}, "TD2")
  /\ UNCHANGED <<direct, rr2>>

determine_RR2_dependencies ==
  /\ Step("RR2", "TD3")
  /\ rr2' = RR2Dependencies
  /\ register_dependency({<<e.source, e.depends_on>> : e \in rr2'}, "RR2")
  /\ UNCHANGED <<direct, td2>>

determine_TD3_dependencies ==
  /\ Step("TD3", "RR3")
  /\ register_dependency(TD3Dependencies, "TD3")
  /\ UNCHANGED <<direct, td2, rr2>>

determine_RR3_dependencies ==
  /\ Step("RR3", IF output THEN "write" ELSE "calculated")
  /\ register_dependency(RR3Dependencies, "RR3")
  /\ UNCHANGED <<direct, td2, rr2>>

-----------------------------------------------------------------------------
(* The CSV file.                                                           *)

RowOf(d) == [src |-> d[1], dst |-> d[2], token |-> d[3]]

\* What a reader makes of the beginning of the line of d: no row, a row
\* without (all of) its type, or a row with a shorter address.
Torn(d) == {[RowOf(d) EXCEPT !.dst = ip, !.token = "other"] :
              ip \in {None, d[2]} \cup Prefixes[d[2]]}

\* What may stand in the file when only a part of the text got there: the
\* types in their order, the lines of a type in any, the last line torn.
Cuts(deps) ==
  UNION {LET OfType(j) == {d \in deps : d[3] = Types[j]}
             earlier == {RowOf(d) : d \in UNION {OfType(j) : j \in 1 .. i - 1}}
         IN  {earlier \cup {RowOf(d) : d \in part} \cup last :
                part \in SUBSET OfType(i),
                last \in {{}} \cup {{r} : r \in UNION {Torn(d) : d \in OfType(i)}}}
         : i \in DOMAIN Types}

\* Opening the file for writing empties it.
OpenOutput ==
  /\ stage = "write"
  /\ calculated' = m_dependency_types
  /\ UNCHANGED <<analyzerVars, calculations>>

WriteOutput ==
  /\ OpenOutput
  /\ csv' = [origin |-> "written", rows |-> {RowOf(d) : d \in m_dependency_types}]
  /\ stage' = "calculated"

\* The process stops, or the stream reports an error (FileWriterException) --
\* or does not, when it only occurs as the file is closed.
WriteCut ==
  /\ OpenOutput
  /\ csv' \in [origin : {"cut"}, rows : Cuts(m_dependency_types)]
  /\ stage' \in {"failed", "calculated"}

WriteFails ==
  /\ stage = "write" /\ stage' = "failed"
  /\ UNCHANGED <<analyzerVars, diskVars, calculations>>

\* Seeded fault: a type that is not recognised is taken for the first one.
faulty_parse_dependency_type(token) == IF token \in KnownTypes THEN token ELSE "DD"

parse_dependency_type(token) == IF token \in KnownTypes THEN token ELSE "Unknown"

\* process_dependency_line takes the other lines, headers and blank lines
\* among them, for invalid and skips them.
ValidRow(r) == r.src \in ValidIPs /\ r.dst \in ValidIPs

load_dependencies ==
  /\ stage = "idle" /\ csv.origin # "missing"
  /\ stage' = "loaded"
  /\ m_ip_dict' = NoFlows
  /\ m_dependency_types' =
       {<<r.src, r.dst, parse_dependency_type(r.token)>> : r \in {x \in csv.rows : ValidRow(x)}}
  /\ UNCHANGED <<file, output, direct, td2, rr2, diskVars, calculations>>

\* The file does not exist: FileException.
LoadFails ==
  /\ stage = "idle" /\ csv.origin = "missing"
  /\ stage' = "failed"
  /\ m_ip_dict' = NoFlows /\ m_dependency_types' = {}
  /\ UNCHANGED <<file, output, direct, td2, rr2, diskVars, calculations>>

Next ==
  \/ NewProcess
  \/ BeginCalculation
  \/ \E l \in FlowLines : ParseMalformed(l) \/ ParseSkipped(l) \/ ParseFlow(l)
  \/ FinishParse
  \/ determine_direct_dependencies
  \/ determine_TD2_dependencies
  \/ determine_RR2_dependencies
  \/ determine_TD3_dependencies
  \/ determine_RR3_dependencies
  \/ WriteOutput \/ WriteCut \/ WriteFails
  \/ load_dependencies \/ LoadFails

Spec == Init /\ [][Next]_vars

-----------------------------------------------------------------------------
(* Properties.                                                             *)

Dependency == Nat \X Nat \X (KnownTypes \cup {"Unknown"})

\* The state stays well typed: a process that is past parsing holds pairs of
\* allowed addresses with at least one flow each, and dependencies between
\* valid addresses only.
TypeOK ==
  /\ stage \in {"idle", "parse", "write", "calculated", "loaded", "failed"} \cup KnownTypes
  /\ file \in Seq(FlowLines) /\ Len(file) <= MaxFlows
  /\ output \in BOOLEAN
  /\ \A p \in DOMAIN m_ip_dict :
       /\ check_allowed(p[1]) /\ check_allowed(p[2])
       /\ m_ip_dict[p] # << >>
       /\ \A i \in DOMAIN m_ip_dict[p] :
            m_ip_dict[p][i] \in [fwd : Interval, rev : Interval \cup {None}]
  /\ direct \subseteq DOMAIN m_ip_dict
  /\ td2 \subseteq TD2Dependency(Hosts) /\ rr2 \subseteq RR2Dependency(Hosts)
  /\ m_dependency_types \subseteq Dependency
  /\ get_dependencies \subseteq ValidIPs \X ValidIPs
  /\ csv.origin \in {"missing", "supplied", "written", "cut"} /\ csv.rows \subseteq Row
  /\ calculated \subseteq Dependency
  /\ calculations \in 0 .. MaxCalculations

\* The evidence as it stands in the flow file: TCP and UDP flows with forward
\* timestamps between allowed addresses, from a to b.
Evidence(a, b) ==
  {i \in DOMAIN file :
    /\ file[i].src = a /\ file[i].dst = b
    /\ {a, b} \subseteq {ip \in ValidIPs : check_allowed(ip)}
    /\ file[i].protocol \in {6, 17}
    /\ file[i].fwd # None}

Answered(i) == file[i].rev # None

\* Flow j takes place while flow i is going on, and so do their answers.
During(i, j) ==
  /\ Answered(i) /\ Answered(j)
  /\ file[i].fwd.start <= file[j].fwd.start /\ file[j].fwd.end <= file[i].fwd.end
  /\ file[i].rev.start <= file[j].rev.start /\ file[j].rev.end <= file[i].rev.end

\* Flow j begins at most Epsilon after the answer to flow i has ended.
SoonAfter(i, j) ==
  /\ Answered(i) /\ Answered(j)
  /\ file[i].fwd.start <= file[i].rev.start
  /\ file[j].fwd.start <= file[j].rev.start
  /\ file[j].fwd.start - file[i].rev.end \in 0 .. Epsilon

Often(S) == Cardinality(S) >= NOccurrences
Direct(a, b) == Often(Evidence(a, b))
OftenDuring(a, b, c) ==
  Often({p \in Evidence(a, b) \X Evidence(b, c) : During(p[1], p[2])})
OftenSoonAfter(s, a, b) ==
  Often({p \in Evidence(s, a) \X Evidence(s, b) : SoonAfter(p[1], p[2])})

IPs == {ip \in ValidIPs : check_allowed(ip)}
OfType(type) == {p \in get_dependencies : <<p[1], p[2], type>> \in m_dependency_types}

TwoStage(a, b, c) == Direct(a, b) /\ Direct(b, c) /\ a # c /\ OftenDuring(a, b, c)
Remote(s, a, b) == Direct(s, a) /\ Direct(s, b) /\ a # b /\ OftenSoonAfter(s, a, b)

\* At its end, before the output is written, a calculation has registered the
\* direct, the two-stage and both kinds of remote-remote dependencies that
\* the flows of the file show, and no others: grouping the flows by pair,
\* leaving the counting loops early and deriving a stage from another loses
\* and invents nothing.  The file was read to its end: one with a line that
\* is no JSON has no result.
DependenciesExplained ==
  (stage = "write" \/ (stage = "calculated" /\ ~output)) =>
    /\ \A i \in DOMAIN file : file[i].json
    /\ OfType("DD") = {p \in IPs \X IPs : Direct(p[1], p[2])}
    /\ OfType("TD2") = {p \in IPs \X IPs : \E m \in IPs : TwoStage(p[1], m, p[2])}
    /\ OfType("RR2") = {p \in IPs \X IPs : \E s \in IPs : Remote(s, p[2], p[1])}
    /\ OfType("RR3") = {p \in IPs \X IPs : \E s, m \in IPs :
                          Remote(s, p[2], m) /\ Remote(s, m, p[1]) /\ p[1] # p[2]}

\* What a later process loads was calculated by the process that wrote the
\* file: all of it when the file was written to its end, and with a known
\* type only what is genuine when the writing was cut short anywhere.
LoadedWasCalculated ==
  stage = "loaded" =>
    /\ csv.origin = "written" => m_dependency_types = calculated
    /\ csv.origin = "cut" => {d \in m_dependency_types : d[3] # "Unknown"} \subseteq calculated

\* Every dependency derived by the timing rules rests on direct ones that are
\* known with it: transitive ones on a path through a middle, remote-remote
\* ones on an originator.  So it is after a calculation, and also when only
\* the beginning of its output could be loaded.
RestsOnDirect ==
  \/ stage = "calculated"
  \/ stage = "loaded" /\ csv.origin \in {"written", "cut"}
  => /\ \A p \in OfType("TD2") \cup OfType("TD3") :
          \E m \in ValidIPs : {<<p[1], m>>, <<m, p[2]>>} \subseteq OfType("DD")
     /\ \A p \in OfType("RR2") \cup OfType("RR3") :
          \E s \in ValidIPs : {<<s, p[1]>>, <<s, p[2]>>} \subseteq OfType("DD")

\* A three-stage transitive dependency joins two hops that are two-stage
\* dependencies: a calls b, b calls c and c calls d, each during the former.
ThreeStageChains ==
  stage = "calculated" =>
    OfType("TD3") =
      {p \in IPs \X IPs : \E m, n \in IPs :
        TwoStage(p[1], m, n) /\ TwoStage(m, n, p[2]) /\ p[2] # p[1]}

=============================================================================
