--------------------------- MODULE RandomWalkLogic ---------------------------
(***************************************************************************)
(* One random walk of CustomRandomWalkLogic over the graph of sampled      *)
(* flows.  A walk continues over a flow that, by its time and its ports,   *)
(* may have been caused by the flow before it: out of the last vertex      *)
(* (local-remote) or out of the one before that (remote-remote).  The      *)
(* random choice among the possible flows is any of them.                  *)
(***************************************************************************)
EXTENDS Integers, Sequences, FiniteSets

CONSTANTS
  Graphs,               \* the graphs to walk on, each a set of flows
  WalkLength,
  Appearances,          \* how many flows make a target frequent
  Epsilon, EpsilonRev

Flow == [src : Nat, dst : Nat, src_port : Int, dst_port : Int, start : Int, end : Int]

ASSUME WalkAssumption ==
  /\ WalkLength \in Nat \ {0} /\ Appearances \subseteq Nat
  /\ {Epsilon, EpsilonRev} \subseteq Nat

\* The timestamps of a flow were validated when it was read.
ASSUME GraphsAssumption ==
  \A graph \in Graphs : \A f \in graph : f \in Flow /\ f.start <= f.end

VARIABLES
  m_graph, m_n_appearances,
  walk,                 \* the vertices visited
  trail,                \* the flow over which each of them but the first was
                        \* reached, and by which condition
  done

vars == <<m_graph, m_n_appearances, walk, trail, done>>

Vertices == {f.src : f \in m_graph} \cup {f.dst : f \in m_graph}
Out(v) == {f \in m_graph : f.src = v}

\* get_target_count meets the threshold.
Frequent(f) ==
  Cardinality({g \in m_graph : g.src = f.src /\ g.dst = f.dst}) >= m_n_appearances

Last == walk[Len(walk)]

\* Seeded fault: the walk's first vertex.
FaultyBeforeLast == walk[1]

BeforeLast == walk[Len(walk) - 1]

previous_edge == trail[Len(trail)].edge

-----------------------------------------------------------------------------
(* The conditions, on a flow and the one before it.                        *)

was_two_steps_ago(f) == f.dst = BeforeLast

Within(inner, outer) == outer.start <= inner.start /\ inner.end <= outer.end

\* Seeded fault: the walk may return to where it was two steps ago.
FaultyLROpening(f) == Within(f, previous_edge)

satisfies_LR_opening_conditions(f) ==
  ~was_two_steps_ago(f) /\ Within(f, previous_edge)

\* is_vertex_pair_in_sequence_opposite, for the last vertex.
BackAlongWalk(v) ==
  \E i \in 1 .. Len(walk) - 1 : walk[i] = v /\ walk[i + 1] = Last

satisfies_return_from_LR_conditions(f) ==
  /\ ~was_two_steps_ago(f) /\ BackAlongWalk(f.dst)
  /\ Within(previous_edge, f)

\* Seeded fault: there is no limit to the gap.
FaultyRROpening(f) == previous_edge.end <= f.start /\ f.dst # Last

satisfies_RR_opening_conditions(f) ==
  /\ previous_edge.end <= f.start /\ f.dst # Last
  /\ f.start - previous_edge.end <= Epsilon

satisfies_return_over_reverse_edge_conditions(f) ==
  /\ was_two_steps_ago(f) /\ BackAlongWalk(f.dst)
  /\ previous_edge.src_port = f.dst_port /\ previous_edge.dst_port = f.src_port
  /\ previous_edge.start <= f.start
  /\ previous_edge.end - f.end \in -EpsilonRev .. EpsilonRev

Steps(flows, condition) == {[edge |-> f, by |-> condition] : f \in flows}

\* The early return for a vertex without flows comes before the remote-remote
\* ones are looked at.
determine_random_walk_possibilities ==
  LET local == {f \in Out(Last) : Frequent(f)}
      remote == {f \in Out(BeforeLast) : Frequent(f)}
  IN  IF Out(Last) = {} THEN {}
      ELSE UNION {
        Steps({f \in local : satisfies_LR_opening_conditions(f)}, "LR"),
        Steps({f \in local : satisfies_return_from_LR_conditions(f)}, "return"),
        Steps({f \in local : satisfies_return_over_reverse_edge_conditions(f)}, "reverse"),
        Steps({f \in remote : satisfies_RR_opening_conditions(f)}, "RR")}

-----------------------------------------------------------------------------
(* generate_single_walk.                                                   *)

Init ==
  /\ m_graph \in Graphs /\ m_n_appearances \in Appearances
  /\ \E v \in Vertices : walk = <<v>>
  /\ trail = << >>
  /\ done = FALSE

Take(step) ==
  /\ walk' = Append(walk, step.edge.dst)
  /\ trail' = Append(trail, step)
  /\ UNCHANGED <<m_graph, m_n_appearances, done>>

\* A frequent target when there is one, any other when not.
choose_snd_vertex ==
  LET frequent == {f \in Out(Last) : Frequent(f)}
  IN  IF frequent # {} THEN frequent ELSE Out(Last)

StepToSecond ==
  /\ ~done /\ Len(walk) = 1
  /\ \E f \in choose_snd_vertex : Take([edge |-> f, by |-> "first"])

Room == Len(walk) < WalkLength

StepOn ==
  /\ ~done /\ Len(walk) >= 2 /\ Room
  /\ \E step \in determine_random_walk_possibilities : Take(step)

\* The walk is returned: its start has no flows, it is long enough, or
\* nothing continues it.
Return ==
  /\ ~done
  /\ IF Len(walk) = 1 THEN choose_snd_vertex = {}
     ELSE ~Room \/ determine_random_walk_possibilities = {}
  /\ done' = TRUE
  /\ UNCHANGED <<m_graph, m_n_appearances, walk, trail>>

Ended == done /\ UNCHANGED vars

Next == StepToSecond \/ StepOn \/ Return \/ Ended

Spec == Init /\ [][Next]_vars

-----------------------------------------------------------------------------
(* Properties.                                                             *)

Larger(a, b) == IF a >= b THEN a ELSE b

\* The state stays well typed; a walk has at most WalkLength vertices, but
\* two even when one was asked for, since the second is chosen before the
\* length is looked at.
TypeOK ==
  /\ m_graph \in Graphs /\ m_n_appearances \in Appearances
  /\ walk \in Seq(Vertices) /\ Len(walk) \in 1 .. Larger(WalkLength, 2)
  /\ trail \in Seq([edge : m_graph, by : {"first", "LR", "return", "reverse", "RR"}])
  /\ Len(walk) = Len(trail) + 1
  /\ done \in BOOLEAN

\* A walk never leaves the flows: each vertex after the first is the target
\* of a flow from one of the two vertices before it.  So every vertex can be
\* reached from the first, although the remote-remote condition puts vertices
\* side by side that no flow joins, and later steps compare with these.
Grounded ==
  \A k \in DOMAIN trail :
    /\ trail[k].edge.dst = walk[k + 1]
    /\ \E i \in Larger(k - 1, 1) .. k : trail[k].edge.src = walk[i]

\* Whatever condition joins two flows that follow each other in a walk, the
\* second does not end before the first starts, and it starts at most the
\* larger of the two windows after the first ends.
TimesConnected ==
  \A k \in DOMAIN trail \ {1} :
    LET f == trail[k - 1].edge
        g == trail[k].edge
    IN  f.start <= g.end /\ g.start - f.end <= Larger(Epsilon, EpsilonRev)

\* A walk turns round only over a reply: where it returns to the vertex it
\* came from two steps ago, the two flows mirror each other's ports -- or it
\* never left, by a flow of that vertex to itself.
TurnsAreReplies ==
  \A k \in DOMAIN trail \ {1} :
    LET f == trail[k - 1].edge
        g == trail[k].edge
    IN  walk[k + 1] = walk[k - 1] =>
          \/ g.src = g.dst
          \/ g.src_port = f.dst_port /\ g.dst_port = f.src_port

\* A return over a reverse edge is over the reverse of the flow before it, as
\* the comment on condition 4 has it: between the same two vertices.
ReturnsReverseTheFlow ==
  \A k \in DOMAIN trail \ {1} :
    LET f == trail[k - 1].edge
        g == trail[k].edge
    IN  trail[k].by = "reverse" => g.src = f.dst /\ g.dst = f.src

=============================================================================
