------------------------ MODULE RandomWalkLogicProofs ------------------------
(***************************************************************************)
(* What holds of every random walk, whatever the graph, the length and the *)
(* time windows.                                                           *)
(***************************************************************************)
EXTENDS RandomWalkLogic, TLAPS

Conditions == {"first", "LR", "return", "reverse", "RR"}

\* What joins a flow g to the flow f before it in a walk.
Joined(f, g) ==
  f.start <= g.end /\ g.start - f.end <= Larger(Epsilon, EpsilonRev)

Mirrored(f, g) ==
  \/ g.src = g.dst
  \/ g.src_port = f.dst_port /\ g.dst_port = f.src_port

\* The flows of the graph are flows, and end no earlier than they start.
LEMMA GraphIsOfFlows ==
  ASSUME TypeOK, NEW f \in m_graph
  PROVE  /\ f \in Flow /\ f.src \in Vertices /\ f.dst \in Vertices
         /\ f.start \in Int /\ f.end \in Int /\ f.start <= f.end
<1>1. f \in Flow /\ f.start <= f.end
  BY GraphsAssumption DEF TypeOK
<1> QED
  BY <1>1 DEF Flow, Vertices

LEMMA WindowsAreBounded ==
  /\ Larger(Epsilon, EpsilonRev) \in Nat
  /\ Epsilon <= Larger(Epsilon, EpsilonRev)
  /\ EpsilonRev <= Larger(Epsilon, EpsilonRev)
BY WalkAssumption DEF Larger

\* The walk and its trail, at their ends.
LEMMA EndsOfWalk ==
  ASSUME TypeOK
  PROVE  /\ Len(walk) \in Nat \ {0} /\ Len(trail) = Len(walk) - 1
         /\ Last = walk[Len(walk)]
         /\ Len(walk) >= 2 =>
              /\ Len(trail) >= 1
              /\ previous_edge \in m_graph
              /\ BeforeLast = walk[Len(walk) - 1]
<1>1. Len(walk) \in Nat \ {0} /\ Len(trail) = Len(walk) - 1
  BY DEF TypeOK
<1>2. trail \in Seq([edge : m_graph, by : Conditions])
  BY DEF TypeOK, Conditions
<1>3. Len(walk) >= 2 => Len(trail) \in 1 .. Len(trail)
  BY <1>1
<1>4. \A S : trail \in Seq(S) => \A i \in 1 .. Len(trail) : trail[i] \in S
  OBVIOUS
<1>5. \A i \in 1 .. Len(trail) : trail[i] \in [edge : m_graph, by : Conditions]
  BY <1>2, <1>4, Zenon
<1> QED
  BY <1>1, <1>3, <1>5 DEF Last, BeforeLast, previous_edge

\* What a step of the walk may be: each condition keeps the windows, and turns
\* round only over a reply or a flow to itself.
LEMMA Possibilities ==
  ASSUME TypeOK, Len(walk) >= 2, NEW step \in determine_random_walk_possibilities
  PROVE  /\ step \in [edge : m_graph, by : Conditions]
         /\ step.edge.src \in {Last, BeforeLast}
         /\ Joined(previous_edge, step.edge)
         /\ step.edge.dst = BeforeLast => Mirrored(previous_edge, step.edge)
<1> DEFINE local == {f \in Out(Last) : Frequent(f)}
           remote == {f \in Out(BeforeLast) : Frequent(f)}
<1>1. previous_edge \in m_graph
  BY EndsOfWalk
<1>2. /\ previous_edge.start \in Int /\ previous_edge.end \in Int
      /\ previous_edge.start <= previous_edge.end
  BY <1>1, GraphIsOfFlows
<1>3. PICK f : \/ step = [edge |-> f, by |-> "LR"] /\ f \in local
                  /\ satisfies_LR_opening_conditions(f)
               \/ step = [edge |-> f, by |-> "return"] /\ f \in local
                  /\ satisfies_return_from_LR_conditions(f)
               \/ step = [edge |-> f, by |-> "reverse"] /\ f \in local
                  /\ satisfies_return_over_reverse_edge_conditions(f)
               \/ step = [edge |-> f, by |-> "RR"] /\ f \in remote
                  /\ satisfies_RR_opening_conditions(f)
  BY Zenon DEF determine_random_walk_possibilities, Steps
<1>4. f \in m_graph /\ step.edge = f /\ step.by \in Conditions
      /\ step \in [edge : m_graph, by : Conditions]
  BY <1>3 DEF Out, Conditions
<1>5. f.start \in Int /\ f.end \in Int /\ f.start <= f.end
  BY <1>4, GraphIsOfFlows
<1>6. CASE /\ f \in local
           /\ \/ satisfies_LR_opening_conditions(f)
              \/ satisfies_return_from_LR_conditions(f)
  <2>1. Joined(previous_edge, f)
    BY <1>2, <1>5, <1>6, WindowsAreBounded
    DEF Joined, satisfies_LR_opening_conditions,
        satisfies_return_from_LR_conditions, Within
  <2>2. f.dst # BeforeLast
    BY <1>6 DEF satisfies_LR_opening_conditions,
                satisfies_return_from_LR_conditions, was_two_steps_ago
  <2> QED
    BY <1>4, <1>6, <2>1, <2>2 DEF Out
<1>7. CASE f \in local /\ satisfies_return_over_reverse_edge_conditions(f)
  <2>1. Joined(previous_edge, f)
    BY <1>2, <1>5, <1>7, WindowsAreBounded, WalkAssumption
    DEF Joined, satisfies_return_over_reverse_edge_conditions
  <2>2. Mirrored(previous_edge, f)
    BY <1>7 DEF Mirrored, satisfies_return_over_reverse_edge_conditions
  <2> QED
    BY <1>4, <1>7, <2>1, <2>2 DEF Out
<1>8. CASE f \in remote /\ satisfies_RR_opening_conditions(f)
  <2>1. Joined(previous_edge, f)
    BY <1>2, <1>5, <1>8, WindowsAreBounded, WalkAssumption
    DEF Joined, satisfies_RR_opening_conditions
  <2>2. f.src = BeforeLast
    BY <1>8 DEF Out
  <2> QED
    BY <1>4, <2>1, <2>2 DEF Mirrored
<1> QED
  BY <1>3, <1>6, <1>7, <1>8

-----------------------------------------------------------------------------
(* A longer walk.                                                          *)

\* Taking a flow of the graph out of one of the last two vertices, that is
\* joined to the flow before it, keeps everything that is claimed of the walk.
LEMMA TakeKeeps ==
  ASSUME TypeOK, Grounded, TimesConnected, TurnsAreReplies,
         Len(walk) < Larger(WalkLength, 2),
         NEW step \in [edge : m_graph, by : Conditions],
         \/ step.edge.src = Last
         \/ Len(walk) >= 2 /\ step.edge.src = BeforeLast,
         Len(walk) >= 2 =>
           /\ Joined(previous_edge, step.edge)
           /\ step.edge.dst = BeforeLast => Mirrored(previous_edge, step.edge),
         Take(step)
  PROVE  TypeOK' /\ Grounded' /\ TimesConnected' /\ TurnsAreReplies'
<1> DEFINE n == Len(walk)
<1>1. n \in Nat \ {0} /\ Len(trail) = n - 1 /\ walk \in Seq(Vertices)
      /\ trail \in Seq([edge : m_graph, by : Conditions])
      /\ Larger(WalkLength, 2) \in Nat
  BY WalkAssumption DEF TypeOK, Conditions, Larger
<1>2. step.edge.dst \in Vertices
  BY GraphIsOfFlows
<1>3. /\ walk' \in Seq(Vertices) /\ Len(walk') = n + 1
      /\ walk'[n + 1] = step.edge.dst
      /\ \A i \in 1 .. n : walk'[i] = walk[i]
  BY <1>1, <1>2 DEF Take
<1>4. /\ trail' \in Seq([edge : m_graph, by : Conditions]) /\ Len(trail') = n
      /\ trail'[n] = step
      /\ \A i \in 1 .. n - 1 : trail'[i] = trail[i]
  BY <1>1 DEF Take
<1>5. Last = walk[n] /\ (n >= 2 => BeforeLast = walk[n - 1]
                              /\ previous_edge = trail[n - 1].edge)
  BY <1>1 DEF Last, BeforeLast, previous_edge
<1>6. TypeOK'
  <2>1. Vertices' = Vertices /\ m_graph' = m_graph /\ done' = done
        /\ m_n_appearances' = m_n_appearances
    BY DEF Take, Vertices
  <2>2. Len(walk') \in 1 .. Larger(WalkLength, 2)
    BY <1>1, <1>3
  <2> QED
    BY <1>3, <1>4, <2>1, <2>2 DEF TypeOK, Conditions, Larger
<1>7. Grounded'
  <2>1. ASSUME NEW k \in 1 .. n - 1
        PROVE  /\ trail'[k].edge.dst = walk'[k + 1]
               /\ \E i \in Larger(k - 1, 1) .. k : trail'[k].edge.src = walk'[i]
    <3>1. k \in DOMAIN trail
      BY <1>1
    <3>2. /\ trail[k].edge.dst = walk[k + 1]
          /\ \E i \in Larger(k - 1, 1) .. k : trail[k].edge.src = walk[i]
      BY <3>1 DEF Grounded
    <3>3. Larger(k - 1, 1) \in Nat /\ Larger(k - 1, 1) >= 1 /\ k \in Nat /\ k <= n
      BY <1>1 DEF Larger
    <3>4. \A i \in Larger(k - 1, 1) .. k : i \in 1 .. n
      BY <1>1, <3>3
    <3>5. \A i \in Larger(k - 1, 1) .. k : walk'[i] = walk[i]
      BY <1>3, <3>4
    <3> QED
      BY <1>1, <1>3, <1>4, <3>2, <3>5
  <2>2. \E i \in Larger(n - 1, 1) .. n : trail'[n].edge.src = walk'[i]
    <3>1. CASE step.edge.src = Last
      BY <1>1, <1>3, <1>4, <1>5, <3>1 DEF Larger
    <3>2. CASE n >= 2 /\ step.edge.src = BeforeLast
      <4>1. n - 1 \in Larger(n - 1, 1) .. n /\ walk'[n - 1] = walk[n - 1]
        BY <1>1, <1>3, <3>2 DEF Larger
      <4> QED
        BY <1>4, <1>5, <3>2, <4>1
    <3> QED
      BY <3>1, <3>2
  <2>3. DOMAIN trail' = 1 .. n
    BY <1>4
  <2>4. \A k \in 1 .. n : k \in 1 .. n - 1 \/ k = n
    BY <1>1
  <2> QED
    BY <1>3, <1>4, <2>1, <2>2, <2>3, <2>4 DEF Grounded, Larger
<1>8. DOMAIN trail' = 1 .. n /\ DOMAIN trail = 1 .. n - 1
  BY <1>1, <1>4
<1>9. ASSUME NEW k \in DOMAIN trail' \ {1}
      PROVE  /\ Joined(trail'[k - 1].edge, trail'[k].edge)
             /\ walk'[k + 1] = walk'[k - 1] =>
                  Mirrored(trail'[k - 1].edge, trail'[k].edge)
  <2>1. CASE k = n
    <3>1. n >= 2 /\ trail'[k - 1] = trail[n - 1] /\ walk'[k - 1] = walk[n - 1]
      BY <1>1, <1>3, <1>4, <1>8, <1>9, <2>1
    <3> QED
      BY <1>3, <1>4, <1>5, <2>1, <3>1
  <2>2. CASE k # n
    <3>1. /\ k \in DOMAIN trail \ {1} /\ k \in Nat
          /\ trail'[k - 1] = trail[k - 1] /\ trail'[k] = trail[k]
          /\ walk'[k - 1] = walk[k - 1] /\ walk'[k + 1] = walk[k + 1]
      BY <1>1, <1>3, <1>4, <1>8, <2>2
    <3>2. Joined(trail[k - 1].edge, trail[k].edge)
      BY <3>1 DEF Joined, TimesConnected
    <3>3. walk[k + 1] = walk[k - 1] => Mirrored(trail[k - 1].edge, trail[k].edge)
      BY <3>1 DEF Mirrored, TurnsAreReplies
    <3> QED
      BY <3>1, <3>2, <3>3
  <2> QED
    BY <2>1, <2>2
<1>10. TimesConnected'
  BY <1>9 DEF TimesConnected, Joined, Larger
<1>11. TurnsAreReplies'
  BY <1>9 DEF TurnsAreReplies, Mirrored
<1> QED
  BY <1>6, <1>7, <1>10, <1>11

WalkInv == TypeOK /\ Grounded /\ TimesConnected /\ TurnsAreReplies

LEMMA WalkStarts == Init => WalkInv
<1> SUFFICES ASSUME Init PROVE WalkInv
  OBVIOUS
<1>1. PICK v \in Vertices : walk = <<v>>
  BY DEF Init
<1>2. trail = << >> /\ Len(walk) = 1 /\ Len(trail) = 0
  BY <1>1 DEF Init
<1>3. Larger(WalkLength, 2) \in Nat /\ Larger(WalkLength, 2) >= 2
  BY WalkAssumption DEF Larger
<1>4. walk \in Seq(Vertices) /\ trail \in Seq([edge : m_graph, by : Conditions])
  BY <1>1, <1>2 DEF Init
<1>5. Len(walk) \in 1 .. Larger(WalkLength, 2)
  BY <1>2, <1>3
<1>6. TypeOK
  <2>1. m_graph \in Graphs /\ m_n_appearances \in Appearances /\ done \in BOOLEAN
    BY Zenon DEF Init
  <2>2. Len(walk) = Len(trail) + 1
    BY <1>2
  <2> QED
    BY <1>4, <1>5, <2>1, <2>2, Zenon DEF TypeOK, Conditions
<1> QED
  BY <1>2, <1>6 DEF WalkInv, Grounded, TimesConnected, TurnsAreReplies

LEMMA WalkSteps == WalkInv /\ [Next]_vars => WalkInv'
<1> SUFFICES ASSUME WalkInv, [Next]_vars PROVE WalkInv'
  OBVIOUS
<1> USE DEF WalkInv
<1>1. Len(walk) \in Nat \ {0} /\ Larger(WalkLength, 2) \in Nat
      /\ (Len(walk) = 1 \/ Room => Len(walk) < Larger(WalkLength, 2))
  BY WalkAssumption, EndsOfWalk DEF Larger, Room
<1>2. CASE StepToSecond
  <2>1. PICK f \in choose_snd_vertex : Take([edge |-> f, by |-> "first"])
    BY <1>2 DEF StepToSecond
  <2>2. f \in m_graph /\ f.src = Last
    BY DEF choose_snd_vertex, Out
  <2>3. [edge |-> f, by |-> "first"] \in [edge : m_graph, by : Conditions]
    BY <2>2 DEF Conditions
  <2>4. Len(walk) = 1
    BY <1>2 DEF StepToSecond
  <2> QED
    BY <1>1, <2>1, <2>2, <2>3, <2>4, TakeKeeps
<1>3. CASE StepOn
  <2>1. PICK step \in determine_random_walk_possibilities : Take(step)
    BY <1>3 DEF StepOn
  <2>2. Len(walk) >= 2 /\ Room
    BY <1>3 DEF StepOn
  <2> QED
    BY <1>1, <2>1, <2>2, Possibilities, TakeKeeps
<1>4. CASE Return
  BY <1>4 DEF Return, TypeOK, Vertices, Larger, Grounded, TimesConnected,
              TurnsAreReplies
<1>5. CASE UNCHANGED vars
  BY <1>5 DEF vars, TypeOK, Vertices, Larger, Grounded, TimesConnected,
              TurnsAreReplies
<1> QED
  BY <1>2, <1>3, <1>4, <1>5 DEF Next, Ended

LEMMA WalkInvariance == Spec => []WalkInv
BY WalkStarts, WalkSteps, PTL DEF Spec

-----------------------------------------------------------------------------
(* The theorems.                                                           *)

\* The state of generate_single_walk stays well typed, and the walk it builds
\* has at most the length asked for, or two vertices.
THEOREM WalkTypeCorrectness == Spec => []TypeOK
BY WalkInvariance, PTL DEF WalkInv

\* Every vertex of a walk is the target of a flow from one of the two before
\* it, in every graph.
THEOREM WalksAreGrounded == Spec => []Grounded
BY WalkInvariance, PTL DEF WalkInv

\* Flows that follow each other in a walk stay within the two windows.
THEOREM WalksConnectInTime == Spec => []TimesConnected
BY WalkInvariance, PTL DEF WalkInv

\* A walk turns round only over a reply, or over a flow of a host to itself.
THEOREM WalksTurnOverReplies == Spec => []TurnsAreReplies
BY WalkInvariance, PTL DEF WalkInv

=============================================================================
