---------------------------- MODULE WalkPartition ----------------------------
(***************************************************************************)
(* How RandomWalkManager cuts the slots 0 .. total - 1 of one batch of     *)
(* walks into one segment per thread of a team.  The std::thread build     *)
(* gives the last thread what the division leaves over; the OpenMP build   *)
(* leaves the cut to schedule(static), whose chunks differ by at most one. *)
(***************************************************************************)
EXTENDS Integers

CONSTANTS
  UseOpenMP,        \* whether CMake found OpenMP and defined USE_OPENMP
  NumThreads,       \* m_num_threads
  WalksPerVertex    \* m_walks_per_vertex

\* The constructor throws unless both are positive.
ASSUME WalkAssumption ==
  /\ UseOpenMP \in BOOLEAN
  /\ NumThreads \in Nat \ {0}
  /\ WalksPerVertex \in Nat \ {0}

Lesser(a, b) == IF a <= b THEN a ELSE b

\* num_threads, the size of the team that is asked for.
TeamLimit(total) == Lesser(NumThreads, total)

\* The threads that may take part: an OpenMP runtime may provide fewer.
TeamSizes(total) == IF UseOpenMP THEN 1 .. TeamLimit(total) ELSE {TeamLimit(total)}

StaticFirst(tid, total, team) == tid * (total \div team) + Lesser(tid, total % team)

SegmentFirst(tid, total, team) ==
  IF UseOpenMP THEN StaticFirst(tid, total, team) ELSE tid * (total \div team)

\* Seeded fault: the bound of the loop is inclusive.
FaultyInclusiveEnd(tid, total, team) ==
  Lesser(total, SegmentFirst(tid + 1, total, team) + 1)

SegmentEnd(tid, total, team) ==
  IF UseOpenMP THEN StaticFirst(tid + 1, total, team)
  ELSE IF tid = team - 1 THEN total
  ELSE SegmentFirst(tid, total, team) + total \div team

Segment(tid, total, team) ==
  {i \in 0 .. total - 1 :
     SegmentFirst(tid, total, team) <= i /\ i < SegmentEnd(tid, total, team)}

=============================================================================
