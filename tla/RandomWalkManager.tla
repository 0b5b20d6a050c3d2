-------------------------- MODULE RandomWalkManager --------------------------
(***************************************************************************)
(* random_walk/manager/RandomWalkManager: generate_random_walks, called    *)
(* again and again by the data loader.  The calling thread takes a seed,   *)
(* starts a team of threads, each of which fills its segment of all_walks  *)
(* with walks drawn from a generator of its own, joins them in order and   *)
(* returns the vector.  Slots and threads are numbered from 0.             *)
(***************************************************************************)
EXTENDS WalkPartition, FiniteSets

CONSTANTS
  MaxVertices,      \* bound on the number of start vertices
  MaxCalls,         \* bound on the number of calls that start threads
  Empty             \* an element of all_walks that nobody has written

ASSUME BoundsAssumption == MaxVertices \in Nat /\ MaxCalls \in Nat

VARIABLES
  main,         \* the caller: "idle", "start", "join", "thrown" or "terminated"
  draws,        \* how many numbers m_rng has produced; the last is the seed
  vertex_count,
  team,         \* num_threads, or the size of the OpenMP team
  started,      \* how many threads are started, in the order of tid
  joined,       \* how many of them are joined
  pc,           \* of each thread: "none", "loop", "store" or "done"
  next,         \* its loop variable i
  drawn,        \* how many walks its rng has produced
  walk,         \* the walk it has generated and not yet stored
  all_walks,
  returned      \* what the last completed call returned

callVars == <<main, draws, vertex_count, team, started, joined, returned>>
threadVars == <<pc, next, drawn, walk>>
vars == <<callVars, threadVars, all_walks>>

Threads == 0 .. NumThreads - 1

total_walks == vertex_count * WalksPerVertex

First(tid) == SegmentFirst(tid, total_walks, team)
End(tid) == SegmentEnd(tid, total_walks, team)

NoWalks == [i \in {} |-> i]

\* Seeded fault: the threads share the first thread's generator.
FaultyRng(tid) == 0

\* Whose generator thread tid draws from: RNG rng(seed + tid) is a local.
Rng(tid) == tid

\* A walk is named by its start vertex and by what it was drawn from.
Walk(vertex, tid, ordinal) ==
  [start |-> vertex, seed |-> draws, stream |-> tid, ordinal |-> ordinal]

-----------------------------------------------------------------------------
Init ==
  /\ main = "idle"
  /\ draws = 0 /\ vertex_count = 0
  /\ team = 0 /\ started = 0 /\ joined = 0
  /\ pc = [t \in Threads |-> "none"]
  /\ next = [t \in Threads |-> 0]
  /\ drawn = [t \in Threads |-> 0]
  /\ walk = [t \in Threads |-> Empty]
  /\ all_walks = NoWalks
  /\ returned = NoWalks

(* The calling thread.                                                     *)

\* Without start vertices the call returns before it takes a seed.
CallEmpty ==
  /\ main = "idle"
  /\ vertex_count' = 0
  /\ returned' = NoWalks
  /\ UNCHANGED <<main, draws, team, started, joined, threadVars, all_walks>>

FreshTeam == started' = 0 /\ joined' = 0

Call ==
  /\ main = "idle" /\ draws < MaxCalls
  /\ \E n \in 1 .. MaxVertices :
       /\ vertex_count' = n
       /\ team' \in TeamSizes(n * WalksPerVertex)
       /\ all_walks' = [i \in 0 .. n * WalksPerVertex - 1 |-> Empty]
  /\ draws' = draws + 1
  /\ FreshTeam
  /\ pc' = [t \in Threads |-> "none"]
  /\ main' = "start"
  /\ UNCHANGED <<next, drawn, walk, returned>>

\* A thread begins with its own generator at the first slot of its segment.
Begin(ts) ==
  /\ pc' = [t \in Threads |-> IF t \in ts THEN "loop" ELSE pc[t]]
  /\ next' = [t \in Threads |-> IF t \in ts THEN First(t) ELSE next[t]]
  /\ drawn' = [t \in Threads |-> IF t \in ts THEN 0 ELSE drawn[t]]

\* Seeded fault: the loop that starts the threads ends one thread early.
FaultyAllStarted(count) == count + 1 >= team

AllStarted(count) == count = team

\* threads.emplace_back, one thread after the other.
StartThread ==
  /\ main = "start" /\ ~UseOpenMP
  /\ Begin({started})
  /\ started' = started + 1
  /\ main' = IF AllStarted(started') THEN "join" ELSE main
  /\ UNCHANGED <<draws, vertex_count, team, joined, returned, walk, all_walks>>

\* std::thread throws std::system_error: the exception leaves the call unless
\* a joinable thread is already in the vector, whose destructor terminates.
StartFails ==
  /\ main = "start" /\ ~UseOpenMP
  /\ main' = IF started = 0 THEN "thrown" ELSE "terminated"
  /\ UNCHANGED <<draws, vertex_count, team, started, joined, returned, threadVars, all_walks>>

\* The parallel region starts its whole team; the caller is thread 0 of it.
EnterRegion ==
  /\ main = "start" /\ UseOpenMP
  /\ Begin(0 .. team - 1)
  /\ started' = team
  /\ main' = "join"
  /\ UNCHANGED <<draws, vertex_count, team, joined, returned, walk, all_walks>>

\* Seeded fault: the threads are not waited for.
FaultyJoinable(t) == pc[t] # "none"

Joinable(t) == pc[t] = "done"

\* thread.join() in the order of tid, or the barrier that ends the region.
Join ==
  /\ main = "join"
  /\ joined < team
  /\ Joinable(joined)
  /\ joined' = joined + 1
  /\ UNCHANGED <<main, draws, vertex_count, team, started, returned, threadVars, all_walks>>

Return ==
  /\ main = "join"
  /\ joined = team
  /\ returned' = all_walks
  /\ main' = "idle"
  /\ UNCHANGED <<draws, vertex_count, team, started, joined, threadVars, all_walks>>

-----------------------------------------------------------------------------
(* A thread of the team.  The threads of a dead process take no step.      *)

Runs(t) == main \in {"start", "join"} /\ t \in Threads

\* generate_single_walk into a temporary.
Generate(t) ==
  /\ Runs(t) /\ pc[t] = "loop"
  /\ next[t] < End(t)
  /\ walk' = [walk EXCEPT ![t] = Walk(next[t] \div WalksPerVertex, Rng(t), drawn[Rng(t)])]
  /\ drawn' = [drawn EXCEPT ![Rng(t)] = @ + 1]
  /\ pc' = [pc EXCEPT ![t] = "store"]
  /\ UNCHANGED <<callVars, next, all_walks>>

\* all_walks[i] = ..., ++i
Store(t) ==
  /\ Runs(t) /\ pc[t] = "store"
  /\ all_walks' = [all_walks EXCEPT ![next[t]] = walk[t]]
  /\ next' = [next EXCEPT ![t] = @ + 1]
  /\ pc' = [pc EXCEPT ![t] = "loop"]
  /\ UNCHANGED <<callVars, drawn, walk>>

Leave(t) ==
  /\ Runs(t) /\ pc[t] = "loop"
  /\ next[t] >= End(t)
  /\ pc' = [pc EXCEPT ![t] = "done"]
  /\ UNCHANGED <<callVars, next, drawn, walk, all_walks>>

ThreadStep(t) == Generate(t) \/ Store(t) \/ Leave(t)

CallerStep == StartThread \/ EnterRegion \/ Join \/ Return

Next ==
  \/ CallEmpty \/ Call
  \/ CallerStep
  \/ StartFails
  \/ \E t \in Threads : Generate(t) \/ Store(t) \/ Leave(t)

(* The scheduler runs every thread that can run; nobody has to call, and    *)
(* no thread has to fail to start.                                          *)
Fairness == WF_vars(CallerStep) /\ \A t \in Threads : WF_vars(ThreadStep(t))

Spec == Init /\ [][Next]_vars /\ Fairness

-----------------------------------------------------------------------------
WalkType ==
  [start : Nat, seed : Nat, stream : Threads, ordinal : Nat]

TypeOK ==
  /\ main \in {"idle", "start", "join", "thrown", "terminated"}
  /\ draws \in Nat /\ vertex_count \in Nat
  /\ team \in 0 .. NumThreads
  /\ started \in 0 .. team /\ joined \in 0 .. started
  /\ pc \in [Threads -> {"none", "loop", "store", "done"}]
  /\ next \in [Threads -> Nat] /\ drawn \in [Threads -> Nat]
  /\ walk \in [Threads -> WalkType \cup {Empty}]
  /\ main \in {"start", "join"} =>
       all_walks \in [0 .. total_walks - 1 -> WalkType \cup {Empty}]

\* The slots a running thread may still read the vertex of or assign to.
Claimed(t) ==
  IF pc[t] \in {"loop", "store"}
    THEN {i \in DOMAIN all_walks : next[t] <= i /\ i < End(t)}
    ELSE {}

(* all_walks is written by several threads without a lock, and read by the  *)
(* caller: no two threads ever have a slot in common, a thread ready to     *)
(* store aims inside the vector, and the caller returns the vector only     *)
(* when nobody can write to it any more.                                    *)
NoDataRace ==
  main \in {"start", "join"} =>
    /\ \A t, u \in Threads : t # u => Claimed(t) \cap Claimed(u) = {}
    /\ \A t \in Threads : pc[t] = "store" => next[t] \in DOMAIN all_walks
    /\ joined = team /\ main = "join" => \A t \in Threads : Claimed(t) = {}

(* A slot is written at most once in a call: no thread overwrites a walk    *)
(* another one, or the thread itself, has already stored.                   *)
WrittenOnce ==
  [][ draws' = draws =>
        \A i \in DOMAIN all_walks : all_walks[i] # Empty => all_walks'[i] = all_walks[i] ]_vars

WB == INSTANCE WalkBatch WITH
        status <- IF main \in {"start", "join"} THEN "running" ELSE main,
        batch  <- returned

(* Whatever the schedule of the threads, a call looks to its caller like    *)
(* one step that returns the complete batch of its seed: each walk starts   *)
(* at the vertex of its slot and is drawn from the generator of the thread  *)
(* the slot belongs to, in the order of the slots (README, Reproducibility).*)
ImplementsWalkBatch == WB!BatchSpec

(* Every call comes back or the process fails to start a thread: the joins  *)
(* do not wait on each other for ever.                                      *)
EveryCallEnds == main \in {"start", "join"} ~> main \in {"idle", "thrown", "terminated"}

=============================================================================
