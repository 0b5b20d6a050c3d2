------------------------------ MODULE WalkBatch ------------------------------
(***************************************************************************)
(* What generate_random_walks promises its caller, with no thread in       *)
(* sight: one call takes one seed from the manager's generator and, unless *)
(* the process dies, hands back one whole batch in one step.  The batch is *)
(* determined by the seed, the number of vertices and the size of the      *)
(* team, so that runs with the same SEED and NUM_THREADS agree.            *)
(***************************************************************************)
EXTENDS Integers

CONSTANTS
  UseOpenMP, NumThreads, WalksPerVertex,
  MaxVertices,      \* bound on the number of start vertices
  MaxCalls          \* bound on the number of seeds taken

VARIABLES
  status,           \* "idle", "running", "thrown" or "terminated"
  draws,            \* how many seeds the manager's generator has produced
  vertex_count,     \* the number of start vertices of the last call
  batch             \* the walks the last completed call returned

batchVars == <<status, draws, vertex_count, batch>>

Less(a, b) == IF a <= b THEN a ELSE b

Teams(total) ==
  IF UseOpenMP THEN 1 .. Less(NumThreads, total) ELSE {Less(NumThreads, total)}

\* The thread that slot i belongs to and the slot's place in its segment.
Owner(i, total, team) ==
  LET size == total \div team
      rest == total % team
  IN  IF ~UseOpenMP THEN Less(i \div size, team - 1)
      ELSE IF i < rest * (size + 1) THEN i \div (size + 1)
      ELSE rest + (i - rest * (size + 1)) \div size

Place(i, total, team) ==
  LET size == total \div team
      tid  == Owner(i, total, team)
  IN  IF UseOpenMP THEN i - tid * size - Less(tid, total % team) ELSE i - tid * size

\* A walk is its start vertex and what it was drawn from: the place-th walk
\* of the generator seeded with seed + stream.
PromisedWalk(i, seed, total, team) ==
  [start |-> i \div WalksPerVertex, seed |-> seed,
   stream |-> Owner(i, total, team), ordinal |-> Place(i, total, team)]

Promised(seed, n, team) ==
  [i \in 0 .. n * WalksPerVertex - 1 |-> PromisedWalk(i, seed, n * WalksPerVertex, team)]

NoWalks == [i \in {} |-> i]

BatchInit ==
  /\ status = "idle"
  /\ draws = 0 /\ vertex_count = 0
  /\ batch = NoWalks

RequestNothing ==
  /\ status = "idle"
  /\ vertex_count' = 0 /\ batch' = NoWalks
  /\ UNCHANGED <<status, draws>>

Request ==
  /\ status = "idle" /\ draws < MaxCalls
  /\ \E n \in 1 .. MaxVertices : vertex_count' = n
  /\ status' = "running"
  /\ draws' = draws + 1
  /\ UNCHANGED batch

Deliver ==
  /\ status = "running"
  /\ \E team \in Teams(vertex_count * WalksPerVertex) :
       batch' = Promised(draws, vertex_count, team)
  /\ status' = "idle"
  /\ UNCHANGED <<draws, vertex_count>>

\* A thread could not be created.
Fail ==
  /\ status = "running"
  /\ status' \in {"thrown", "terminated"}
  /\ UNCHANGED <<draws, vertex_count, batch>>

BatchNext == RequestNothing \/ Request \/ Deliver \/ Fail

BatchSpec == BatchInit /\ [][BatchNext]_batchVars

=============================================================================
