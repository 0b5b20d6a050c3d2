----------------------------- MODULE MCRandomWalks -----------------------------
(***************************************************************************)
(* An instance of RandomWalkManager for TLC: the build with std::thread,   *)
(* whose constant UseOpenMP is FALSE, or that with OpenMP beside it, with  *)
(* a copy of the variables; a behaviour is of one build.                   *)
(***************************************************************************)
EXTENDS RandomWalkManager

VARIABLES
  build,
  omain, odraws, overtex_count, oteam, ostarted, ojoined,
  opc, onext, odrawn, owalk, oall_walks, oreturned

ovars == <<omain, odraws, overtex_count, oteam, ostarted, ojoined, opc, onext, odrawn, owalk,
           oall_walks, oreturned>>

O == INSTANCE RandomWalkManager WITH
       UseOpenMP <- TRUE, main <- omain, draws <- odraws, vertex_count <- overtex_count,
       team <- oteam, started <- ostarted, joined <- ojoined, pc <- opc, next <- onext,
       drawn <- odrawn, walk <- owalk, all_walks <- oall_walks, returned <- oreturned

BuildInit == build \in {"std::thread", "OpenMP"} /\ Init /\ O!Init

BuildNext ==
  \/ build = "std::thread" /\ Next /\ UNCHANGED <<build, ovars>>
  \/ build = "OpenMP" /\ O!Next /\ UNCHANGED <<build, vars>>

BuildFairness ==
  /\ build = "std::thread" => Fairness
  /\ build = "OpenMP" => O!Fairness

BuildSpec == BuildInit /\ [][BuildNext]_<<build, vars, ovars>> /\ BuildFairness

(* The build with OpenMP, whose runtime may provide fewer threads than it   *)
(* is asked for and cuts the slots in another way, keeps the promise of the *)
(* build with std::thread: each call returns the batch of its seed for the  *)
(* team that it was given, in the end.                                      *)
OpenMPBuildToo == O!ImplementsWalkBatch /\ O!EveryCallEnds

===============================================================================
