------------------------- MODULE MCDependencyAnalyzer -------------------------
(***************************************************************************)
(* Instances of DependencyAnalyzer for TLC.  Address 4 is blocked.         *)
(***************************************************************************)
EXTENDS DependencyAnalyzer, Functions

MCValid == 1 .. 4
MCBlocked == {4}

\* Times before the epoch and after it.
At(s, e) == [start |-> s - 5, end |-> e - 5]

Flow(src, dst, fwd, rev) ==
  [json |-> TRUE, src |-> src, dst |-> dst, protocol |-> TCP_PROTOCOL,
   fwd |-> fwd, rev |-> rev]

\* 1 calls 2, soon after that 3 and then itself; all while it calls itself
\* once, and 2 calls it, for longer.
MCFlowSeq ==
  << Flow(1, 1, At(0, 9), At(0, 9)),
     Flow(1, 2, At(0, 3), At(0, 3)),
     Flow(1, 3, At(4, 5), At(4, 6)),
     Flow(1, 1, At(7, 8), At(8, 9)),
     Flow(2, 1, At(0, 9), At(0, 9)),
     [Flow(1, 2, At(0, 1), None) EXCEPT !.protocol = UDP_PROTOCOL],
     [Flow(1, 3, At(4, 5), At(4, 6)) EXCEPT !.protocol = 1],
     Flow(1, 4, At(0, 1), At(0, 1)),
     Flow(1, 2, None, At(0, 1)),
     [Flow(1, 2, None, None) EXCEPT !.json = FALSE] >>

MCFlows == Range(MCFlowSeq)

\* Only which lines a file holds, and how often, can matter to a calculation
\* that reads them all: files whose lines are sorted stand for the others.
SortedFile ==
  \A i \in 2 .. Len(file) :
    \E j \in DOMAIN MCFlowSeq : MCFlowSeq[j] = file[i] /\ \E k \in 1 .. j : MCFlowSeq[k] = file[i - 1]

\* Bound: one kind of the lines that are skipped may stand in a file, and
\* twice, which is as often as a dependency needs.
FewSkipped ==
  LET skipped == {i \in DOMAIN file : ~Kept(file[i])}
  IN  Cardinality(skipped) <= NOccurrences /\ \A i, j \in skipped : file[i] = file[j]

\* Bound: no line stands in a file more often than once above the threshold.
FewRepeated == \A l \in MCFlows : Cardinality({i \in DOMAIN file : file[i] = l}) <= NOccurrences + 1

MCSupplied ==
  { { [src |-> 1, dst |-> 4, token |-> "other"], [src |-> 2, dst |-> 3, token |-> "RR3"],
      [src |-> None, dst |-> None, token |-> "other"], [src |-> 3, dst |-> None, token |-> "DD"] } }

\* Address 1 is what remains of address 3 when its last digit is cut off.
MCPrefixes == [ip \in MCValid |-> IF ip = 3 THEN {1} ELSE {}]

\* The flows of a chain 1 -> 2 -> 3 -> 5.
MCChainValid == {1, 2, 3, 5}
MCChainPrefixes == [ip \in MCChainValid |-> {}]
MCChain ==
  { Flow(1, 2, At(0, 9), At(0, 9)),
    Flow(2, 3, At(1, 8), At(1, 8)),
    Flow(3, 5, At(2, 7), At(2, 7)) }
MCNothing == {}

=============================================================================
