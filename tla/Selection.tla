------------------------------ MODULE Selection ------------------------------
(***************************************************************************)
(* The elements of a sequence at some of its positions, and a function     *)
(* made of two: what SelectSeq and @@ do, in definitions that the provers  *)
(* can expand.                                                             *)
(***************************************************************************)
EXTENDS Integers, Sequences

Selected(seq, positions) ==
  LET chosen[n \in 0 .. Len(seq)] ==
        IF n = 0 THEN << >>
        ELSE IF n \in positions THEN Append(chosen[n - 1], seq[n])
        ELSE chosen[n - 1]
  IN  chosen[Len(seq)]

\* Where both have a value, that of f.
Joined(f, g) == [x \in DOMAIN f \cup DOMAIN g |-> IF x \in DOMAIN f THEN f[x] ELSE g[x]]

=============================================================================
