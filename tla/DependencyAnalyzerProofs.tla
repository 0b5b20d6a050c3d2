---------------------- MODULE DependencyAnalyzerProofs ----------------------
(***************************************************************************)
(* What holds of the ground truth for every flow file, every threshold and *)
(* every CSV file a process may find.  The inductive invariant IInv says   *)
(* that the dictionary is the file grouped by pair (GroupInv), that every  *)
(* stage that is over left exactly its result (StageInv) and that the CSV  *)
(* file is what the last calculation wrote of it (CsvInv).                 *)
(***************************************************************************)
EXTENDS DependencyAnalyzer, FiniteSetTheorems, SequenceTheorems, TLAPS

-----------------------------------------------------------------------------
(* Sums over finite sets.  No induction rule is at hand, but the natural    *)
(* numbers are well founded: an equation that fails for some finite set     *)
(* fails for a smallest one.                                                *)

(* A set of natural numbers has a least element.                            *)
LEMMA LeastNumber ==
  ASSUME NEW T \in SUBSET Nat, T # {}
  PROVE  \E n \in T : \A m \in T : n <= m
<1> DEFINE R == OpToRel(<, Nat)
<1>1. IsWellFoundedOn(R, Nat)
  BY NatLessThanWellFounded
<1>2. \A m, k \in Nat : m < k => <<m, k>> \in R
  BY DEF OpToRel
<1> HIDE DEF R
<1>3. PICK n \in T : \A m \in T : <<m, n>> \notin R
  BY <1>1, WFMin
<1>4. ASSUME NEW m \in T PROVE n <= m
  <2>1. m \in Nat /\ n \in Nat
    OBVIOUS
  <2>2. ~(m < n)
    BY <1>2, <1>3, <2>1
  <2>. QED BY <2>1, <2>2
<1>. QED BY <1>4

(* A family of subsets of a finite set has a member of least cardinality.   *)
LEMMA SmallestSubset ==
  ASSUME NEW S, IsFiniteSet(S), NEW C \in SUBSET SUBSET S, C # {}
  PROVE  \E X \in C : \A Y \in C : Cardinality(X) <= Cardinality(Y)
<1> DEFINE N == {Cardinality(X) : X \in C}
<1>1. \A X \in C : IsFiniteSet(X) /\ Cardinality(X) \in Nat
  BY FS_Subset, FS_CardinalityType
<1>2. N \in SUBSET Nat /\ N # {}
  BY <1>1
<1>3. PICK n \in N : \A m \in N : n <= m
  BY <1>2, LeastNumber
<1>. QED BY <1>3

Chosen(s) == CHOOSE x \in s : TRUE

\* g adds up c over the subsets of S, one chosen element after the other.
AddsUp(g, c, S) ==
  \A s \in SUBSET S : g[s] = IF s = {} THEN 0 ELSE c[Chosen(s)] + g[s \ {Chosen(s)}]

\* The pairs of R that begin in s, and the second elements of those of i.
From(R, s) == {p \in R : p[1] \in s}
Seconds(R, T, i) == {j \in T : <<i, j>> \in R}

(* The pairs that begin in a set without one of its elements, and those     *)
(* that begin with this element.                                            *)
LEMMA PairsSplit ==
  ASSUME NEW S, IsFiniteSet(S), NEW T, IsFiniteSet(T), NEW R \in SUBSET (S \X T),
         NEW s \in SUBSET S, NEW i \in s
  PROVE  /\ Cardinality(From(R, s)) = Cardinality(Seconds(R, T, i)) + Cardinality(From(R, s \ {i}))
         /\ Cardinality(From(R, s)) \in Nat
<1> DEFINE A == From(R, {i})
           B == From(R, s \ {i})
           J == Seconds(R, T, i)
           f == [j \in J |-> <<i, j>>]
<1>1. IsFiniteSet(S \X T)
  BY FS_Product
<1>2. IsFiniteSet(R)
  BY <1>1, FS_Subset
<1>3. A \subseteq R /\ B \subseteq R /\ From(R, s) \subseteq R
  BY DEF From
<1>4. IsFiniteSet(A) /\ IsFiniteSet(B) /\ IsFiniteSet(From(R, s))
  BY <1>2, <1>3, FS_Subset
<1>5. From(R, s) = A \cup B /\ A \cap B = {}
  BY DEF From
<1>6. f \in Injection(J, A) /\ f \in Surjection(J, A)
  <2>1. f \in [J -> A]
    BY DEF Seconds, From
  <2>2. \A j, k \in J : f[j] = f[k] => j = k
    OBVIOUS
  <2>3. ASSUME NEW p \in A PROVE \E j \in J : f[j] = p
    <3>1. p[2] \in J /\ p = <<i, p[2]>>
      BY DEF Seconds, From
    <3>. QED BY <3>1
  <2> HIDE DEF f, J, A
  <2>. QED BY <2>1, <2>2, <2>3 DEF Injection, Surjection, IsInjective
<1> HIDE DEF f, A, B
<1>7. Cardinality(J) = Cardinality(A)
  BY <1>4, <1>6, FS_Injection
<1>8. Cardinality(A \cup B) = Cardinality(A) + Cardinality(B) - Cardinality(A \cap B)
  BY <1>4, FS_Union
<1>9. Cardinality(A \cap B) = 0
  BY <1>5, FS_EmptySet
<1>10. Cardinality(A) \in Nat /\ Cardinality(B) \in Nat /\ Cardinality(From(R, s)) \in Nat
  BY <1>4, FS_CardinalityType
<1>11. Cardinality(From(R, s)) = Cardinality(A) + Cardinality(B)
  BY <1>5, <1>8, <1>9, <1>10
<1>. QED BY <1>7, <1>10, <1>11 DEF B, J

\* The numbers of pairs that begin in the subsets of S.
Sums(R, S) == [s \in SUBSET S |-> Cardinality(From(R, s))]

(* The pairs of a relation, counted by their first elements.                *)
LEMMA PairsAddUp ==
  ASSUME NEW S, IsFiniteSet(S), NEW T, IsFiniteSet(T), NEW R \in SUBSET (S \X T),
         NEW c, \A i \in S : c[i] = Cardinality(Seconds(R, T, i))
  PROVE  /\ AddsUp(Sums(R, S), c, S)
         /\ \A g : AddsUp(g, c, S) => g[S] = Cardinality(From(R, S))
<1>1. Cardinality(From(R, {})) = 0
  <2>1. From(R, {}) = {}
    BY DEF From
  <2>. QED BY <2>1, FS_EmptySet
<1>2. \A s \in SUBSET S : s # {} => Chosen(s) \in s
  BY DEF Chosen
<1>3. \A s \in SUBSET S : s # {} =>
        /\ Cardinality(From(R, s)) = c[Chosen(s)] + Cardinality(From(R, s \ {Chosen(s)}))
        /\ s \ {Chosen(s)} \in SUBSET S
  <2> SUFFICES ASSUME NEW s \in SUBSET S, s # {}
               PROVE  Cardinality(From(R, s)) = c[Chosen(s)] + Cardinality(From(R, s \ {Chosen(s)}))
    OBVIOUS
  <2>1. PICK i \in s : i = Chosen(s)
    BY <1>2
  <2>2. c[i] = Cardinality(Seconds(R, T, i))
    OBVIOUS
  <2>3. Cardinality(From(R, s)) = Cardinality(Seconds(R, T, i)) + Cardinality(From(R, s \ {i}))
    BY PairsSplit
  <2>. QED BY <2>1, <2>2, <2>3
<1>4. AddsUp(Sums(R, S), c, S)
  <2> DEFINE h == Sums(R, S)
  <2>1. \A s \in SUBSET S : h[s] = Cardinality(From(R, s))
    BY DEF Sums
  <2> HIDE DEF h
  <2>2. ASSUME NEW s \in SUBSET S
        PROVE  h[s] = IF s = {} THEN 0 ELSE c[Chosen(s)] + h[s \ {Chosen(s)}]
    BY <1>1, <1>3, <2>1
  <2>3. AddsUp(h, c, S)
    BY <2>2 DEF AddsUp
  <2>. QED BY <2>3 DEF h
<1>5. ASSUME NEW g, AddsUp(g, c, S) PROVE g[S] = Cardinality(From(R, S))
  <2> DEFINE C == {s \in SUBSET S : g[s] # Cardinality(From(R, s))}
  <2>1. SUFFICES ASSUME C # {} PROVE FALSE
    OBVIOUS
  <2>2. PICK X \in C : \A Y \in C : Cardinality(X) <= Cardinality(Y)
    <3>1. C \in SUBSET SUBSET S
      OBVIOUS
    <3> HIDE DEF C
    <3>. QED BY <2>1, <3>1, SmallestSubset
  <2>3. X \in SUBSET S /\ g[X] # Cardinality(From(R, X))
    OBVIOUS
  <2>4. X # {}
    BY <1>1, <1>5, <2>3 DEF AddsUp
  <2>5. PICK x \in X : x = Chosen(X)
    BY <1>2, <2>3, <2>4
  <2> DEFINE Y == X \ {x}
  <2>6. g[X] = c[x] + g[Y]
    BY <1>5, <2>3, <2>4, <2>5 DEF AddsUp
  <2>7. Cardinality(From(R, X)) = c[x] + Cardinality(From(R, Y))
    BY <1>3, <2>3, <2>4, <2>5
  <2>8. Y \in C
    BY <2>3, <2>6, <2>7
  <2>9. IsFiniteSet(X)
    BY <2>3, FS_Subset
  <2>10. IsFiniteSet(Y) /\ Cardinality(Y) = Cardinality(X) - 1
    BY <2>9, FS_RemoveElement
  <2>11. Cardinality(X) \in Nat /\ Cardinality(X) <= Cardinality(Y)
    BY <2>2, <2>8, <2>9, FS_CardinalityType
  <2>. QED BY <2>10, <2>11
<1>. QED BY <1>4, <1>5

-----------------------------------------------------------------------------
(* The two ways of counting links.                                          *)

\* What count_appearances_of_LR_dependency counts, and what
\* count_appearances_of_RR_dependency does.
LR(outer, inner) ==
  {p \in (DOMAIN outer) \X (DOMAIN inner) :
    /\ outer[p[1]].rev # None /\ inner[p[2]].rev # None
    /\ Within(inner[p[2]].fwd, outer[p[1]].fwd)
    /\ Within(inner[p[2]].rev, outer[p[1]].rev)}

RR(outer, inner) ==
  {p \in (DOMAIN outer) \X (DOMAIN inner) :
    /\ outer[p[1]].rev # None /\ inner[p[2]].rev # None
    /\ outer[p[1]].fwd.start <= outer[p[1]].rev.start
    /\ outer[p[1]].rev.end <= inner[p[2]].fwd.start
    /\ inner[p[2]].fwd.start <= inner[p[2]].rev.start
    /\ inner[p[2]].fwd.start - outer[p[1]].rev.end <= Epsilon}

(* The loop over the outer flows adds up to the number of links.            *)
LEMMA TotalLR ==
  ASSUME NEW outer, IsFiniteSet(DOMAIN outer), NEW inner, IsFiniteSet(DOMAIN inner)
  PROVE  Total(count_appearances_of_LR_dependency, outer, inner) = Cardinality(LR(outer, inner))
<1> DEFINE S == DOMAIN outer
           T == DOMAIN inner
           R == LR(outer, inner)
           c == [i \in S |-> count_appearances_of_LR_dependency(outer[i], inner)]
           Eq(g) == g = [s \in SUBSET S |->
                           IF s = {} THEN 0
                           ELSE LET x == CHOOSE y \in s : TRUE
                                IN  count_appearances_of_LR_dependency(outer[x], inner) + g[s \ {x}]]
           h == Sums(R, S)
<1>1. R \in SUBSET (S \X T)
  BY DEF LR
<1>2. \A i \in S : c[i] = Cardinality(Seconds(R, T, i))
  <2> SUFFICES ASSUME NEW i \in S PROVE c[i] = Cardinality(Seconds(R, T, i))
    OBVIOUS
  <2>1. Seconds(R, T, i) = {j \in DOMAIN inner :
          /\ outer[i].rev # None /\ inner[j].rev # None
          /\ Within(inner[j].fwd, outer[i].fwd)
          /\ Within(inner[j].rev, outer[i].rev)}
    <3> DEFINE P(j) == /\ outer[i].rev # None /\ inner[j].rev # None
                       /\ Within(inner[j].fwd, outer[i].fwd)
                       /\ Within(inner[j].rev, outer[i].rev)
    <3>1. \A j \in T : <<i, j>> \in R <=> P(j)
      BY DEF LR
    <3> HIDE DEF R
    <3>. QED BY <3>1 DEF Seconds
  <2>. QED BY <2>1 DEF count_appearances_of_LR_dependency
<1>3. \A s \in SUBSET S : s # {} =>
        c[Chosen(s)] = count_appearances_of_LR_dependency(outer[CHOOSE y \in s : TRUE], inner)
  BY DEF Chosen
<1>4. AddsUp(h, c, S) /\ \A g : AddsUp(g, c, S) => g[S] = Cardinality(From(R, S))
  <2>1. IsFiniteSet(S) /\ IsFiniteSet(T)
    OBVIOUS
  <2> HIDE DEF S, T, R, c
  <2>2. R \in SUBSET (S \X T) /\ \A i \in S : c[i] = Cardinality(Seconds(R, T, i))
    BY <1>1, <1>2
  <2>. QED BY <2>1, <2>2, PairsAddUp
<1>5. Eq(h)
  <2>1. \A s \in SUBSET S :
          h[s] = IF s = {} THEN 0
                 ELSE LET x == CHOOSE y \in s : TRUE
                      IN  count_appearances_of_LR_dependency(outer[x], inner) + h[s \ {x}]
    BY <1>3, <1>4 DEF AddsUp, Chosen
  <2>2. h = [s \in SUBSET S |-> h[s]]
    BY DEF Sums
  <2>. QED BY <2>1, <2>2
<1>6. Total(count_appearances_of_LR_dependency, outer, inner) = (CHOOSE g : Eq(g))[S]
  BY DEF Total, MapThenSumSet, MapThenFoldSet
<1>7. PICK g : g = CHOOSE f : Eq(f)
  OBVIOUS
<1>8. Eq(g)
  <2> HIDE DEF Eq
  <2>. QED BY <1>5, <1>7
<1>9. AddsUp(g, c, S)
  <2>1. ASSUME NEW s \in SUBSET S
        PROVE  g[s] = IF s = {} THEN 0 ELSE c[Chosen(s)] + g[s \ {Chosen(s)}]
    BY <1>3, <1>8 DEF Chosen
  <2>. QED BY <2>1 DEF AddsUp
<1>10. From(R, S) = R
  BY <1>1 DEF From
<1>. QED BY <1>4, <1>6, <1>7, <1>9, <1>10

(* ... and so it does for the flows that follow one another.                *)
LEMMA TotalRR ==
  ASSUME NEW outer, IsFiniteSet(DOMAIN outer), NEW inner, IsFiniteSet(DOMAIN inner)
  PROVE  Total(count_appearances_of_RR_dependency, outer, inner) = Cardinality(RR(outer, inner))
<1> DEFINE S == DOMAIN outer
           T == DOMAIN inner
           R == RR(outer, inner)
           c == [i \in S |-> count_appearances_of_RR_dependency(outer[i], inner)]
           Eq(g) == g = [s \in SUBSET S |->
                           IF s = {} THEN 0
                           ELSE LET x == CHOOSE y \in s : TRUE
                                IN  count_appearances_of_RR_dependency(outer[x], inner) + g[s \ {x}]]
           h == Sums(R, S)
<1>1. R \in SUBSET (S \X T)
  BY DEF RR
<1>2. \A i \in S : c[i] = Cardinality(Seconds(R, T, i))
  <2> SUFFICES ASSUME NEW i \in S PROVE c[i] = Cardinality(Seconds(R, T, i))
    OBVIOUS
  <2>1. Seconds(R, T, i) = {j \in DOMAIN inner :
          /\ outer[i].rev # None /\ inner[j].rev # None
          /\ outer[i].fwd.start <= outer[i].rev.start
          /\ outer[i].rev.end <= inner[j].fwd.start
          /\ inner[j].fwd.start <= inner[j].rev.start
          /\ inner[j].fwd.start - outer[i].rev.end <= Epsilon}
    <3> DEFINE P(j) == /\ outer[i].rev # None /\ inner[j].rev # None
                       /\ outer[i].fwd.start <= outer[i].rev.start
                       /\ outer[i].rev.end <= inner[j].fwd.start
                       /\ inner[j].fwd.start <= inner[j].rev.start
                       /\ inner[j].fwd.start - outer[i].rev.end <= Epsilon
    <3>1. \A j \in T : <<i, j>> \in R <=> P(j)
      BY DEF RR
    <3> HIDE DEF R
    <3>. QED BY <3>1 DEF Seconds
  <2>. QED BY <2>1 DEF count_appearances_of_RR_dependency
<1>3. \A s \in SUBSET S : s # {} =>
        c[Chosen(s)] = count_appearances_of_RR_dependency(outer[CHOOSE y \in s : TRUE], inner)
  BY DEF Chosen
<1>4. AddsUp(h, c, S) /\ \A g : AddsUp(g, c, S) => g[S] = Cardinality(From(R, S))
  <2>1. IsFiniteSet(S) /\ IsFiniteSet(T)
    OBVIOUS
  <2> HIDE DEF S, T, R, c
  <2>2. R \in SUBSET (S \X T) /\ \A i \in S : c[i] = Cardinality(Seconds(R, T, i))
    BY <1>1, <1>2
  <2>. QED BY <2>1, <2>2, PairsAddUp
<1>5. Eq(h)
  <2>1. \A s \in SUBSET S :
          h[s] = IF s = {} THEN 0
                 ELSE LET x == CHOOSE y \in s : TRUE
                      IN  count_appearances_of_RR_dependency(outer[x], inner) + h[s \ {x}]
    BY <1>3, <1>4 DEF AddsUp, Chosen
  <2>2. h = [s \in SUBSET S |-> h[s]]
    BY DEF Sums
  <2>. QED BY <2>1, <2>2
<1>6. Total(count_appearances_of_RR_dependency, outer, inner) = (CHOOSE g : Eq(g))[S]
  BY DEF Total, MapThenSumSet, MapThenFoldSet
<1>7. PICK g : g = CHOOSE f : Eq(f)
  OBVIOUS
<1>8. Eq(g)
  <2> HIDE DEF Eq
  <2>. QED BY <1>5, <1>7
<1>9. AddsUp(g, c, S)
  <2>1. ASSUME NEW s \in SUBSET S
        PROVE  g[s] = IF s = {} THEN 0 ELSE c[Chosen(s)] + g[s \ {Chosen(s)}]
    BY <1>3, <1>8 DEF Chosen
  <2>. QED BY <2>1 DEF AddsUp
<1>10. From(R, S) = R
  BY <1>1 DEF From
<1>. QED BY <1>4, <1>6, <1>7, <1>9, <1>10

-----------------------------------------------------------------------------
(* Bijections.                                                              *)

(* Relations that correspond along two bijections have as many pairs.       *)
LEMMA SameNumberOfPairs ==
  ASSUME NEW S1, NEW E1, NEW b1 \in Bijection(S1, E1), IsFiniteSet(S1),
         NEW S2, NEW E2, NEW b2 \in Bijection(S2, E2), IsFiniteSet(S2),
         NEW R \in SUBSET (S1 \X S2), NEW Q \in SUBSET (E1 \X E2),
         \A i \in S1, j \in S2 : <<i, j>> \in R <=> <<b1[i], b2[j]>> \in Q
  PROVE  Cardinality(R) = Cardinality(Q)
<1> DEFINE f == [p \in R |-> <<b1[p[1]], b2[p[2]]>>]
<1>1. /\ b1 \in [S1 -> E1]
      /\ \A x, y \in S1 : b1[x] = b1[y] => x = y
      /\ \A e \in E1 : \E x \in S1 : b1[x] = e
  BY DEF Bijection, Injection, Surjection, IsInjective
<1>2. /\ b2 \in [S2 -> E2]
      /\ \A x, y \in S2 : b2[x] = b2[y] => x = y
      /\ \A e \in E2 : \E x \in S2 : b2[x] = e
  BY DEF Bijection, Injection, Surjection, IsInjective
<1>3. \A p \in R : p[1] \in S1 /\ p[2] \in S2 /\ p = <<p[1], p[2]>>
  OBVIOUS
<1>4. f \in [R -> Q]
  <2>1. \A p \in R : <<b1[p[1]], b2[p[2]]>> \in Q
    BY <1>3
  <2>. QED BY <2>1
<1>5. ASSUME NEW p \in R, NEW q \in R, f[p] = f[q] PROVE p = q
  <2>1. b1[p[1]] = b1[q[1]] /\ b2[p[2]] = b2[q[2]]
    BY <1>5
  <2>2. p[1] = q[1] /\ p[2] = q[2]
    BY <1>1, <1>2, <1>3, <2>1
  <2>. QED BY <1>3, <2>2
<1>6. ASSUME NEW e \in Q PROVE \E p \in R : f[p] = e
  <2>1. e[1] \in E1 /\ e[2] \in E2 /\ e = <<e[1], e[2]>>
    OBVIOUS
  <2>2. PICK i \in S1 : b1[i] = e[1]
    BY <1>1, <2>1
  <2>3. PICK j \in S2 : b2[j] = e[2]
    BY <1>2, <2>1
  <2>4. <<i, j>> \in R
    BY <2>1, <2>2, <2>3
  <2>. QED BY <2>1, <2>2, <2>3, <2>4
<1>7. IsFiniteSet(R)
  <2>1. IsFiniteSet(S1 \X S2)
    BY FS_Product
  <2>. QED BY <2>1, FS_Subset
<1> HIDE DEF f
<1>8. f \in Surjection(R, Q) /\ f \in Injection(R, Q)
  BY <1>4, <1>5, <1>6 DEF Injection, Surjection, IsInjective
<1>. QED BY <1>7, <1>8, FS_Surjection

(* One more element on both sides.                                          *)
LEMMA OneMore ==
  ASSUME NEW n \in Nat, NEW E, NEW b \in Bijection(1 .. n, E), NEW x, x \notin E
  PROVE  \E b2 \in Bijection(1 .. n + 1, E \cup {x}) :
            (\A i \in 1 .. n : b2[i] = b[i]) /\ b2[n + 1] = x
<1> DEFINE b2 == [i \in 1 .. n + 1 |-> IF i = n + 1 THEN x ELSE b[i]]
<1>1. /\ b \in [1 .. n -> E]
      /\ \A i, j \in 1 .. n : b[i] = b[j] => i = j
      /\ \A e \in E : \E i \in 1 .. n : b[i] = e
  BY DEF Bijection, Injection, Surjection, IsInjective
<1>2. \A i \in 1 .. n + 1 : i \in 1 .. n \/ i = n + 1
  OBVIOUS
<1>3. b2[n + 1] = x /\ \A i \in 1 .. n : b2[i] = b[i]
  OBVIOUS
<1>4. b2 \in [1 .. n + 1 -> E \cup {x}]
  BY <1>1, <1>2
<1> HIDE DEF b2
<1>5. \A i, j \in 1 .. n + 1 : b2[i] = b2[j] => i = j
  BY <1>1, <1>2, <1>3
<1>6. \A e \in E \cup {x} : \E i \in 1 .. n + 1 : b2[i] = e
  <2> SUFFICES ASSUME NEW e \in E \cup {x} PROVE \E i \in 1 .. n + 1 : b2[i] = e
    OBVIOUS
  <2>1. CASE e = x
    BY <1>3, <2>1
  <2>2. CASE e \in E
    <3>1. PICK i \in 1 .. n : b[i] = e
      BY <1>1, <2>2
    <3>. QED BY <1>3, <3>1
  <2>. QED BY <2>1, <2>2
<1>7. b2 \in Bijection(1 .. n + 1, E \cup {x})
  BY <1>4, <1>5, <1>6 DEF Bijection, Injection, Surjection, IsInjective
<1>. QED BY <1>3, <1>7

-----------------------------------------------------------------------------
(* The inductive invariant.                                                 *)

EdgeType == [fwd : Interval, rev : Interval \cup {None}]
Registered == ValidIPs \X ValidIPs \X KnownTypes

\* The flows of one pair, in any order.
IsGroup(edges, f, evidence) ==
  \E b \in Bijection(1 .. Len(edges), evidence) :
    \A i \in 1 .. Len(edges) : edges[i] = Edge(f[b[i]])

EvidenceIn(f, a, b) ==
  {i \in DOMAIN f :
    /\ f[i].src = a /\ f[i].dst = b
    /\ {a, b} \subseteq {ip \in ValidIPs : check_allowed(ip)}
    /\ f[i].protocol \in {6, 17}
    /\ f[i].fwd # None}

\* The flows of the file, grouped by pair.
IsGrouping(dict, f) ==
  /\ \A p \in DOMAIN dict : /\ p \in IPs \X IPs
                            /\ dict[p] \in Seq(EdgeType) /\ dict[p] # << >>
  /\ \A a, b \in IPs : IF <<a, b>> \in DOMAIN dict THEN IsGroup(dict[<<a, b>>], f, EvidenceIn(f, a, b))
                       ELSE EvidenceIn(f, a, b) = {}

\* The variables that are counted or listed, and the CSV file.
InputInv ==
  /\ stage \in {"idle", "parse", "write", "calculated", "loaded", "failed"} \cup KnownTypes
  /\ file \in Seq(FlowLines) /\ Len(file) <= MaxFlows
  /\ output \in BOOLEAN
  /\ calculations \in 0 .. MaxCalculations
  /\ stage = "idle" => file = << >>
  /\ stage # "failed" => \A i \in DOMAIN file : file[i].json

\* A malformed line ends the call and is not grouped.
GroupInv ==
  /\ \A p \in DOMAIN m_ip_dict : /\ p \in IPs \X IPs
                                 /\ m_ip_dict[p] \in Seq(EdgeType) /\ m_ip_dict[p] # << >>
  /\ stage # "failed" => IsGrouping(m_ip_dict, file)

As(pairs, type) == {<<p[1], p[2], type>> : p \in pairs}

DD == As(direct, "DD")
TD2 == As({<<e.source, e.destination>> : e \in td2}, "TD2")
RR2 == As({<<e.source, e.depends_on>> : e \in rr2}, "RR2")
TD3 == As(TD3Dependencies, "TD3")
RR3 == As(RR3Dependencies, "RR3")

\* What the stages have derived from one another and registered.
StageInv ==
  /\ stage \in {"idle", "parse", "DD", "loaded"} => direct = {} /\ td2 = {} /\ rr2 = {}
  /\ stage \in {"idle", "parse", "DD"} => m_dependency_types = {}
  /\ stage \in {"TD2", "RR2", "TD3", "RR3", "write", "calculated"} => direct = DirectDependencies
  /\ stage \in {"RR2", "TD3", "RR3", "write", "calculated"} => td2 = TD2Dependencies
  /\ stage \in {"TD3", "RR3", "write", "calculated"} => rr2 = RR2Dependencies
  /\ stage = "TD2" => m_dependency_types = DD
  /\ stage = "RR2" => m_dependency_types = DD \cup TD2
  /\ stage = "TD3" => m_dependency_types = DD \cup TD2 \cup RR2
  /\ stage = "RR3" => m_dependency_types = DD \cup TD2 \cup RR2 \cup TD3
  /\ stage \in {"write", "calculated"} =>
       m_dependency_types = DD \cup TD2 \cup RR2 \cup TD3 \cup RR3
  /\ direct \subseteq DOMAIN m_ip_dict
  /\ td2 \subseteq TD2Dependency(Hosts) /\ rr2 \subseteq RR2Dependency(Hosts)
  /\ stage # "loaded" => m_dependency_types \subseteq Registered

\* Every dependency that timing rules derive has direct ones beside it.
RestsOn(deps) ==
  \A d \in deps :
    /\ d[3] \in {"TD2", "TD3"} =>
         \E m \in ValidIPs : <<d[1], m, "DD">> \in deps /\ <<m, d[2], "DD">> \in deps
    /\ d[3] \in {"RR2", "RR3"} =>
         \E s \in ValidIPs : <<s, d[1], "DD">> \in deps /\ <<s, d[2], "DD">> \in deps

Loaded(rows) ==
  {<<r.src, r.dst, parse_dependency_type(r.token)>> : r \in {x \in rows : ValidRow(x)}}

\* The file is what the last calculation wrote, as far as it got.
CsvInv ==
  /\ csv.origin \in {"missing", "supplied", "written", "cut"} /\ csv.rows \subseteq Row
  /\ calculated \subseteq Registered
  /\ RestsOn(calculated)
  /\ csv.origin = "written" => csv.rows = {RowOf(d) : d \in calculated}
  /\ csv.origin = "cut" => csv.rows \in Cuts(calculated)
  /\ stage = "loaded" => m_dependency_types = Loaded(csv.rows)

IInv == InputInv /\ GroupInv /\ StageInv /\ CsvInv

-----------------------------------------------------------------------------
(* Grouping the flows by pair.                                              *)

(* The evidence of a pair is that of the file as it has been read.          *)
LEMMA EvidenceIsIn == \A a, b : Evidence(a, b) = EvidenceIn(file, a, b)
  BY DEF Evidence, EvidenceIn

(* A line is one more flow of its own pair, if it is kept.                  *)
LEMMA EvidenceGrows ==
  ASSUME NEW f \in Seq(FlowLines), NEW l \in FlowLines, NEW a \in IPs, NEW b \in IPs
  PROVE  /\ EvidenceIn(f, a, b) \subseteq 1 .. Len(f)
         /\ \A i \in 1 .. Len(f) : Append(f, l)[i] = f[i]
         /\ Append(f, l)[Len(f) + 1] = l
         /\ EvidenceIn(Append(f, l), a, b) =
              IF Kept(l) /\ l.src = a /\ l.dst = b THEN EvidenceIn(f, a, b) \cup {Len(f) + 1}
              ELSE EvidenceIn(f, a, b)
<1> DEFINE n == Len(f) + 1
           g == Append(f, l)
<1>1. /\ DOMAIN f = 1 .. Len(f) /\ DOMAIN g = 1 .. n /\ Len(f) \in Nat
      /\ \A i \in 1 .. Len(f) : g[i] = f[i]
      /\ g[n] = l
  BY AppendProperties
<1>2. {a, b} \subseteq {ip \in ValidIPs : check_allowed(ip)} /\ a # None /\ b # None
  BY AddressAssumption DEF IPs
<1>3. Kept(l) /\ l.src = a /\ l.dst = b <=>
        l.src = a /\ l.dst = b /\ l.protocol \in {6, 17} /\ l.fwd # None
  BY <1>2 DEF Kept, UDP_PROTOCOL, TCP_PROTOCOL
<1> HIDE DEF g
<1>4. \A i : i \in 1 .. n <=> i \in 1 .. Len(f) \/ i = n
  BY <1>1
<1>5. EvidenceIn(g, a, b) = IF Kept(l) /\ l.src = a /\ l.dst = b THEN EvidenceIn(f, a, b) \cup {n}
                            ELSE EvidenceIn(f, a, b)
  BY <1>1, <1>2, <1>3, <1>4 DEF EvidenceIn
<1>6. EvidenceIn(f, a, b) \subseteq 1 .. Len(f)
  BY <1>1 DEF EvidenceIn
<1>. QED BY <1>1, <1>5, <1>6 DEF g

(* A line that is skipped changes no group.                                 *)
LEMMA SkippedKeepsGrouping ==
  ASSUME NEW f \in Seq(FlowLines), NEW l \in FlowLines, ~Kept(l), NEW dict, IsGrouping(dict, f)
  PROVE  IsGrouping(dict, Append(f, l))
<1>1. ASSUME NEW a \in IPs, NEW b \in IPs
      PROVE  IF <<a, b>> \in DOMAIN dict
               THEN IsGroup(dict[<<a, b>>], Append(f, l), EvidenceIn(Append(f, l), a, b))
               ELSE EvidenceIn(Append(f, l), a, b) = {}
  <2> DEFINE E == EvidenceIn(f, a, b)
             g == Append(f, l)
  <2>1. EvidenceIn(g, a, b) = E /\ E \subseteq 1 .. Len(f) /\ \A i \in 1 .. Len(f) : g[i] = f[i]
    BY EvidenceGrows
  <2>2. CASE <<a, b>> \in DOMAIN dict
    <3> DEFINE edges == dict[<<a, b>>]
    <3>1. IsGroup(edges, f, E)
      BY <2>2 DEF IsGrouping
    <3> HIDE DEF E, g, edges
    <3>2. PICK h \in Bijection(1 .. Len(edges), E) : \A i \in 1 .. Len(edges) : edges[i] = Edge(f[h[i]])
      BY <3>1 DEF IsGroup
    <3>3. \A i \in 1 .. Len(edges) : h[i] \in E
      BY DEF Bijection, Injection
    <3>4. \A i \in 1 .. Len(edges) : edges[i] = Edge(g[h[i]])
      BY <2>1, <3>2, <3>3
    <3>5. IsGroup(edges, g, E)
      BY <3>4 DEF IsGroup
    <3>. QED BY <2>1, <2>2, <3>5 DEF g, edges
  <2>3. CASE <<a, b>> \notin DOMAIN dict
    BY <2>1, <2>3 DEF IsGrouping
  <2>. QED BY <2>2, <2>3
<1>. QED BY <1>1 DEF IsGrouping

(* A line that is kept joins the group of its pair.                         *)
LEMMA KeptJoinsItsGroup ==
  ASSUME NEW f \in Seq(FlowLines), NEW l \in FlowLines, Kept(l), NEW dict, IsGrouping(dict, f),
         NEW dict2,
         LET pair == <<l.src, l.dst>>
         IN  dict2 = [p \in DOMAIN dict \cup {pair} |->
                        IF p = pair
                          THEN Append(IF p \in DOMAIN dict THEN dict[p] ELSE << >>, Edge(l))
                          ELSE dict[p]]
  PROVE  IsGrouping(dict2, Append(f, l))
<1> DEFINE pair == <<l.src, l.dst>>
           old == IF pair \in DOMAIN dict THEN dict[pair] ELSE << >>
           g == Append(f, l)
           n == Len(f) + 1
<1>1. /\ DOMAIN dict2 = DOMAIN dict \cup {pair}
      /\ dict2[pair] = Append(old, Edge(l))
      /\ \A p \in DOMAIN dict : p # pair => dict2[p] = dict[p]
  OBVIOUS
<1>2. l.src \in IPs /\ l.dst \in IPs
  BY DEF Kept, IPs, check_allowed
<1>3. Edge(l) \in EdgeType
  <2>1. l.fwd \in Interval /\ l.rev \in Interval \cup {None}
    BY InputAssumption DEF FlowLineType, Kept
  <2>. QED BY <2>1 DEF Edge, EdgeType
<1>4. old \in Seq(EdgeType)
  BY DEF IsGrouping
<1>5. /\ Append(old, Edge(l)) \in Seq(EdgeType) /\ Len(Append(old, Edge(l))) = Len(old) + 1
      /\ \A i \in 1 .. Len(old) : Append(old, Edge(l))[i] = old[i]
      /\ Append(old, Edge(l))[Len(old) + 1] = Edge(l)
      /\ Len(old) \in Nat /\ Append(old, Edge(l)) # << >>
  <2> HIDE DEF old
  <2>1. Len(old) \in Nat
    BY <1>4
  <2>2. /\ Append(old, Edge(l)) \in Seq(EdgeType) /\ Len(Append(old, Edge(l))) = Len(old) + 1
        /\ \A i \in 1 .. Len(old) : Append(old, Edge(l))[i] = old[i]
        /\ Append(old, Edge(l))[Len(old) + 1] = Edge(l)
    BY <1>3, <1>4, AppendProperties
  <2> HIDE DEF EdgeType
  <2>3. Append(old, Edge(l)) # << >>
    <3>1. Len(<< >>) = 0
      OBVIOUS
    <3>. QED BY <2>1, <2>2, <3>1
  <2>. QED BY <2>1, <2>2, <2>3
<1> HIDE DEF old
<1>6. ASSUME NEW p \in DOMAIN dict2
      PROVE  p \in IPs \X IPs /\ dict2[p] \in Seq(EdgeType) /\ dict2[p] # << >>
  <2>1. CASE p = pair
    BY <1>1, <1>2, <1>5, <2>1
  <2>2. CASE p # pair
    <3>1. p \in DOMAIN dict /\ dict2[p] = dict[p]
      BY <1>1, <2>2
    <3>. QED BY <3>1 DEF IsGrouping
  <2>. QED BY <2>1, <2>2
<1>7. ASSUME NEW a \in IPs, NEW b \in IPs
      PROVE  IF <<a, b>> \in DOMAIN dict2 THEN IsGroup(dict2[<<a, b>>], g, EvidenceIn(g, a, b))
             ELSE EvidenceIn(g, a, b) = {}
  <2> DEFINE E == EvidenceIn(f, a, b)
  <2>1. /\ E \subseteq 1 .. Len(f) /\ g[n] = l /\ \A i \in 1 .. Len(f) : g[i] = f[i]
        /\ EvidenceIn(g, a, b) = IF <<a, b>> = pair THEN E \cup {n} ELSE E
    BY EvidenceGrows
  <2>2. n \notin E /\ Len(f) \in Nat
    BY <2>1
  <2>3. CASE <<a, b>> = pair
    <3>1. \E h \in Bijection(1 .. Len(old), E) : \A i \in 1 .. Len(old) : old[i] = Edge(f[h[i]])
      <4>1. CASE pair \in DOMAIN dict
        <5>1. IsGroup(dict[pair], f, E)
          BY <2>3, <4>1 DEF IsGrouping
        <5>2. old = dict[pair]
          BY <4>1 DEF old
        <5> HIDE DEF E
        <5>. QED BY <5>1, <5>2 DEF IsGroup
      <4>2. CASE pair \notin DOMAIN dict
        <5>1. E = {} /\ old = << >>
          BY <2>3, <4>2 DEF IsGrouping, old
        <5>2. 1 .. Len(old) = {}
          BY <5>1
        <5> HIDE DEF E
        <5>3. [x \in {} |-> x] \in Bijection({}, {})
          BY DEF Bijection, Injection, Surjection, IsInjective
        <5>. QED BY <5>1, <5>2, <5>3
      <4>. QED BY <4>1, <4>2
    <3>2. PICK h \in Bijection(1 .. Len(old), E) : \A i \in 1 .. Len(old) : old[i] = Edge(f[h[i]])
      BY <3>1
    <3>3. \A i \in 1 .. Len(old) : h[i] \in E
      BY DEF Bijection, Injection
    <3> DEFINE k == Len(old)
    <3> HIDE DEF E, g, n, k
    <3>4. PICK h2 \in Bijection(1 .. k + 1, E \cup {n}) : (\A i \in 1 .. k : h2[i] = h[i]) /\ h2[k + 1] = n
      <4>1. h \in Bijection(1 .. k, E) /\ k \in Nat /\ n \notin E
        BY <1>5, <2>2, <3>2 DEF k
      <4>. QED BY <4>1, OneMore
    <3> DEFINE edges == Append(old, Edge(l))
    <3>5. Len(edges) = k + 1 /\ k \in Nat
      BY <1>5 DEF k
    <3>6. (\A i \in 1 .. k : edges[i] = old[i]) /\ edges[k + 1] = Edge(l)
      BY <1>5, <3>5 DEF k
    <3> HIDE DEF edges
    <3>7. \A i \in 1 .. k : edges[i] = Edge(g[h2[i]])
      <4> SUFFICES ASSUME NEW i \in 1 .. k PROVE edges[i] = Edge(g[h2[i]])
        OBVIOUS
      <4>1. i \in 1 .. Len(old)
        BY DEF k
      <4>2. h[i] \in E /\ old[i] = Edge(f[h[i]])
        BY <3>2, <3>3, <4>1
      <4>3. g[h[i]] = f[h[i]]
        BY <2>1, <4>2
      <4>4. h2[i] = h[i] /\ edges[i] = old[i]
        BY <3>4, <3>6
      <4>. QED BY <4>2, <4>3, <4>4
    <3>8. edges[k + 1] = Edge(g[h2[k + 1]])
      BY <2>1, <3>4, <3>6
    <3>9. \A i \in 1 .. k + 1 : edges[i] = Edge(g[h2[i]])
      BY <3>5, <3>7, <3>8
    <3>10. IsGroup(edges, g, E \cup {n})
      BY <3>4, <3>5, <3>9 DEF IsGroup
    <3>. QED BY <1>1, <2>1, <2>3, <3>10 DEF edges
  <2>4. CASE <<a, b>> # pair
    <3>1. CASE <<a, b>> \in DOMAIN dict
      <4> DEFINE edges == dict[<<a, b>>]
      <4>1. IsGroup(edges, f, E)
        BY <3>1 DEF IsGrouping
      <4> HIDE DEF E, g, edges
      <4>2. PICK h \in Bijection(1 .. Len(edges), E) : \A i \in 1 .. Len(edges) : edges[i] = Edge(f[h[i]])
        BY <4>1 DEF IsGroup
      <4>3. \A i \in 1 .. Len(edges) : h[i] \in E
        BY DEF Bijection, Injection
      <4>4. \A i \in 1 .. Len(edges) : edges[i] = Edge(g[h[i]])
        BY <2>1, <4>2, <4>3
      <4>5. IsGroup(edges, g, E)
        BY <4>4 DEF IsGroup
      <4>. QED BY <1>1, <2>1, <2>4, <3>1, <4>5 DEF edges
    <3>2. CASE <<a, b>> \notin DOMAIN dict
      BY <1>1, <2>1, <2>4, <3>2 DEF IsGrouping
    <3>. QED BY <3>1, <3>2
  <2>. QED BY <2>3, <2>4
<1>. QED BY <1>6, <1>7 DEF IsGrouping

(* As long as no flow is read, the same pairs are linked ...                *)
LEMMA SameLinks ==
  ASSUME UNCHANGED m_ip_dict
  PROVE  \A p, q : /\ Nested(p, q)' <=> Nested(p, q)
                   /\ Follows(p, q)' <=> Follows(p, q)
  BY DEF Nested, Follows, Linked

(* ... and the stages compute the same.                                     *)
LEMMA SameResults ==
  ASSUME UNCHANGED m_ip_dict
  PROVE  /\ Hosts' = Hosts
         /\ DirectDependencies' = DirectDependencies
         /\ direct' = direct => TD2Dependencies' = TD2Dependencies /\ RR2Dependencies' = RR2Dependencies
         /\ direct' = direct /\ td2' = td2 => TD3Dependencies' = TD3Dependencies
         /\ direct' = direct /\ rr2' = rr2 => RR3Dependencies' = RR3Dependencies
<1>1. Hosts' = Hosts /\ \A p : Frequent(p)' <=> Frequent(p)
  BY DEF Hosts, Frequent
<1>2. DirectDependencies' = DirectDependencies
  BY <1>1 DEF DirectDependencies
<1>3. ASSUME direct' = direct
      PROVE  TD2Dependencies' = TD2Dependencies /\ RR2Dependencies' = RR2Dependencies
  BY <1>1, <1>3, SameLinks DEF TD2Dependencies, RR2Dependencies
<1>4. ASSUME direct' = direct, td2' = td2 PROVE TD3Dependencies' = TD3Dependencies
  BY <1>1, <1>4, SameLinks DEF TD3Dependencies
<1>5. ASSUME direct' = direct, rr2' = rr2 PROVE RR3Dependencies' = RR3Dependencies
  BY <1>1, <1>5, SameLinks DEF RR3Dependencies
<1>. QED BY <1>1, <1>2, <1>3, <1>4, <1>5

-----------------------------------------------------------------------------
(* What the stages compute.                                                 *)

(* Flows are kept between allowed addresses only.                           *)
LEMMA HostsAreAllowed ==
  ASSUME GroupInv
  PROVE  Hosts \subseteq IPs /\ IPs \subseteq ValidIPs /\ ValidIPs \subseteq Nat
         /\ \A p \in DOMAIN m_ip_dict : p = <<p[1], p[2]>> /\ p[1] \in Hosts /\ p[2] \in Hosts
  BY AddressAssumption DEF GroupInv, Hosts, IPs

(* Dependencies between hosts can be registered.                            *)
LEMMA AsIsRegistered ==
  ASSUME GroupInv, NEW pairs, \A p \in pairs : p[1] \in Hosts /\ p[2] \in Hosts, NEW type \in KnownTypes
  PROVE  As(pairs, type) \subseteq Registered
<1>1. Hosts \subseteq ValidIPs
  BY HostsAreAllowed
<1>. QED BY <1>1 DEF As, Registered

(* What the stages derive from the grouped flows.                           *)
LEMMA StagesAreRegistered ==
  ASSUME GroupInv, direct \subseteq DOMAIN m_ip_dict,
         td2 \subseteq TD2Dependency(Hosts), rr2 \subseteq RR2Dependency(Hosts)
  PROVE  /\ DD \subseteq Registered /\ TD2 \subseteq Registered /\ RR2 \subseteq Registered
         /\ TD3 \subseteq Registered /\ RR3 \subseteq Registered
<1>1. {"DD", "TD2", "RR2", "TD3", "RR3"} \subseteq KnownTypes
  <2>1. DOMAIN Types = 1 .. 5 /\ Types[1] = "DD" /\ Types[2] = "TD2" /\ Types[3] = "RR2"
        /\ Types[4] = "TD3" /\ Types[5] = "RR3"
    BY DEF Types
  <2>. QED BY <2>1 DEF KnownTypes
<1>2. DD \subseteq Registered
  <2>1. \A p \in direct : p[1] \in Hosts /\ p[2] \in Hosts
    BY HostsAreAllowed
  <2>. QED BY <1>1, <2>1, AsIsRegistered DEF DD
<1>3. TD2 \subseteq Registered
  <2> DEFINE pairs == {<<e.source, e.destination>> : e \in td2}
  <2>1. \A p \in pairs : p[1] \in Hosts /\ p[2] \in Hosts
    BY DEF TD2Dependency
  <2> HIDE DEF pairs
  <2>2. As(pairs, "TD2") \subseteq Registered
    BY <1>1, <2>1, AsIsRegistered
  <2>. QED BY <2>2 DEF TD2, pairs
<1>4. RR2 \subseteq Registered
  <2> DEFINE pairs == {<<e.source, e.depends_on>> : e \in rr2}
  <2>1. \A p \in pairs : p[1] \in Hosts /\ p[2] \in Hosts
    BY DEF RR2Dependency
  <2> HIDE DEF pairs
  <2>2. As(pairs, "RR2") \subseteq Registered
    BY <1>1, <2>1, AsIsRegistered
  <2>. QED BY <2>2 DEF RR2, pairs
<1>5. TD3 \subseteq Registered
  <2>1. \A p \in TD3Dependencies : p[1] \in Hosts /\ p[2] \in Hosts
    BY DEF TD3Dependencies
  <2>. QED BY <1>1, <2>1, AsIsRegistered DEF TD3
<1>6. RR3 \subseteq Registered
  <2>1. \A p \in RR3Dependencies : p[1] \in Hosts /\ p[2] \in Hosts
    BY DEF RR3Dependencies
  <2>. QED BY <1>1, <2>1, AsIsRegistered DEF RR3
<1>. QED BY <1>2, <1>3, <1>4, <1>5, <1>6

-----------------------------------------------------------------------------
(* The steps.                                                               *)

(* The first process begins with an empty dictionary and perhaps a file     *)
(* that was supplied.                                                       *)
LEMMA InitEstablishesIInv == Init => IInv
<1> SUFFICES ASSUME Init PROVE IInv
  OBVIOUS
<1>1. DOMAIN m_ip_dict = {} /\ DOMAIN file = {} /\ file \in Seq(FlowLines) /\ Len(file) = 0
  BY DEF Init, NoFlows
<1>2. InputInv
  <2>1. stage = "idle" /\ output = FALSE /\ calculations = 0 /\ file = << >>
    BY DEF Init
  <2>2. 0 \in 0 .. MaxCalculations /\ 0 <= MaxFlows
    BY ConfigAssumption
  <2>. QED BY <1>1, <2>1, <2>2 DEF InputInv
<1>3. GroupInv
  BY <1>1 DEF GroupInv, IsGrouping, EvidenceIn
<1>4. StageInv
  BY DEF Init, StageInv
<1>5. CsvInv
  <2>1. csv.origin \in {"missing", "supplied"} /\ csv.rows \subseteq Row
    BY InputAssumption DEF Init, NoFile
  <2>. QED BY <2>1 DEF Init, CsvInv, RestsOn
<1>. QED BY <1>2, <1>3, <1>4, <1>5 DEF IInv

(* Whatever leaves the file alone and is not a load keeps CsvInv.           *)
LEMMA SameDisk ==
  ASSUME CsvInv, UNCHANGED diskVars, stage' # "loaded"
  PROVE  CsvInv'
  BY DEF CsvInv, diskVars

(* A process begins with nothing in memory.                                 *)
LEMMA NewProcessKeepsIInv ==
  ASSUME IInv, NewProcess
  PROVE  IInv'
<1>1. /\ stage' = "idle" /\ file' = << >> /\ output' = FALSE /\ m_ip_dict' = NoFlows
      /\ direct' = {} /\ td2' = {} /\ rr2' = {} /\ m_dependency_types' = {}
      /\ UNCHANGED diskVars /\ calculations' = calculations
  BY DEF NewProcess
<1>2. DOMAIN m_ip_dict' = {} /\ DOMAIN file' = {} /\ file' \in Seq(FlowLines) /\ Len(file') = 0
  BY <1>1 DEF NoFlows
<1>3. InputInv'
  <2>1. calculations' \in 0 .. MaxCalculations
    BY <1>1 DEF IInv, InputInv
  <2>2. Len(file') <= MaxFlows
    BY <1>2, ConfigAssumption
  <2>. QED BY <1>1, <1>2, <2>1, <2>2 DEF InputInv
<1>4. GroupInv'
  BY <1>2 DEF GroupInv, IsGrouping, EvidenceIn
<1>5. StageInv'
  BY <1>1 DEF StageInv
<1>6. CsvInv'
  BY <1>1, SameDisk DEF IInv
<1>. QED BY <1>3, <1>4, <1>5, <1>6 DEF IInv

(* A calculation begins with nothing in memory, whatever its arguments, and *)
(* a load from no file ends there.                                          *)
LEMMA BeginKeepsIInv ==
  ASSUME IInv, BeginCalculation \/ LoadFails
  PROVE  IInv'
<1>1. /\ stage = "idle" /\ stage' \in {"parse", "failed"} /\ file' = file /\ output' \in BOOLEAN
      /\ m_ip_dict' = NoFlows /\ m_dependency_types' = {}
      /\ direct' = direct /\ td2' = td2 /\ rr2' = rr2
      /\ UNCHANGED diskVars
  BY DEF BeginCalculation, LoadFails, IInv, InputInv
<1>2. calculations' \in 0 .. MaxCalculations
  BY ConfigAssumption DEF BeginCalculation, LoadFails, IInv, InputInv
<1>3. file = << >> /\ direct = {} /\ td2 = {} /\ rr2 = {}
  BY <1>1 DEF IInv, InputInv, StageInv
<1>4. DOMAIN m_ip_dict' = {} /\ DOMAIN file' = {}
  BY <1>1, <1>3 DEF NoFlows
<1>5. InputInv'
  BY <1>1, <1>2 DEF IInv, InputInv
<1>6. GroupInv'
  BY <1>4 DEF GroupInv, IsGrouping, EvidenceIn
<1>7. StageInv'
  BY <1>1, <1>3 DEF StageInv
<1>8. CsvInv'
  BY <1>1, SameDisk DEF IInv
<1>. QED BY <1>5, <1>6, <1>7, <1>8 DEF IInv

(* A line of the flow file.                                                 *)
LEMMA ParseKeepsIInv ==
  ASSUME IInv, NEW l \in FlowLines, ParseMalformed(l) \/ ParseSkipped(l) \/ ParseFlow(l)
  PROVE  IInv'
<1>1. /\ stage = "parse" /\ Len(file) < MaxFlows /\ file' = Append(file, l)
      /\ UNCHANGED <<output, direct, td2, rr2, m_dependency_types, diskVars, calculations>>
      /\ stage' \in {"parse", "failed"}
  BY DEF ParseMalformed, ParseSkipped, ParseFlow, ReadFlow
<1>2. direct = {} /\ td2 = {} /\ rr2 = {} /\ m_dependency_types = {}
  BY <1>1 DEF IInv, StageInv
<1>3. file \in Seq(FlowLines) /\ IsGrouping(m_ip_dict, file)
  BY <1>1 DEF IInv, InputInv, GroupInv
<1>4. InputInv'
  <2>1. file' \in Seq(FlowLines) /\ Len(file') = Len(file) + 1 /\ Len(file) \in Nat
    BY <1>1, <1>3, AppendProperties
  <2>2. ASSUME stage' # "failed"
        PROVE  \A i \in DOMAIN file' : file'[i].json
    <3>1. l.json
      BY <1>1, <2>2 DEF ParseMalformed, ParseSkipped, ParseFlow
    <3>2. \A i \in DOMAIN file : file[i].json
      BY <1>1 DEF IInv, InputInv
    <3>3. \A i \in DOMAIN file' : \/ i \in DOMAIN file /\ file'[i] = file[i]
                                  \/ file'[i] = l
      BY <1>1, <1>3
    <3>. QED BY <3>1, <3>2, <3>3
  <2>. QED BY <1>1, <2>1, <2>2, ConfigAssumption DEF IInv, InputInv
<1>5. StageInv'
  BY <1>1, <1>2 DEF StageInv
<1>6. CsvInv'
  BY <1>1, SameDisk DEF IInv
<1>7. GroupInv'
  <2>1. CASE ParseMalformed(l)
    <3>1. stage' = "failed" /\ m_ip_dict' = m_ip_dict
      BY <2>1 DEF ParseMalformed
    <3>. QED BY <3>1 DEF IInv, GroupInv
  <2>2. CASE ParseSkipped(l)
    <3>1. m_ip_dict' = m_ip_dict /\ ~Kept(l)
      BY <2>2 DEF ParseSkipped
    <3>2. IsGrouping(m_ip_dict, Append(file, l))
      BY <1>3, <3>1, SkippedKeepsGrouping
    <3>3. IsGrouping(m_ip_dict', file')
      BY <1>1, <3>1, <3>2
    <3>. QED BY <3>3 DEF GroupInv, IsGrouping
  <2>3. CASE ParseFlow(l)
    <3> DEFINE pair == <<l.src, l.dst>>
               dict2 == [p \in DOMAIN m_ip_dict \cup {pair} |->
                           IF p = pair
                             THEN Append(IF p \in DOMAIN m_ip_dict THEN m_ip_dict[p] ELSE << >>, Edge(l))
                             ELSE m_ip_dict[p]]
    <3>1. m_ip_dict' = dict2 /\ Kept(l)
      BY <2>3 DEF ParseFlow, FlowsOf
    <3>2. IsGrouping(dict2, Append(file, l))
      BY <1>3, <3>1, KeptJoinsItsGroup
    <3>3. IsGrouping(m_ip_dict', file')
      BY <1>1, <3>1, <3>2
    <3>. QED BY <3>3 DEF GroupInv, IsGrouping
  <2>. QED BY <2>1, <2>2, <2>3
<1>. QED BY <1>4, <1>5, <1>6, <1>7 DEF IInv

(* A stage of the calculation, or the end of the parsing before it.         *)
LEMMA StageKeepsIInv ==
  ASSUME IInv,
         \/ FinishParse \/ determine_direct_dependencies \/ determine_TD2_dependencies
         \/ determine_RR2_dependencies \/ determine_TD3_dependencies \/ determine_RR3_dependencies
  PROVE  IInv'
<1>1. /\ stage \in {"parse", "DD", "TD2", "RR2", "TD3", "RR3"}
      /\ stage' \in {"DD", "TD2", "RR2", "TD3", "RR3", "write", "calculated"}
      /\ UNCHANGED <<file, output, m_ip_dict, diskVars, calculations>>
  BY DEF FinishParse, determine_direct_dependencies, determine_TD2_dependencies,
         determine_RR2_dependencies, determine_TD3_dependencies, determine_RR3_dependencies,
         Step, analyzerVars
<1>2. InputInv'
  <2>1. {"DD", "TD2", "RR2", "TD3", "RR3"} \subseteq KnownTypes
    BY DEF KnownTypes, Types
  <2>. QED BY <1>1, <2>1 DEF IInv, InputInv
<1>3. GroupInv'
  <2>1. IsGrouping(m_ip_dict, file)
    BY <1>1 DEF IInv, GroupInv
  <2>2. IsGrouping(m_ip_dict', file')
    BY <1>1, <2>1
  <2>. QED BY <2>2 DEF GroupInv, IsGrouping
<1>4. CsvInv'
  BY <1>1, SameDisk DEF IInv
<1>5. GroupInv /\ StageInv
  BY DEF IInv
<1>6. /\ Hosts' = Hosts /\ DirectDependencies' = DirectDependencies
      /\ direct' = direct => TD2Dependencies' = TD2Dependencies /\ RR2Dependencies' = RR2Dependencies
      /\ direct' = direct /\ td2' = td2 => TD3Dependencies' = TD3Dependencies
      /\ direct' = direct /\ rr2' = rr2 => RR3Dependencies' = RR3Dependencies
  BY <1>1, SameResults
<1>7. /\ DirectDependencies \subseteq DOMAIN m_ip_dict
      /\ TD2Dependencies \subseteq TD2Dependency(Hosts) /\ RR2Dependencies \subseteq RR2Dependency(Hosts)
  BY DEF DirectDependencies, TD2Dependencies, RR2Dependencies
<1>8. /\ DD \subseteq Registered /\ TD2 \subseteq Registered /\ RR2 \subseteq Registered
      /\ TD3 \subseteq Registered /\ RR3 \subseteq Registered
  BY <1>5, StagesAreRegistered DEF StageInv
<1>9. /\ direct' = direct => DD' = DD
      /\ td2' = td2 => TD2' = TD2
      /\ rr2' = rr2 => RR2' = RR2
      /\ direct' = direct /\ td2' = td2 => TD3' = TD3
      /\ direct' = direct /\ rr2' = rr2 => RR3' = RR3
  BY <1>6 DEF DD, TD2, RR2, TD3, RR3
<1>10. /\ TD2Dependency(Hosts)' = TD2Dependency(Hosts)
       /\ RR2Dependency(Hosts)' = RR2Dependency(Hosts)
  BY <1>6 DEF TD2Dependency, RR2Dependency
<1>11. CASE FinishParse
  <2>1. /\ stage = "parse" /\ stage' = "DD" /\ direct' = direct /\ td2' = td2 /\ rr2' = rr2
        /\ m_dependency_types' = m_dependency_types
    BY <1>11 DEF FinishParse, analyzerVars
  <2>2. StageInv'
    BY <1>5, <2>1 DEF StageInv
  <2>. QED BY <1>2, <1>3, <1>4, <2>2 DEF IInv
<1>12. CASE determine_direct_dependencies
  <2>1. /\ stage = "DD" /\ stage' = "TD2" /\ direct' = DirectDependencies /\ td2' = td2 /\ rr2' = rr2
        /\ m_dependency_types' = m_dependency_types \cup As(direct', "DD")
    BY <1>12 DEF determine_direct_dependencies, Step, register_dependency, As
  <2>2. DD' = As(direct', "DD")
    BY DEF DD
  <2>3. DD' \subseteq Registered
    <3>1. \A p \in DirectDependencies : p[1] \in Hosts /\ p[2] \in Hosts
      BY <1>5, <1>7, HostsAreAllowed
    <3>2. "DD" \in KnownTypes
      BY DEF KnownTypes, Types
    <3>. QED BY <1>5, <2>1, <2>2, <3>1, <3>2, AsIsRegistered
  <2>4. td2 = {} /\ rr2 = {} /\ m_dependency_types = {}
    BY <1>5, <2>1 DEF StageInv
  <2>5. StageInv'
    BY <1>1, <1>6, <1>7, <2>1, <2>2, <2>3, <2>4 DEF StageInv
  <2>. QED BY <1>2, <1>3, <1>4, <2>5 DEF IInv
<1>13. CASE determine_TD2_dependencies
  <2> DEFINE pairs == {<<e.source, e.destination>> : e \in TD2Dependencies}
  <2>1. /\ stage = "TD2" /\ stage' = "RR2" /\ direct' = direct /\ td2' = TD2Dependencies /\ rr2' = rr2
        /\ m_dependency_types' = m_dependency_types \cup As(pairs, "TD2")
    BY <1>13 DEF determine_TD2_dependencies, Step, register_dependency, As
  <2>2. TD2' = As(pairs, "TD2")
    BY <2>1 DEF TD2
  <2>3. TD2' \subseteq Registered
    <3>1. \A p \in pairs : p[1] \in Hosts /\ p[2] \in Hosts
      BY <1>7 DEF TD2Dependency
    <3>2. "TD2" \in KnownTypes
      BY DEF KnownTypes, Types
    <3> HIDE DEF pairs
    <3>. QED BY <1>5, <2>2, <3>1, <3>2, AsIsRegistered
  <2> HIDE DEF pairs
  <2>4. m_dependency_types = DD /\ direct = DirectDependencies /\ rr2 \subseteq RR2Dependency(Hosts)
    BY <1>5, <2>1 DEF StageInv
  <2>5. StageInv'
    BY <1>1, <1>6, <1>7, <1>8, <1>9, <1>10, <2>1, <2>2, <2>3, <2>4 DEF StageInv
  <2>. QED BY <1>2, <1>3, <1>4, <2>5 DEF IInv
<1>14. CASE determine_RR2_dependencies
  <2> DEFINE pairs == {<<e.source, e.depends_on>> : e \in RR2Dependencies}
  <2>1. /\ stage = "RR2" /\ stage' = "TD3" /\ direct' = direct /\ td2' = td2 /\ rr2' = RR2Dependencies
        /\ m_dependency_types' = m_dependency_types \cup As(pairs, "RR2")
    BY <1>14 DEF determine_RR2_dependencies, Step, register_dependency, As
  <2>2. RR2' = As(pairs, "RR2")
    BY <2>1 DEF RR2
  <2>3. RR2' \subseteq Registered
    <3>1. \A p \in pairs : p[1] \in Hosts /\ p[2] \in Hosts
      BY <1>7 DEF RR2Dependency
    <3>2. "RR2" \in KnownTypes
      BY DEF KnownTypes, Types
    <3> HIDE DEF pairs
    <3>. QED BY <1>5, <2>2, <3>1, <3>2, AsIsRegistered
  <2> HIDE DEF pairs
  <2>4. /\ m_dependency_types = DD \cup TD2 /\ direct = DirectDependencies /\ td2 = TD2Dependencies
        /\ td2 \subseteq TD2Dependency(Hosts)
    BY <1>5, <2>1 DEF StageInv
  <2>5. StageInv'
    BY <1>1, <1>6, <1>7, <1>8, <1>9, <1>10, <2>1, <2>2, <2>3, <2>4 DEF StageInv
  <2>. QED BY <1>2, <1>3, <1>4, <2>5 DEF IInv
<1>15. CASE determine_TD3_dependencies
  <2>1. /\ stage = "TD3" /\ stage' = "RR3" /\ direct' = direct /\ td2' = td2 /\ rr2' = rr2
        /\ m_dependency_types' = m_dependency_types \cup TD3
    BY <1>15 DEF determine_TD3_dependencies, Step, register_dependency, As, TD3
  <2>2. /\ m_dependency_types = DD \cup TD2 \cup RR2 /\ direct = DirectDependencies
        /\ td2 = TD2Dependencies /\ rr2 = RR2Dependencies
    BY <1>5, <2>1 DEF StageInv
  <2>3. StageInv'
    BY <1>1, <1>6, <1>7, <1>8, <1>9, <1>10, <2>1, <2>2 DEF StageInv
  <2>. QED BY <1>2, <1>3, <1>4, <2>3 DEF IInv
<1>16. CASE determine_RR3_dependencies
  <2>1. /\ stage = "RR3" /\ stage' \in {"write", "calculated"}
        /\ direct' = direct /\ td2' = td2 /\ rr2' = rr2
        /\ m_dependency_types' = m_dependency_types \cup RR3
    BY <1>16 DEF determine_RR3_dependencies, Step, register_dependency, As, RR3
  <2>2. /\ m_dependency_types = DD \cup TD2 \cup RR2 \cup TD3 /\ direct = DirectDependencies
        /\ td2 = TD2Dependencies /\ rr2 = RR2Dependencies
    BY <1>5, <2>1 DEF StageInv
  <2>3. StageInv'
    BY <1>1, <1>6, <1>7, <1>8, <1>9, <1>10, <2>1, <2>2 DEF StageInv
  <2>. QED BY <1>2, <1>3, <1>4, <2>3 DEF IInv
<1>. QED BY <1>11, <1>12, <1>13, <1>14, <1>15, <1>16

-----------------------------------------------------------------------------
(* The result and the CSV file.                                             *)

(* The stages that use timing rules only combine direct dependencies.       *)
LEMMA ResultRestsOnDirect ==
  ASSUME GroupInv, StageInv, stage \in {"write", "calculated"}
  PROVE  RestsOn(m_dependency_types)
<1> DEFINE deps == m_dependency_types
           IsDirect(a, b) == <<a, b>> \in direct
<1>1. /\ deps = DD \cup TD2 \cup RR2 \cup TD3 \cup RR3
      /\ direct = DirectDependencies /\ td2 = TD2Dependencies /\ rr2 = RR2Dependencies
  BY DEF StageInv
<1>2. Hosts \subseteq ValidIPs
  BY HostsAreAllowed
<1>3. \A a, b : IsDirect(a, b) => <<a, b, "DD">> \in deps
  <2> SUFFICES ASSUME NEW a, NEW b, <<a, b>> \in direct PROVE <<a, b, "DD">> \in deps
    OBVIOUS
  <2>1. <<a, b, "DD">> \in DD
    BY DEF DD, As
  <2>. QED BY <1>1, <2>1
<1>4. \A p \in DOMAIN m_ip_dict : Frequent(p) => p \in direct
  BY <1>1 DEF DirectDependencies
<1>5. ASSUME NEW e \in td2
      PROVE  /\ IsDirect(e.source, e.middle) /\ IsDirect(e.middle, e.destination)
             /\ e.middle \in ValidIPs
  <2>1. /\ <<e.source, e.middle>> \in direct /\ Frequent(<<e.middle, e.destination>>)
        /\ e.middle \in Hosts
    BY <1>1 DEF TD2Dependencies, TD2Dependency
  <2>2. <<e.middle, e.destination>> \in direct
    BY <1>4, <2>1 DEF Frequent
  <2>. QED BY <1>2, <2>1, <2>2
<1>6. ASSUME NEW e \in rr2
      PROVE  /\ IsDirect(e.originator, e.depends_on) /\ IsDirect(e.originator, e.source)
             /\ e.originator \in ValidIPs
  <2>1. /\ <<e.originator, e.depends_on>> \in direct /\ Frequent(<<e.originator, e.source>>)
        /\ e.originator \in Hosts
    BY <1>1 DEF RR2Dependencies, RR2Dependency
  <2>2. <<e.originator, e.source>> \in direct
    BY <1>4, <2>1 DEF Frequent
  <2>. QED BY <1>2, <2>1, <2>2
<1>7. ASSUME NEW d \in deps, d[3] \in {"TD2", "TD3"}
      PROVE  \E m \in ValidIPs : <<d[1], m, "DD">> \in deps /\ <<m, d[2], "DD">> \in deps
  <2>1. d \in TD2 \cup TD3
    BY <1>1, <1>7 DEF DD, TD2, RR2, TD3, RR3, As
  <2>2. CASE d \in TD2
    <3>1. PICK e \in td2 : d[1] = e.source /\ d[2] = e.destination
      BY <2>2 DEF TD2, As
    <3>2. /\ IsDirect(e.source, e.middle) /\ IsDirect(e.middle, e.destination)
          /\ e.middle \in ValidIPs
      BY <1>5
    <3>. QED BY <1>3, <3>1, <3>2
  <2>3. CASE d \in TD3
    <3>1. PICK p \in TD3Dependencies : d[1] = p[1] /\ d[2] = p[2]
      BY <2>3 DEF TD3, As
    <3>2. PICK e \in td2 : p[1] = e.source /\ <<e.middle, p[2]>> \in direct
      BY DEF TD3Dependencies
    <3>3. IsDirect(e.source, e.middle) /\ e.middle \in ValidIPs
      BY <1>5
    <3>. QED BY <1>3, <3>1, <3>2, <3>3
  <2>. QED BY <2>1, <2>2, <2>3
<1>8. ASSUME NEW d \in deps, d[3] \in {"RR2", "RR3"}
      PROVE  \E s \in ValidIPs : <<s, d[1], "DD">> \in deps /\ <<s, d[2], "DD">> \in deps
  <2>1. d \in RR2 \cup RR3
    BY <1>1, <1>8 DEF DD, TD2, RR2, TD3, RR3, As
  <2>2. CASE d \in RR2
    <3>1. PICK e \in rr2 : d[1] = e.source /\ d[2] = e.depends_on
      BY <2>2 DEF RR2, As
    <3>2. /\ IsDirect(e.originator, e.depends_on) /\ IsDirect(e.originator, e.source)
          /\ e.originator \in ValidIPs
      BY <1>6
    <3>. QED BY <1>3, <3>1, <3>2
  <2>3. CASE d \in RR3
    <3>1. PICK p \in RR3Dependencies : d[1] = p[1] /\ d[2] = p[2]
      BY <2>3 DEF RR3, As
    <3>2. PICK e \in rr2 : p[2] = e.depends_on /\ <<e.originator, p[1]>> \in direct
      BY DEF RR3Dependencies
    <3>3. IsDirect(e.originator, e.depends_on) /\ e.originator \in ValidIPs
      BY <1>6
    <3>. QED BY <1>3, <3>1, <3>2, <3>3
  <2>. QED BY <2>1, <2>2, <2>3
<1> HIDE DEF deps
<1>. QED BY <1>7, <1>8 DEF RestsOn, deps

(* What a registered dependency looks like in the file, and what is read    *)
(* back from there.                                                         *)
LEMMA RowRoundTrip ==
  ASSUME NEW d \in Registered
  PROVE  /\ RowOf(d) \in Row /\ ValidRow(RowOf(d)) /\ RowOf(d).token \in KnownTypes
         /\ <<RowOf(d).src, RowOf(d).dst, parse_dependency_type(RowOf(d).token)>> = d
<1>1. d = <<d[1], d[2], d[3]>> /\ d[1] \in ValidIPs /\ d[2] \in ValidIPs /\ d[3] \in KnownTypes
  BY DEF Registered
<1>2. RowOf(d).src = d[1] /\ RowOf(d).dst = d[2] /\ RowOf(d).token = d[3]
  BY DEF RowOf
<1>3. RowOf(d) \in Row
  BY <1>1, AddressAssumption DEF RowOf, Row
<1>. QED BY <1>1, <1>2, <1>3 DEF ValidRow, parse_dependency_type

(* A torn line has no known type.                                           *)
LEMMA TornRows ==
  ASSUME NEW d \in Registered, NEW r \in Torn(d)
  PROVE  r \in Row /\ r.token = "other"
<1>1. d[1] \in ValidIPs /\ d[2] \in ValidIPs /\ Prefixes[d[2]] \subseteq ValidIPs
  BY InputAssumption DEF Registered
<1>2. PICK ip \in {None, d[2]} \cup Prefixes[d[2]] : r = [RowOf(d) EXCEPT !.dst = ip, !.token = "other"]
  BY DEF Torn
<1>3. r = [src |-> d[1], dst |-> ip, token |-> "other"]
  BY <1>2 DEF RowOf
<1>4. ip \in ValidIPs \cup {None}
  BY <1>1
<1>. QED BY <1>1, <1>3, <1>4, AddressAssumption DEF Row

(* A cut file begins with the direct dependencies: as soon as a whole line  *)
(* of another type stands in it, all of them do.                            *)
LEMMA CutRows ==
  ASSUME NEW deps \in SUBSET Registered, NEW rows \in Cuts(deps)
  PROVE  /\ rows \subseteq Row
         /\ \A r \in rows : r.token = "other" \/ \E d \in deps : r = RowOf(d)
         /\ (\E r \in rows : r.token \notin {"other", "DD"}) =>
              \A d \in deps : d[3] = "DD" => RowOf(d) \in rows
<1> DEFINE Listed(j) == {d \in deps : d[3] = Types[j]}
           Earlier(i) == {RowOf(d) : d \in UNION {Listed(j) : j \in 1 .. i - 1}}
<1>1. DOMAIN Types = 1 .. 5 /\ Types[1] = "DD"
  BY DEF Types
<1> DEFINE Parts(i) == SUBSET Listed(i)
           Lasts(i) == {{}} \cup {{r} : r \in UNION {Torn(d) : d \in Listed(i)}}
           Whole(part) == {RowOf(d) : d \in part}
           CutsAt(i) == {Earlier(i) \cup Whole(part) \cup last : part \in Parts(i), last \in Lasts(i)}
<1> PICK i \in 1 .. 5, part \in SUBSET deps :
        \E last : /\ part \in Parts(i) /\ last \in Lasts(i)
                  /\ rows = Earlier(i) \cup Whole(part) \cup last
  <2>1. Cuts(deps) = UNION {CutsAt(i) : i \in DOMAIN Types}
    BY DEF Cuts
  <2>2. \A i : Parts(i) \subseteq SUBSET deps
    OBVIOUS
  <2> HIDE DEF CutsAt
  <2>3. PICK i \in 1 .. 5 : rows \in CutsAt(i)
    BY <1>1, <2>1
  <2> USE DEF CutsAt
  <2> HIDE DEF Earlier, Parts, Lasts, Whole
  <2>. QED BY <2>2, <2>3
<1>2. PICK last : /\ part \in Parts(i) /\ last \in Lasts(i)
                  /\ rows = Earlier(i) \cup Whole(part) \cup last
  OBVIOUS
<1>3. \A r \in last : r \in Row /\ r.token = "other"
  <2> SUFFICES ASSUME NEW r \in last PROVE r \in Row /\ r.token = "other"
    OBVIOUS
  <2>1. PICK d \in deps : r \in Torn(d)
    BY <1>2
  <2>. QED BY <2>1, TornRows
<1>4. \A r \in Earlier(i) \cup Whole(part) : \E d \in deps : r = RowOf(d)
  OBVIOUS
<1>5. \A d \in deps : RowOf(d) \in Row /\ RowOf(d).token = d[3]
  BY RowRoundTrip DEF RowOf
<1>6. i > 1 => \A d \in deps : d[3] = "DD" => RowOf(d) \in rows
  <2> SUFFICES ASSUME i > 1, NEW d \in deps, d[3] = "DD" PROVE RowOf(d) \in rows
    OBVIOUS
  <2>1. 1 \in 1 .. i - 1 /\ d \in Listed(1)
    BY <1>1
  <2>2. RowOf(d) \in Earlier(i)
    BY <2>1
  <2>. QED BY <1>2, <2>2
<1>7. i = 1 => \A r \in rows : r.token \in {"other", "DD"}
  <2> SUFFICES ASSUME i = 1, NEW r \in rows PROVE r.token \in {"other", "DD"}
    OBVIOUS
  <2>1. Earlier(i) = {}
    OBVIOUS
  <2>2. CASE r \in last
    BY <1>3, <2>2
  <2>3. CASE r \in Whole(part)
    <3>1. PICK d \in Listed(1) : r = RowOf(d)
      BY <1>2, <2>3
    <3>. QED BY <1>1, <1>5, <3>1
  <2> HIDE DEF Earlier
  <2>. QED BY <1>2, <2>1, <2>2, <2>3
<1>8. rows \subseteq Row /\ \A r \in rows : r.token = "other" \/ \E d \in deps : r = RowOf(d)
  <2> HIDE DEF Earlier
  <2>. QED BY <1>2, <1>3, <1>4, <1>5
<1>9. i = 1 \/ i > 1
  OBVIOUS
<1>. QED BY <1>6, <1>7, <1>8, <1>9

(* What a load makes of a cut file.                                         *)
LEMMA LoadedFromCut ==
  ASSUME NEW deps \in SUBSET Registered, RestsOn(deps), NEW rows \in Cuts(deps)
  PROVE  /\ {d \in Loaded(rows) : d[3] # "Unknown"} \subseteq deps
         /\ RestsOn(Loaded(rows))
<1> DEFINE loaded == Loaded(rows)
<1>1. ASSUME NEW d \in loaded, d[3] # "Unknown"
      PROVE  d \in deps /\ RowOf(d) \in rows
  <2>1. PICK r \in rows : ValidRow(r) /\ d = <<r.src, r.dst, parse_dependency_type(r.token)>>
    BY DEF Loaded
  <2>2. r.token \in KnownTypes
    BY <1>1, <2>1 DEF parse_dependency_type
  <2>3. r.token # "other"
    BY <2>2 DEF KnownTypes, Types
  <2>4. PICK d2 \in deps : r = RowOf(d2)
    BY <2>3, CutRows
  <2>5. d = d2
    BY <2>1, <2>4, RowRoundTrip
  <2>. QED BY <2>4, <2>5
<1>2. ASSUME NEW d \in loaded, d[3] \in {"TD2", "TD3", "RR2", "RR3"}
      PROVE  d \in deps /\ \A e \in deps : e[3] = "DD" => e \in loaded
  <2>1. d \in deps /\ RowOf(d) \in rows
    BY <1>1, <1>2
  <2>2. RowOf(d).token \notin {"other", "DD"}
    BY <1>2 DEF RowOf
  <2>3. ASSUME NEW e \in deps, e[3] = "DD" PROVE e \in loaded
    <3>1. RowOf(e) \in rows
      BY <2>1, <2>2, <2>3, CutRows
    <3>2. ValidRow(RowOf(e)) /\ <<RowOf(e).src, RowOf(e).dst, parse_dependency_type(RowOf(e).token)>> = e
      BY RowRoundTrip
    <3>3. \A r \in rows : ValidRow(r) => <<r.src, r.dst, parse_dependency_type(r.token)>> \in loaded
      BY DEF Loaded
    <3>. QED BY <3>1, <3>2, <3>3
  <2>. QED BY <2>1, <2>3
<1> HIDE DEF loaded
<1>3. RestsOn(loaded)
  <2>1. ASSUME NEW d \in loaded, d[3] \in {"TD2", "TD3"}
        PROVE  \E m \in ValidIPs : <<d[1], m, "DD">> \in loaded /\ <<m, d[2], "DD">> \in loaded
    <3>1. d \in deps
      BY <1>2, <2>1
    <3>2. PICK m \in ValidIPs : <<d[1], m, "DD">> \in deps /\ <<m, d[2], "DD">> \in deps
      BY <2>1, <3>1 DEF RestsOn
    <3>3. \A a, b : <<a, b, "DD">> \in deps => <<a, b, "DD">> \in loaded
      BY <1>2, <2>1
    <3>. QED BY <3>2, <3>3
  <2>2. ASSUME NEW d \in loaded, d[3] \in {"RR2", "RR3"}
        PROVE  \E s \in ValidIPs : <<s, d[1], "DD">> \in loaded /\ <<s, d[2], "DD">> \in loaded
    <3>1. d \in deps
      BY <1>2, <2>2
    <3>2. PICK s \in ValidIPs : <<s, d[1], "DD">> \in deps /\ <<s, d[2], "DD">> \in deps
      BY <2>2, <3>1 DEF RestsOn
    <3>3. \A a, b : <<a, b, "DD">> \in deps => <<a, b, "DD">> \in loaded
      BY <1>2, <2>2
    <3>. QED BY <3>2, <3>3
  <2>. QED BY <2>1, <2>2 DEF RestsOn
<1>. QED BY <1>1, <1>3 DEF loaded

(* What a load makes of a whole file.                                       *)
LEMMA LoadedFromWhole ==
  ASSUME NEW deps \in SUBSET Registered
  PROVE  Loaded({RowOf(d) : d \in deps}) = deps
<1> DEFINE rows == {RowOf(d) : d \in deps}
           Read(r) == <<r.src, r.dst, parse_dependency_type(r.token)>>
<1>1. \A d \in deps : RowOf(d) \in rows /\ ValidRow(RowOf(d)) /\ Read(RowOf(d)) = d
  BY RowRoundTrip
<1>2. \A r \in rows : \E d \in deps : r = RowOf(d)
  OBVIOUS
<1>3. Loaded(rows) = {Read(r) : r \in {x \in rows : ValidRow(x)}}
  BY DEF Loaded
<1> HIDE DEF rows, Read
<1>4. \A d \in deps : d \in Loaded(rows)
  BY <1>1, <1>3
<1>5. \A d \in Loaded(rows) : d \in deps
  BY <1>1, <1>2, <1>3
<1>. QED BY <1>4, <1>5 DEF rows

(* The output is written, whole or in part, or not at all.                  *)
LEMMA WriteKeepsIInv ==
  ASSUME IInv, WriteOutput \/ WriteCut \/ WriteFails
  PROVE  IInv'
<1>1. /\ stage = "write" /\ stage' \in {"calculated", "failed"}
      /\ UNCHANGED <<file, output, m_ip_dict, direct, td2, rr2, m_dependency_types, calculations>>
  BY DEF WriteOutput, WriteCut, WriteFails, OpenOutput, analyzerVars
<1>2. InputInv'
  BY <1>1 DEF IInv, InputInv
<1>3. GroupInv'
  <2>1. IsGrouping(m_ip_dict, file)
    BY <1>1 DEF IInv, GroupInv
  <2>2. IsGrouping(m_ip_dict', file')
    BY <1>1, <2>1
  <2>. QED BY <2>2 DEF GroupInv, IsGrouping
<1>4. GroupInv /\ StageInv /\ CsvInv
  BY DEF IInv
<1>5. StageInv'
  <2>1. /\ Hosts' = Hosts /\ DirectDependencies' = DirectDependencies
        /\ TD2Dependencies' = TD2Dependencies /\ RR2Dependencies' = RR2Dependencies
        /\ TD3Dependencies' = TD3Dependencies /\ RR3Dependencies' = RR3Dependencies
    BY <1>1, SameResults
  <2>2. DD' = DD /\ TD2' = TD2 /\ RR2' = RR2 /\ TD3' = TD3 /\ RR3' = RR3
    BY <1>1, <2>1 DEF DD, TD2, RR2, TD3, RR3
  <2>3. TD2Dependency(Hosts)' = TD2Dependency(Hosts) /\ RR2Dependency(Hosts)' = RR2Dependency(Hosts)
    BY <2>1 DEF TD2Dependency, RR2Dependency
  <2>. QED BY <1>1, <1>4, <2>1, <2>2, <2>3 DEF StageInv
<1>6. CsvInv'
  <2>1. CASE WriteFails
    <3>1. UNCHANGED diskVars /\ stage' # "loaded"
      BY <1>1, <2>1 DEF WriteFails
    <3>. QED BY <1>4, <3>1, SameDisk
  <2>2. CASE WriteOutput \/ WriteCut
    <3> DEFINE deps == m_dependency_types
    <3>1. deps \in SUBSET Registered /\ RestsOn(deps)
      BY <1>1, <1>4, ResultRestsOnDirect DEF StageInv
    <3>2. calculated' = deps
      BY <2>2 DEF WriteOutput, WriteCut, OpenOutput
    <3> HIDE DEF deps
    <3>3. CASE WriteOutput
      <4>1. csv'.origin = "written" /\ csv'.rows = {RowOf(d) : d \in deps}
        BY <3>3 DEF WriteOutput, deps
      <4>2. csv'.rows \subseteq Row
        BY <3>1, <4>1, RowRoundTrip
      <4>. QED BY <1>1, <3>1, <3>2, <4>1, <4>2 DEF CsvInv
    <3>4. CASE WriteCut
      <4>1. csv'.origin = "cut" /\ csv'.rows \in Cuts(deps)
        BY <3>4 DEF WriteCut, deps
      <4>2. csv'.rows \subseteq Row
        BY <3>1, <4>1, CutRows
      <4>. QED BY <1>1, <3>1, <3>2, <4>1, <4>2 DEF CsvInv
    <3>. QED BY <2>2, <3>3, <3>4
  <2>. QED BY <2>1, <2>2
<1>. QED BY <1>2, <1>3, <1>5, <1>6 DEF IInv

(* A process loads what is in the file.                                     *)
LEMMA LoadKeepsIInv ==
  ASSUME IInv, load_dependencies
  PROVE  IInv'
<1>1. /\ stage = "idle" /\ stage' = "loaded" /\ m_ip_dict' = NoFlows
      /\ m_dependency_types' = Loaded(csv.rows)
      /\ UNCHANGED <<file, output, direct, td2, rr2, diskVars, calculations>>
  BY DEF load_dependencies, Loaded
<1>2. InputInv'
  BY <1>1 DEF IInv, InputInv
<1>3. file = << >> /\ direct = {} /\ td2 = {} /\ rr2 = {}
  BY <1>1 DEF IInv, InputInv, StageInv
<1>4. DOMAIN m_ip_dict' = {} /\ DOMAIN file' = {}
  BY <1>1, <1>3 DEF NoFlows
<1>5. GroupInv'
  BY <1>4 DEF GroupInv, IsGrouping, EvidenceIn
<1>6. StageInv'
  BY <1>1, <1>3 DEF StageInv
<1>7. CsvInv'
  BY <1>1 DEF IInv, CsvInv, diskVars
<1>. QED BY <1>2, <1>5, <1>6, <1>7 DEF IInv

(* The invariant holds in every state of every process.                     *)
THEOREM Invariance == Spec => []IInv
<1>1. IInv /\ [Next]_vars => IInv'
  <2> SUFFICES ASSUME IInv, [Next]_vars PROVE IInv'
    OBVIOUS
  <2>1. CASE UNCHANGED vars
    <3>1. UNCHANGED <<stage, file, output, m_ip_dict, direct, td2, rr2, m_dependency_types,
                      csv, calculated, calculations>>
      BY <2>1 DEF vars, analyzerVars, diskVars
    <3>2. InputInv'
      BY <3>1 DEF IInv, InputInv
    <3>3. GroupInv'
      <4>1. IsGrouping(m_ip_dict, file) = IsGrouping(m_ip_dict', file')
        BY <3>1
      <4>. QED BY <3>1, <4>1 DEF IInv, GroupInv, IsGrouping
    <3>4. StageInv'
      <4>1. /\ Hosts' = Hosts /\ DirectDependencies' = DirectDependencies
            /\ TD2Dependencies' = TD2Dependencies /\ RR2Dependencies' = RR2Dependencies
            /\ TD3Dependencies' = TD3Dependencies /\ RR3Dependencies' = RR3Dependencies
        BY <3>1, SameResults
      <4>2. DD' = DD /\ TD2' = TD2 /\ RR2' = RR2 /\ TD3' = TD3 /\ RR3' = RR3
        BY <3>1, <4>1 DEF DD, TD2, RR2, TD3, RR3
      <4>3. TD2Dependency(Hosts)' = TD2Dependency(Hosts) /\ RR2Dependency(Hosts)' = RR2Dependency(Hosts)
        BY <4>1 DEF TD2Dependency, RR2Dependency
      <4>. QED BY <3>1, <4>1, <4>2, <4>3 DEF IInv, StageInv
    <3>5. CsvInv'
      BY <3>1 DEF IInv, CsvInv
    <3>. QED BY <3>2, <3>3, <3>4, <3>5 DEF IInv
  <2>2. CASE Next
    BY <2>2, NewProcessKeepsIInv, BeginKeepsIInv, ParseKeepsIInv, StageKeepsIInv, WriteKeepsIInv,
       LoadKeepsIInv DEF Next
  <2>. QED BY <2>1, <2>2
<1>. QED BY InitEstablishesIInv, <1>1, PTL DEF Spec

(* The state stays well typed.                                              *)
THEOREM TypeCorrectness == Spec => []TypeOK
<1>1. IInv => TypeOK
  <2> SUFFICES ASSUME IInv PROVE TypeOK
    OBVIOUS
  <2>1. InputInv /\ GroupInv /\ StageInv /\ CsvInv
    BY DEF IInv
  <2>2. Registered \subseteq Dependency /\ ValidIPs \subseteq Nat
    BY AddressAssumption DEF Registered, Dependency
  <2>3. /\ m_dependency_types \subseteq Dependency
        /\ \A d \in m_dependency_types : d[1] \in ValidIPs /\ d[2] \in ValidIPs
    <3>1. CASE stage # "loaded"
      BY <2>1, <2>2, <3>1 DEF StageInv, Registered
    <3>2. CASE stage = "loaded"
      <4>1. m_dependency_types = Loaded(csv.rows) /\ csv.rows \subseteq Row
        BY <2>1, <3>2 DEF CsvInv
      <4>2. ASSUME NEW d \in m_dependency_types
            PROVE  d \in Dependency /\ d[1] \in ValidIPs /\ d[2] \in ValidIPs
        <5>1. PICK r \in csv.rows : ValidRow(r) /\ d = <<r.src, r.dst, parse_dependency_type(r.token)>>
          BY <4>1 DEF Loaded
        <5>2. parse_dependency_type(r.token) \in KnownTypes \cup {"Unknown"}
          BY DEF parse_dependency_type
        <5>. QED BY <2>2, <5>1, <5>2 DEF ValidRow, Dependency
      <4>. QED BY <4>2
    <3>. QED BY <3>1, <3>2
  <2>4. get_dependencies \subseteq ValidIPs \X ValidIPs
    BY <2>3 DEF get_dependencies
  <2>5. ASSUME NEW p \in DOMAIN m_ip_dict
        PROVE  /\ check_allowed(p[1]) /\ check_allowed(p[2])
               /\ m_ip_dict[p] # << >>
               /\ \A i \in DOMAIN m_ip_dict[p] :
                    m_ip_dict[p][i] \in [fwd : Interval, rev : Interval \cup {None}]
    <3>1. p \in IPs \X IPs /\ m_ip_dict[p] \in Seq(EdgeType) /\ m_ip_dict[p] # << >>
      BY <2>1 DEF GroupInv
    <3>2. \A i \in DOMAIN m_ip_dict[p] : m_ip_dict[p][i] \in EdgeType
      BY <3>1
    <3>3. \A ip \in IPs : check_allowed(ip)
      BY DEF IPs
    <3>. QED BY <3>1, <3>2, <3>3 DEF EdgeType
  <2>6. /\ stage \in {"idle", "parse", "write", "calculated", "loaded", "failed"} \cup KnownTypes
        /\ file \in Seq(FlowLines) /\ Len(file) <= MaxFlows
        /\ output \in BOOLEAN
        /\ calculations \in 0 .. MaxCalculations
    BY <2>1 DEF InputInv
  <2>7. /\ direct \subseteq DOMAIN m_ip_dict
        /\ td2 \subseteq TD2Dependency(Hosts) /\ rr2 \subseteq RR2Dependency(Hosts)
    BY <2>1 DEF StageInv
  <2>8. /\ csv.origin \in {"missing", "supplied", "written", "cut"} /\ csv.rows \subseteq Row
        /\ calculated \subseteq Dependency
    BY <2>1, <2>2 DEF CsvInv
  <2>. QED BY <2>3, <2>4, <2>5, <2>6, <2>7, <2>8 DEF TypeOK
<1>. QED BY Invariance, <1>1, PTL

(* What a process loads was calculated by the one that wrote the file.      *)
THEOREM LoadedIsGenuine == Spec => []LoadedWasCalculated
<1>1. IInv => LoadedWasCalculated
  <2> SUFFICES ASSUME IInv, stage = "loaded"
               PROVE  /\ csv.origin = "written" => m_dependency_types = calculated
                      /\ csv.origin = "cut" =>
                           {d \in m_dependency_types : d[3] # "Unknown"} \subseteq calculated
    BY DEF LoadedWasCalculated
  <2>1. /\ calculated \in SUBSET Registered /\ RestsOn(calculated)
        /\ m_dependency_types = Loaded(csv.rows)
        /\ csv.origin = "written" => csv.rows = {RowOf(d) : d \in calculated}
        /\ csv.origin = "cut" => csv.rows \in Cuts(calculated)
    BY DEF IInv, CsvInv
  <2>. QED BY <2>1, LoadedFromWhole, LoadedFromCut
<1>. QED BY Invariance, <1>1, PTL

(* Every dependency of a timing rule rests on direct ones, also in what is  *)
(* left of an output that was cut off anywhere.                             *)
THEOREM DirectUnderneath == Spec => []RestsOnDirect
<1>1. ASSUME RestsOn(m_dependency_types)
      PROVE  /\ \A p \in OfType("TD2") \cup OfType("TD3") :
                  \E m \in ValidIPs : {<<p[1], m>>, <<m, p[2]>>} \subseteq OfType("DD")
             /\ \A p \in OfType("RR2") \cup OfType("RR3") :
                  \E s \in ValidIPs : {<<s, p[1]>>, <<s, p[2]>>} \subseteq OfType("DD")
  <2>1. \A a, b : <<a, b, "DD">> \in m_dependency_types => <<a, b>> \in OfType("DD")
    BY DEF OfType, get_dependencies
  <2>2. ASSUME NEW p \in OfType("TD2") \cup OfType("TD3")
        PROVE  \E m \in ValidIPs : {<<p[1], m>>, <<m, p[2]>>} \subseteq OfType("DD")
    <3>1. PICK t \in {"TD2", "TD3"} : <<p[1], p[2], t>> \in m_dependency_types
      BY DEF OfType
    <3>2. PICK m \in ValidIPs : /\ <<p[1], m, "DD">> \in m_dependency_types
                                /\ <<m, p[2], "DD">> \in m_dependency_types
      BY <1>1, <3>1 DEF RestsOn
    <3>. QED BY <2>1, <3>2
  <2>3. ASSUME NEW p \in OfType("RR2") \cup OfType("RR3")
        PROVE  \E s \in ValidIPs : {<<s, p[1]>>, <<s, p[2]>>} \subseteq OfType("DD")
    <3>1. PICK t \in {"RR2", "RR3"} : <<p[1], p[2], t>> \in m_dependency_types
      BY DEF OfType
    <3>2. PICK s \in ValidIPs : /\ <<s, p[1], "DD">> \in m_dependency_types
                                /\ <<s, p[2], "DD">> \in m_dependency_types
      BY <1>1, <3>1 DEF RestsOn
    <3>. QED BY <2>1, <3>2
  <2>. QED BY <2>2, <2>3
<1>2. ASSUME IInv, \/ stage = "calculated"
                   \/ stage = "loaded" /\ csv.origin \in {"written", "cut"}
      PROVE  RestsOn(m_dependency_types)
  <2>1. CASE stage = "calculated"
    BY <1>2, <2>1, ResultRestsOnDirect DEF IInv
  <2>2. CASE stage = "loaded" /\ csv.origin \in {"written", "cut"}
    <3>1. /\ calculated \in SUBSET Registered /\ RestsOn(calculated)
          /\ m_dependency_types = Loaded(csv.rows)
          /\ csv.origin = "written" => csv.rows = {RowOf(d) : d \in calculated}
          /\ csv.origin = "cut" => csv.rows \in Cuts(calculated)
      BY <1>2, <2>2 DEF IInv, CsvInv
    <3>. QED BY <2>2, <3>1, LoadedFromWhole, LoadedFromCut
  <2>. QED BY <1>2, <2>1, <2>2
<1>3. IInv => RestsOnDirect
  BY <1>1, <1>2 DEF RestsOnDirect
<1>. QED BY Invariance, <1>3, PTL

-----------------------------------------------------------------------------
(* What the flows show.                                                     *)

(* The flows of a pair are as many as the file has.                         *)
LEMMA GroupsAreEvidence ==
  ASSUME GroupInv, stage # "failed", NEW a \in IPs, NEW b \in IPs
  PROVE  /\ <<a, b>> \in DOMAIN m_ip_dict => IsGroup(m_ip_dict[<<a, b>>], file, Evidence(a, b))
         /\ <<a, b>> \notin DOMAIN m_ip_dict => Evidence(a, b) = {}
         /\ <<a, b>> \in DOMAIN m_ip_dict => m_ip_dict[<<a, b>>] \in Seq(EdgeType)
  BY EvidenceIsIn DEF GroupInv, IsGrouping

(* Nothing happens often that never happens.                                *)
LEMMA NeverIsNotOften == ~Often({})
  BY ConfigAssumption, FS_EmptySet DEF Often

(* A pair is frequent when its evidence is.                                 *)
LEMMA FrequentIsDirect ==
  ASSUME GroupInv, stage # "failed", NEW a \in IPs, NEW b \in IPs
  PROVE  Frequent(<<a, b>>) <=> Direct(a, b)
<1> DEFINE p == <<a, b>>
           edges == m_ip_dict[p]
           n == Len(edges)
<1>1. CASE p \notin DOMAIN m_ip_dict
  <2>1. Evidence(a, b) = {}
    BY <1>1, GroupsAreEvidence
  <2>. QED BY <1>1, <2>1, NeverIsNotOften DEF Frequent, Direct
<1>2. CASE p \in DOMAIN m_ip_dict
  <2>1. edges \in Seq(EdgeType)
    BY <1>2, GroupsAreEvidence
  <2>2. PICK h \in Bijection(1 .. n, Evidence(a, b)) : TRUE
    BY <1>2, GroupsAreEvidence DEF IsGroup
  <2>3. n \in Nat
    BY <2>1
  <2> HIDE DEF n
  <2>4. 1 \in Int /\ n \in Int
    BY <2>3
  <2>5. IsFiniteSet(1 .. n) /\ Cardinality(1 .. n) = IF 1 > n THEN 0 ELSE n - 1 + 1
    BY <2>4, FS_Interval
  <2>6. h \in Surjection(1 .. n, Evidence(a, b)) /\ h \in Injection(1 .. n, Evidence(a, b))
    BY DEF Bijection
  <2>7. Cardinality(Evidence(a, b)) = Cardinality(1 .. n)
    BY <2>5, <2>6, FS_Surjection
  <2>8. Cardinality(Evidence(a, b)) = n
    BY <2>3, <2>5, <2>7
  <2>. QED BY <1>2, <2>8 DEF Frequent, Direct, Often, meets_occurrence_threshold, n
<1>. QED BY <1>1, <1>2

DuringPairs(E1, E2) == {p \in E1 \X E2 : During(p[1], p[2])}
SoonAfterPairs(E1, E2) == {p \in E1 \X E2 : SoonAfter(p[1], p[2])}

(* Pairs of linked flows are as many in two groups as in the evidence the    *)
(* groups were made from.                                                   *)
LEMMA LinksOfGroups ==
  ASSUME NEW outer \in Seq(EdgeType), NEW inner \in Seq(EdgeType), NEW E1, NEW E2,
         IsGroup(outer, file, E1), IsGroup(inner, file, E2)
  PROVE  /\ IsFiniteSet(DOMAIN outer) /\ IsFiniteSet(DOMAIN inner)
         /\ Cardinality(LR(outer, inner)) = Cardinality(DuringPairs(E1, E2))
         /\ Cardinality(RR(outer, inner)) = Cardinality(SoonAfterPairs(E1, E2))
<1> PICK h1 \in Bijection(1 .. Len(outer), E1) : \A i \in 1 .. Len(outer) : outer[i] = Edge(file[h1[i]])
  BY DEF IsGroup
<1> PICK h2 \in Bijection(1 .. Len(inner), E2) : \A i \in 1 .. Len(inner) : inner[i] = Edge(file[h2[i]])
  BY DEF IsGroup
<1> DEFINE Q == DuringPairs(E1, E2)
           W == SoonAfterPairs(E1, E2)
           S1 == 1 .. Len(outer)
           S2 == 1 .. Len(inner)
<1>1. Len(outer) \in Nat /\ Len(inner) \in Nat /\ DOMAIN outer = S1 /\ DOMAIN inner = S2
  OBVIOUS
<1>2. (\A i \in S1 : h1[i] \in E1) /\ (\A i \in S2 : h2[i] \in E2)
  BY DEF Bijection, Injection
<1>3. /\ \A i \in S1 : outer[i].fwd = file[h1[i]].fwd /\ outer[i].rev = file[h1[i]].rev
      /\ \A i \in S2 : inner[i].fwd = file[h2[i]].fwd /\ inner[i].rev = file[h2[i]].rev
  <2>1. \A l : Edge(l).fwd = l.fwd /\ Edge(l).rev = l.rev
    BY DEF Edge
  <2>. QED BY <2>1
<1>4. /\ \A i \in S1 : /\ outer[i].fwd.start \in Int /\ outer[i].fwd.end \in Int
                       /\ outer[i].rev # None => outer[i].rev.start \in Int /\ outer[i].rev.end \in Int
      /\ \A i \in S2 : /\ inner[i].fwd.start \in Int /\ inner[i].fwd.end \in Int
                       /\ inner[i].rev # None => inner[i].rev.start \in Int /\ inner[i].rev.end \in Int
  <2>1. \A e \in EdgeType : /\ e.fwd.start \in Int /\ e.fwd.end \in Int
                            /\ e.rev # None => e.rev.start \in Int /\ e.rev.end \in Int
    BY DEF EdgeType, Interval
  <2>2. (\A i \in S1 : outer[i] \in EdgeType) /\ (\A i \in S2 : inner[i] \in EdgeType)
    OBVIOUS
  <2>. QED BY <2>1, <2>2
<1>5. IsFiniteSet(S1) /\ IsFiniteSet(S2)
  <2>1. 1 \in Int /\ Len(outer) \in Int /\ Len(inner) \in Int
    BY <1>1
  <2>. QED BY <2>1, FS_Interval
<1>6. h1 \in Bijection(S1, E1) /\ h2 \in Bijection(S2, E2)
  OBVIOUS
<1> HIDE DEF S1, S2
<1>7. \A i \in S1, j \in S2 : <<i, j>> \in LR(outer, inner) <=> <<h1[i], h2[j]>> \in Q
  BY <1>1, <1>2, <1>3 DEF LR, Within, During, Answered, DuringPairs
<1>8. \A i \in S1, j \in S2 : <<i, j>> \in RR(outer, inner) <=> <<h1[i], h2[j]>> \in W
  <2> SUFFICES ASSUME NEW i \in S1, NEW j \in S2
               PROVE  <<i, j>> \in RR(outer, inner) <=> <<h1[i], h2[j]>> \in W
    OBVIOUS
  <2>1. <<i, j>> \in RR(outer, inner) <=>
          /\ outer[i].rev # None /\ inner[j].rev # None
          /\ outer[i].fwd.start <= outer[i].rev.start
          /\ outer[i].rev.end <= inner[j].fwd.start
          /\ inner[j].fwd.start <= inner[j].rev.start
          /\ inner[j].fwd.start - outer[i].rev.end <= Epsilon
    BY <1>1 DEF RR
  <2>2. <<h1[i], h2[j]>> \in W <=>
          /\ outer[i].rev # None /\ inner[j].rev # None
          /\ outer[i].fwd.start <= outer[i].rev.start
          /\ inner[j].fwd.start <= inner[j].rev.start
          /\ inner[j].fwd.start - outer[i].rev.end \in 0 .. Epsilon
    BY <1>2, <1>3 DEF SoonAfter, Answered, SoonAfterPairs
  <2>3. outer[i].rev # None /\ inner[j].rev # None =>
          (inner[j].fwd.start - outer[i].rev.end \in 0 .. Epsilon <=>
             /\ outer[i].rev.end <= inner[j].fwd.start
             /\ inner[j].fwd.start - outer[i].rev.end <= Epsilon)
    <3>1. \A x, y \in Int : y - x \in 0 .. Epsilon <=> x <= y /\ y - x <= Epsilon
      BY ConfigAssumption
    <3>2. inner[j].fwd.start \in Int
      BY <1>4
    <3>3. outer[i].rev # None => outer[i].rev.end \in Int
      BY <1>4
    <3>. QED BY <3>1, <3>2, <3>3
  <2>. QED BY <2>1, <2>2, <2>3
<1>9. /\ LR(outer, inner) \in SUBSET (S1 \X S2) /\ RR(outer, inner) \in SUBSET (S1 \X S2)
      /\ Q \in SUBSET (E1 \X E2) /\ W \in SUBSET (E1 \X E2)
  BY <1>1 DEF LR, RR, DuringPairs, SoonAfterPairs
<1> HIDE DEF Q, W
<1>10. Cardinality(LR(outer, inner)) = Cardinality(Q)
  BY <1>5, <1>6, <1>7, <1>9, SameNumberOfPairs
<1>11. Cardinality(RR(outer, inner)) = Cardinality(W)
  BY <1>5, <1>6, <1>8, <1>9, SameNumberOfPairs
<1>. QED BY <1>1, <1>5, <1>10, <1>11 DEF Q, W

(* The links between the flows of two pairs are those of the file.          *)
LEMMA LinksAreEvidence ==
  ASSUME GroupInv, stage # "failed",
         NEW a \in IPs, NEW b \in IPs, NEW c \in IPs, NEW d \in IPs,
         <<a, b>> \in DOMAIN m_ip_dict, <<c, d>> \in DOMAIN m_ip_dict
  PROVE  /\ Total(count_appearances_of_LR_dependency, m_ip_dict[<<a, b>>], m_ip_dict[<<c, d>>])
              = Cardinality(DuringPairs(Evidence(a, b), Evidence(c, d)))
         /\ Total(count_appearances_of_RR_dependency, m_ip_dict[<<a, b>>], m_ip_dict[<<c, d>>])
              = Cardinality(SoonAfterPairs(Evidence(a, b), Evidence(c, d)))
<1>1. PICK E1 : E1 = Evidence(a, b)
  OBVIOUS
<1>2. PICK E2 : E2 = Evidence(c, d)
  OBVIOUS
<1>3. PICK outer : outer = m_ip_dict[<<a, b>>]
  OBVIOUS
<1>4. PICK inner : inner = m_ip_dict[<<c, d>>]
  OBVIOUS
<1>5. outer \in Seq(EdgeType) /\ inner \in Seq(EdgeType)
  BY <1>3, <1>4, GroupsAreEvidence
<1>6. IsGroup(outer, file, E1) /\ IsGroup(inner, file, E2)
  BY <1>1, <1>2, <1>3, <1>4, GroupsAreEvidence
<1>7. /\ IsFiniteSet(DOMAIN outer) /\ IsFiniteSet(DOMAIN inner)
      /\ Cardinality(LR(outer, inner)) = Cardinality(DuringPairs(E1, E2))
      /\ Cardinality(RR(outer, inner)) = Cardinality(SoonAfterPairs(E1, E2))
  BY <1>5, <1>6, LinksOfGroups
<1>8. /\ Total(count_appearances_of_LR_dependency, outer, inner) = Cardinality(LR(outer, inner))
      /\ Total(count_appearances_of_RR_dependency, outer, inner) = Cardinality(RR(outer, inner))
  BY <1>7, TotalLR, TotalRR
<1>. QED BY <1>1, <1>2, <1>3, <1>4, <1>7, <1>8

(* Two pairs are linked by nesting when their evidence is, often.           *)
LEMMA NestedIsOften ==
  ASSUME GroupInv, stage # "failed", NEW a \in IPs, NEW b \in IPs, NEW c \in IPs
  PROVE  Nested(<<a, b>>, <<b, c>>) <=> OftenDuring(a, b, c)
<1>1. CASE <<a, b>> \in DOMAIN m_ip_dict /\ <<b, c>> \in DOMAIN m_ip_dict
  <2>1. Total(count_appearances_of_LR_dependency, m_ip_dict[<<a, b>>], m_ip_dict[<<b, c>>])
          = Cardinality(DuringPairs(Evidence(a, b), Evidence(b, c)))
    BY <1>1, LinksAreEvidence
  <2>. QED BY <1>1, <2>1 DEF Nested, Linked, meets_occurrence_threshold, OftenDuring, Often, DuringPairs
<1>2. CASE ~(<<a, b>> \in DOMAIN m_ip_dict /\ <<b, c>> \in DOMAIN m_ip_dict)
  <2>1. Evidence(a, b) = {} \/ Evidence(b, c) = {}
    BY <1>2, GroupsAreEvidence
  <2>2. {p \in Evidence(a, b) \X Evidence(b, c) : During(p[1], p[2])} = {}
    BY <2>1
  <2>3. ~OftenDuring(a, b, c)
    BY <2>2, NeverIsNotOften DEF OftenDuring
  <2>. QED BY <1>2, <2>3 DEF Nested, Linked
<1>. QED BY <1>1, <1>2

(* One pair follows another when its evidence does, often.                  *)
LEMMA FollowsIsOften ==
  ASSUME GroupInv, stage # "failed", NEW s \in IPs, NEW a \in IPs, NEW b \in IPs
  PROVE  Follows(<<s, a>>, <<s, b>>) <=> OftenSoonAfter(s, a, b)
<1>1. CASE <<s, a>> \in DOMAIN m_ip_dict /\ <<s, b>> \in DOMAIN m_ip_dict
  <2>1. Total(count_appearances_of_RR_dependency, m_ip_dict[<<s, a>>], m_ip_dict[<<s, b>>])
          = Cardinality(SoonAfterPairs(Evidence(s, a), Evidence(s, b)))
    BY <1>1, LinksAreEvidence
  <2>. QED BY <1>1, <2>1 DEF Follows, Linked, meets_occurrence_threshold, OftenSoonAfter, Often, SoonAfterPairs
<1>2. CASE ~(<<s, a>> \in DOMAIN m_ip_dict /\ <<s, b>> \in DOMAIN m_ip_dict)
  <2>1. Evidence(s, a) = {} \/ Evidence(s, b) = {}
    BY <1>2, GroupsAreEvidence
  <2>2. {p \in Evidence(s, a) \X Evidence(s, b) : SoonAfter(p[1], p[2])} = {}
    BY <2>1
  <2>3. ~OftenSoonAfter(s, a, b)
    BY <2>2, NeverIsNotOften DEF OftenSoonAfter
  <2>. QED BY <1>2, <2>3 DEF Follows, Linked
<1>. QED BY <1>1, <1>2

(* The direct dependencies are those that the flows show.                   *)
LEMMA DirectAreShown ==
  ASSUME GroupInv, stage # "failed"
  PROVE  /\ DirectDependencies = {p \in IPs \X IPs : Direct(p[1], p[2])}
         /\ \A a, b \in IPs : Direct(a, b) => a \in Hosts /\ b \in Hosts
         /\ Hosts \subseteq IPs
<1>1. \A p \in DOMAIN m_ip_dict : p \in IPs \X IPs
  BY DEF GroupInv
<1>2. \A a, b \in IPs : Frequent(<<a, b>>) <=> Direct(a, b)
  BY FrequentIsDirect
<1>3. DirectDependencies = {p \in IPs \X IPs : Direct(p[1], p[2])}
  <2>1. \A p \in IPs \X IPs : p = <<p[1], p[2]>> /\ p[1] \in IPs /\ p[2] \in IPs
    OBVIOUS
  <2>2. \A p \in IPs \X IPs : Frequent(p) <=> Direct(p[1], p[2])
    BY <1>2, <2>1
  <2>3. \A p : Frequent(p) => p \in DOMAIN m_ip_dict
    BY DEF Frequent
  <2>. QED BY <1>1, <2>2, <2>3 DEF DirectDependencies
<1>4. \A a, b \in IPs : Direct(a, b) => a \in Hosts /\ b \in Hosts
  <2>1. \A a, b \in IPs : Direct(a, b) => <<a, b>> \in DOMAIN m_ip_dict
    BY <1>2 DEF Frequent
  <2>2. \A a, b : <<a, b>>[1] = a /\ <<a, b>>[2] = b
    OBVIOUS
  <2>3. \A p \in DOMAIN m_ip_dict : p[1] \in Hosts /\ p[2] \in Hosts
    BY HostsAreAllowed
  <2>4. \A a, b : <<a, b>> \in DOMAIN m_ip_dict => a \in Hosts /\ b \in Hosts
    BY <2>2, <2>3
  <2>. QED BY <2>1, <2>4
<1>5. Hosts \subseteq IPs
  BY <1>1 DEF Hosts
<1>. QED BY <1>3, <1>4, <1>5

(* So are the two-stage dependencies.                                       *)
LEMMA TwoStageAreShown ==
  ASSUME GroupInv, stage # "failed", direct = DirectDependencies
  PROVE  {<<e.source, e.destination>> : e \in TD2Dependencies}
           = {p \in IPs \X IPs : \E m \in IPs : TwoStage(p[1], m, p[2])}
<1>1. \A a, b, m \in IPs :
        TwoStage(a, m, b) <=> /\ <<a, m>> \in direct /\ Frequent(<<m, b>>)
                              /\ b # a /\ Nested(<<a, m>>, <<m, b>>)
  BY DirectAreShown, FrequentIsDirect, NestedIsOften DEF TwoStage
<1>2. ASSUME NEW e \in TD2Dependencies
      PROVE  /\ e.source \in IPs /\ e.destination \in IPs
             /\ \E m \in IPs : TwoStage(e.source, m, e.destination)
  <2>1. e.source \in IPs /\ e.destination \in IPs /\ e.middle \in IPs
    BY DirectAreShown DEF TD2Dependencies, TD2Dependency
  <2>2. TwoStage(e.source, e.middle, e.destination)
    BY <1>1, <2>1 DEF TD2Dependencies
  <2>. QED BY <2>1, <2>2
<1>3. ASSUME NEW a \in IPs, NEW b \in IPs, NEW m \in IPs, TwoStage(a, m, b)
      PROVE  \E e \in TD2Dependencies : <<a, b>> = <<e.source, e.destination>>
  <2> DEFINE e == [source |-> a, destination |-> b, middle |-> m]
  <2>1. a \in Hosts /\ b \in Hosts /\ m \in Hosts
    BY <1>3, DirectAreShown DEF TwoStage
  <2>2. e \in TD2Dependencies
    BY <1>1, <1>3, <2>1 DEF TD2Dependencies, TD2Dependency
  <2>. QED BY <2>2
<1>. QED BY <1>2, <1>3

(* And the remote-remote dependencies of two hosts.                         *)
LEMMA RemoteAreShown ==
  ASSUME GroupInv, stage # "failed", direct = DirectDependencies
  PROVE  /\ {<<e.source, e.depends_on>> : e \in RR2Dependencies}
              = {p \in IPs \X IPs : \E s \in IPs : Remote(s, p[2], p[1])}
         /\ \A a, b, s \in IPs :
              Remote(s, a, b) <=> [source |-> b, depends_on |-> a, originator |-> s] \in RR2Dependencies
<1>1. \A a, b, s \in IPs :
        Remote(s, a, b) <=> /\ <<s, a>> \in direct /\ Frequent(<<s, b>>)
                            /\ b # a /\ Follows(<<s, a>>, <<s, b>>)
  BY DirectAreShown, FrequentIsDirect, FollowsIsOften DEF Remote
<1>2. ASSUME NEW e \in RR2Dependencies
      PROVE  /\ e.source \in IPs /\ e.depends_on \in IPs
             /\ \E s \in IPs : Remote(s, e.depends_on, e.source)
  <2>1. e.source \in IPs /\ e.depends_on \in IPs /\ e.originator \in IPs
    BY DirectAreShown DEF RR2Dependencies, RR2Dependency
  <2>2. Remote(e.originator, e.depends_on, e.source)
    BY <1>1, <2>1 DEF RR2Dependencies
  <2>. QED BY <2>1, <2>2
<1>3. ASSUME NEW a \in IPs, NEW b \in IPs, NEW s \in IPs
      PROVE  Remote(s, a, b) <=> [source |-> b, depends_on |-> a, originator |-> s] \in RR2Dependencies
  <2> DEFINE e == [source |-> b, depends_on |-> a, originator |-> s]
  <2>1. Remote(s, a, b) => a \in Hosts /\ b \in Hosts /\ s \in Hosts
    BY DirectAreShown DEF Remote
  <2>2. e \in RR2Dependency(Hosts) <=> a \in Hosts /\ b \in Hosts /\ s \in Hosts
    BY DEF RR2Dependency
  <2>3. e \in RR2Dependencies <=>
          /\ e \in RR2Dependency(Hosts)
          /\ <<s, a>> \in direct /\ Frequent(<<s, b>>)
          /\ b # a /\ Follows(<<s, a>>, <<s, b>>)
    BY DEF RR2Dependencies
  <2>. QED BY <1>1, <2>1, <2>2, <2>3
<1>4. ASSUME NEW a \in IPs, NEW b \in IPs, NEW s \in IPs, Remote(s, a, b)
      PROVE  \E e \in RR2Dependencies : <<b, a>> = <<e.source, e.depends_on>>
  <2> DEFINE e == [source |-> b, depends_on |-> a, originator |-> s]
  <2>1. e \in RR2Dependencies
    BY <1>3, <1>4
  <2>. QED BY <2>1
<1>. QED BY <1>2, <1>3, <1>4

(* And those of three.                                                      *)
LEMMA RemoteChainsAreShown ==
  ASSUME GroupInv, stage # "failed", direct = DirectDependencies, rr2 = RR2Dependencies
  PROVE  RR3Dependencies = {p \in IPs \X IPs : \E s, m \in IPs :
                              Remote(s, p[2], m) /\ Remote(s, m, p[1]) /\ p[1] # p[2]}
<1>1. \A a, b, s \in IPs :
        Remote(s, a, b) <=> /\ <<s, a>> \in direct /\ <<s, b>> \in direct
                            /\ b # a /\ Follows(<<s, a>>, <<s, b>>)
  BY DirectAreShown, FollowsIsOften DEF Remote
<1>2. ASSUME NEW p \in RR3Dependencies
      PROVE  /\ p \in IPs \X IPs
             /\ \E s, m \in IPs : Remote(s, p[2], m) /\ Remote(s, m, p[1]) /\ p[1] # p[2]
  <2>1. p \in IPs \X IPs
    BY DirectAreShown DEF RR3Dependencies
  <2>2. PICK e \in RR2Dependencies :
          /\ p[2] = e.depends_on
          /\ <<e.originator, p[1]>> \in direct
          /\ p[1] \notin {e.source, e.depends_on}
          /\ Follows(<<e.originator, e.source>>, <<e.originator, p[1]>>)
    BY DEF RR3Dependencies
  <2>3. /\ e.source \in IPs /\ e.depends_on \in IPs /\ e.originator \in IPs
        /\ e = [source |-> e.source, depends_on |-> e.depends_on, originator |-> e.originator]
    BY DirectAreShown DEF RR2Dependencies, RR2Dependency
  <2>4. Remote(e.originator, e.depends_on, e.source)
    BY <2>3, RemoteAreShown
  <2>5. Remote(e.originator, e.source, p[1])
    <3>1. p[1] \in IPs
      BY <2>1
    <3>2. <<e.originator, e.source>> \in direct
      BY <1>1, <2>3, <2>4
    <3>. QED BY <1>1, <2>2, <2>3, <3>1, <3>2
  <2>. QED BY <2>1, <2>2, <2>3, <2>4, <2>5
<1>3. ASSUME NEW p \in IPs \X IPs, NEW s \in IPs, NEW m \in IPs,
             Remote(s, p[2], m), Remote(s, m, p[1]), p[1] # p[2]
      PROVE  p \in RR3Dependencies
  <2>1. p[1] \in IPs /\ p[2] \in IPs
    OBVIOUS
  <2>2. PICK e : e = [source |-> m, depends_on |-> p[2], originator |-> s]
    OBVIOUS
  <2>3. e \in rr2
    BY <1>3, <2>1, <2>2, RemoteAreShown
  <2>4. p \in Hosts \X Hosts
    <3>1. p[1] \in Hosts /\ p[2] \in Hosts
      BY <1>3, <2>1, DirectAreShown DEF Remote
    <3>. QED BY <3>1
  <2>5. /\ <<s, p[1]>> \in direct /\ p[1] # m /\ Follows(<<s, m>>, <<s, p[1]>>)
    BY <1>1, <1>3, <2>1
  <2>6. /\ p[2] = e.depends_on
        /\ <<e.originator, p[1]>> \in direct
        /\ p[1] \notin {e.source, e.depends_on}
        /\ Follows(<<e.originator, e.source>>, <<e.originator, p[1]>>)
    BY <1>3, <2>2, <2>5
  <2>. QED BY <2>3, <2>4, <2>6 DEF RR3Dependencies
<1>. QED BY <1>2, <1>3

(* The pairs of a type are those that its stage registered.                 *)
LEMMA PairsOfType ==
  ASSUME StageInv, stage \in {"write", "calculated"}
  PROVE  /\ direct \subseteq IPs \X IPs => OfType("DD") = direct
         /\ OfType("TD2") = {<<e.source, e.destination>> : e \in td2}
         /\ OfType("RR2") = {<<e.source, e.depends_on>> : e \in rr2}
         /\ OfType("RR3") = RR3Dependencies
<1>1. m_dependency_types = DD \cup TD2 \cup RR2 \cup TD3 \cup RR3
  BY DEF StageInv
<1>2. \A a, b, t : <<a, b, t>> \in m_dependency_types => <<a, b>> \in get_dependencies
  BY DEF get_dependencies
<1>3. \A p \in get_dependencies : p = <<p[1], p[2]>>
  BY DEF get_dependencies
<1>4. ASSUME NEW type, NEW pairs, \A p \in pairs : p = <<p[1], p[2]>>,
             \A a, b : <<a, b, type>> \in m_dependency_types <=> <<a, b>> \in pairs
      PROVE  OfType(type) = pairs
  <2>1. \A p \in OfType(type) : p \in pairs
    <3>1. \A p \in OfType(type) : p = <<p[1], p[2]>> /\ <<p[1], p[2], type>> \in m_dependency_types
      BY <1>3 DEF OfType
    <3>2. \A p \in OfType(type) : <<p[1], p[2]>> \in pairs
      BY <1>4, <3>1
    <3>. QED BY <3>1, <3>2
  <2>2. \A p \in pairs : p \in OfType(type)
    <3>1. \A p \in pairs : <<p[1], p[2]>> \in pairs
      BY <1>4
    <3>2. \A p \in pairs : <<p[1], p[2], type>> \in m_dependency_types
      BY <1>4, <3>1
    <3>3. \A p \in pairs : <<p[1], p[2]>> \in get_dependencies
      BY <1>2, <3>2
    <3>. QED BY <1>4, <3>2, <3>3 DEF OfType
  <2>. QED BY <2>1, <2>2
<1>5. ASSUME NEW pairs, \A p \in pairs : p = <<p[1], p[2]>>, NEW type
      PROVE  /\ \A a, b : <<a, b, type>> \in As(pairs, type) <=> <<a, b>> \in pairs
             /\ \A d \in As(pairs, type) : d[3] = type
  <2>1. \A d \in As(pairs, type) : \E p \in pairs : d = <<p[1], p[2], type>> /\ <<p[1], p[2]>> \in pairs
    BY <1>5 DEF As
  <2>2. ASSUME NEW a, NEW b, <<a, b>> \in pairs
        PROVE  <<a, b, type>> \in As(pairs, type)
    <3>1. PICK p \in pairs : p = <<a, b>>
      BY <2>2
    <3>2. <<p[1], p[2], type>> \in As(pairs, type)
      BY DEF As
    <3>. QED BY <3>1, <3>2
  <2>3. ASSUME NEW a, NEW b, <<a, b, type>> \in As(pairs, type)
        PROVE  <<a, b>> \in pairs
    <3>1. PICK p \in pairs : <<a, b, type>> = <<p[1], p[2], type>> /\ <<p[1], p[2]>> \in pairs
      BY <2>1, <2>3
    <3>2. a = p[1] /\ b = p[2]
      BY <3>1
    <3>. QED BY <3>1, <3>2
  <2>4. \A d \in As(pairs, type) : d[3] = type
    BY DEF As
  <2>. QED BY <2>2, <2>3, <2>4
<1>6. \A pairs, type : \A d \in As(pairs, type) : d[3] = type
  BY DEF As
<1>7. \A a, b : <<a, b, "DD">> \in m_dependency_types <=> <<a, b, "DD">> \in DD
  BY <1>1, <1>6 DEF DD, TD2, RR2, TD3, RR3
<1>8. \A a, b : <<a, b, "TD2">> \in m_dependency_types <=> <<a, b, "TD2">> \in TD2
  BY <1>1, <1>6 DEF DD, TD2, RR2, TD3, RR3
<1>9. \A a, b : <<a, b, "RR2">> \in m_dependency_types <=> <<a, b, "RR2">> \in RR2
  BY <1>1, <1>6 DEF DD, TD2, RR2, TD3, RR3
<1>10. \A a, b : <<a, b, "RR3">> \in m_dependency_types <=> <<a, b, "RR3">> \in RR3
  BY <1>1, <1>6 DEF DD, TD2, RR2, TD3, RR3
<1>11. direct \subseteq IPs \X IPs => OfType("DD") = direct
  <2> SUFFICES ASSUME direct \subseteq IPs \X IPs PROVE OfType("DD") = direct
    OBVIOUS
  <2>1. \A p \in direct : p = <<p[1], p[2]>>
    OBVIOUS
  <2>2. \A a, b : <<a, b, "DD">> \in DD <=> <<a, b>> \in direct
    BY <1>5, <2>1 DEF DD
  <2>. QED BY <1>4, <1>7, <2>1, <2>2
<1>12. OfType("TD2") = {<<e.source, e.destination>> : e \in td2}
  <2> DEFINE pairs == {<<e.source, e.destination>> : e \in td2}
  <2>1. \A p \in pairs : p = <<p[1], p[2]>>
    OBVIOUS
  <2>2. TD2 = As(pairs, "TD2")
    BY DEF TD2
  <2> HIDE DEF pairs
  <2>3. \A a, b : <<a, b, "TD2">> \in TD2 <=> <<a, b>> \in pairs
    BY <1>5, <2>1, <2>2
  <2>4. OfType("TD2") = pairs
    BY <1>4, <1>8, <2>1, <2>3
  <2>. QED BY <2>4 DEF pairs
<1>13. OfType("RR2") = {<<e.source, e.depends_on>> : e \in rr2}
  <2> DEFINE pairs == {<<e.source, e.depends_on>> : e \in rr2}
  <2>1. \A p \in pairs : p = <<p[1], p[2]>>
    OBVIOUS
  <2>2. RR2 = As(pairs, "RR2")
    BY DEF RR2
  <2> HIDE DEF pairs
  <2>3. \A a, b : <<a, b, "RR2">> \in RR2 <=> <<a, b>> \in pairs
    BY <1>5, <2>1, <2>2
  <2>4. OfType("RR2") = pairs
    BY <1>4, <1>9, <2>1, <2>3
  <2>. QED BY <2>4 DEF pairs
<1>14. OfType("RR3") = RR3Dependencies
  <2>1. \A p \in RR3Dependencies : p = <<p[1], p[2]>>
    BY DEF RR3Dependencies
  <2>2. \A a, b : <<a, b, "RR3">> \in RR3 <=> <<a, b>> \in RR3Dependencies
    BY <1>5, <2>1 DEF RR3
  <2>. QED BY <1>4, <1>10, <2>1, <2>2
<1>. QED BY <1>11, <1>12, <1>13, <1>14

(* At its end a calculation has registered what the flows of the file show, *)
(* and nothing else: the loops over the flows grouped by pair count what    *)
(* there is in the file, and no stage loses what another has found.         *)
THEOREM FlowsExplain == Spec => []DependenciesExplained
<1>1. ASSUME IInv, stage \in {"write", "calculated"}
      PROVE  /\ OfType("DD") = {p \in IPs \X IPs : Direct(p[1], p[2])}
             /\ OfType("TD2") = {p \in IPs \X IPs : \E m \in IPs : TwoStage(p[1], m, p[2])}
             /\ OfType("RR2") = {p \in IPs \X IPs : \E s \in IPs : Remote(s, p[2], p[1])}
             /\ OfType("RR3") = {p \in IPs \X IPs : \E s, m \in IPs :
                                   Remote(s, p[2], m) /\ Remote(s, m, p[1]) /\ p[1] # p[2]}
  <2>1. GroupInv /\ stage # "failed"
    BY <1>1 DEF IInv
  <2>2. direct = DirectDependencies /\ td2 = TD2Dependencies /\ rr2 = RR2Dependencies
    BY <1>1 DEF IInv, StageInv
  <2>3. direct \subseteq IPs \X IPs
    BY <2>1, <2>2, DirectAreShown
  <2>4. /\ OfType("DD") = direct
        /\ OfType("TD2") = {<<e.source, e.destination>> : e \in td2}
        /\ OfType("RR2") = {<<e.source, e.depends_on>> : e \in rr2}
        /\ OfType("RR3") = RR3Dependencies
    BY <1>1, <2>3, PairsOfType DEF IInv
  <2>5. OfType("DD") = {p \in IPs \X IPs : Direct(p[1], p[2])}
    BY <2>1, <2>2, <2>4, DirectAreShown
  <2>6. OfType("TD2") = {p \in IPs \X IPs : \E m \in IPs : TwoStage(p[1], m, p[2])}
    BY <2>1, <2>2, <2>4, TwoStageAreShown
  <2>7. OfType("RR2") = {p \in IPs \X IPs : \E s \in IPs : Remote(s, p[2], p[1])}
    BY <2>1, <2>2, <2>4, RemoteAreShown
  <2>8. OfType("RR3") = {p \in IPs \X IPs : \E s, m \in IPs :
                           Remote(s, p[2], m) /\ Remote(s, m, p[1]) /\ p[1] # p[2]}
    BY <2>1, <2>2, <2>4, RemoteChainsAreShown
  <2>. QED BY <2>5, <2>6, <2>7, <2>8
<1>2. IInv /\ stage # "failed" => \A i \in DOMAIN file : file[i].json
  BY DEF IInv, InputInv
<1>3. IInv => DependenciesExplained
  BY <1>1, <1>2 DEF DependenciesExplained
<1>. QED BY Invariance, <1>3, PTL

=============================================================================
