---------------------- MODULE FeatureGenerationProofs ----------------------
(***************************************************************************)
(* What holds of one call of generate for every graph, every set of        *)
(* addresses and every set of enabled features.                            *)
(*                                                                         *)
(* The inductive invariant FeatureInv says where the call stands: its      *)
(* inputs are those of the assumption (InputsFit), its phase knows its     *)
(* loop variables (PhaseFits), the search at work has levels for what it   *)
(* reached and a queue in their order (SearchFits), the distances stored   *)
(* are those of finished searches (PathsFit), the two-hop counts those of  *)
(* the sources done (HopsFit), and the rows written are those of the pairs *)
(* already passed (RowsFit).                                               *)
(***************************************************************************)
EXTENDS FeatureGeneration, FiniteSetTheorems, SequenceTheorems, TLAPS

-----------------------------------------------------------------------------
(* Numbers, and sets of them in their order.                               *)

(* A set of natural numbers has a least element.                            *)
LEMMA LeastNumber ==
  ASSUME NEW T \in SUBSET Nat, T # {}
  PROVE  \E n \in T : \A m \in T : n <= m
<1> DEFINE R == OpToRel(<, Nat)
<1>1. IsWellFoundedOn(R, Nat)
  BY NatLessThanWellFounded
<1>2. \A m, k \in Nat : m < k => <<m, k>> \in R
  BY DEF OpToRel
<1> HIDE DEF R
<1>3. PICK n \in T : \A m \in T : <<m, n>> \notin R
  BY <1>1, WFMin
<1>4. ASSUME NEW m \in T PROVE n <= m
  <2>1. m \in Nat /\ n \in Nat
    OBVIOUS
  <2>2. ~(m < n)
    BY <1>2, <1>3, <2>1
  <2>. QED BY <2>1, <2>2
<1>. QED BY <1>4

(* Sorted lists a finite set of numbers, each once, from the least.         *)
LEMMA SortedLists ==
  ASSUME NEW S \in SUBSET Int, IsFiniteSet(S)
  PROVE  /\ Cardinality(S) \in Nat
         /\ Sorted(S) \in [1..Cardinality(S) -> S]
         /\ \A x \in S : \E k \in 1..Cardinality(S) : Sorted(S)[k] = x
         /\ \A h, k \in 1..Cardinality(S) : h < k => Sorted(S)[h] < Sorted(S)[k]
<1> DEFINE C == Cardinality(S)
           UpTo(x) == {y \in S : y <= x}
           rank == [x \in S |-> Cardinality(UpTo(x))]
<1>1. C \in Nat /\ IsFiniteSet(1..C) /\ Cardinality(1..C) = C
  <2>1. C \in Nat
    BY FS_CardinalityType
  <2>2. IsFiniteSet(1..C) /\ Cardinality(1..C) = IF 1 > C THEN 0 ELSE C - 1 + 1
    BY <2>1, FS_Interval
  <2>. QED BY <2>1, <2>2
<1>2. \A x \in S : IsFiniteSet(UpTo(x)) /\ rank[x] \in 1..C
  <2>1. SUFFICES ASSUME NEW x \in S PROVE IsFiniteSet(UpTo(x)) /\ rank[x] \in 1..C
    OBVIOUS
  <2>2. UpTo(x) \in SUBSET S /\ x \in UpTo(x)
    OBVIOUS
  <2>3. IsFiniteSet(UpTo(x)) /\ Cardinality(UpTo(x)) <= C
    BY <2>2, FS_Subset
  <2>4. Cardinality(UpTo(x)) \in Nat /\ (Cardinality(UpTo(x)) = 0 <=> UpTo(x) = {})
    BY <2>3, FS_CardinalityType, FS_EmptySet
  <2> HIDE DEF UpTo, C
  <2>. QED BY <1>1, <2>2, <2>3, <2>4
<1>3. ASSUME NEW x \in S, NEW y \in S, x < y PROVE rank[x] < rank[y]
  <2>1. UpTo(x) \in SUBSET UpTo(y) /\ y \in UpTo(y) /\ y \notin UpTo(x)
    <3>1. x \in Int /\ y \in Int
      OBVIOUS
    <3>2. \A z \in S : z \in Int /\ (z <= x => z <= y)
      BY <1>3, <3>1
    <3>3. y <= y /\ ~(y <= x)
      BY <1>3, <3>1
    <3>. QED BY <3>2, <3>3
  <2>2. Cardinality(UpTo(x)) <= Cardinality(UpTo(y)) /\ Cardinality(UpTo(y)) # Cardinality(UpTo(x))
    BY <1>2, <2>1, FS_Subset
  <2>3. rank[x] \in 1..C /\ rank[y] \in 1..C /\ rank[x] = Cardinality(UpTo(x)) /\ rank[y] = Cardinality(UpTo(y))
    BY <1>2
  <2> HIDE DEF UpTo, rank, C
  <2>. QED BY <1>1, <2>2, <2>3
<1>4. ASSUME NEW x \in S, NEW y \in S, rank[x] = rank[y] PROVE x = y
  <2>1. x \in Int /\ y \in Int /\ rank[x] \in 1..C /\ ~(rank[x] < rank[y]) /\ ~(rank[y] < rank[x])
    BY <1>1, <1>2, <1>4
  <2> HIDE DEF rank
  <2>2. ~(x < y) /\ ~(y < x)
    BY <1>3, <2>1
  <2>. QED BY <2>1, <2>2
<1>5. rank \in Injection(S, 1..C)
  BY <1>2, <1>4 DEF Injection, IsInjective
<1>6. rank \in Surjection(S, 1..C)
  BY <1>1, <1>5, FS_Injection
<1>7. \A k \in 1..C : \E x \in S : rank[x] = k
  BY <1>6 DEF Surjection
<1>8. ASSUME NEW k \in 1..C
      PROVE  Sorted(S)[k] \in S /\ rank[Sorted(S)[k]] = k
  <2>1. \E x \in S : Cardinality({y \in S : y <= x}) = k
    BY <1>7
  <2>2. Sorted(S)[k] = CHOOSE x \in S : Cardinality({y \in S : y <= x}) = k
    BY DEF Sorted
  <2>3. Sorted(S)[k] \in S /\ Cardinality({y \in S : y <= Sorted(S)[k]}) = k
    BY <2>1, <2>2
  <2>. QED BY <2>3
<1>9. Sorted(S) \in [1..C -> S]
  BY <1>8 DEF Sorted
<1>10. ASSUME NEW x \in S PROVE \E k \in 1..C : Sorted(S)[k] = x
  <2>1. rank[x] \in 1..C
    BY <1>2
  <2> HIDE DEF rank
  <2>. QED BY <1>4, <1>8, <2>1
<1>11. ASSUME NEW h \in 1..C, NEW k \in 1..C, h < k PROVE Sorted(S)[h] < Sorted(S)[k]
  <2> DEFINE a == Sorted(S)[h]
             b == Sorted(S)[k]
  <2>1. a \in S /\ b \in S /\ rank[a] = h /\ rank[b] = k
    BY <1>8
  <2> HIDE DEF a, b, rank
  <2>2. ~(b < a) /\ a # b
    <3>1. b < a => k < h
      BY <1>3, <2>1
    <3>2. h \in Nat /\ k \in Nat /\ ~(k < h) /\ h # k
      BY <1>1, <1>11
    <3>. QED BY <2>1, <3>1, <3>2
  <2>3. a \in Int /\ b \in Int
    BY <2>1
  <2>4. a < b
    BY <2>2, <2>3
  <2>. QED BY <2>4 DEF a, b
<1>. QED BY <1>1, <1>9, <1>10, <1>11

-----------------------------------------------------------------------------
(* A breadth-first search, for any set V of vertices and any successors E. *)

\* d is a level for each vertex that it is defined for: 0 for s alone, and for every
\* other vertex one more than for some vertex it succeeds.
Levels(V, E, s, d) ==
  /\ DOMAIN d \subseteq V /\ s \in DOMAIN d
  /\ \A v \in DOMAIN d : d[v] \in Nat /\ (d[v] = 0 <=> v = s)
  /\ \A v \in DOMAIN d : v # s => \E u \in DOMAIN d : v \in E[u] /\ d[v] = d[u] + 1

\* The search has been at v: no successor is missing or further away.
Closed(E, d, v) == \A w \in E[v] : w \in DOMAIN d /\ d[w] <= d[v] + 1

\* The vertices found and not yet visited wait in the order of their distances, of
\* which there are at most two, and no visited vertex is further away.
Search(V, E, s, d, q) ==
  /\ Levels(V, E, s, d)
  /\ q \in Seq(DOMAIN d)
  /\ \A a, b \in 1..Len(q) : a < b => q[a] # q[b] /\ d[q[a]] <= d[q[b]]
  /\ \A b \in 1..Len(q) : d[q[b]] <= d[q[1]] + 1
  /\ \A v \in DOMAIN d : (\A a \in 1..Len(q) : q[a] # v) =>
       Closed(E, d, v) /\ (q # << >> => d[v] <= d[q[1]])

\* What the search comes to.
Measured(V, E, s, d) == Levels(V, E, s, d) /\ \A v \in DOMAIN d : Closed(E, d, v)

LEMMA SearchStarts ==
  ASSUME NEW V, NEW E, NEW s \in V
  PROVE  Search(V, E, s, [u \in {s} |-> 0], <<s>>)
<1> DEFINE d == [u \in {s} |-> 0]
           q == <<s>>
<1>1. DOMAIN d = {s} /\ d[s] = 0
  OBVIOUS
<1>2. Len(q) = 1 /\ q[1] = s /\ q \in Seq({s})
  OBVIOUS
<1>3. Levels(V, E, s, d)
  BY <1>1 DEF Levels
<1> HIDE DEF d, q
<1>4. Search(V, E, s, d, q)
  BY <1>1, <1>2, <1>3 DEF Search
<1>. QED BY <1>4 DEF d, q

(* Visiting the vertex in front keeps the order, whatever the order of the  *)
(* vertices it finds.                                                       *)
LEMMA SearchGoesOn ==
  ASSUME NEW V \in SUBSET Nat, IsFiniteSet(V), NEW E, \A v \in V : E[v] \in SUBSET V,
         NEW s, NEW d, NEW q, Search(V, E, s, d, q), q # << >>,
         NEW F, F = E[Head(q)] \ DOMAIN d
  PROVE  Search(V, E, s, Joined([v \in F |-> d[Head(q)] + 1], d), Tail(q) \o Sorted(F))
<1> DEFINE new == [v \in F |-> d[Head(q)] + 1]
           d2 == Joined(new, d)
           L == Len(q)
           front == q[1]
           m == Cardinality(F)
           found == Sorted(F)
           q2 == Tail(q) \o found
<1>1. /\ L \in Nat /\ L >= 1 /\ Head(q) = front /\ front \in DOMAIN d /\ front \in V
      /\ \A a \in 1..L : q[a] \in DOMAIN d
      /\ \A v \in DOMAIN d : v \in V /\ d[v] \in Nat
  BY DEF Search, Levels
<1>2. F \in SUBSET V /\ IsFiniteSet(F) /\ F \in SUBSET Int
  <2>1. F \in SUBSET V
    BY <1>1
  <2>2. IsFiniteSet(F)
    BY <2>1, FS_Subset
  <2>3. \A x \in V : x \in Int
    OBVIOUS
  <2>4. F \in SUBSET Int
    BY <2>1, <2>3
  <2>. QED BY <2>1, <2>2, <2>4
<1>3. /\ m \in Nat /\ found \in [1..m -> F]
      /\ \A x \in F : \E k \in 1..m : found[k] = x
      /\ \A h, k \in 1..m : h < k => found[h] < found[k]
  BY <1>2, SortedLists
<1>4. found \in Seq(F) /\ Len(found) = m
  <2>1. m \in Nat /\ found \in [1..m -> F]
    BY <1>3
  <2> HIDE DEF found, m
  <2>. QED BY <2>1
<1>5. /\ Tail(q) \in Seq(DOMAIN d) /\ Len(Tail(q)) = L - 1
      /\ \A a \in 1..(L - 1) : Tail(q)[a] = q[a + 1]
  BY <1>1 DEF Search
<1>6. /\ q2 \in Seq(DOMAIN d \cup F) /\ Len(q2) = (L - 1) + m
      /\ \A a \in 1..(L - 1) : q2[a] = q[a + 1]
      /\ \A a \in 1..m : q2[(L - 1) + a] = found[a]
  <2>1. Tail(q) \in Seq(DOMAIN d \cup F) /\ found \in Seq(DOMAIN d \cup F)
    BY <1>4, <1>5
  <2>2. /\ q2 \in Seq(DOMAIN d \cup F) /\ Len(q2) = Len(Tail(q)) + Len(found)
        /\ \A a \in 1..(Len(Tail(q)) + Len(found)) :
             q2[a] = IF a <= Len(Tail(q)) THEN Tail(q)[a] ELSE found[a - Len(Tail(q))]
    BY <2>1, ConcatProperties
  <2> HIDE DEF q2, found, L, m
  <2>3. Len(Tail(q)) = L - 1 /\ Len(found) = m /\ m \in Nat /\ L \in Nat /\ L >= 1
    BY <1>1, <1>3, <1>4, <1>5
  <2>4. \A a \in 1..((L - 1) + m) : q2[a] = IF a <= L - 1 THEN Tail(q)[a] ELSE found[a - (L - 1)]
    BY <2>2, <2>3
  <2>5. \A a \in 1..(L - 1) : q2[a] = q[a + 1]
    BY <1>5, <2>3, <2>4
  <2>6. ASSUME NEW a \in 1..m PROVE q2[(L - 1) + a] = found[a]
    <3>1. (L - 1) + a \in 1..((L - 1) + m) /\ ~((L - 1) + a <= L - 1) /\ ((L - 1) + a) - (L - 1) = a
      BY <2>3
    <3>. QED BY <2>4, <3>1
  <2>. QED BY <2>2, <2>3, <2>5, <2>6
<1>7. /\ DOMAIN d2 = F \cup DOMAIN d
      /\ \A v \in F : d2[v] = d[front] + 1
      /\ \A v \in DOMAIN d : v \notin F /\ d2[v] = d[v]
  BY <1>1 DEF Joined
<1> HIDE DEF new, d2, q2, found, L, front, m
<1>8. Levels(V, E, s, d2)
  <2>1. DOMAIN d2 \subseteq V /\ s \in DOMAIN d2
    BY <1>1, <1>2, <1>7 DEF Search, Levels
  <2>2. ASSUME NEW v \in DOMAIN d2
        PROVE  d2[v] \in Nat /\ (d2[v] = 0 <=> v = s)
    <3>1. CASE v \in DOMAIN d
      BY <1>7, <3>1 DEF Search, Levels
    <3>2. CASE v \in F
      <4>1. v # s
        BY <1>7, <3>2 DEF Search, Levels
      <4>. QED BY <1>1, <1>7, <3>2, <4>1
    <3>. QED BY <1>7, <3>1, <3>2
  <2>3. ASSUME NEW v \in DOMAIN d2, v # s
        PROVE  \E u \in DOMAIN d2 : v \in E[u] /\ d2[v] = d2[u] + 1
    <3>1. CASE v \in DOMAIN d
      <4>1. PICK u \in DOMAIN d : v \in E[u] /\ d[v] = d[u] + 1
        BY <2>3, <3>1 DEF Search, Levels
      <4>2. u \in DOMAIN d2 /\ d2[v] = d2[u] + 1
        BY <1>7, <3>1, <4>1
      <4>. QED BY <4>1, <4>2
    <3>2. CASE v \in F
      <4>1. front \in DOMAIN d2 /\ v \in E[front] /\ d2[v] = d2[front] + 1
        BY <1>1, <1>7, <3>2
      <4>. QED BY <4>1
    <3>. QED BY <1>7, <3>1, <3>2
  <2>. QED BY <2>1, <2>2, <2>3 DEF Levels
<1>9. /\ \A a \in 1..L : d[q[a]] <= d[front] + 1 /\ d[front] <= d[q[a]]
      /\ \A a, b \in 1..L : a < b => q[a] # q[b] /\ d[q[a]] <= d[q[b]]
  BY <1>1 DEF Search, front, L
<1>10. \A a \in 1..Len(q2) :
         \/ a \in 1..(L - 1) /\ q2[a] = q[a + 1] /\ a + 1 \in 1..L /\ q2[a] \in DOMAIN d
            /\ d2[q2[a]] = d[q[a + 1]]
         \/ a - (L - 1) \in 1..m /\ q2[a] = found[a - (L - 1)] /\ q2[a] \in F /\ d2[q2[a]] = d[front] + 1
  <2>1. SUFFICES ASSUME NEW a \in 1..Len(q2)
        PROVE
         \/ a \in 1..(L - 1) /\ q2[a] = q[a + 1] /\ a + 1 \in 1..L /\ q2[a] \in DOMAIN d
            /\ d2[q2[a]] = d[q[a + 1]]
         \/ a - (L - 1) \in 1..m /\ q2[a] = found[a - (L - 1)] /\ q2[a] \in F /\ d2[q2[a]] = d[front] + 1
    OBVIOUS
  <2>2. CASE a <= L - 1
    <3>1. a \in 1..(L - 1) /\ a + 1 \in 1..L
      BY <1>1, <1>3, <1>6, <2>2
    <3>. QED BY <1>1, <1>6, <1>7, <3>1
  <2>3. CASE ~(a <= L - 1)
    <3>1. a - (L - 1) \in 1..m /\ (L - 1) + (a - (L - 1)) = a
      BY <1>1, <1>3, <1>6, <2>3
    <3>2. q2[a] = found[a - (L - 1)] /\ found[a - (L - 1)] \in F
      BY <1>3, <1>6, <3>1
    <3>. QED BY <1>7, <3>1, <3>2
  <2>. QED BY <2>2, <2>3
<1>11. ASSUME NEW a \in 1..Len(q2), NEW b \in 1..Len(q2), a < b
       PROVE  q2[a] # q2[b] /\ d2[q2[a]] <= d2[q2[b]]
  <2>1. CASE a \in 1..(L - 1) /\ b \in 1..(L - 1)
    <3>1. a + 1 \in 1..L /\ b + 1 \in 1..L /\ a + 1 < b + 1
      BY <1>1, <1>11, <2>1
    <3>2. q[a + 1] # q[b + 1] /\ d[q[a + 1]] <= d[q[b + 1]]
      BY <1>9, <3>1
    <3>3. q2[a] = q[a + 1] /\ q2[b] = q[b + 1] /\ q2[a] \in DOMAIN d /\ q2[b] \in DOMAIN d
      BY <1>1, <1>6, <2>1, <3>1
    <3>. QED BY <1>7, <3>2, <3>3
  <2>2. CASE a \in 1..(L - 1) /\ b - (L - 1) \in 1..m
    <3>1. a + 1 \in 1..L /\ q2[a] = q[a + 1] /\ q2[a] \in DOMAIN d /\ d2[q2[a]] = d[q[a + 1]]
      BY <1>1, <1>6, <1>7, <2>2
    <3>2. q2[b] \in F /\ d2[q2[b]] = d[front] + 1
      <4>1. ~(b \in 1..(L - 1))
        BY <1>1, <1>3, <2>2
      <4>. QED BY <1>10, <4>1
    <3>. QED BY <1>7, <1>9, <3>1, <3>2
  <2>3. CASE a - (L - 1) \in 1..m
    <3>1. b - (L - 1) \in 1..m /\ a - (L - 1) < b - (L - 1)
      BY <1>1, <1>3, <1>6, <1>11, <2>3
    <3>2. /\ q2[a] = found[a - (L - 1)] /\ q2[b] = found[b - (L - 1)]
          /\ d2[q2[a]] = d[front] + 1 /\ d2[q2[b]] = d[front] + 1
      <4>1. ~(a \in 1..(L - 1)) /\ ~(b \in 1..(L - 1))
        BY <1>1, <1>3, <2>3, <3>1
      <4>. QED BY <1>10, <4>1
    <3>3. found[a - (L - 1)] < found[b - (L - 1)] /\ found[a - (L - 1)] \in Nat
          /\ found[b - (L - 1)] \in Nat
      BY <1>2, <1>3, <2>3, <3>1
    <3>4. d[front] \in Nat
      BY <1>1
    <3>. QED BY <3>2, <3>3, <3>4
  <2>. QED BY <1>10, <2>1, <2>2, <2>3
<1>12. \A b \in 1..Len(q2) : d2[q2[b]] <= d[front] + 1 /\ d[front] <= d2[q2[b]] /\ d2[q2[b]] \in Nat
  BY <1>1, <1>9, <1>10
<1>13. \A b \in 1..Len(q2) : d2[q2[b]] <= d2[q2[1]] + 1 /\ 1 \in 1..Len(q2)
  <2>1. SUFFICES ASSUME NEW b \in 1..Len(q2)
                 PROVE  d2[q2[b]] <= d2[q2[1]] + 1 /\ 1 \in 1..Len(q2)
    OBVIOUS
  <2>2. 1 \in 1..Len(q2)
    BY <1>1, <1>3, <1>6
  <2>3. d[front] \in Nat
    BY <1>1
  <2>. QED BY <1>12, <2>2, <2>3
<1>14. ASSUME NEW v \in DOMAIN d2, \A a \in 1..Len(q2) : q2[a] # v
       PROVE  Closed(E, d2, v) /\ (q2 # << >> => d2[v] <= d2[q2[1]])
  <2>1. v \notin F
    <3>1. SUFFICES ASSUME v \in F PROVE FALSE
      OBVIOUS
    <3>2. PICK k \in 1..m : found[k] = v
      BY <1>3, <3>1
    <3>3. (L - 1) + k \in 1..Len(q2) /\ q2[(L - 1) + k] = v
      BY <1>1, <1>3, <1>6, <3>2
    <3>. QED BY <1>14, <3>3
  <2>2. v \in DOMAIN d /\ d2[v] = d[v]
    BY <1>7, <2>1
  <2>3. \A a \in 1..L : a # 1 => q[a] # v
    <3>1. SUFFICES ASSUME NEW a \in 1..L, a # 1 PROVE q[a] # v
      OBVIOUS
    <3>2. a - 1 \in 1..(L - 1) /\ a - 1 \in 1..Len(q2) /\ (a - 1) + 1 = a
      BY <1>1, <1>3, <1>6, <3>1
    <3>3. q2[a - 1] = q[a]
      BY <1>6, <3>2
    <3>. QED BY <1>14, <3>2, <3>3
  <2>4. Closed(E, d2, v) /\ d[v] <= d[front]
    <3>1. CASE v = front
      <4>1. \A w \in E[front] : w \in DOMAIN d2 /\ d2[w] <= d[front] + 1
        <5>1. SUFFICES ASSUME NEW w \in E[front]
                       PROVE  w \in DOMAIN d2 /\ d2[w] <= d[front] + 1
          OBVIOUS
        <5>2. CASE w \in F
          BY <1>1, <1>7, <5>2
        <5>3. CASE w \notin F
          <6>1. w \in DOMAIN d /\ w \in DOMAIN d2 /\ d2[w] = d[w]
            BY <1>1, <1>7, <5>3
          <6>2. CASE \E a \in 1..L : q[a] = w
            BY <1>9, <6>1, <6>2
          <6>3. CASE \A a \in 1..L : q[a] # w
            <7>1. d[w] <= d[front]
              BY <6>1, <6>3 DEF Search, front, L
            <7>2. d[w] \in Nat /\ d[front] \in Nat
              BY <1>1, <6>1
            <7>. QED BY <6>1, <7>1, <7>2
          <6>. QED BY <6>2, <6>3
        <5>. QED BY <5>2, <5>3
      <4>2. d[front] \in Nat
        BY <1>1
      <4>. QED BY <2>2, <3>1, <4>1, <4>2 DEF Closed
    <3>2. CASE v # front
      <4>1. \A a \in 1..L : q[a] # v
        BY <1>1, <2>3, <3>2 DEF front
      <4>2. Closed(E, d, v) /\ d[v] <= d[front]
        BY <2>2, <4>1 DEF Search, front, L
      <4>. QED BY <1>7, <2>2, <4>2 DEF Closed
    <3>. QED BY <3>1, <3>2
  <2>5. q2 # << >> => d2[v] <= d2[q2[1]]
    <3>1. SUFFICES ASSUME q2 # << >> PROVE d2[v] <= d2[q2[1]]
      OBVIOUS
    <3>2. 1 \in 1..Len(q2)
      BY <1>6, <3>1
    <3>3. d[front] <= d2[q2[1]] /\ d2[q2[1]] \in Nat /\ d[v] \in Nat /\ d[front] \in Nat
      BY <1>1, <1>12, <2>2, <3>2
    <3>. QED BY <2>2, <2>4, <3>3
  <2>. QED BY <2>4, <2>5
<1>15. q2 \in Seq(DOMAIN d2)
  BY <1>6, <1>7
<1>16. Search(V, E, s, d2, q2)
  BY <1>8, <1>11, <1>13, <1>14, <1>15 DEF Search
<1>. QED BY <1>16 DEF d2, new, q2, found

LEMMA SearchEnds ==
  ASSUME NEW V, NEW E, NEW s, NEW d, NEW q, Search(V, E, s, d, q), q = << >>
  PROVE  Measured(V, E, s, d)
<1>1. Len(q) = 0
  OBVIOUS
<1>2. \A v \in DOMAIN d : Closed(E, d, v)
  BY <1>1 DEF Search
<1>. QED BY <1>2 DEF Search, Measured

(* A level has a vertex on each level below it, so there are fewer levels   *)
(* than vertices.                                                           *)
LEMMA LevelsFit ==
  ASSUME NEW V, IsFiniteSet(V), NEW E, NEW s, NEW d, Levels(V, E, s, d), NEW v \in DOMAIN d
  PROVE  d[v] < Cardinality(V)
<1> DEFINE top == d[v]
           Missed == {k \in 0..top : \A u \in DOMAIN d : d[u] # top - k}
<1>1. top \in Nat
  BY DEF Levels
<1> HIDE DEF top
<1>2. Missed = {}
  <2>1. SUFFICES ASSUME Missed # {} PROVE FALSE
    OBVIOUS
  <2>2. Missed \in SUBSET Nat
    BY <1>1
  <2>3. PICK k \in Missed : \A h \in Missed : k <= h
    BY <2>1, <2>2, LeastNumber
  <2>4. k \in 1..top
    BY <1>1 DEF top
  <2>5. k - 1 \in 0..top /\ k - 1 \notin Missed
    BY <1>1, <2>3, <2>4
  <2>6. PICK u \in DOMAIN d : d[u] = top - (k - 1)
    BY <2>5
  <2>7. d[u] # 0 /\ u # s
    BY <1>1, <2>4, <2>6 DEF Levels
  <2>8. PICK w \in DOMAIN d : d[u] = d[w] + 1
    BY <2>7 DEF Levels
  <2>9. d[w] \in Nat
    BY DEF Levels
  <2>10. d[w] = top - k
    BY <1>1, <2>4, <2>6, <2>8, <2>9
  <2>. QED BY <2>3, <2>10
<1>3. \A k \in 0..top : \E u \in DOMAIN d : d[u] = k
  <2>1. SUFFICES ASSUME NEW k \in 0..top PROVE \E u \in DOMAIN d : d[u] = k
    OBVIOUS
  <2>2. top - k \in 0..top /\ top - (top - k) = k
    BY <1>1
  <2>. QED BY <1>2, <2>2
<1> DEFINE pick == [k \in 0..top |-> CHOOSE u \in DOMAIN d : d[u] = k]
<1>4. \A k \in 0..top : pick[k] \in DOMAIN d /\ d[pick[k]] = k
  BY <1>3
<1> HIDE DEF pick
<1>5. pick \in [0..top -> V] /\ \A h, k \in 0..top : pick[h] = pick[k] => h = k
  <2>1. pick \in [0..top -> DOMAIN d]
    BY <1>4 DEF pick
  <2>2. DOMAIN d \subseteq V
    BY DEF Levels
  <2>3. \A h, k \in 0..top : pick[h] = pick[k] => h = k
    BY <1>4
  <2>. QED BY <2>1, <2>2, <2>3
<1>6. pick \in Injection(0..top, V)
  BY <1>5 DEF Injection, IsInjective
<1>7. Cardinality(0..top) <= Cardinality(V)
  BY <1>6, FS_Injection
<1>8. Cardinality(0..top) = IF 0 > top THEN 0 ELSE top - 0 + 1
  BY <1>1, FS_Interval
<1>9. Cardinality(V) \in Nat
  BY FS_CardinalityType
<1>. QED BY <1>1, <1>7, <1>8, <1>9 DEF top

LEMMA QueueFits ==
  ASSUME NEW V, IsFiniteSet(V), NEW E, NEW s, NEW d, NEW q, Search(V, E, s, d, q)
  PROVE  Len(q) <= Cardinality(V)
<1>1. /\ q \in [1..Len(q) -> V] /\ Len(q) \in Nat
      /\ \A a, b \in 1..Len(q) : q[a] = q[b] => a = b
  <2>1. q \in Seq(DOMAIN d) /\ DOMAIN d \subseteq V
    BY DEF Search, Levels
  <2>2. q \in [1..Len(q) -> V] /\ Len(q) \in Nat
    BY <2>1
  <2>3. ASSUME NEW a \in 1..Len(q), NEW b \in 1..Len(q), q[a] = q[b] PROVE a = b
    <3>1. ~(a < b) /\ ~(b < a)
      BY <2>3 DEF Search
    <3>. QED BY <2>2, <3>1
  <2>. QED BY <2>2, <2>3
<1>2. q \in Injection(1..Len(q), V)
  BY <1>1 DEF Injection, IsInjective
<1>3. Cardinality(1..Len(q)) <= Cardinality(V)
  BY <1>2, FS_Injection
<1>4. Cardinality(1..Len(q)) = IF 1 > Len(q) THEN 0 ELSE Len(q) - 1 + 1
  BY <1>1, FS_Interval
<1>. QED BY <1>1, <1>3, <1>4

-----------------------------------------------------------------------------
(* The order of the pairs of addresses.                                    *)

OrderedOf(A) == {p \in A \X A : p[1] # p[2]}
UpToPair(A, p) == {q \in OrderedOf(A) : q[1] < p[1] \/ (q[1] = p[1] /\ q[2] <= p[2])}
PairAt(A, x, y) == <<Sorted(A)[x], Sorted(A)[y]>>

\* The pairs that the loop counters have gone by at (x, y).
Passed(A, x, y) ==
  {q \in OrderedOf(A) :
     \E a, b \in 1..Cardinality(A) : q = PairAt(A, a, b) /\ (a < x \/ (a = x /\ b < y))}

LEMMA PairsPassed ==
  ASSUME NEW A \in SUBSET Nat, IsFiniteSet(A), NEW N, N = Cardinality(A)
  PROVE  /\ N \in Nat
         /\ Passed(A, 1, 1) = {}
         /\ Passed(A, N + 1, 1) = OrderedOf(A)
<1>1. /\ N \in Nat /\ \A a \in 1..N : Sorted(A)[a] \in A
      /\ \A x \in A : \E a \in 1..N : Sorted(A)[a] = x
  BY SortedLists
<1>2. Passed(A, 1, 1) = {}
  <2>1. \A a, b \in 1..N : ~(a < 1 \/ (a = 1 /\ b < 1))
    BY <1>1
  <2>. QED BY <2>1 DEF Passed
<1>3. Passed(A, N + 1, 1) = OrderedOf(A)
  <2>1. SUFFICES ASSUME NEW q \in OrderedOf(A) PROVE q \in Passed(A, N + 1, 1)
    BY DEF Passed
  <2>2. q[1] \in A /\ q[2] \in A /\ q = <<q[1], q[2]>>
    BY DEF OrderedOf
  <2>3. PICK a \in 1..N : Sorted(A)[a] = q[1]
    BY <1>1, <2>2
  <2>4. PICK b \in 1..N : Sorted(A)[b] = q[2]
    BY <1>1, <2>2
  <2>5. a < N + 1
    BY <1>1
  <2>6. q = PairAt(A, a, b)
    BY <2>2, <2>3, <2>4 DEF PairAt
  <2>. QED BY <2>5, <2>6 DEF Passed
<1>. QED BY <1>1, <1>2, <1>3

(* The counters go by one pair at a time, in the order of addresses.        *)
LEMMA NextPassed ==
  ASSUME NEW A \in SUBSET Nat, IsFiniteSet(A), NEW N, N = Cardinality(A),
         NEW x \in 1..N, NEW y \in 1..N, NEW x2, NEW y2,
         IF y < N THEN x2 = x /\ y2 = y + 1 ELSE x2 = x + 1 /\ y2 = 1
  PROVE  /\ x = y => Passed(A, x2, y2) = Passed(A, x, y)
         /\ x # y => /\ PairAt(A, x, y) \in OrderedOf(A)
                     /\ PairAt(A, x, y) \notin Passed(A, x, y)
                     /\ Passed(A, x2, y2) = Passed(A, x, y) \cup {PairAt(A, x, y)}
                     /\ UpToPair(A, PairAt(A, x, y)) = Passed(A, x, y) \cup {PairAt(A, x, y)}
<1>1. /\ N \in Nat /\ \A a \in 1..N : Sorted(A)[a] \in A
      /\ \A a, b \in 1..N : a < b => Sorted(A)[a] < Sorted(A)[b]
      /\ \A z \in A : \E a \in 1..N : Sorted(A)[a] = z
  BY SortedLists
<1>2. \A a, b \in 1..N : /\ Sorted(A)[a] \in Nat /\ Sorted(A)[b] \in Nat
                         /\ (Sorted(A)[a] = Sorted(A)[b] <=> a = b)
                         /\ (Sorted(A)[a] < Sorted(A)[b] <=> a < b)
  <2>1. SUFFICES ASSUME NEW a \in 1..N, NEW b \in 1..N
                 PROVE  /\ Sorted(A)[a] \in Nat /\ Sorted(A)[b] \in Nat
                        /\ (Sorted(A)[a] = Sorted(A)[b] <=> a = b)
                        /\ (Sorted(A)[a] < Sorted(A)[b] <=> a < b)
    OBVIOUS
  <2>2. Sorted(A)[a] \in Nat /\ Sorted(A)[b] \in Nat /\ a \in Nat /\ b \in Nat
    <3>1. Sorted(A)[a] \in A /\ Sorted(A)[b] \in A
      BY <1>1, Zenon
    <3>2. Sorted(A)[a] \in Nat /\ Sorted(A)[b] \in Nat
      BY <3>1
    <3>3. a \in Nat /\ b \in Nat
      BY <1>1
    <3>. QED BY <3>2, <3>3
  <2>3. (a < b => Sorted(A)[a] < Sorted(A)[b]) /\ (b < a => Sorted(A)[b] < Sorted(A)[a])
    BY <1>1
  <2>. QED BY <2>2, <2>3
<1>3. \A a, b \in 1..N : (a < x2 \/ (a = x2 /\ b < y2)) <=> (a < x \/ (a = x /\ b < y)) \/ (a = x /\ b = y)
  BY <1>1
<1>4. \A a, b, c, d \in 1..N : PairAt(A, a, b) = PairAt(A, c, d) <=> a = c /\ b = d
  BY <1>2 DEF PairAt
<1>5. CASE x = y
  <2>1. \A a, b \in 1..N : PairAt(A, a, b) \in OrderedOf(A) => a # b
    BY DEF PairAt, OrderedOf
  <2>2. \A a, b \in 1..N : PairAt(A, a, b) \in OrderedOf(A) =>
          ((a < x2 \/ (a = x2 /\ b < y2)) <=> (a < x \/ (a = x /\ b < y)))
    BY <1>3, <1>5, <2>1
  <2>. QED BY <1>1, <1>5, <2>2 DEF Passed
<1>6. CASE x # y
  <2> DEFINE p == PairAt(A, x, y)
  <2>1. p \in OrderedOf(A)
    BY <1>1, <1>2, <1>6 DEF PairAt, OrderedOf
  <2>2. p \notin Passed(A, x, y)
    <3>1. SUFFICES ASSUME NEW a \in 1..N, NEW b \in 1..N, p = PairAt(A, a, b), a < x \/ (a = x /\ b < y)
                   PROVE  FALSE
      BY DEF Passed
    <3>2. a = x /\ b = y
      BY <1>4, <3>1
    <3>. QED BY <1>1, <3>1, <3>2
  <2>3. Passed(A, x2, y2) = Passed(A, x, y) \cup {p}
    <3>1. ASSUME NEW q \in Passed(A, x2, y2) PROVE q \in Passed(A, x, y) \cup {p}
      <4>1. PICK a, b \in 1..N : q = PairAt(A, a, b) /\ (a < x2 \/ (a = x2 /\ b < y2))
        BY <3>1 DEF Passed
      <4>2. q \in OrderedOf(A)
        BY <3>1 DEF Passed
      <4>3. CASE a < x \/ (a = x /\ b < y)
        BY <4>1, <4>2, <4>3 DEF Passed
      <4>4. CASE a = x /\ b = y
        BY <4>1, <4>4
      <4>. QED BY <1>3, <4>1, <4>3, <4>4
    <3>2. ASSUME NEW q \in Passed(A, x, y) PROVE q \in Passed(A, x2, y2)
      <4>1. PICK a, b \in 1..N : q = PairAt(A, a, b) /\ (a < x \/ (a = x /\ b < y))
        BY <3>2 DEF Passed
      <4>2. q \in OrderedOf(A)
        BY <3>2 DEF Passed
      <4>. QED BY <1>3, <4>1, <4>2 DEF Passed
    <3>3. p \in Passed(A, x2, y2)
      BY <1>3, <2>1 DEF Passed
    <3>. QED BY <3>1, <3>2, <3>3
  <2>4. UpToPair(A, p) = Passed(A, x, y) \cup {p}
    <3>1. \A a, b \in 1..N :
            (PairAt(A, a, b)[1] < p[1] \/ (PairAt(A, a, b)[1] = p[1] /\ PairAt(A, a, b)[2] <= p[2]))
              <=> (a < x \/ (a = x /\ b < y)) \/ (a = x /\ b = y)
      <4>1. SUFFICES ASSUME NEW a \in 1..N, NEW b \in 1..N
            PROVE (Sorted(A)[a] < Sorted(A)[x] \/ (Sorted(A)[a] = Sorted(A)[x] /\ Sorted(A)[b] <= Sorted(A)[y]))
                    <=> (a < x \/ (a = x /\ b < y)) \/ (a = x /\ b = y)
        BY DEF PairAt
      <4>2. Sorted(A)[b] <= Sorted(A)[y] <=> (b < y \/ b = y)
        BY <1>2
      <4>. QED BY <1>2, <4>2
    <3>2. ASSUME NEW q \in OrderedOf(A)
          PROVE  \E a, b \in 1..N : q = PairAt(A, a, b)
      <4>1. q[1] \in A /\ q[2] \in A /\ q = <<q[1], q[2]>>
        BY DEF OrderedOf
      <4>2. PICK a \in 1..N : Sorted(A)[a] = q[1]
        BY <1>1, <4>1
      <4>3. PICK b \in 1..N : Sorted(A)[b] = q[2]
        BY <1>1, <4>1
      <4>. QED BY <4>1, <4>2, <4>3 DEF PairAt
    <3>3. ASSUME NEW q \in UpToPair(A, p) PROVE q \in Passed(A, x, y) \cup {p}
      <4>1. q \in OrderedOf(A) /\ (q[1] < p[1] \/ (q[1] = p[1] /\ q[2] <= p[2]))
        BY <3>3 DEF UpToPair
      <4>2. PICK a, b \in 1..N : q = PairAt(A, a, b)
        BY <3>2, <4>1
      <4>3. (a < x \/ (a = x /\ b < y)) \/ (a = x /\ b = y)
        BY <3>1, <4>1, <4>2
      <4>. QED BY <4>1, <4>2, <4>3 DEF Passed
    <3>4. ASSUME NEW q \in Passed(A, x, y) PROVE q \in UpToPair(A, p)
      <4>1. PICK a, b \in 1..N : q = PairAt(A, a, b) /\ (a < x \/ (a = x /\ b < y))
        BY <3>4 DEF Passed
      <4>2. q \in OrderedOf(A)
        BY <3>4 DEF Passed
      <4>. QED BY <3>1, <4>1, <4>2 DEF UpToPair
    <3>5. p \in UpToPair(A, p)
      BY <2>1, <3>1 DEF UpToPair
    <3>. QED BY <3>3, <3>4, <3>5
  <2>. QED BY <1>6, <2>1, <2>2, <2>3, <2>4
<1>. QED BY <1>5, <1>6

(* A pair that has gone by went by after all that come before it.           *)
LEMMA PassedInOrder ==
  ASSUME NEW A \in SUBSET Nat, IsFiniteSet(A), NEW N, N = Cardinality(A),
         NEW x \in 1..(N + 1), NEW y \in Nat, NEW p \in Passed(A, x, y)
  PROVE  UpToPair(A, p) \subseteq Passed(A, x, y)
<1>1. /\ N \in Nat /\ \A a \in 1..N : Sorted(A)[a] \in A
      /\ \A a, b \in 1..N : a < b => Sorted(A)[a] < Sorted(A)[b]
      /\ \A z \in A : \E a \in 1..N : Sorted(A)[a] = z
  BY SortedLists
<1>2. SUFFICES ASSUME NEW q \in OrderedOf(A), q[1] < p[1] \/ (q[1] = p[1] /\ q[2] <= p[2])
               PROVE  q \in Passed(A, x, y)
  BY DEF UpToPair
<1>3. PICK a, b \in 1..N : p = <<Sorted(A)[a], Sorted(A)[b]>> /\ (a < x \/ (a = x /\ b < y))
  BY DEF Passed, PairAt
<1>4. q[1] \in A /\ q[2] \in A /\ q = <<q[1], q[2]>>
  BY DEF OrderedOf
<1>5. PICK c \in 1..N : Sorted(A)[c] = q[1]
  BY <1>1, <1>4
<1>6. PICK d \in 1..N : Sorted(A)[d] = q[2]
  BY <1>1, <1>4
<1>7. p[1] = Sorted(A)[a] /\ p[2] = Sorted(A)[b]
  BY <1>3
<1>8. /\ Sorted(A)[a] \in Nat /\ Sorted(A)[b] \in Nat /\ Sorted(A)[c] \in Nat /\ Sorted(A)[d] \in Nat
      /\ a \in Nat /\ b \in Nat /\ c \in Nat /\ d \in Nat
  <2>1. /\ Sorted(A)[a] \in A /\ Sorted(A)[b] \in A
        /\ Sorted(A)[c] \in A /\ Sorted(A)[d] \in A
    BY <1>1, Zenon
  <2>2. /\ Sorted(A)[a] \in Nat /\ Sorted(A)[b] \in Nat
        /\ Sorted(A)[c] \in Nat /\ Sorted(A)[d] \in Nat
    BY <2>1
  <2>3. a \in Nat /\ b \in Nat /\ c \in Nat /\ d \in Nat
    BY <1>1
  <2>. QED BY <2>2, <2>3
<1>9. (a < c => Sorted(A)[a] < Sorted(A)[c]) /\ (b < d => Sorted(A)[b] < Sorted(A)[d])
      /\ (c < a => Sorted(A)[c] < Sorted(A)[a])
  BY <1>1
<1>10. c < a \/ (c = a /\ d <= b)
  BY <1>2, <1>5, <1>6, <1>7, <1>8, <1>9
<1>11. c < x \/ (c = x /\ d < y)
  BY <1>1, <1>3, <1>8, <1>10
<1>. QED BY <1>4, <1>5, <1>6, <1>11 DEF Passed, PairAt

-----------------------------------------------------------------------------
(* Columns.                                                                *)

\* What Selected computes for each length of a beginning of the sequence.
Chooses(f, seq, S, m) ==
  f = [n \in 0..m |-> IF n = 0 THEN << >>
                      ELSE IF n \in S THEN Append(f[n - 1], seq[n])
                      ELSE f[n - 1]]

LEMMA ChoosesExists ==
  ASSUME NEW seq, NEW S, NEW m \in Nat
  PROVE  \E f : Chooses(f, seq, S, m)
<1> DEFINE Bad == {k \in Nat : ~\E f : Chooses(f, seq, S, k)}
<1>1. SUFFICES ASSUME Bad # {} PROVE FALSE
  OBVIOUS
<1>2. PICK k \in Bad : \A h \in Bad : k <= h
  BY <1>1, LeastNumber
<1>3. CASE k = 0
  <2> DEFINE f == [n \in 0..0 |-> << >>]
  <2>1. Chooses(f, seq, S, 0)
    BY DEF Chooses
  <2>. QED BY <1>2, <1>3, <2>1
<1>4. CASE k # 0
  <2>1. k - 1 \in Nat /\ k - 1 \notin Bad
    BY <1>2, <1>4
  <2>2. PICK f : Chooses(f, seq, S, k - 1)
    BY <2>1
  <2> DEFINE last == IF k \in S THEN Append(f[k - 1], seq[k]) ELSE f[k - 1]
             g == [n \in 0..k |-> IF n = k THEN last ELSE f[n]]
  <2>3. \A n \in 0..(k - 1) :
          f[n] = IF n = 0 THEN << >> ELSE IF n \in S THEN Append(f[n - 1], seq[n]) ELSE f[n - 1]
    BY <2>2 DEF Chooses
  <2>4. \A n \in 0..k : n # k => n \in 0..(k - 1) /\ g[n] = f[n]
    BY <2>1
  <2>5. g[k] = last /\ \A n \in 0..k : n # 0 => n - 1 \in 0..(k - 1) /\ g[n - 1] = f[n - 1]
    BY <1>4, <2>1
  <2> HIDE DEF last
  <2>6. \A n \in 0..k :
          g[n] = IF n = 0 THEN << >> ELSE IF n \in S THEN Append(g[n - 1], seq[n]) ELSE g[n - 1]
    BY <1>4, <2>1, <2>3, <2>4, <2>5 DEF last
  <2>7. Chooses(g, seq, S, k)
    BY <2>6 DEF Chooses
  <2>. QED BY <1>2, <2>7
<1>. QED BY <1>3, <1>4

LEMMA SelectedIsChosen ==
  ASSUME NEW seq, NEW S, Len(seq) \in Nat
  PROVE  \E f : Chooses(f, seq, S, Len(seq)) /\ Selected(seq, S) = f[Len(seq)]
<1> DEFINE f == CHOOSE f : Chooses(f, seq, S, Len(seq))
<1>1. Chooses(f, seq, S, Len(seq))
  BY ChoosesExists
<1>2. Selected(seq, S) = f[Len(seq)]
  BY DEF Selected, Chooses
<1>. QED BY <1>1, <1>2

(* What holds of zero and goes on to the next number holds up to any number. *)
LEMMA UpTo ==
  ASSUME NEW L \in Nat, NEW T, 0 \in T, \A n \in 1..L : n - 1 \in T => n \in T
  PROVE  \A n \in 0..L : n \in T
<1> DEFINE Bad == {n \in 0..L : n \notin T}
<1>1. SUFFICES ASSUME Bad # {} PROVE FALSE
  OBVIOUS
<1>2. Bad \in SUBSET Nat
  OBVIOUS
<1>3. PICK n \in Bad : \A m \in Bad : n <= m
  BY <1>1, <1>2, LeastNumber
<1>4. n # 0 /\ n \in 1..L /\ n - 1 \in 0..L /\ n - 1 \notin Bad
  BY <1>3
<1>. QED BY <1>3, <1>4

\* value is what is wanted of name, if anything is.
Tells(want, name, value) == name \in DOMAIN want => value = want[name]

IsSequence(s) == \E X : s \in Seq(X)

\* A value of columns stands where its name stands in names.
Suited(columns, names, want) ==
  /\ IsSequence(columns) /\ IsSequence(names) /\ Len(names) = Len(columns)
  /\ \A k \in 1..Len(names) : Tells(want, names[k], columns[k].value)

(* Columns and names that are selected at the same positions.               *)
LEMMA SelectedSuited ==
  ASSUME NEW s, NEW t, NEW X, s \in Seq(X), NEW Y, t \in Seq(Y), Len(s) = Len(t),
         NEW S, NEW want, \A n \in 1..Len(s) : Tells(want, t[n], s[n].value)
  PROVE  /\ Suited(Selected(s, S), Selected(t, S), want)
         /\ Selected(s, S) \in Seq(X) /\ Selected(t, S) \in Seq(Y)
<1> DEFINE L == Len(s)
<1>1. L \in Nat /\ \A n \in 1..L : s[n] \in X /\ t[n] \in Y
  OBVIOUS
<1>2. PICK f : Chooses(f, s, S, L) /\ Selected(s, S) = f[L]
  BY <1>1, SelectedIsChosen
<1>3. PICK g : Chooses(g, t, S, L) /\ Selected(t, S) = g[L]
  BY <1>1, SelectedIsChosen
<1> DEFINE Good(n) ==
             /\ f[n] \in Seq(X) /\ g[n] \in Seq(Y) /\ Len(f[n]) = Len(g[n])
             /\ \A k \in 1..Len(g[n]) : Tells(want, g[n][k], f[n][k].value)
           T == {n \in 0..L : Good(n)}
<1>4. \A n \in 0..L :
        /\ f[n] = IF n = 0 THEN << >> ELSE IF n \in S THEN Append(f[n - 1], s[n]) ELSE f[n - 1]
        /\ g[n] = IF n = 0 THEN << >> ELSE IF n \in S THEN Append(g[n - 1], t[n]) ELSE g[n - 1]
  BY <1>2, <1>3 DEF Chooses
<1>5. \A n \in 1..L : Tells(want, t[n], s[n].value)
  OBVIOUS
<1> HIDE DEF L
<1>6. Good(0)
  <2>1. f[0] = << >> /\ g[0] = << >>
    BY <1>1, <1>4
  <2>. QED BY <2>1
<1>7. ASSUME NEW n \in 1..L, Good(n - 1) PROVE Good(n)
  <2>1. n \in 0..L /\ n # 0
    BY <1>1
  <2>2. CASE n \notin S
    <3>1. f[n] = f[n - 1] /\ g[n] = g[n - 1]
      BY <1>4, <2>1, <2>2
    <3>. QED BY <1>7, <3>1
  <2>3. CASE n \in S
    <3>1. f[n] = Append(f[n - 1], s[n]) /\ g[n] = Append(g[n - 1], t[n])
      BY <1>4, <2>1, <2>3
    <3>2. s[n] \in X /\ t[n] \in Y
      BY <1>1
    <3> DEFINE u == f[n - 1]
               v == g[n - 1]
    <3>3. u \in Seq(X) /\ v \in Seq(Y) /\ Len(u) = Len(v)
          /\ \A k \in 1..Len(v) : Tells(want, v[k], u[k].value)
      BY <1>7
    <3> HIDE DEF u, v
    <3>4. /\ Append(u, s[n]) \in Seq(X) /\ Len(Append(u, s[n])) = Len(u) + 1
          /\ \A k \in 1..Len(u) : Append(u, s[n])[k] = u[k]
          /\ Append(u, s[n])[Len(u) + 1] = s[n]
      BY <3>2, <3>3, AppendProperties
    <3>5. /\ Append(v, t[n]) \in Seq(Y) /\ Len(Append(v, t[n])) = Len(v) + 1
          /\ \A k \in 1..Len(v) : Append(v, t[n])[k] = v[k]
          /\ Append(v, t[n])[Len(v) + 1] = t[n]
      BY <3>2, <3>3, AppendProperties
    <3>6. ASSUME NEW k \in 1..(Len(v) + 1)
          PROVE  Tells(want, Append(v, t[n])[k], Append(u, s[n])[k].value)
      <4>1. CASE k = Len(v) + 1
        <5>1. Append(v, t[n])[k] = t[n] /\ Append(u, s[n])[k] = s[n]
          BY <3>3, <3>4, <3>5, <4>1
        <5>. QED BY <1>5, <5>1
      <4>2. CASE k # Len(v) + 1
        <5>1. k \in 1..Len(v)
          BY <3>3, <4>2
        <5>2. Append(v, t[n])[k] = v[k] /\ Append(u, s[n])[k] = u[k]
          BY <3>3, <3>4, <3>5, <5>1
        <5>. QED BY <3>3, <5>1, <5>2
      <4>. QED BY <4>1, <4>2
    <3>. QED BY <3>1, <3>3, <3>4, <3>5, <3>6 DEF u, v
  <2>. QED BY <2>2, <2>3
<1> HIDE DEF Good
<1>8. \A n \in 0..L : n \in T
  <2>1. 0 \in T
    BY <1>1, <1>6
  <2>2. \A n \in 1..L : n - 1 \in T => n \in T
    BY <1>1, <1>7
  <2> HIDE DEF T
  <2>. QED BY <1>1, <2>1, <2>2, UpTo
<1>9. Good(L)
  BY <1>1, <1>8
<1>. QED BY <1>2, <1>3, <1>9 DEF Good, Suited, IsSequence

(* As many elements are selected as there are positions.                    *)
LEMMA SelectedLength ==
  ASSUME NEW s, NEW X, s \in Seq(X), NEW S
  PROVE  /\ Selected(s, S) \in Seq(X)
         /\ IsFiniteSet(S \cap (1..Len(s)))
         /\ Len(Selected(s, S)) = Cardinality(S \cap (1..Len(s)))
<1> DEFINE L == Len(s)
           To(n) == S \cap (1..n)
<1>1. L \in Nat /\ \A n \in 1..L : s[n] \in X
  OBVIOUS
<1>2. PICK f : Chooses(f, s, S, L) /\ Selected(s, S) = f[L]
  BY <1>1, SelectedIsChosen
<1> DEFINE Good(n) ==
             /\ f[n] \in Seq(X) /\ IsFiniteSet(To(n)) /\ Len(f[n]) = Cardinality(To(n))
           T == {n \in 0..L : Good(n)}
<1>3. \A n \in 0..L :
        f[n] = IF n = 0 THEN << >> ELSE IF n \in S THEN Append(f[n - 1], s[n]) ELSE f[n - 1]
  BY <1>2 DEF Chooses
<1> HIDE DEF L
<1>4. Good(0)
  <2>1. f[0] = << >> /\ To(0) = {}
    BY <1>1, <1>3
  <2>2. IsFiniteSet(To(0)) /\ Cardinality(To(0)) = 0
    BY <2>1, FS_EmptySet
  <2>. QED BY <2>1, <2>2
<1>5. ASSUME NEW n \in 1..L, Good(n - 1) PROVE Good(n)
  <2>1. n \in 0..L /\ n # 0 /\ n \in Nat
    BY <1>1
  <2>2. CASE n \notin S
    <3>1. f[n] = f[n - 1] /\ To(n) = To(n - 1)
      BY <1>3, <2>1, <2>2
    <3>. QED BY <1>5, <3>1
  <2>3. CASE n \in S
    <3>1. f[n] = Append(f[n - 1], s[n])
      BY <1>3, <2>1, <2>3
    <3>2. To(n) = To(n - 1) \cup {n} /\ n \notin To(n - 1)
      BY <2>1, <2>3
    <3> HIDE DEF To
    <3>4. IsFiniteSet(To(n - 1) \cup {n}) /\ Cardinality(To(n - 1) \cup {n}) = Cardinality(To(n - 1)) + 1
      BY <1>5, <3>2, FS_AddElement
    <3>3. Append(f[n - 1], s[n]) \in Seq(X) /\ Len(Append(f[n - 1], s[n])) = Len(f[n - 1]) + 1
      BY <1>1, <1>5
    <3>. QED BY <1>5, <3>1, <3>2, <3>3, <3>4
  <2>. QED BY <2>2, <2>3
<1> HIDE DEF Good
<1>6. \A n \in 0..L : n \in T
  <2>1. 0 \in T
    BY <1>1, <1>4
  <2>2. \A n \in 1..L : n - 1 \in T => n \in T
    BY <1>1, <1>5
  <2> HIDE DEF T
  <2>. QED BY <1>1, <2>1, <2>2, UpTo
<1>7. Good(L)
  BY <1>1, <1>6
<1>. QED BY <1>2, <1>7 DEF Good, L

\* An element appended to two sequences one after the other, or to the second of them.
AppendedToBoth(a, b, x) == Append(a \o b, x)
AppendedToSecond(a, b, x) == a \o Append(b, x)

LEMMA AppendConcat ==
  ASSUME NEW X, NEW a \in Seq(X), NEW b \in Seq(X), NEW x \in X
  PROVE  AppendedToBoth(a, b, x) = AppendedToSecond(a, b, x)
BY DEF AppendedToBoth, AppendedToSecond

\* The positions in V are those in S that come after the first m.
Agree(S, V, m, n) == \A k \in 1..n : m + k \in S <=> k \in V

(* A selection from two sequences one after the other.                      *)
LEMMA SelectedConcat ==
  ASSUME NEW X, NEW s \in Seq(X), NEW t \in Seq(X), NEW S, NEW U, NEW V,
         Agree(S, U, 0, Len(s)), Agree(S, V, Len(s), Len(t))
  PROVE  Selected(s \o t, S) = Selected(s, U) \o Selected(t, V)
<1> DEFINE L == Len(s)
           M == Len(t)
           w == s \o t
<1>1. /\ L \in Nat /\ M \in Nat
      /\ \A n \in 1..L : s[n] \in X
      /\ \A n \in 1..M : t[n] \in X
  OBVIOUS
<1>2. /\ Len(w) = L + M
      /\ \A n \in 1..L : w[n] = s[n]
      /\ \A n \in 1..M : w[L + n] = t[n]
  <2>1. Len(w) = L + M /\ \A n \in 1..(L + M) : w[n] = IF n <= L THEN s[n] ELSE t[n - L]
    BY ConcatProperties
  <2> HIDE DEF w, L, M
  <2>2. \A n \in 1..L : n \in 1..(L + M) /\ n <= L
    BY <1>1
  <2>3. \A n \in 1..M : L + n \in 1..(L + M) /\ ~(L + n <= L) /\ (L + n) - L = n
    BY <1>1
  <2>. QED BY <2>1, <2>2, <2>3
<1>3. PICK f : Chooses(f, w, S, L + M) /\ Selected(w, S) = f[L + M]
  <2>1. Len(w) \in Nat
    BY <1>1, <1>2
  <2> HIDE DEF w, L, M
  <2>. QED BY <1>2, <2>1, SelectedIsChosen
<1>4. PICK g : Chooses(g, s, U, L) /\ Selected(s, U) = g[L]
  BY <1>1, SelectedIsChosen
<1>5. PICK h : Chooses(h, t, V, M) /\ Selected(t, V) = h[M]
  BY <1>1, SelectedIsChosen
<1>6. g[L] \in Seq(X)
  BY <1>4, SelectedLength
<1>7. (\A n \in 1..L : n \in S <=> n \in U) /\ (\A n \in 1..M : L + n \in S <=> n \in V)
  <2>1. \A n \in 1..L : 0 + n \in S <=> n \in U
    BY DEF Agree
  <2>2. \A n \in 1..L : 0 + n = n
    BY <1>1
  <2>. QED BY <2>1, <2>2 DEF Agree
<1> HIDE DEF w, L, M
<1>8. \A n \in 0..(L + M) :
        f[n] = IF n = 0 THEN << >> ELSE IF n \in S THEN Append(f[n - 1], w[n]) ELSE f[n - 1]
  BY <1>3 DEF Chooses
<1>9. \A n \in 0..L :
        g[n] = IF n = 0 THEN << >> ELSE IF n \in U THEN Append(g[n - 1], s[n]) ELSE g[n - 1]
  BY <1>4 DEF Chooses
<1>10. \A n \in 0..M :
        h[n] = IF n = 0 THEN << >> ELSE IF n \in V THEN Append(h[n - 1], t[n]) ELSE h[n - 1]
  BY <1>5 DEF Chooses
<1>11. f[L] = g[L]
  <2> DEFINE T == {n \in 0..L : f[n] = g[n]}
  <2>1. 0 \in T
    BY <1>1, <1>8, <1>9
  <2>2. ASSUME NEW n \in 1..L, n - 1 \in T PROVE n \in T
    <3>1. n \in 0..L /\ n \in 0..(L + M) /\ n # 0 /\ w[n] = s[n] /\ f[n - 1] = g[n - 1]
      BY <1>1, <1>2, <2>2
    <3>. QED BY <1>7, <1>8, <1>9, <3>1
  <2> HIDE DEF T
  <2>3. \A n \in 0..L : n \in T
    BY <1>1, <2>1, <2>2, UpTo
  <2>. QED BY <1>1, <2>3 DEF T
<1>12. f[L + M] = g[L] \o h[M]
  <2> DEFINE T == {n \in 0..M : h[n] \in Seq(X) /\ f[L + n] = g[L] \o h[n]}
  <2>1. 0 \in T
    <3>1. h[0] = << >> /\ L + 0 = L
      BY <1>1, <1>10
    <3>2. g[L] \o << >> = g[L]
      BY <1>6
    <3>3. h[0] \in Seq(X) /\ f[L + 0] = g[L] \o h[0]
      BY <1>11, <3>1, <3>2
    <3>4. 0 \in 0..M
      BY <1>1
    <3>. QED BY <3>3, <3>4, Zenon
  <2>2. ASSUME NEW n \in 1..M, n - 1 \in T PROVE n \in T
    <3>1. /\ n \in 0..M /\ L + n \in 0..(L + M) /\ n # 0 /\ L + n # 0 /\ w[L + n] = t[n]
          /\ (L + n) - 1 = L + (n - 1)
      BY <1>1, <1>2
    <3>2. h[n - 1] \in Seq(X) /\ f[(L + n) - 1] = g[L] \o h[n - 1]
      BY <2>2, <3>1
    <3>3. CASE n \in V
      <4>1. f[L + n] = Append(f[(L + n) - 1], t[n]) /\ h[n] = Append(h[n - 1], t[n])
        BY <1>7, <1>8, <1>10, <3>1, <3>3
      <4>2. t[n] \in X
        BY <1>1
      <4>3. h[n - 1] \in Seq(X)
        BY <3>2
      <4>4. /\ Append(h[n - 1], t[n]) \in Seq(X)
            /\ Append(g[L] \o h[n - 1], t[n]) = g[L] \o Append(h[n - 1], t[n])
        <5>1. PICK a \in Seq(X) : a = g[L]
          BY <1>6
        <5>2. PICK b \in Seq(X) : b = h[n - 1]
          BY <4>3
        <5>3. PICK x \in X : x = t[n]
          BY <4>2
        <5>4. AppendedToBoth(a, b, x) = AppendedToSecond(a, b, x)
          BY AppendConcat
        <5>5. Append(a \o b, x) = a \o Append(b, x)
          BY <5>4, Zenon DEF AppendedToBoth, AppendedToSecond
        <5>6. Append(b, x) \in Seq(X)
          BY AppendProperties
        <5>. QED BY <5>1, <5>2, <5>3, <5>5, <5>6, Zenon
      <4>5. h[n] \in Seq(X) /\ f[L + n] = g[L] \o h[n]
        BY <3>2, <4>1, <4>4, Zenon
      <4>. QED BY <3>1, <4>5
    <3>4. CASE n \notin V
      <4>1. f[L + n] = f[(L + n) - 1] /\ h[n] = h[n - 1]
        BY <1>7, <1>8, <1>10, <3>1, <3>4
      <4>. QED BY <3>1, <3>2, <4>1
    <3>. QED BY <3>3, <3>4
  <2> HIDE DEF T
  <2>3. \A n \in 0..M : n \in T
    BY <1>1, <2>1, <2>2, UpTo
  <2>4. M \in 0..M
    BY <1>1
  <2>5. M \in T
    BY <2>3, <2>4
  <2>. QED BY <2>5 DEF T
<1>. QED BY <1>3, <1>4, <1>5, <1>12 DEF w

LEMMA SequencesConcat ==
  ASSUME NEW a, NEW b, IsSequence(a), IsSequence(b)
  PROVE  \E X : a \in Seq(X) /\ b \in Seq(X)
<1>1. PICK Y : a \in Seq(Y)
  BY DEF IsSequence
<1>2. PICK Z : b \in Seq(Z)
  BY DEF IsSequence
<1>3. a \in Seq(Y \cup Z) /\ b \in Seq(Y \cup Z)
  BY <1>1, <1>2
<1>. QED BY <1>3

LEMMA SuitedConcat ==
  ASSUME NEW a, NEW s, NEW b, NEW t, NEW want, Suited(a, s, want), Suited(b, t, want)
  PROVE  Suited(a \o b, s \o t, want)
<1>1. PICK X : a \in Seq(X) /\ b \in Seq(X)
  BY SequencesConcat DEF Suited
<1>2. PICK Y : s \in Seq(Y) /\ t \in Seq(Y)
  BY SequencesConcat DEF Suited
<1>3. a \in Seq(X) /\ b \in Seq(X)
  BY <1>1
<1>4. /\ a \o b \in Seq(X) /\ Len(a \o b) = Len(a) + Len(b)
      /\ \A k \in 1..(Len(a) + Len(b)) : (a \o b)[k] = IF k <= Len(a) THEN a[k] ELSE b[k - Len(a)]
  BY <1>3, ConcatProperties
<1>5. s \in Seq(Y) /\ t \in Seq(Y) /\ Len(s) = Len(a) /\ Len(t) = Len(b)
  BY <1>2 DEF Suited
<1>6. /\ s \o t \in Seq(Y) /\ Len(s \o t) = Len(s) + Len(t)
      /\ \A k \in 1..(Len(s) + Len(t)) : (s \o t)[k] = IF k <= Len(s) THEN s[k] ELSE t[k - Len(s)]
  BY <1>5, ConcatProperties
<1>7. ASSUME NEW k \in 1..Len(s \o t)
      PROVE  Tells(want, (s \o t)[k], (a \o b)[k].value)
  <2>1. Len(s) \in Nat /\ Len(t) \in Nat
    BY <1>5
  <2>2. CASE k <= Len(s)
    <3>1. k \in 1..Len(s) /\ (s \o t)[k] = s[k] /\ (a \o b)[k] = a[k]
      BY <1>4, <1>5, <1>6, <2>1, <2>2
    <3>. QED BY <3>1 DEF Suited
  <2>3. CASE ~(k <= Len(s))
    <3>1. k - Len(s) \in 1..Len(t)
      BY <1>6, <2>1, <2>3
    <3>2. (s \o t)[k] = t[k - Len(s)] /\ (a \o b)[k] = b[k - Len(s)]
      BY <1>4, <1>5, <1>6, <2>1, <2>3
    <3>. QED BY <3>1, <3>2 DEF Suited
  <2>. QED BY <2>2, <2>3
<1>. QED BY <1>4, <1>5, <1>6, <1>7 DEF Suited, IsSequence

\* The names in a list whose flags are on, and where they stand.
Chosen(names) == {n \in 1..Len(names) : Flag(names[n]) \in m_config}
NamesOf(names) == Selected(names, Chosen(names))

LEMMA NamesConcat ==
  ASSUME NEW s, NEW t, IsSequence(s), IsSequence(t)
  PROVE  IsSequence(s \o t) /\ NamesOf(s \o t) = NamesOf(s) \o NamesOf(t)
<1>1. PICK Y : s \in Seq(Y) /\ t \in Seq(Y)
  BY SequencesConcat
<1>2. Len(s) \in Nat /\ Len(t) \in Nat
  BY <1>1
<1>3. /\ s \o t \in Seq(Y) /\ Len(s \o t) = Len(s) + Len(t)
      /\ \A k \in 1..(Len(s) + Len(t)) : (s \o t)[k] = IF k <= Len(s) THEN s[k] ELSE t[k - Len(s)]
  BY <1>1, ConcatProperties
<1>4. Agree(Chosen(s \o t), Chosen(s), 0, Len(s))
  <2>1. SUFFICES ASSUME NEW k \in 1..Len(s)
                 PROVE  0 + k \in Chosen(s \o t) <=> k \in Chosen(s)
    BY DEF Agree
  <2>2. 0 + k = k /\ k <= Len(s) /\ k \in 1..(Len(s) + Len(t))
    BY <1>2
  <2>3. (s \o t)[k] = s[k]
    BY <1>3, <2>2
  <2>. QED BY <1>3, <2>2, <2>3 DEF Chosen
<1>5. Agree(Chosen(s \o t), Chosen(t), Len(s), Len(t))
  <2>1. SUFFICES ASSUME NEW k \in 1..Len(t)
                 PROVE  Len(s) + k \in Chosen(s \o t) <=> k \in Chosen(t)
    BY DEF Agree
  <2>2. Len(s) + k \in 1..(Len(s) + Len(t)) /\ ~(Len(s) + k <= Len(s)) /\ (Len(s) + k) - Len(s) = k
    BY <1>2
  <2>3. (s \o t)[Len(s) + k] = t[k]
    BY <1>3, <2>2
  <2>. QED BY <1>3, <2>2, <2>3 DEF Chosen
<1>6. Selected(s \o t, Chosen(s \o t)) = Selected(s, Chosen(s)) \o Selected(t, Chosen(t))
  BY <1>4, <1>5, <1>1, SelectedConcat
<1>. QED BY <1>3, <1>6 DEF NamesOf, IsSequence

(* A writer that has a column for each of its names, under the flag of that *)
(* name, writes those that are enabled.                                     *)
LEMMA WriteSuited ==
  ASSUME NEW X, NEW columns \in Seq(X), NEW names, IsSequence(names), Len(columns) = Len(names), NEW want,
         \A c \in 1..Len(names) : /\ columns[c].name = Flag(names[c])
                                  /\ Tells(want, names[c], columns[c].value)
  PROVE  Suited(Write(columns), NamesOf(names), want)
<1>1. DOMAIN columns = 1..Len(names)
  OBVIOUS
<1>2. {c \in DOMAIN columns : columns[c].name \in m_config} = Chosen(names)
  BY <1>1 DEF Chosen
<1>3. Write(columns) = Selected(columns, Chosen(names))
  BY <1>2 DEF Write
<1>4. \A c \in 1..Len(columns) : Tells(want, names[c], columns[c].value)
  OBVIOUS
<1>5. Suited(Selected(columns, Chosen(names)), Selected(names, Chosen(names)), want)
  BY <1>4, SelectedSuited DEF IsSequence
<1>. QED BY <1>3, <1>5 DEF NamesOf

\* The columns of the features that the properties are about.
Wanted(u, v) ==
  [emb_dot_src_dst |-> embedding_columns(u, v)[1].value,
   emb_hadamard_mean |-> embedding_columns(u, v)[9].value,
   struct_in_degree_src |-> structural_columns(u, v)[1].value,
   struct_out_degree_src |-> structural_columns(u, v)[2].value,
   struct_in_degree_dst |-> structural_columns(u, v)[3].value,
   struct_out_degree_dst |-> structural_columns(u, v)[4].value,
   struct_common_neighbors |-> structural_columns(u, v)[6].value,
   struct_jaccard_coefficient |-> structural_columns(u, v)[7].value,
   struct_transitive_reachability |-> structural_columns(u, v)[11].value,
   struct_shortest_path |-> structural_columns(u, v)[12].value,
   struct_hierarchy_diff |-> structural_columns(u, v)[13].value,
   time_avg_duration |-> temporal_columns(u, v)[1].value,
   time_avg_interarrival |-> temporal_columns(u, v)[2].value,
   time_regularity |-> temporal_columns(u, v)[3].value,
   time_direction_bias |-> temporal_columns(u, v)[4].value,
   time_initiation_order |-> temporal_columns(u, v)[5].value,
   time_crosscorr_max |-> temporal_columns(u, v)[6].value,
   time_spike_score |-> temporal_columns(u, v)[8].value,
   flow_response_time |-> flow_columns(u, v)[1].value,
   flow_request_ratio |-> flow_columns(u, v)[2].value,
   flow_direction_asymmetry |-> flow_columns(u, v)[3].value,
   flow_causality_score |-> flow_columns(u, v)[4].value,
   flow_src_out_share |-> flow_columns(u, v)[5].value,
   flow_dst_in_share |-> flow_columns(u, v)[6].value,
   net_protocol_role |-> protocol_columns(u, v)[1].value,
   net_port_role |-> protocol_columns(u, v)[2].value]

LEMMA EmbeddingSuited ==
  ASSUME NEW u, NEW v
  PROVE  /\ IsSequence(EmbeddingNames)
         /\ Suited(write_embedding_features(u, v), NamesOf(EmbeddingNames), Wanted(u, v))
<1> DEFINE columns == embedding_columns(u, v)
           names == EmbeddingNames
           want == Wanted(u, v)
<1>1. IsSequence(names) /\ Len(names) = 9
  <2>1. names \in Seq({names[c] : c \in 1..9}) /\ Len(names) = 9
    BY DEF EmbeddingNames
  <2>. QED BY <2>1 DEF IsSequence
<1>2. \E a1, a2, a3, a4, a5, a6, a7, a8, a9 :
        columns =
          <<Column("emb_dot_src_dst", a1), Column("emb_cosine_src_dst", a2),
            Column("emb_l1_src_dst", a3), Column("emb_l2_src_dst", a4),
            Column("emb_src_norm", a5), Column("emb_dst_norm", a6),
            Column("emb_norm_ratio", a7), Column("emb_hadamard_sum", a8),
            Column("emb_hadamard_mean", a9)>>
  BY Zenon DEF embedding_columns
<1>3. /\ IsSequence(columns) /\ Len(columns) = 9
      /\ \A c \in 1..9 : columns[c].name = Flag(names[c])
  <2> HIDE DEF columns
  <2>1. columns \in Seq({columns[c] : c \in 1..9}) /\ Len(columns) = 9
    BY <1>2
  <2>2. \A c \in 1..9 : columns[c].name = Flag(names[c])
    BY <1>2 DEF EmbeddingNames, Flag, Column
  <2>. QED BY <2>1, <2>2 DEF IsSequence
<1>4. ASSUME NEW c \in 1..9
      PROVE  Tells(want, names[c], columns[c].value)
  <2> HIDE DEF columns
  <2>1. /\ names[1] = "emb_dot_src_dst" /\ want["emb_dot_src_dst"] = columns[1].value
        /\ names[9] = "emb_hadamard_mean" /\ want["emb_hadamard_mean"] = columns[9].value
    BY DEF EmbeddingNames, Wanted, columns
  <2>2. \A k \in {2, 3, 4, 5, 6, 7, 8} : names[k] \notin DOMAIN want
    BY DEF EmbeddingNames, Wanted
  <2> HIDE DEF names, want
  <2>. QED BY <2>1, <2>2 DEF Tells
<1> HIDE DEF columns, names, want
<1>5. Suited(Write(columns), NamesOf(names), want)
  BY <1>1, <1>3, <1>4, WriteSuited DEF IsSequence
<1>. QED BY <1>1, <1>5 DEF write_embedding_features, columns, names, want

LEMMA StructuralSuited ==
  ASSUME NEW u, NEW v
  PROVE  /\ IsSequence(StructuralNames)
         /\ Suited(write_structural_features(u, v), NamesOf(StructuralNames), Wanted(u, v))
<1> DEFINE columns == structural_columns(u, v)
           names == StructuralNames
           want == Wanted(u, v)
<1>1. IsSequence(names) /\ Len(names) = 13
  <2>1. names \in Seq({names[c] : c \in 1..13}) /\ Len(names) = 13
    BY DEF StructuralNames
  <2>. QED BY <2>1 DEF IsSequence
<1>2. \E a1, a2, a3, a4, a5, a6, a7, a8, a9, a10, a11, a12, a13 :
        columns =
          <<Column("struct_in_degree_src", a1), Column("struct_out_degree_src", a2),
            Column("struct_in_degree_dst", a3), Column("struct_out_degree_dst", a4),
            Column("struct_degree_ratio", a5), Column("struct_common_neighbors", a6),
            Column("struct_jaccard_coefficient", a7),
            Column("struct_adamic_adar_index", a8),
            Column("struct_preferential_attachment", a9),
            Column("struct_resource_allocation", a10),
            Column("struct_transitive_reachability", a11),
            Column("struct_shortest_path", a12), Column("struct_hierarchy_diff", a13)>>
  BY Zenon DEF structural_columns
<1>3. /\ IsSequence(columns) /\ Len(columns) = 13
      /\ \A c \in 1..13 : columns[c].name = Flag(names[c])
  <2> HIDE DEF columns
  <2>1. columns \in Seq({columns[c] : c \in 1..13}) /\ Len(columns) = 13
    BY <1>2
  <2>2. \A c \in 1..13 : columns[c].name = Flag(names[c])
    BY <1>2 DEF StructuralNames, Flag, Column
  <2>. QED BY <2>1, <2>2 DEF IsSequence
<1>4. ASSUME NEW c \in 1..13
      PROVE  Tells(want, names[c], columns[c].value)
  <2> HIDE DEF columns
  <2>1. /\ names[1] = "struct_in_degree_src" /\ want["struct_in_degree_src"] = columns[1].value
        /\ names[2] = "struct_out_degree_src" /\ want["struct_out_degree_src"] = columns[2].value
        /\ names[3] = "struct_in_degree_dst" /\ want["struct_in_degree_dst"] = columns[3].value
        /\ names[4] = "struct_out_degree_dst" /\ want["struct_out_degree_dst"] = columns[4].value
        /\ names[6] = "struct_common_neighbors" /\ want["struct_common_neighbors"] = columns[6].value
        /\ names[7] = "struct_jaccard_coefficient" /\ want["struct_jaccard_coefficient"] = columns[7].value
        /\ names[11] = "struct_transitive_reachability" /\ want["struct_transitive_reachability"] = columns[11].value
        /\ names[12] = "struct_shortest_path" /\ want["struct_shortest_path"] = columns[12].value
        /\ names[13] = "struct_hierarchy_diff" /\ want["struct_hierarchy_diff"] = columns[13].value
    BY DEF StructuralNames, Wanted, columns
  <2>2. \A k \in {5, 8, 9, 10} : names[k] \notin DOMAIN want
    BY DEF StructuralNames, Wanted
  <2> HIDE DEF names, want
  <2>. QED BY <2>1, <2>2 DEF Tells
<1> HIDE DEF columns, names, want
<1>5. Suited(Write(columns), NamesOf(names), want)
  BY <1>1, <1>3, <1>4, WriteSuited DEF IsSequence
<1>. QED BY <1>1, <1>5 DEF write_structural_features, columns, names, want

LEMMA TemporalSuited ==
  ASSUME NEW u, NEW v
  PROVE  /\ IsSequence(TemporalNames)
         /\ Suited(write_temporal_features(u, v), NamesOf(TemporalNames), Wanted(u, v))
<1> DEFINE columns == temporal_columns(u, v)
           names == TemporalNames
           want == Wanted(u, v)
<1>1. IsSequence(names) /\ Len(names) = 8
  <2>1. names \in Seq({names[c] : c \in 1..8}) /\ Len(names) = 8
    BY DEF TemporalNames
  <2>. QED BY <2>1 DEF IsSequence
<1>2. \E a1, a2, a3, a4, a5, a6, a7, a8 :
        columns =
          <<Column("time_avg_duration", a1), Column("time_avg_interarrival", a2),
            Column("time_regularity", a3), Column("time_direction_bias", a4),
            Column("time_initiation_order", a5), Column("time_crosscorr_peak", a6),
            Column("time_crosscorr_peak", a7), Column("time_spike_score", a8)>>
  BY Zenon DEF temporal_columns
<1>3. /\ IsSequence(columns) /\ Len(columns) = 8
      /\ \A c \in 1..8 : columns[c].name = Flag(names[c])
  <2> HIDE DEF columns
  <2>1. columns \in Seq({columns[c] : c \in 1..8}) /\ Len(columns) = 8
    BY <1>2
  <2>2. \A c \in 1..8 : columns[c].name = Flag(names[c])
    BY <1>2 DEF TemporalNames, Flag, Column
  <2>. QED BY <2>1, <2>2 DEF IsSequence
<1>4. ASSUME NEW c \in 1..8
      PROVE  Tells(want, names[c], columns[c].value)
  <2> HIDE DEF columns
  <2>1. /\ names[1] = "time_avg_duration" /\ want["time_avg_duration"] = columns[1].value
        /\ names[2] = "time_avg_interarrival" /\ want["time_avg_interarrival"] = columns[2].value
        /\ names[3] = "time_regularity" /\ want["time_regularity"] = columns[3].value
        /\ names[4] = "time_direction_bias" /\ want["time_direction_bias"] = columns[4].value
        /\ names[5] = "time_initiation_order" /\ want["time_initiation_order"] = columns[5].value
        /\ names[6] = "time_crosscorr_max" /\ want["time_crosscorr_max"] = columns[6].value
        /\ names[8] = "time_spike_score" /\ want["time_spike_score"] = columns[8].value
    BY DEF TemporalNames, Wanted, columns
  <2>2. \A k \in {7} : names[k] \notin DOMAIN want
    BY DEF TemporalNames, Wanted
  <2> HIDE DEF names, want
  <2>. QED BY <2>1, <2>2 DEF Tells
<1> HIDE DEF columns, names, want
<1>5. Suited(Write(columns), NamesOf(names), want)
  BY <1>1, <1>3, <1>4, WriteSuited DEF IsSequence
<1>. QED BY <1>1, <1>5 DEF write_temporal_features, columns, names, want

LEMMA FlowSuited ==
  ASSUME NEW u, NEW v
  PROVE  /\ IsSequence(FlowNames)
         /\ Suited(write_flow_features(u, v), NamesOf(FlowNames), Wanted(u, v))
<1> DEFINE columns == flow_columns(u, v)
           names == FlowNames
           want == Wanted(u, v)
<1>1. IsSequence(names) /\ Len(names) = 6
  <2>1. names \in Seq({names[c] : c \in 1..6}) /\ Len(names) = 6
    BY DEF FlowNames
  <2>. QED BY <2>1 DEF IsSequence
<1>2. \E a1, a2, a3, a4, a5, a6 :
        columns =
          <<Column("flow_response_time", a1), Column("flow_request_ratio", a2),
            Column("flow_direction_asymmetry", a3), Column("flow_causality_score", a4),
            Column("flow_src_out_share", a5), Column("flow_dst_in_share", a6)>>
  BY Zenon DEF flow_columns
<1>3. /\ IsSequence(columns) /\ Len(columns) = 6
      /\ \A c \in 1..6 : columns[c].name = Flag(names[c])
  <2> HIDE DEF columns
  <2>1. columns \in Seq({columns[c] : c \in 1..6}) /\ Len(columns) = 6
    BY <1>2
  <2>2. \A c \in 1..6 : columns[c].name = Flag(names[c])
    BY <1>2 DEF FlowNames, Flag, Column
  <2>. QED BY <2>1, <2>2 DEF IsSequence
<1>4. ASSUME NEW c \in 1..6
      PROVE  Tells(want, names[c], columns[c].value)
  <2> HIDE DEF columns
  <2>1. /\ names[1] = "flow_response_time" /\ want["flow_response_time"] = columns[1].value
        /\ names[2] = "flow_request_ratio" /\ want["flow_request_ratio"] = columns[2].value
        /\ names[3] = "flow_direction_asymmetry" /\ want["flow_direction_asymmetry"] = columns[3].value
        /\ names[4] = "flow_causality_score" /\ want["flow_causality_score"] = columns[4].value
        /\ names[5] = "flow_src_out_share" /\ want["flow_src_out_share"] = columns[5].value
        /\ names[6] = "flow_dst_in_share" /\ want["flow_dst_in_share"] = columns[6].value
    BY DEF FlowNames, Wanted, columns
  <2> HIDE DEF names, want
  <2>. QED BY <2>1 DEF Tells
<1> HIDE DEF columns, names, want
<1>5. Suited(Write(columns), NamesOf(names), want)
  BY <1>1, <1>3, <1>4, WriteSuited DEF IsSequence
<1>. QED BY <1>1, <1>5 DEF write_flow_features, columns, names, want

LEMMA NetworkSuited ==
  ASSUME NEW u, NEW v
  PROVE  /\ IsSequence(NetworkNames)
         /\ Suited(write_protocol_features(u, v), NamesOf(NetworkNames), Wanted(u, v))
<1> DEFINE columns == protocol_columns(u, v)
           names == NetworkNames
           want == Wanted(u, v)
<1>1. IsSequence(names) /\ Len(names) = 3
  <2>1. names \in Seq({names[c] : c \in 1..3}) /\ Len(names) = 3
    BY DEF NetworkNames
  <2>. QED BY <2>1 DEF IsSequence
<1>2. \E a1, a2, a3 :
        columns =
          <<Column("net_protocol_role", a1), Column("net_port_role", a2),
            Column("net_top_port", a3)>>
  BY Zenon DEF protocol_columns
<1>3. /\ IsSequence(columns) /\ Len(columns) = 3
      /\ \A c \in 1..3 : columns[c].name = Flag(names[c])
  <2> HIDE DEF columns
  <2>1. columns \in Seq({columns[c] : c \in 1..3}) /\ Len(columns) = 3
    BY <1>2
  <2>2. \A c \in 1..3 : columns[c].name = Flag(names[c])
    BY <1>2 DEF NetworkNames, Flag, Column
  <2>. QED BY <2>1, <2>2 DEF IsSequence
<1>4. ASSUME NEW c \in 1..3
      PROVE  Tells(want, names[c], columns[c].value)
  <2> HIDE DEF columns
  <2>1. /\ names[1] = "net_protocol_role" /\ want["net_protocol_role"] = columns[1].value
        /\ names[2] = "net_port_role" /\ want["net_port_role"] = columns[2].value
    BY DEF NetworkNames, Wanted, columns
  <2>2. \A k \in {3} : names[k] \notin DOMAIN want
    BY DEF NetworkNames, Wanted
  <2> HIDE DEF names, want
  <2>. QED BY <2>1, <2>2 DEF Tells
<1> HIDE DEF columns, names, want
<1>5. Suited(Write(columns), NamesOf(names), want)
  BY <1>1, <1>3, <1>4, WriteSuited DEF IsSequence
<1>. QED BY <1>1, <1>5 DEF write_protocol_features, columns, names, want

(* A row has the columns that get_feature_names announces, in their order.  *)
LEMMA RowSuited ==
  ASSUME NEW u, NEW v
  PROVE  Suited(write_pair_features(u, v, u, v), get_feature_names(m_config), Wanted(u, v))
<1> DEFINE E == EmbeddingNames
           S == StructuralNames
           T == TemporalNames
           F == FlowNames
           N == NetworkNames
           want == Wanted(u, v)
<1>1. /\ IsSequence(E) /\ IsSequence(S) /\ IsSequence(T) /\ IsSequence(F) /\ IsSequence(N)
  BY EmbeddingSuited, StructuralSuited, TemporalSuited, FlowSuited, NetworkSuited
<1>2. Suited(write_embedding_features(u, v), NamesOf(E), want)
  BY EmbeddingSuited
<1>3. Suited(write_structural_features(u, v), NamesOf(S), want)
  BY StructuralSuited
<1>4. Suited(write_temporal_features(u, v), NamesOf(T), want)
  BY TemporalSuited
<1>5. Suited(write_flow_features(u, v), NamesOf(F), want)
  BY FlowSuited
<1>6. Suited(write_protocol_features(u, v), NamesOf(N), want)
  BY NetworkSuited
<1> HIDE DEF E, S, T, F, N, want
<1>7. /\ IsSequence(E \o S \o T \o F \o N)
      /\ NamesOf(E \o S \o T \o F \o N)
          = NamesOf(E) \o NamesOf(S) \o NamesOf(T) \o NamesOf(F) \o NamesOf(N)
  <2>1. NamesOf(E \o S) = NamesOf(E) \o NamesOf(S) /\ IsSequence(E \o S)
    BY <1>1, NamesConcat
  <2>2. NamesOf((E \o S) \o T) = NamesOf(E \o S) \o NamesOf(T) /\ IsSequence((E \o S) \o T)
    BY <1>1, <2>1, NamesConcat
  <2>3. /\ NamesOf(((E \o S) \o T) \o F) = NamesOf((E \o S) \o T) \o NamesOf(F)
        /\ IsSequence(((E \o S) \o T) \o F)
    BY <1>1, <2>2, NamesConcat
  <2>4. NamesOf((((E \o S) \o T) \o F) \o N) = NamesOf(((E \o S) \o T) \o F) \o NamesOf(N)
    BY <1>1, <2>3, NamesConcat
  <2>5. IsSequence((((E \o S) \o T) \o F) \o N)
    BY <1>1, <2>3, NamesConcat
  <2>. QED BY <2>1, <2>2, <2>3, <2>4, <2>5, Zenon
<1>8. Suited(write_pair_features(u, v, u, v),
             NamesOf(E) \o NamesOf(S) \o NamesOf(T) \o NamesOf(F) \o NamesOf(N), want)
  BY <1>2, <1>3, <1>4, <1>5, <1>6, SuitedConcat DEF write_pair_features
<1>9. get_feature_names(m_config) = NamesOf(E \o S \o T \o F \o N)
  <2>1. {n \in DOMAIN FeatureNames : Flag(FeatureNames[n]) \in m_config} = Chosen(FeatureNames)
    <3>1. IsSequence(FeatureNames)
      BY <1>7 DEF FeatureNames, E, S, T, F, N
    <3>2. DOMAIN FeatureNames = 1..Len(FeatureNames)
      BY <3>1 DEF IsSequence
    <3>. QED BY <3>2 DEF Chosen
  <2>. QED BY <2>1 DEF get_feature_names, NamesOf, FeatureNames, E, S, T, F, N
<1>. QED BY <1>7, <1>8, <1>9 DEF want

-----------------------------------------------------------------------------
(* What depends on the inputs and on the caches alone stays as they do.     *)

LEMMA SameGraph ==
  ASSUME UNCHANGED inputs
  PROVE  /\ Addresses' = Addresses /\ Vertices' = Vertices
         /\ \A u, v : Between(u, v)' = Between(u, v)
         /\ \A u, v : Edges(u, v)' = Edges(u, v)
         /\ \A v : get_out_neighbors(v)' = get_out_neighbors(v)
         /\ \A v : out_degree(v)' = out_degree(v)
         /\ \A v : in_degree(v)' = in_degree(v)
         /\ \A S : Starts(S)' = Starts(S)
<1>1. flows' = flows /\ ip_to_vertex' = ip_to_vertex
  BY DEF inputs
<1>2. Addresses' = Addresses /\ Vertices' = Vertices
  BY <1>1 DEF Addresses, Vertices
<1>3. \A u, v : Between(u, v)' = Between(u, v)
  BY <1>1 DEF Between
<1>4. \A u, v : Edges(u, v)' = Edges(u, v)
  BY <1>3 DEF Edges
<1>5. \A v : get_out_neighbors(v)' = get_out_neighbors(v)
  BY <1>1 DEF get_out_neighbors
<1>6. \A v : out_degree(v)' = out_degree(v)
  BY <1>1 DEF out_degree
<1>7. \A v : in_degree(v)' = in_degree(v)
  BY <1>1 DEF in_degree
<1>8. \A S : Starts(S)' = Starts(S)
  BY <1>1 DEF Starts
<1>. QED BY <1>2, <1>3, <1>4, <1>5, <1>6, <1>7, <1>8

LEMMA SameStructure ==
  ASSUME UNCHANGED inputs, UNCHANGED caches, NEW u, NEW v
  PROVE  structural_columns(u, v)' = structural_columns(u, v)
<1>1. /\ m_shortest_path_cache' = m_shortest_path_cache
      /\ m_transitive_path_cache' = m_transitive_path_cache /\ rounded_up' = rounded_up
  BY DEF caches, inputs
<1>2. /\ Vertices' = Vertices /\ \A x, y : Edges(x, y)' = Edges(x, y)
      /\ \A x : get_out_neighbors(x)' = get_out_neighbors(x)
      /\ \A x : out_degree(x)' = out_degree(x)
      /\ \A x : in_degree(x)' = in_degree(x)
  BY SameGraph
<1>3. \A e : Degree(e)' = Degree(e)
  BY <1>2 DEF Degree
<1>4. Degrees' = Degrees
  BY <1>2 DEF Degrees
<1>5. \A d : Percentile(d)' = Percentile(d)
  BY <1>1, <1>3, <1>4 DEF Percentile
<1>6. Closeness(u, v)' = Closeness(u, v)
  BY <1>1 DEF Closeness, Cached
<1>7. Cached(m_transitive_path_cache, u, v, 0)' = Cached(m_transitive_path_cache, u, v, 0)
  BY <1>1
<1>8. get_common_neighbors(u, v)' = get_common_neighbors(u, v)
  BY <1>2 DEF get_common_neighbors
<1>9. \A S : {w \in S : out_degree(w)' > 1} = {w \in S : out_degree(w) > 1}
  BY <1>2
<1>. QED BY <1>2, <1>5, <1>6, <1>7, <1>8, <1>9 DEF structural_columns

LEMMA SameTimes ==
  ASSUME UNCHANGED inputs, NEW u, NEW v
  PROVE  temporal_columns(u, v)' = temporal_columns(u, v)
<1>1. flows' = flows
  BY DEF inputs
<1>2. /\ \A x, y : Between(x, y)' = Between(x, y)
      /\ \A S : Starts(S)' = Starts(S)
  BY SameGraph
<1>3. \A F, R : InitiationOrder(F, R)' = InitiationOrder(F, R)
  <2>1. \A A, B : SpeaksFirst(A, B)' = SpeaksFirst(A, B)
    BY <1>2, Zenon DEF SpeaksFirst
  <2>. QED BY <2>1, Zenon DEF InitiationOrder
<1>4. \A f, R : After(f, R)' = After(f, R)
  BY <1>1, <1>2 DEF After
<1>5. \A f, R : Delay(f, R)' = Delay(f, R)
  BY <1>1, <1>4 DEF Delay
<1>6. \A F, R : Answered(F, R)' = Answered(F, R)
  BY <1>4 DEF Answered
<1>7. \A F, R : Spike(F, R)' = Spike(F, R)
  BY <1>5, <1>6 DEF Spike
<1>8. \A B : Regularity(B)' = Regularity(B)
  BY <1>2 DEF Regularity
<1>9. \A F, R, l : Matches(F, R, l)' = Matches(F, R, l)
  BY <1>1, <1>2 DEF Matches
<1>10. \A F, R : CrossCorrelation(F, R)' = CrossCorrelation(F, R)
  BY <1>9 DEF CrossCorrelation
<1>11. \A B : [f \in B |-> flows'[f].finish - flows'[f].start] = [f \in B |-> flows[f].finish - flows[f].start]
  BY <1>1
<1>. QED BY <1>2, <1>3, <1>7, <1>8, <1>10, <1>11 DEF temporal_columns

LEMMA SameFlows ==
  ASSUME UNCHANGED inputs, NEW u, NEW v
  PROVE  flow_columns(u, v)' = flow_columns(u, v)
<1>1. flows' = flows
  BY DEF inputs
<1>2. /\ \A x, y : Between(x, y)' = Between(x, y)
      /\ \A S : Starts(S)' = Starts(S)
      /\ \A x : out_degree(x)' = out_degree(x)
      /\ \A x : in_degree(x)' = in_degree(x)
  BY SameGraph
<1>3. \A f, R : After(f, R)' = After(f, R)
  BY <1>1, <1>2 DEF After
<1>4. \A f, R : Delay(f, R)' = Delay(f, R)
  BY <1>1, <1>3 DEF Delay
<1>5. \A F, R : Answered(F, R)' = Answered(F, R)
  BY <1>3 DEF Answered
<1>6. \A F, R : MeanReply(F, R)' = MeanReply(F, R)
  BY <1>4, <1>5 DEF MeanReply
<1>7. ASSUME NEW F, NEW R PROVE Causality(F, R)' = Causality(F, R)
  <2>1. {flows'[f].finish : f \in F} = {flows[f].finish : f \in F}
    BY <1>1
  <2>2. Starts(R)' = Starts(R)
    BY <1>2
  <2>. QED BY <2>1, <2>2 DEF Causality
<1>. QED BY <1>2, <1>6, <1>7 DEF flow_columns

LEMMA SameRoles ==
  ASSUME UNCHANGED inputs, NEW u, NEW v
  PROVE  protocol_columns(u, v)' = protocol_columns(u, v)
<1>1. flows' = flows
  BY DEF inputs
<1>2. \A x, y : Between(x, y)' = Between(x, y)
  BY SameGraph
<1>3. \A F, R : PortRole(F, R)' = PortRole(F, R)
  BY <1>1 DEF PortRole
<1>4. \A S : /\ {f \in S : flows'[f].protocol >= 0} = {f \in S : flows[f].protocol >= 0}
             /\ [f \in S |-> classify_protocol_role(flows'[f].protocol)]
                  = [f \in S |-> classify_protocol_role(flows[f].protocol)]
  BY <1>1
<1>. QED BY <1>2, <1>3, <1>4 DEF protocol_columns

LEMMA SameWanted ==
  ASSUME UNCHANGED inputs, UNCHANGED caches, NEW u, NEW v
  PROVE  /\ Wanted(u, v)' = Wanted(u, v)
         /\ write_pair_features(u, v, u, v)' = write_pair_features(u, v, u, v)
<1>1. m_config' = m_config
  BY DEF inputs
<1>2. structural_columns(u, v)' = structural_columns(u, v)
  BY SameStructure
<1>3. temporal_columns(u, v)' = temporal_columns(u, v)
  BY SameTimes
<1>4. flow_columns(u, v)' = flow_columns(u, v)
  BY SameFlows
<1>5. protocol_columns(u, v)' = protocol_columns(u, v)
  BY SameRoles
<1>6. \A columns : Write(columns)' = Write(columns)
  BY <1>1 DEF Write
<1>7. Wanted(u, v)' = Wanted(u, v)
  BY <1>2, <1>3, <1>4, <1>5 DEF Wanted
<1>8. write_embedding_features(u, v)' = write_embedding_features(u, v)
  BY <1>6 DEF write_embedding_features
<1>9. /\ write_structural_features(u, v)' = write_structural_features(u, v)
      /\ write_temporal_features(u, v)' = write_temporal_features(u, v)
      /\ write_flow_features(u, v)' = write_flow_features(u, v)
      /\ write_protocol_features(u, v)' = write_protocol_features(u, v)
  BY <1>2, <1>3, <1>4, <1>5, <1>6
  DEF write_structural_features, write_temporal_features, write_flow_features, write_protocol_features
<1>. QED BY <1>7, <1>8, <1>9 DEF write_pair_features

-----------------------------------------------------------------------------
(* The invariant.                                                          *)

Successors == [v \in Vertices |-> get_out_neighbors(v)]

InputsFit ==
  /\ IsFiniteSet(Addresses) /\ Addresses \in SUBSET Nat
  /\ \A a \in Addresses : ip_to_vertex[a] \in Nat
  /\ \A a, b \in Addresses : ip_to_vertex[a] = ip_to_vertex[b] => a = b
  /\ flows \in Seq(FlowType)
  /\ \A f \in DOMAIN flows : flows[f].source \in Vertices /\ flows[f].target \in Vertices
  /\ m_config \in SUBSET AllFeatures

PhaseFits ==
  /\ phase \in {"start", "paths", "hops", "rows", "done", "failed"}
  /\ phase \in {"paths", "hops", "rows", "done"} => m_config # {} /\ Cardinality(Vertices) >= 2
  /\ phase = "start" =>
       /\ left = {} /\ source = Nobody
       /\ m_shortest_path_cache = << >> /\ m_transitive_path_cache = << >>
  /\ phase = "paths" => "struct_shortest_path" \in m_config
  /\ phase = "hops" => "struct_transitive_reachability" \in m_config

SearchFits ==
  /\ left \in SUBSET Vertices /\ source \in Vertices \cup {Nobody} /\ source \notin left
  /\ source = Nobody => queue = << >> /\ distances = << >>
  /\ source # Nobody => phase = "paths" /\ Search(Vertices, Successors, source, distances, queue)

\* The vertices that the searches are done with.
Searched == Vertices \ (left \cup {source})

\* The cache holds the distances d of the search from s.
Stored(s, d) ==
  /\ Measured(Vertices, Successors, s, d)
  /\ \A v \in Vertices : <<s, v>> \in DOMAIN m_shortest_path_cache <=> v \in DOMAIN d /\ v # s
  /\ \A v \in DOMAIN d : v # s => m_shortest_path_cache[<<s, v>>] = d[v]

PathsFit ==
  /\ DOMAIN m_shortest_path_cache \in SUBSET (Vertices \X Vertices)
  /\ phase = "paths" =>
       /\ \A s \in Vertices \ Searched, v \in Vertices : <<s, v>> \notin DOMAIN m_shortest_path_cache
       /\ \A s \in Searched : \E d : Stored(s, d)
  /\ phase \in {"hops", "rows", "done"} /\ "struct_shortest_path" \in m_config =>
       \A s \in Vertices : \E d : Stored(s, d)

\* The cache holds the paths of two flows from s.
Counted(s) ==
  \A v \in Vertices :
    /\ <<s, v>> \in DOMAIN m_transitive_path_cache <=> <<s, v>> \in DOMAIN TwoHops(s)
    /\ <<s, v>> \in DOMAIN TwoHops(s) => m_transitive_path_cache[<<s, v>>] = TwoHops(s)[<<s, v>>]

HopsFit ==
  /\ DOMAIN m_transitive_path_cache \in SUBSET (Vertices \X Vertices)
  /\ phase = "paths" => m_transitive_path_cache = << >>
  /\ phase = "hops" =>
       /\ \A s \in left, v \in Vertices : <<s, v>> \notin DOMAIN m_transitive_path_cache
       /\ \A s \in Vertices \ left : Counted(s)
  /\ phase \in {"rows", "done"} /\ "struct_transitive_reachability" \in m_config =>
       \A s \in Vertices : Counted(s)

-----------------------------------------------------------------------------
(* The inputs.                                                             *)

LEMMA InputsStart ==
  ASSUME Init
  PROVE  InputsFit
<1>1. PICK call \in Calls :
        flows = call.flows /\ ip_to_vertex = call.ip_to_vertex /\ m_config = call.config
  BY DEF Init
<1>2. /\ IsFiniteSet(DOMAIN ip_to_vertex) /\ DOMAIN ip_to_vertex \in SUBSET Nat
      /\ IsInjective(ip_to_vertex)
      /\ flows \in Seq(FlowType)
      /\ \A a \in DOMAIN ip_to_vertex : ip_to_vertex[a] \in Nat
      /\ \A f \in DOMAIN flows : {flows[f].source, flows[f].target} \subseteq ToSet(ip_to_vertex)
      /\ m_config \in SUBSET AllFeatures
  BY <1>1, FeatureAssumption
<1>3. \A a, b \in DOMAIN ip_to_vertex : ip_to_vertex[a] = ip_to_vertex[b] => a = b
  BY <1>2 DEF IsInjective
<1>4. ToSet(ip_to_vertex) = Vertices
  BY DEF ToSet, Vertices
<1>. QED BY <1>2, <1>3, <1>4 DEF InputsFit, Addresses

LEMMA InputsKept ==
  ASSUME InputsFit, UNCHANGED inputs
  PROVE  InputsFit'
<1>1. flows' = flows /\ ip_to_vertex' = ip_to_vertex /\ m_config' = m_config
  BY DEF inputs
<1>2. Addresses' = Addresses /\ Vertices' = Vertices
  BY SameGraph
<1>. QED BY <1>1, <1>2 DEF InputsFit

LEMMA GraphFits ==
  ASSUME InputsFit
  PROVE  /\ Vertices \in SUBSET Nat /\ IsFiniteSet(Vertices)
         /\ Cardinality(Addresses) \in Nat /\ Cardinality(Vertices) = Cardinality(Addresses)
         /\ \A v : get_out_neighbors(v) \in SUBSET Vertices
         /\ \A v \in Vertices : Successors[v] = get_out_neighbors(v)
         /\ \A v \in Vertices : Successors[v] \in SUBSET Vertices
         /\ Nobody \notin Vertices
<1> DEFINE vertex == [a \in Addresses |-> ip_to_vertex[a]]
<1>1. Vertices \in SUBSET Nat /\ Nobody \notin Vertices
  BY DEF InputsFit, Vertices, Addresses, Nobody
<1>2. IsFiniteSet(Addresses)
  BY DEF InputsFit
<1>3. /\ vertex \in [Addresses -> Vertices]
      /\ \A a, b \in Addresses : vertex[a] = vertex[b] => a = b
      /\ \A v \in Vertices : \E a \in Addresses : vertex[a] = v
  BY DEF InputsFit, Vertices, Addresses
<1> HIDE DEF vertex
<1>4. vertex \in Bijection(Addresses, Vertices)
  <2>1. vertex \in Injection(Addresses, Vertices)
    BY <1>3 DEF Injection, IsInjective
  <2>2. vertex \in Surjection(Addresses, Vertices)
    BY <1>3 DEF Surjection
  <2>. QED BY <2>1, <2>2 DEF Bijection
<1>5. IsFiniteSet(Vertices) /\ Cardinality(Vertices) = Cardinality(Addresses)
  BY <1>2, <1>4, FS_Bijection DEF ExistsBijection
<1>6. Cardinality(Addresses) \in Nat
  BY <1>2, FS_CardinalityType
<1>7. \A v : get_out_neighbors(v) \in SUBSET Vertices
  BY DEF InputsFit, get_out_neighbors
<1>. QED BY <1>1, <1>5, <1>6, <1>7 DEF Successors

-----------------------------------------------------------------------------
(* The search and the caches.                                              *)

LEMMA SearchKept ==
  ASSUME InputsFit, PhaseFits, SearchFits, Next
  PROVE  SearchFits'
<1>1. /\ Vertices \in SUBSET Nat /\ IsFiniteSet(Vertices) /\ Nobody \notin Vertices
      /\ \A v \in Vertices : Successors[v] = get_out_neighbors(v) /\ Successors[v] \in SUBSET Vertices
  BY GraphFits
<1>2. UNCHANGED inputs
  BY DEF Next, Refuse, Begin, BeginSource, VisitNext, StorePaths, FinishPaths, CountTwoHops,
         FinishHops, SkipSelf, WritePair, WriteFails, FinishRows, Ended, vars
<1>3. Vertices' = Vertices /\ Successors' = Successors
  BY <1>2, SameGraph DEF Successors
<1>4. CASE Begin
  <2>1. /\ phase = "start" /\ left' = Vertices /\ source' = source /\ queue' = queue
        /\ distances' = distances
    BY <1>4 DEF Begin
  <2>2. source = Nobody
    BY <2>1 DEF PhaseFits
  <2>. QED BY <1>1, <1>3, <2>1, <2>2 DEF SearchFits
<1>5. CASE BeginSource
  <2>1. PICK v \in left : /\ source' = v /\ left' = left \ {v} /\ queue' = <<v>>
                          /\ distances' = [u \in {v} |-> 0] /\ phase = "paths" /\ phase' = phase
    BY <1>5 DEF BeginSource
  <2>2. v \in Vertices
    BY DEF SearchFits
  <2>3. Search(Vertices, Successors, v, [u \in {v} |-> 0], <<v>>)
    BY <2>2, SearchStarts
  <2>4. Search(Vertices, Successors, source, distances, queue)'
    BY <1>3, <2>1, <2>3
  <2>5. left' \in SUBSET Vertices' /\ source' \in Vertices' /\ source' \notin left' /\ source' # Nobody
    BY <1>1, <1>3, <2>1, <2>2 DEF SearchFits
  <2>. QED BY <2>1, <2>4, <2>5 DEF SearchFits
<1>6. CASE VisitNext
  <2>1. /\ phase = "paths" /\ phase' = phase /\ queue # << >> /\ left' = left /\ source' = source
        /\ distances' = Joined([v \in Fresh(Head(queue)) |-> distances[Head(queue)] + 1], distances)
        /\ queue' = Tail(queue) \o Sorted(Fresh(Head(queue)))
    BY <1>6 DEF VisitNext
  <2>2. Search(Vertices, Successors, source, distances, queue) /\ source # Nobody
    BY <2>1 DEF SearchFits
  <2>3. Head(queue) \in Vertices
    BY <2>1, <2>2 DEF Search, Levels
  <2>4. Fresh(Head(queue)) = Successors[Head(queue)] \ DOMAIN distances
    BY <1>1, <2>3 DEF Fresh
  <2>5. Search(Vertices, Successors, source, distances, queue)'
    <3>1. PICK F : F = Fresh(Head(queue))
      OBVIOUS
    <3>2. Search(Vertices, Successors, source, Joined([v \in F |-> distances[Head(queue)] + 1], distances),
                 Tail(queue) \o Sorted(F))
      BY <1>1, <2>1, <2>2, <2>4, <3>1, SearchGoesOn
    <3>. QED BY <1>3, <2>1, <3>1, <3>2
  <2>. QED BY <1>3, <2>1, <2>2, <2>5 DEF SearchFits
<1>7. CASE StorePaths
  <2>1. source' = Nobody /\ distances' = << >> /\ queue' = << >> /\ left' = left
    BY <1>7 DEF StorePaths
  <2>. QED BY <1>1, <1>3, <2>1 DEF SearchFits
<1>8. CASE FinishPaths
  <2>1. source = Nobody /\ left' = Vertices /\ source' = source /\ queue' = queue /\ distances' = distances
    BY <1>8 DEF FinishPaths
  <2>. QED BY <1>1, <1>3, <2>1 DEF SearchFits
<1>9. CASE CountTwoHops
  <2>1. phase = "hops" /\ left' \in SUBSET left /\ source' = source /\ queue' = queue /\ distances' = distances
    BY <1>9 DEF CountTwoHops
  <2>2. source = Nobody
    BY <2>1 DEF SearchFits
  <2>. QED BY <1>1, <1>3, <2>1, <2>2 DEF SearchFits
<1>10. CASE UNCHANGED search /\ (UNCHANGED phase \/ phase \in {"start", "hops", "rows"})
  <2>1. left' = left /\ source' = source /\ queue' = queue /\ distances' = distances
    BY <1>10 DEF search
  <2>2. source = Nobody \/ phase' = phase
    BY <1>10 DEF SearchFits
  <2>. QED BY <1>3, <2>1, <2>2 DEF SearchFits
<1>11. \/ UNCHANGED search /\ (UNCHANGED phase \/ phase \in {"start", "hops", "rows"})
       \/ Begin \/ BeginSource \/ VisitNext \/ StorePaths \/ FinishPaths \/ CountTwoHops
  BY DEF Next, Refuse, FinishHops, SkipSelf, WritePair, WriteFails, FinishRows, Ended, vars, Writing
<1>. QED BY <1>4, <1>5, <1>6, <1>7, <1>8, <1>9, <1>10, <1>11

LEMMA InputsSame ==
  ASSUME [Next]_vars
  PROVE  UNCHANGED inputs
BY DEF Next, Refuse, Begin, BeginSource, VisitNext, StorePaths, FinishPaths, CountTwoHops,
       FinishHops, SkipSelf, WritePair, WriteFails, FinishRows, Ended, vars

LEMMA PhaseKept ==
  ASSUME InputsFit, PhaseFits, Next
  PROVE  PhaseFits'
<1>1. UNCHANGED inputs
  BY InputsSame
<1>2. Vertices' = Vertices /\ m_config' = m_config
  BY <1>1, SameGraph DEF inputs
<1>3. CASE Refuse
  BY <1>2, <1>3 DEF Refuse, PhaseFits
<1>4. CASE Begin
  BY <1>2, <1>4 DEF Begin, PhaseFits, AfterPaths
<1>5. CASE BeginSource \/ VisitNext \/ StorePaths \/ CountTwoHops
  BY <1>2, <1>5 DEF BeginSource, VisitNext, StorePaths, CountTwoHops, PhaseFits
<1>6. CASE FinishPaths
  BY <1>2, <1>6 DEF FinishPaths, PhaseFits, AfterPaths
<1>7. CASE FinishHops \/ WriteFails \/ FinishRows
  BY <1>2, <1>7 DEF FinishHops, WriteFails, FinishRows, Writing, PhaseFits
<1>8. CASE SkipSelf \/ WritePair \/ Ended
  BY <1>2, <1>8 DEF SkipSelf, WritePair, Ended, Writing, PhaseFits, vars, search, caches
<1>. QED BY <1>3, <1>4, <1>5, <1>6, <1>7, <1>8 DEF Next

LEMMA PathsKept ==
  ASSUME InputsFit, PhaseFits, SearchFits, PathsFit, Next
  PROVE  PathsFit'
<1>1. /\ Vertices \in SUBSET Nat /\ Nobody \notin Vertices
  BY GraphFits
<1>2. UNCHANGED inputs
  BY InputsSame
<1>3. Vertices' = Vertices /\ Successors' = Successors /\ m_config' = m_config
  BY <1>2, SameGraph DEF Successors, inputs
<1>4. ASSUME UNCHANGED m_shortest_path_cache
      PROVE  \A s, d : Stored(s, d)' <=> Stored(s, d)
  BY <1>3, <1>4 DEF Stored
<1>5. CASE Begin
  <2>1. /\ phase = "start" /\ left' = Vertices /\ source' = source /\ UNCHANGED m_shortest_path_cache
        /\ phase' = "paths" \/ "struct_shortest_path" \notin m_config
    BY <1>5 DEF Begin, caches
  <2>2. source = Nobody /\ m_shortest_path_cache = << >>
    BY <2>1 DEF PhaseFits
  <2>3. DOMAIN m_shortest_path_cache' = {}
    BY <2>1, <2>2
  <2>4. Searched' = {}
    BY <1>3, <2>1 DEF Searched
  <2>5. phase' \in {"hops", "rows", "done"} => "struct_shortest_path" \notin m_config'
    BY <1>3, <2>1
  <2>. QED BY <1>3, <2>3, <2>4, <2>5 DEF PathsFit
<1>6. CASE BeginSource
  <2>1. PICK v \in left : /\ source' = v /\ left' = left \ {v} /\ phase = "paths" /\ phase' = "paths"
                          /\ source = Nobody /\ UNCHANGED m_shortest_path_cache
    BY <1>6 DEF BeginSource, caches
  <2>2. Searched' = Searched
    BY <1>1, <1>3, <2>1 DEF Searched, SearchFits
  <2>. QED BY <1>3, <1>4, <2>1, <2>2 DEF PathsFit
<1>7. CASE StorePaths
  <2>1. /\ phase = "paths" /\ phase' = "paths" /\ source # Nobody /\ queue = << >> /\ source' = Nobody /\ left' = left
        /\ m_shortest_path_cache' = Joined([p \in {source} \X Storable |-> distances[p[2]]], m_shortest_path_cache)
    BY <1>7 DEF StorePaths
  <2>2. source \in Vertices /\ source \notin left /\ Measured(Vertices, Successors, source, distances)
    BY <2>1, SearchEnds DEF SearchFits
  <2>3. Searched' = Searched \cup {source} /\ source \notin Searched
    BY <1>1, <1>3, <2>1, <2>2 DEF Searched, SearchFits
  <2>4. DOMAIN distances \in SUBSET Vertices
    BY <2>2 DEF Measured, Levels
  <2>5. /\ DOMAIN m_shortest_path_cache' = {source} \X Storable \cup DOMAIN m_shortest_path_cache
        /\ \A p \in {source} \X Storable : m_shortest_path_cache'[p] = distances[p[2]]
        /\ \A p \in DOMAIN m_shortest_path_cache :
             p \notin {source} \X Storable => m_shortest_path_cache'[p] = m_shortest_path_cache[p]
    BY <2>1 DEF Joined
  <2>6. \A v : <<source, v>> \notin DOMAIN m_shortest_path_cache
    <3>1. \A v \in Vertices : <<source, v>> \notin DOMAIN m_shortest_path_cache
      BY <2>1, <2>2, <2>3 DEF PathsFit
    <3>2. \A v : v \notin Vertices => <<source, v>> \notin Vertices \X Vertices
      OBVIOUS
    <3>. QED BY <3>1, <3>2 DEF PathsFit
  <2>7. DOMAIN m_shortest_path_cache' \in SUBSET (Vertices \X Vertices)
    BY <2>2, <2>4, <2>5 DEF PathsFit, Storable
  <2>8. \A s \in Vertices \ Searched', v \in Vertices : <<s, v>> \notin DOMAIN m_shortest_path_cache'
    <3>1. SUFFICES ASSUME NEW s \in Vertices \ Searched', NEW v \in Vertices
                   PROVE  <<s, v>> \notin DOMAIN m_shortest_path_cache'
      OBVIOUS
    <3>2. s # source /\ s \in Vertices \ Searched
      BY <2>3
    <3>3. <<s, v>> \notin DOMAIN m_shortest_path_cache
      BY <2>1, <3>2 DEF PathsFit
    <3>4. <<s, v>> \notin {source} \X Storable
      BY <3>2
    <3>. QED BY <2>5, <3>3, <3>4
  <2>9. \E s, d : s = source /\ Stored(s, d)'
    <3>1. PICK s, d : s = source /\ d = distances
      OBVIOUS
    <3>2. Measured(Vertices', Successors', s, d)
      BY <1>3, <2>2, <3>1
    <3>3. ASSUME NEW v \in Vertices
          PROVE  <<s, v>> \in DOMAIN m_shortest_path_cache' <=> v \in DOMAIN d /\ v # s
      <4>1. <<s, v>> \in {source} \X Storable <=> v \in DOMAIN d /\ v # s
        BY <3>1 DEF Storable
      <4>. QED BY <2>5, <2>6, <3>1, <4>1
    <3>4. ASSUME NEW v \in DOMAIN d, v # s PROVE m_shortest_path_cache'[<<s, v>>] = d[v]
      <4>1. <<s, v>> \in {source} \X Storable
        BY <3>1, <3>4 DEF Storable
      <4>2. m_shortest_path_cache'[<<s, v>>] = distances[<<s, v>>[2]]
        BY <2>5, <4>1
      <4>. QED BY <3>1, <4>2
    <3>5. Stored(s, d)'
      BY <1>3, <3>2, <3>3, <3>4 DEF Stored
    <3>. QED BY <3>1, <3>5
  <2>10. ASSUME NEW s \in Searched, NEW d, Stored(s, d) PROVE Stored(s, d)'
    <3>1. s # source
      BY <2>3
    <3>2. \A v : <<s, v>> \notin {source} \X Storable
      BY <3>1
    <3>3. \A v \in Vertices : <<s, v>> \in DOMAIN m_shortest_path_cache' <=> <<s, v>> \in DOMAIN m_shortest_path_cache
      BY <2>5, <3>2
    <3>4. ASSUME NEW v \in DOMAIN d, v # s
          PROVE  m_shortest_path_cache'[<<s, v>>] = m_shortest_path_cache[<<s, v>>]
      <4>1. v \in Vertices
        BY <2>10 DEF Stored, Measured, Levels
      <4>2. <<s, v>> \in DOMAIN m_shortest_path_cache
        BY <2>10, <3>4, <4>1 DEF Stored
      <4>. QED BY <2>5, <3>2, <4>2
    <3>. QED BY <1>3, <2>10, <3>3, <3>4 DEF Stored
  <2>11. \A s \in Searched' : \E d : Stored(s, d)'
    <3>1. SUFFICES ASSUME NEW s \in Searched' PROVE \E d : Stored(s, d)'
      OBVIOUS
    <3>2. CASE s = source
      <4>1. PICK t, d : t = source /\ Stored(t, d)'
        BY <2>9
      <4>. QED BY <3>2, <4>1
    <3>3. CASE s \in Searched
      <4>1. PICK d : Stored(s, d)
        BY <2>1, <3>3 DEF PathsFit
      <4>. QED BY <2>10, <3>3, <4>1
    <3>. QED BY <2>3, <3>2, <3>3
  <2>. QED BY <1>3, <2>1, <2>7, <2>8, <2>11 DEF PathsFit
<1>8. CASE FinishPaths
  <2>1. /\ phase = "paths" /\ source = Nobody /\ left = {} /\ UNCHANGED m_shortest_path_cache
        /\ phase' \in {"hops", "rows"}
    BY <1>8 DEF FinishPaths, caches, AfterPaths
  <2>2. Searched = Vertices
    BY <1>1, <2>1 DEF Searched
  <2>. QED BY <1>3, <1>4, <2>1, <2>2 DEF PathsFit
<1>9. CASE VisitNext
  <2>1. /\ left' = left /\ source' = source /\ phase' = phase /\ UNCHANGED m_shortest_path_cache
    BY <1>9 DEF VisitNext, caches
  <2>2. Searched' = Searched
    BY <1>3, <2>1 DEF Searched
  <2>. QED BY <1>3, <1>4, <2>1, <2>2 DEF PathsFit
<1>10. CASE Refuse \/ CountTwoHops \/ FinishHops \/ SkipSelf \/ WritePair \/ WriteFails \/ FinishRows \/ Ended
  <2>1. /\ UNCHANGED m_shortest_path_cache /\ phase' # "paths"
        /\ phase' \in {"hops", "rows", "done"} => phase \in {"hops", "rows", "done"}
    <3>1. CASE Refuse
      BY <3>1 DEF Refuse, caches
    <3>2. CASE CountTwoHops
      BY <3>2 DEF CountTwoHops
    <3>3. CASE FinishHops \/ FinishRows
      BY <3>3 DEF FinishHops, FinishRows, caches
    <3>4. CASE SkipSelf \/ WritePair \/ WriteFails
      BY <3>4 DEF SkipSelf, WritePair, WriteFails, Writing, caches
    <3>5. CASE Ended
      BY <3>5 DEF Ended, vars, caches
    <3>. QED BY <1>10, <3>1, <3>2, <3>3, <3>4, <3>5
  <2>. QED BY <1>3, <1>4, <2>1 DEF PathsFit
<1>. QED BY <1>5, <1>6, <1>7, <1>8, <1>9, <1>10 DEF Next

LEMMA TwoHopsFit ==
  ASSUME InputsFit, NEW s \in Vertices
  PROVE  /\ DOMAIN TwoHops(s) \in SUBSET (Vertices \X Vertices)
         /\ \A p \in DOMAIN TwoHops(s) : p[1] = s
         /\ UNCHANGED inputs => TwoHops(s)' = TwoHops(s)
<1> DEFINE ends == (UNION {get_out_neighbors(w) : w \in get_out_neighbors(s)}) \ {s}
<1>1. ends \in SUBSET Vertices
  BY GraphFits
<1>2. DOMAIN TwoHops(s) = {s} \X ends
  BY DEF TwoHops
<1> HIDE DEF ends
<1>3. DOMAIN TwoHops(s) \in SUBSET (Vertices \X Vertices) /\ \A p \in DOMAIN TwoHops(s) : p[1] = s
  BY <1>1, <1>2
<1>4. ASSUME UNCHANGED inputs PROVE TwoHops(s)' = TwoHops(s)
  <2>1. /\ \A u, v : Edges(u, v)' = Edges(u, v)
        /\ \A v : get_out_neighbors(v)' = get_out_neighbors(v)
    BY <1>4, SameGraph
  <2>2. UNION {get_out_neighbors(w)' : w \in get_out_neighbors(s)} = UNION {get_out_neighbors(w) : w \in get_out_neighbors(s)}
    BY <2>1
  <2>3. \A x : [w \in get_out_neighbors(s) |-> Edges(s, w)' * Edges(w, x)'] = [w \in get_out_neighbors(s) |-> Edges(s, w) * Edges(w, x)]
    BY <2>1
  <2>. QED BY <2>1, <2>2, <2>3 DEF TwoHops
<1>. QED BY <1>3, <1>4

LEMMA HopsKept ==
  ASSUME InputsFit, PhaseFits, SearchFits, HopsFit, Next
  PROVE  HopsFit'
<1>1. UNCHANGED inputs
  BY InputsSame
<1>2. Vertices' = Vertices /\ m_config' = m_config
  BY <1>1, SameGraph DEF inputs
<1>3. ASSUME UNCHANGED m_transitive_path_cache
      PROVE  \A s \in Vertices : Counted(s)' <=> Counted(s)
  <2>1. \A s \in Vertices : TwoHops(s)' = TwoHops(s)
    BY <1>1, TwoHopsFit
  <2>. QED BY <1>2, <1>3, <2>1 DEF Counted
<1>4. CASE Begin \/ FinishPaths
  <2>1. /\ phase \in {"start", "paths"} /\ left' = Vertices /\ UNCHANGED m_transitive_path_cache
        /\ phase' \in {"paths", "hops", "rows"}
        /\ phase' = "rows" => "struct_transitive_reachability" \notin m_config
    BY <1>4 DEF Begin, FinishPaths, AfterPaths, caches
  <2>2. m_transitive_path_cache = << >>
    BY <2>1 DEF PhaseFits, HopsFit
  <2>3. DOMAIN m_transitive_path_cache' = {} /\ m_transitive_path_cache' = << >>
    BY <2>1, <2>2
  <2>. QED BY <1>2, <2>1, <2>3 DEF HopsFit
<1>5. CASE CountTwoHops
  <2>1. PICK x \in left : /\ phase = "hops" /\ phase' = "hops" /\ left' = left \ {x}
                          /\ m_transitive_path_cache' = Joined(TwoHops(x), m_transitive_path_cache)
    BY <1>5 DEF CountTwoHops
  <2>2. left \in SUBSET Vertices /\ x \in Vertices
    BY DEF SearchFits
  <2>3. PICK hops : hops = TwoHops(x)
    OBVIOUS
  <2>4. DOMAIN hops \in SUBSET (Vertices \X Vertices) /\ \A p \in DOMAIN hops : p[1] = x
    BY <2>2, <2>3, TwoHopsFit
  <2>5. /\ DOMAIN m_transitive_path_cache' = DOMAIN hops \cup DOMAIN m_transitive_path_cache
        /\ \A p \in DOMAIN hops : m_transitive_path_cache'[p] = hops[p]
        /\ \A p \in DOMAIN m_transitive_path_cache :
             p \notin DOMAIN hops => m_transitive_path_cache'[p] = m_transitive_path_cache[p]
    BY <2>1, <2>3 DEF Joined
  <2>6. DOMAIN m_transitive_path_cache' \in SUBSET (Vertices \X Vertices)
    BY <2>4, <2>5 DEF HopsFit
  <2>7. \A s, v : s # x => <<s, v>> \notin DOMAIN hops
    BY <2>4
  <2>8. \A s \in left', v \in Vertices : <<s, v>> \notin DOMAIN m_transitive_path_cache'
    <3>1. SUFFICES ASSUME NEW s \in left', NEW v \in Vertices
                   PROVE  <<s, v>> \notin DOMAIN m_transitive_path_cache'
      OBVIOUS
    <3>2. s \in left /\ s # x
      BY <2>1
    <3>3. <<s, v>> \notin DOMAIN m_transitive_path_cache
      BY <2>1, <3>2 DEF HopsFit
    <3>. QED BY <2>5, <2>7, <3>2, <3>3
  <2>9. ASSUME NEW s \in Vertices \ left' PROVE Counted(s)'
    <3>1. TwoHops(s)' = TwoHops(s)
      BY <1>1, TwoHopsFit
    <3>2. CASE s = x
      <4>1. \A v \in Vertices : <<x, v>> \notin DOMAIN m_transitive_path_cache
        BY <2>1 DEF HopsFit
      <4>2. \A v \in Vertices : /\ <<s, v>> \in DOMAIN m_transitive_path_cache' <=> <<s, v>> \in DOMAIN hops
                                /\ <<s, v>> \in DOMAIN hops => m_transitive_path_cache'[<<s, v>>] = hops[<<s, v>>]
        BY <2>5, <3>2, <4>1
      <4>. QED BY <1>2, <2>3, <3>1, <3>2, <4>2 DEF Counted
    <3>3. CASE s # x
      <4>1. s \in Vertices \ left
        BY <2>1, <2>2, <3>3
      <4>2. Counted(s)
        BY <2>1, <4>1 DEF HopsFit
      <4>3. \A v \in Vertices :
              /\ <<s, v>> \in DOMAIN m_transitive_path_cache' <=> <<s, v>> \in DOMAIN m_transitive_path_cache
              /\ <<s, v>> \in DOMAIN m_transitive_path_cache =>
                   m_transitive_path_cache'[<<s, v>>] = m_transitive_path_cache[<<s, v>>]
        BY <2>5, <2>7, <3>3
      <4>. QED BY <1>2, <3>1, <4>2, <4>3 DEF Counted
    <3>. QED BY <3>2, <3>3
  <2>. QED BY <1>2, <2>1, <2>6, <2>8, <2>9 DEF HopsFit
<1>6. CASE FinishHops
  <2>1. phase = "hops" /\ left = {} /\ phase' = "rows" /\ UNCHANGED m_transitive_path_cache
    BY <1>6 DEF FinishHops, caches
  <2>. QED BY <1>2, <1>3, <2>1 DEF HopsFit
<1>7. CASE Refuse \/ BeginSource \/ VisitNext \/ StorePaths \/ SkipSelf \/ WritePair \/ WriteFails \/ FinishRows \/ Ended
  <2>1. /\ UNCHANGED m_transitive_path_cache /\ (phase' # "hops" \/ (phase = "hops" /\ left' = left))
        /\ phase' = "paths" => phase = "paths"
        /\ phase' \in {"rows", "done"} => phase \in {"rows", "done"}
    <3>1. CASE Refuse \/ FinishRows
      BY <3>1 DEF Refuse, FinishRows, caches
    <3>2. CASE BeginSource \/ VisitNext \/ StorePaths
      BY <3>2 DEF BeginSource, VisitNext, StorePaths, caches
    <3>4. CASE SkipSelf \/ WritePair \/ WriteFails
      BY <3>4 DEF SkipSelf, WritePair, WriteFails, Writing, caches, search
    <3>5. CASE Ended
      BY <3>5 DEF Ended, vars, caches, search
    <3>. QED BY <1>7, <3>1, <3>2, <3>4, <3>5
  <2>. QED BY <1>2, <1>3, <2>1 DEF HopsFit
<1>. QED BY <1>4, <1>5, <1>6, <1>7 DEF Next

-----------------------------------------------------------------------------
(* The rows.                                                               *)

\* The row, the label and the pair at k are those of p.
RowIs(k, p) ==
  /\ Len(features[k]) = Len(get_feature_names(m_config))
  /\ \A c \in 1..Len(get_feature_names(m_config)) :
       Tells(Wanted(Source(p), Target(p)), get_feature_names(m_config)[c], features[k][c])
  /\ "labels" \in mode => labels[k] = (p \in ground_truth)
  /\ "pairs" \in mode => pairs[k] = p

Place(p) == Cardinality(UpToPair(Addresses, p))

RowsFit ==
  /\ i \in 1..(Cardinality(Addresses) + 1) /\ j \in {1} \cup 1..Cardinality(Addresses)
  /\ i = Cardinality(Addresses) + 1 => j = 1
  /\ phase \in {"start", "paths", "hops"} => i = 1 /\ j = 1
  /\ phase = "done" => i = Cardinality(Addresses) + 1
  /\ IsSequence(features) /\ IsSequence(labels) /\ IsSequence(pairs)
  /\ Len(features) = Cardinality(Passed(Addresses, i, j))
  /\ "labels" \in mode => Len(labels) = Len(features)
  /\ "pairs" \in mode => Len(pairs) = Len(features)
  /\ \A p \in Passed(Addresses, i, j) : Place(p) \in 1..Len(features) /\ RowIs(Place(p), p)

IsAppended(t, s, x) == t = Append(s, x)

LEMMA Appends ==
  ASSUME NEW s, IsSequence(s), NEW x, NEW t, IsAppended(t, s, x)
  PROVE  /\ IsSequence(t) /\ Len(s) \in Nat /\ Len(t) = Len(s) + 1 /\ t[Len(s) + 1] = x
         /\ \A k \in 1..Len(s) : t[k] = s[k]
<1>1. PICK X : s \in Seq(X)
  BY DEF IsSequence
<1>2. s \in Seq(X \cup {x}) /\ x \in X \cup {x}
  BY <1>1
<1>3. t \in Seq(X \cup {x}) /\ Len(t) = Len(s) + 1 /\ t[Len(s) + 1] = x /\ \A k \in 1..Len(s) : t[k] = s[k]
  BY <1>2, AppendProperties DEF IsAppended
<1>. QED BY <1>1, <1>3 DEF IsSequence

LEMMA PassedFits ==
  ASSUME NEW A, IsFiniteSet(A), NEW x, NEW y
  PROVE  /\ IsFiniteSet(OrderedOf(A)) /\ Cardinality(OrderedOf(A)) \in Nat
         /\ IsFiniteSet(Passed(A, x, y)) /\ Cardinality(Passed(A, x, y)) \in Nat
         /\ Cardinality(Passed(A, x, y)) <= Cardinality(OrderedOf(A))
<1>1. IsFiniteSet(A \X A)
  BY FS_Product
<1>2. OrderedOf(A) \in SUBSET (A \X A) /\ Passed(A, x, y) \in SUBSET OrderedOf(A)
  BY DEF OrderedOf, Passed
<1>3. IsFiniteSet(OrderedOf(A))
  BY <1>1, <1>2, FS_Subset
<1>4. IsFiniteSet(Passed(A, x, y)) /\ Cardinality(Passed(A, x, y)) <= Cardinality(OrderedOf(A))
  BY <1>2, <1>3, FS_Subset
<1>. QED BY <1>3, <1>4, FS_CardinalityType

LEMMA IpsFit ==
  ASSUME InputsFit
  PROVE  /\ Len(prepare_sorted_vertices) = Cardinality(Addresses)
         /\ DOMAIN prepare_sorted_vertices = 1..Cardinality(Addresses)
         /\ prepare_sorted_vertices = Sorted(Addresses)
         /\ \A x, y \in 1..Cardinality(Addresses) :
              /\ Source(PairAt(Addresses, x, y)) = indices[x]
              /\ Target(PairAt(Addresses, x, y)) = indices[y]
<1>1. PICK ips, N : ips = prepare_sorted_vertices /\ N = Cardinality(Addresses)
  OBVIOUS
<1>2. ips = Sorted(Addresses)
  BY <1>1 DEF prepare_sorted_vertices, Addresses
<1>3. N \in Nat /\ ips \in [1..N -> Addresses]
  BY <1>1, <1>2, SortedLists DEF InputsFit
<1>4. Len(ips) = N /\ DOMAIN ips = 1..N
  BY <1>3
<1>5. \A x \in 1..N : indices[x] = ip_to_vertex[ips[x]]
  BY <1>1, <1>4 DEF indices
<1>6. \A x, y \in 1..N : PairAt(Addresses, x, y) = <<ips[x], ips[y]>>
  BY <1>2 DEF PairAt
<1>. QED BY <1>1, <1>2, <1>4, <1>5, <1>6 DEF Source, Target

LEMMA RowsStart ==
  ASSUME Init
  PROVE  RowsFit
<1>1. i = 1 /\ j = 1 /\ features = << >> /\ labels = << >> /\ pairs = << >> /\ phase = "start"
  BY DEF Init
<1>2. InputsFit
  BY InputsStart
<1>3. Cardinality(Addresses) \in Nat /\ Passed(Addresses, 1, 1) = {}
  BY <1>2, PairsPassed DEF InputsFit
<1>4. Cardinality(Passed(Addresses, i, j)) = 0
  BY <1>1, <1>3, FS_EmptySet
<1>5. << >> \in Seq({}) /\ Len(<< >>) = 0
  OBVIOUS
<1>6. IsSequence(features) /\ IsSequence(labels) /\ IsSequence(pairs)
  BY <1>1, <1>5 DEF IsSequence
<1>. QED BY <1>1, <1>3, <1>4, <1>5, <1>6 DEF RowsFit

(* A row is that of its pair as long as it is there and the caches are.     *)
LEMMA RowStays ==
  ASSUME UNCHANGED inputs, UNCHANGED caches, NEW k, NEW p, RowIs(k, p),
         features'[k] = features[k], "labels" \in mode => labels'[k] = labels[k],
         "pairs" \in mode => pairs'[k] = pairs[k]
  PROVE  RowIs(k, p)'
<1>1. m_config' = m_config /\ mode' = mode /\ ground_truth' = ground_truth /\ ip_to_vertex' = ip_to_vertex
  BY DEF inputs
<1>2. Source(p)' = Source(p) /\ Target(p)' = Target(p)
  BY <1>1 DEF Source, Target
<1>3. PICK u, v : u = Source(p) /\ v = Target(p)
  OBVIOUS
<1>4. Wanted(u, v)' = Wanted(u, v)
  BY SameWanted
<1>5. Wanted(Source(p), Target(p))' = Wanted(Source(p), Target(p))
  BY <1>2, <1>3, <1>4
<1>6. get_feature_names(m_config)' = get_feature_names(m_config)
  BY <1>1
<1>7. /\ Len(features'[k]) = Len(get_feature_names(m_config))
      /\ \A c \in 1..Len(get_feature_names(m_config)) :
           Tells(Wanted(Source(p), Target(p)), get_feature_names(m_config)[c], features'[k][c])
  BY DEF RowIs
<1>8. "labels" \in mode' => labels'[k] = (p \in ground_truth)
  BY <1>1, Zenon DEF RowIs
<1>9. "pairs" \in mode' => pairs'[k] = p
  BY <1>1 DEF RowIs
<1>. QED BY <1>1, <1>5, <1>6, <1>7, <1>8, <1>9, Zenon DEF RowIs

LEMMA RowsStay ==
  ASSUME InputsFit, PhaseFits, RowsFit, UNCHANGED inputs, UNCHANGED <<features, labels, pairs>>,
         i' \in 1..(Cardinality(Addresses) + 1), j' \in {1} \cup 1..Cardinality(Addresses),
         i' = Cardinality(Addresses) + 1 => j' = 1,
         phase' \in {"start", "paths", "hops"} => i' = 1 /\ j' = 1,
         phase' = "done" => i' = Cardinality(Addresses) + 1,
         Passed(Addresses, i', j') = Passed(Addresses, i, j),
         UNCHANGED caches \/ Passed(Addresses, i, j) = {}
  PROVE  RowsFit'
<1>1. Addresses' = Addresses /\ mode' = mode
  BY SameGraph DEF inputs
<1>2. \A p : Place(p)' = Place(p)
  BY <1>1 DEF Place
<1>3. ASSUME NEW p \in Passed(Addresses, i, j)
      PROVE  RowIs(Place(p), p)' /\ Place(p)' \in 1..Len(features')
  <2>1. UNCHANGED caches
    OBVIOUS
  <2>2. PICK k : k = Place(p)
    OBVIOUS
  <2>3. RowIs(k, p) /\ k \in 1..Len(features)
    BY <2>2 DEF RowsFit
  <2>4. features'[k] = features[k] /\ labels'[k] = labels[k] /\ pairs'[k] = pairs[k]
    OBVIOUS
  <2>5. RowIs(k, p)'
    BY <2>1, <2>3, <2>4, RowStays
  <2>6. k = Place(p)'
    BY <1>2, <2>2
  <2>. QED BY <2>3, <2>5, <2>6
<1>4. Passed(Addresses, i, j)' = Passed(Addresses, i, j)
  BY <1>1
<1>. QED BY <1>1, <1>3, <1>4 DEF RowsFit

LEMMA RowWritten ==
  ASSUME InputsFit, PhaseFits, RowsFit, WritePair
  PROVE  RowsFit'
<1>1. /\ phase = "rows" /\ phase' = "rows" /\ UNCHANGED inputs /\ UNCHANGED caches
      /\ i <= Len(prepare_sorted_vertices) /\ i # j /\ NextPair
      /\ features' = Append(features, [c \in DOMAIN Row |-> Row[c].value])
  BY DEF WritePair, Writing
<1>2. PICK A, N, p, x, y :
        /\ A = Addresses /\ N = Cardinality(A) /\ p = PairAt(A, x, y) /\ x = i /\ y = j
  OBVIOUS
<1>3. Addresses' = A /\ mode' = mode /\ m_config' = m_config /\ ground_truth' = ground_truth
      /\ ip_to_vertex' = ip_to_vertex
  BY <1>1, <1>2, SameGraph DEF inputs
<1>4. /\ N \in Nat /\ N >= 2 /\ Len(prepare_sorted_vertices) = N /\ prepare_sorted_vertices = Sorted(A)
      /\ DOMAIN prepare_sorted_vertices = 1..N /\ A \in SUBSET Nat /\ IsFiniteSet(A)
  <2>1. N \in Nat /\ N >= 2
    BY <1>1, <1>2, GraphFits DEF PhaseFits
  <2>2. Len(prepare_sorted_vertices) = N /\ prepare_sorted_vertices = Sorted(A) /\ DOMAIN prepare_sorted_vertices = 1..N
    BY <1>2, IpsFit
  <2>. QED BY <1>2, <2>1, <2>2 DEF InputsFit
<1>5. x \in 1..N /\ y \in 1..N /\ x # y
  BY <1>1, <1>2, <1>4 DEF RowsFit
<1>6. IF y < N THEN i' = x /\ j' = y + 1 ELSE i' = x + 1 /\ j' = 1
  BY <1>1, <1>2, <1>4 DEF NextPair
<1>7. /\ p \in OrderedOf(A) /\ p \notin Passed(A, x, y)
      /\ Passed(A, i', j') = Passed(A, x, y) \cup {p}
      /\ UpToPair(A, p) = Passed(A, x, y) \cup {p}
  BY <1>2, <1>4, <1>5, <1>6, NextPassed
<1>8. i' \in 1..(N + 1) /\ j' \in 1..N /\ (i' = N + 1 => j' = 1)
  BY <1>4, <1>5, <1>6
<1>9. PICK L : L = Len(features)
  OBVIOUS
<1>10. /\ L = Cardinality(Passed(A, x, y)) /\ L \in Nat
       /\ Cardinality(Passed(A, x, y) \cup {p}) = L + 1
  <2>1. L = Cardinality(Passed(A, x, y))
    BY <1>2, <1>9 DEF RowsFit
  <2>2. IsFiniteSet(Passed(A, x, y)) /\ Cardinality(Passed(A, x, y)) \in Nat
    BY <1>4, PassedFits
  <2>3. Cardinality(Passed(A, x, y) \cup {p}) = Cardinality(Passed(A, x, y)) + 1
    BY <1>7, <2>2, FS_AddElement
  <2>. QED BY <2>1, <2>2, <2>3
<1>11. PICK row, label : /\ row = [c \in DOMAIN Row |-> Row[c].value] /\ label = (p \in ground_truth)
  BY Zenon
<1>12. /\ IsSequence(features') /\ Len(features') = L + 1 /\ features'[L + 1] = row
       /\ \A k \in 1..L : features'[k] = features[k]
  <2>1. PICK s : s = features
    OBVIOUS
  <2>2. features' = Append(s, row) /\ IsSequence(s) /\ Len(s) = L
    BY <1>1, <1>9, <1>11, <2>1 DEF RowsFit
  <2>3. PICK t : t = features'
    OBVIOUS
  <2>4. /\ IsSequence(t) /\ Len(t) = L + 1 /\ t[L + 1] = row
        /\ \A k \in 1..L : t[k] = s[k]
    <3>1. IsAppended(t, s, row)
      BY <2>2, <2>3 DEF IsAppended
    <3>. QED BY <2>2, <3>1, Appends
  <2>. QED BY <2>1, <2>3, <2>4
<1>13. p = <<prepare_sorted_vertices[i], prepare_sorted_vertices[j]>>
  BY <1>2, <1>4 DEF PairAt
<1>14. /\ IsSequence(labels')
       /\ "labels" \in mode => /\ Len(labels') = L + 1 /\ labels'[L + 1] = label
                               /\ \A k \in 1..L : labels'[k] = labels[k]
  <2>1. labels' = IF "labels" \in mode THEN Append(labels, p \in ground_truth) ELSE labels
    BY <1>13, Zenon DEF WritePair
  <2>2. IsSequence(labels) /\ ("labels" \in mode => Len(labels) = L)
    BY <1>9 DEF RowsFit
  <2>3. CASE "labels" \in mode
    <3>1. labels' = Append(labels, label)
      BY <1>11, <2>1, <2>3, Zenon
    <3>2. PICK s, t : s = labels /\ t = labels'
      OBVIOUS
    <3>3. IsAppended(t, s, label) /\ IsSequence(s) /\ Len(s) = L
      BY <2>2, <2>3, <3>1, <3>2 DEF IsAppended
    <3>4. IsSequence(t) /\ Len(t) = L + 1 /\ t[L + 1] = label /\ \A k \in 1..L : t[k] = s[k]
      BY <3>3, Appends
    <3>. QED BY <3>2, <3>4
  <2>4. CASE "labels" \notin mode
    <3>1. labels' = labels
      BY <2>1, <2>4, Zenon
    <3>. QED BY <2>2, <2>4, <3>1
  <2>. QED BY <2>3, <2>4
<1>15. /\ IsSequence(pairs')
       /\ "pairs" \in mode => /\ Len(pairs') = L + 1 /\ pairs'[L + 1] = p
                              /\ \A k \in 1..L : pairs'[k] = pairs[k]
  <2>1. pairs' = IF "pairs" \in mode THEN Append(pairs, p) ELSE pairs
    BY <1>13 DEF WritePair
  <2>2. IsSequence(pairs) /\ ("pairs" \in mode => Len(pairs) = L)
    BY <1>9 DEF RowsFit
  <2>3. CASE "pairs" \in mode
    <3>1. pairs' = Append(pairs, p)
      BY <2>1, <2>3
    <3>2. PICK s, t : s = pairs /\ t = pairs'
      OBVIOUS
    <3>3. IsAppended(t, s, p) /\ IsSequence(s) /\ Len(s) = L
      BY <2>2, <2>3, <3>1, <3>2 DEF IsAppended
    <3>4. IsSequence(t) /\ Len(t) = L + 1 /\ t[L + 1] = p /\ \A k \in 1..L : t[k] = s[k]
      BY <3>3, Appends
    <3>. QED BY <3>2, <3>4
  <2>4. CASE "pairs" \notin mode
    BY <2>1, <2>2, <2>4
  <2>. QED BY <2>3, <2>4
<1>16. \A q : Place(q)' = Place(q)
  BY <1>2, <1>3 DEF Place
<1>17. ASSUME NEW q \in Passed(A, x, y)
       PROVE  Place(q)' \in 1..Len(features') /\ RowIs(Place(q), q)'
  <2>1. PICK k : k = Place(q)
    OBVIOUS
  <2>2. k \in 1..L /\ RowIs(k, q)
    BY <1>2, <1>9, <2>1 DEF RowsFit
  <2>3. /\ features'[k] = features[k]
        /\ "labels" \in mode => labels'[k] = labels[k]
        /\ "pairs" \in mode => pairs'[k] = pairs[k]
    BY <1>12, <1>14, <1>15, <2>2
  <2>4. RowIs(k, q)'
    BY <1>1, <2>2, <2>3, RowStays
  <2>5. k \in 1..(L + 1)
    BY <1>10, <2>2
  <2>. QED BY <1>12, <1>16, <2>1, <2>4, <2>5
<1>18. Place(p)' = L + 1
  <2>1. Place(p) = Cardinality(UpToPair(A, p))
    BY <1>2 DEF Place
  <2>. QED BY <1>7, <1>10, <1>16, <2>1
<1>19. RowIs(L + 1, p)'
  <2>1. PICK u, v, names : u = Source(p) /\ v = Target(p) /\ names = get_feature_names(m_config)
    OBVIOUS
  <2>2. u = indices[x] /\ v = indices[y] /\ u = ip_to_vertex[prepare_sorted_vertices[i]]
        /\ v = ip_to_vertex[prepare_sorted_vertices[j]]
    <3>1. u = indices[x] /\ v = indices[y]
      BY <1>2, <1>4, <1>5, <2>1, IpsFit
    <3>2. u = ip_to_vertex[prepare_sorted_vertices[i]] /\ v = ip_to_vertex[prepare_sorted_vertices[j]]
      BY <1>13, <2>1 DEF Source, Target
    <3>. QED BY <3>1, <3>2
  <2>3. Row = write_pair_features(u, v, u, v)
    BY <1>2, <2>2 DEF Row
  <2>4. Suited(Row, names, Wanted(u, v))
    BY <2>1, <2>3, RowSuited
  <2>5. DOMAIN Row = 1..Len(Row) /\ Len(Row) \in Nat /\ Len(names) = Len(Row)
        /\ \A c \in 1..Len(names) : Tells(Wanted(u, v), names[c], Row[c].value)
    BY <2>4 DEF Suited, IsSequence
  <2>6. Len(row) = Len(names) /\ \A c \in 1..Len(names) : Tells(Wanted(u, v), names[c], row[c])
    <3>1. row = [c \in 1..Len(names) |-> Row[c].value]
      BY <1>11, <2>5
    <3>2. Len(row) = Len(names) /\ \A c \in 1..Len(names) : row[c] = Row[c].value
      BY <2>5, <3>1
    <3>. QED BY <2>5, <3>2
  <2>7. Wanted(u, v)' = Wanted(u, v)
    BY <1>1, SameWanted
  <2>8. Source(p)' = u /\ Target(p)' = v /\ get_feature_names(m_config)' = names
    BY <1>3, <2>1 DEF Source, Target
  <2>9. Wanted(Source(p), Target(p))' = Wanted(u, v)
    BY <2>7, <2>8
  <2>10. /\ Len(features'[L + 1]) = Len(get_feature_names(m_config))'
         /\ \A c \in 1..Len(get_feature_names(m_config))' :
              Tells(Wanted(Source(p), Target(p))', get_feature_names(m_config)'[c], features'[L + 1][c])
    BY <1>12, <2>6, <2>8, <2>9
  <2>11. "labels" \in mode' => labels'[L + 1] = (p \in ground_truth')
    BY <1>3, <1>11, <1>14, Zenon
  <2>12. "pairs" \in mode' => pairs'[L + 1] = p
    BY <1>3, <1>15
  <2>. QED BY <2>10, <2>11, <2>12, Zenon DEF RowIs
<1>20. ASSUME NEW q \in Passed(Addresses, i, j)'
       PROVE  Place(q)' \in 1..Len(features') /\ RowIs(Place(q), q)'
  <2>1. q \in Passed(A, x, y) \/ q = p
    BY <1>3, <1>7
  <2>2. CASE q = p
    <3>1. L + 1 \in 1..Len(features')
      BY <1>10, <1>12
    <3>. QED BY <1>18, <1>19, <2>2, <3>1
  <2>. QED BY <1>17, <2>1, <2>2
<1>21. Len(features') = Cardinality(Passed(Addresses, i, j)')
  BY <1>3, <1>7, <1>10, <1>12
<1>22. /\ "labels" \in mode' => Len(labels') = Len(features')
       /\ "pairs" \in mode' => Len(pairs') = Len(features')
  BY <1>3, <1>12, <1>14, <1>15
<1>. QED BY <1>1, <1>2, <1>3, <1>8, <1>12, <1>14, <1>15, <1>20, <1>21, <1>22 DEF RowsFit

LEMMA RowsKept ==
  ASSUME InputsFit, PhaseFits, RowsFit, Next
  PROVE  RowsFit'
<1>1. UNCHANGED inputs
  BY InputsSame
<1>2. PICK A, N : A = Addresses /\ N = Cardinality(A)
  OBVIOUS
<1>3. N \in Nat /\ A \in SUBSET Nat /\ IsFiniteSet(A) /\ Passed(A, 1, 1) = {}
  BY <1>2, PairsPassed DEF InputsFit
<1>4. Len(prepare_sorted_vertices) = N
  BY <1>2, IpsFit
<1>5. CASE SkipSelf
  <2>1. /\ phase = "rows" /\ phase' = "rows" /\ i <= N /\ i = j /\ UNCHANGED <<features, labels, pairs>>
        /\ UNCHANGED caches
    BY <1>4, <1>5 DEF SkipSelf, Writing
  <2>2. PICK x, y : x = i /\ y = j
    OBVIOUS
  <2>3. x \in 1..N /\ y \in 1..N /\ x = y
    BY <1>2, <1>3, <2>1, <2>2 DEF RowsFit
  <2>4. IF y < N THEN i' = x /\ j' = y + 1 ELSE i' = x + 1 /\ j' = 1
    BY <1>4, <1>5, <2>2 DEF SkipSelf, NextPair
  <2>5. Passed(A, i', j') = Passed(A, x, y)
    BY <1>2, <1>3, <2>3, <2>4, NextPassed
  <2>6. i' \in 1..(N + 1) /\ j' \in 1..N /\ (i' = N + 1 => j' = 1)
    BY <1>3, <2>3, <2>4
  <2>. QED BY <1>1, <1>2, <2>1, <2>2, <2>5, <2>6, RowsStay
<1>6. CASE WritePair
  BY <1>6, RowWritten
<1>7. CASE ~SkipSelf /\ ~WritePair
  <2>1. UNCHANGED rows
    BY <1>7 DEF Next, Refuse, Begin, BeginSource, VisitNext, StorePaths, FinishPaths, CountTwoHops,
                FinishHops, WriteFails, FinishRows, Ended, vars
  <2>2. i' = i /\ j' = j /\ UNCHANGED <<features, labels, pairs>>
    BY <2>1 DEF rows
  <2>3. UNCHANGED caches \/ phase \in {"start", "paths", "hops"}
    BY <1>7 DEF Next, Refuse, Begin, BeginSource, VisitNext, StorePaths, FinishPaths, CountTwoHops,
                FinishHops, WriteFails, FinishRows, Ended, vars
  <2>4. UNCHANGED caches \/ Passed(A, i, j) = {}
    BY <1>3, <2>3 DEF RowsFit
  <2>5. phase' \in {"start", "paths", "hops"} => phase \in {"start", "paths", "hops"}
    BY <1>7 DEF Next, Refuse, Begin, BeginSource, VisitNext, StorePaths, FinishPaths, CountTwoHops,
                FinishHops, WriteFails, FinishRows, Ended, vars, Writing
  <2>6. phase' = "done" => phase = "done" \/ i > N
    BY <1>4, <1>7 DEF Next, Refuse, Begin, BeginSource, VisitNext, StorePaths, FinishPaths, CountTwoHops,
                FinishHops, WriteFails, FinishRows, Ended, vars, Writing, AfterPaths
  <2>7. /\ i' \in 1..(N + 1) /\ j' \in {1} \cup 1..N /\ (i' = N + 1 => j' = 1)
        /\ phase' \in {"start", "paths", "hops"} => i' = 1 /\ j' = 1
        /\ phase' = "done" => i' = N + 1
    BY <1>2, <1>3, <2>2, <2>5, <2>6 DEF RowsFit
  <2>8. Passed(Addresses, i', j') = Passed(Addresses, i, j)
    BY <2>2
  <2>. QED BY <1>1, <1>2, <2>2, <2>4, <2>7, <2>8, RowsStay
<1>. QED BY <1>5, <1>6, <1>7 DEF Next

FeatureInv == InputsFit /\ PhaseFits /\ SearchFits /\ PathsFit /\ HopsFit /\ RowsFit

LEMMA FeatureInvariance == Spec => []FeatureInv
<1>1. ASSUME Init PROVE FeatureInv
  <2>1. InputsFit /\ RowsFit
    BY <1>1, InputsStart, RowsStart
  <2>2. /\ phase = "start" /\ left = {} /\ source = Nobody /\ queue = << >> /\ distances = << >>
        /\ m_shortest_path_cache = << >> /\ m_transitive_path_cache = << >>
    BY <1>1 DEF Init
  <2>3. DOMAIN m_shortest_path_cache = {} /\ DOMAIN m_transitive_path_cache = {}
    BY <2>2
  <2>4. PhaseFits /\ PathsFit /\ HopsFit
    BY <2>2, <2>3 DEF PhaseFits, PathsFit, HopsFit
  <2>5. SearchFits
    BY <2>2 DEF SearchFits
  <2>. QED BY <2>1, <2>4, <2>5 DEF FeatureInv
<1>2. ASSUME FeatureInv, Next PROVE FeatureInv'
  <2>1. UNCHANGED inputs
    BY <1>2, InputsSame
  <2>. QED BY <1>2, <2>1, InputsKept, PhaseKept, SearchKept, PathsKept, HopsKept, RowsKept DEF FeatureInv
<1>3. ASSUME FeatureInv, UNCHANGED vars PROVE FeatureInv'
  <2>1. UNCHANGED inputs /\ UNCHANGED caches /\ UNCHANGED search /\ UNCHANGED rows /\ phase' = phase
    BY <1>3 DEF vars
  <2>2. Vertices' = Vertices /\ Successors' = Successors /\ m_config' = m_config /\ Addresses' = Addresses
    BY <2>1, SameGraph DEF Successors, inputs
  <2>3. InputsFit'
    BY <1>3, <2>1, InputsKept DEF FeatureInv
  <2>4. PhaseFits'
    BY <1>3, <2>1, <2>2 DEF FeatureInv, PhaseFits, search, caches
  <2>5. SearchFits'
    BY <1>3, <2>1, <2>2 DEF FeatureInv, SearchFits, search
  <2>6. PathsFit'
    <3>1. \A s, d : Stored(s, d)' <=> Stored(s, d)
      BY <2>1, <2>2 DEF Stored, caches
    <3>2. Searched' = Searched
      BY <2>1, <2>2 DEF Searched, search
    <3>. QED BY <1>3, <2>1, <2>2, <3>1, <3>2 DEF FeatureInv, PathsFit, caches
  <2>7. HopsFit'
    <3>1. \A s \in Vertices : TwoHops(s)' = TwoHops(s)
      BY <1>3, <2>1, TwoHopsFit DEF FeatureInv
    <3>2. \A s \in Vertices : Counted(s)' <=> Counted(s)
      BY <2>1, <2>2, <3>1 DEF Counted, caches
    <3>. QED BY <1>3, <2>1, <2>2, <3>2 DEF FeatureInv, HopsFit, caches, search
  <2>8. RowsFit'
    <3>1. i' = i /\ j' = j /\ UNCHANGED <<features, labels, pairs>>
      BY <2>1 DEF rows
    <3>2. /\ i' \in 1..(Cardinality(Addresses) + 1) /\ j' \in {1} \cup 1..Cardinality(Addresses)
          /\ i' = Cardinality(Addresses) + 1 => j' = 1
          /\ phase' \in {"start", "paths", "hops"} => i' = 1 /\ j' = 1
          /\ phase' = "done" => i' = Cardinality(Addresses) + 1
      BY <1>3, <2>1, <3>1 DEF FeatureInv, RowsFit
    <3>3. Passed(Addresses, i', j') = Passed(Addresses, i, j)
      BY <3>1
    <3>. QED BY <1>3, <2>1, <3>1, <3>2, <3>3, RowsStay DEF FeatureInv
  <2>. QED BY <2>3, <2>4, <2>5, <2>6, <2>7, <2>8 DEF FeatureInv
<1>4. FeatureInv /\ [Next]_vars => FeatureInv'
  BY <1>2, <1>3
<1>. QED BY <1>1, <1>4, PTL DEF Spec

(* The variables have their types; the queue of the search never holds more *)
(* vertices than there are, and no distance is as large as their number.    *)
THEOREM FeatureTypeCorrect == Spec => []TypeOK
<1>1. ASSUME FeatureInv PROVE TypeOK
  <2>1. /\ Vertices \in SUBSET Nat /\ IsFiniteSet(Vertices) /\ Cardinality(Vertices) \in Nat
        /\ IsFiniteSet(Addresses)
    BY <1>1, GraphFits DEF FeatureInv, InputsFit
  <2>2. /\ Len(queue) <= Cardinality(Vertices) /\ ToSet(queue) \subseteq DOMAIN distances
        /\ \A v \in DOMAIN distances : v \in Vertices /\ distances[v] < Cardinality(Vertices)
    <3>1. CASE source = Nobody
      <4>1. queue = << >> /\ distances = << >>
        BY <1>1, <3>1 DEF FeatureInv, SearchFits
      <4>2. Len(queue) = 0 /\ DOMAIN queue = {} /\ DOMAIN distances = {}
        BY <4>1
      <4>. QED BY <2>1, <4>2 DEF ToSet
    <3>2. CASE source # Nobody
      <4>1. PICK d, q : d = distances /\ q = queue
        OBVIOUS
      <4>2. Search(Vertices, Successors, source, d, q)
        BY <1>1, <3>2, <4>1 DEF FeatureInv, SearchFits
      <4>3. Len(q) <= Cardinality(Vertices)
        BY <2>1, <4>2, QueueFits
      <4>4. Levels(Vertices, Successors, source, d) /\ q \in Seq(DOMAIN d)
        BY <4>2 DEF Search
      <4>5. \A v \in DOMAIN d : d[v] < Cardinality(Vertices)
        BY <2>1, <4>4, LevelsFit
      <4>6. ToSet(q) \subseteq DOMAIN d
        BY <4>4 DEF ToSet
      <4>7. DOMAIN d \subseteq Vertices
        BY <4>4 DEF Levels
      <4>. QED BY <4>1, <4>3, <4>5, <4>6, <4>7
    <3>. QED BY <3>1, <3>2
  <2>3. Len(features) <= Cardinality(OrderedPairs)
    <3>1. OrderedPairs = OrderedOf(Addresses)
      BY DEF OrderedPairs, OrderedOf
    <3>2. PICK x, y : x = i /\ y = j
      OBVIOUS
    <3>3. Cardinality(Passed(Addresses, x, y)) <= Cardinality(OrderedOf(Addresses))
      BY <2>1, PassedFits
    <3>. QED BY <1>1, <3>1, <3>2, <3>3 DEF FeatureInv, RowsFit
  <2>4. /\ phase \in {"start", "paths", "hops", "rows", "done", "failed"}
        /\ left \subseteq Vertices /\ source \in Vertices \cup {Nobody}
        /\ DOMAIN m_shortest_path_cache \subseteq Vertices \X Vertices
        /\ DOMAIN m_transitive_path_cache \subseteq Vertices \X Vertices
        /\ i \in 1..(Cardinality(Addresses) + 1) /\ j \in {1} \cup 1..Cardinality(Addresses)
    BY <1>1 DEF FeatureInv, PhaseFits, SearchFits, PathsFit, HopsFit, RowsFit
  <2>. QED BY <2>2, <2>3, <2>4 DEF TypeOK
<1>. QED BY <1>1, FeatureInvariance, PTL

-----------------------------------------------------------------------------
(* What the rows say in the end.                                           *)

LEMMA RowsWritten ==
  ASSUME FeatureInv, phase = "done"
  PROVE  /\ Len(features) = Cardinality(OrderedPairs)
         /\ \A p \in OrderedPairs : RowIs(Position(p), p)
<1>1. OrderedPairs = OrderedOf(Addresses)
  BY DEF OrderedPairs, OrderedOf
<1>2. PICK N : N = Cardinality(Addresses)
  OBVIOUS
<1>3. i = N + 1 /\ j = 1
  BY <1>2 DEF FeatureInv, RowsFit
<1>4. Passed(Addresses, N + 1, 1) = OrderedOf(Addresses)
  BY <1>2, PairsPassed DEF FeatureInv, InputsFit
<1>5. \A p : Position(p) = Place(p)
  BY <1>1 DEF Position, Place, UpToPair
<1>. QED BY <1>1, <1>3, <1>4, <1>5 DEF FeatureInv, RowsFit

LEMMA FeatureTold ==
  ASSUME FeatureInv, phase = "done", NEW p \in OrderedPairs, NEW name, Has({name}),
         name \in DOMAIN Wanted(Source(p), Target(p))
  PROVE  Feature(p, name) = Wanted(Source(p), Target(p))[name]
<1>1. PICK names, k : names = get_feature_names(m_config) /\ k = Position(p)
  OBVIOUS
<1>2. RowIs(k, p)
  BY <1>1, RowsWritten
<1>3. IsSequence(names)
  BY <1>1, RowSuited DEF Suited
<1>4. Len(names) \in Nat /\ DOMAIN names = 1..Len(names)
  BY <1>3 DEF IsSequence
<1>5. \E c \in DOMAIN names : names[c] = name
  BY <1>1, <1>4 DEF Has, ToSet
<1>6. PICK c : c = CHOOSE x \in DOMAIN names : names[x] = name
  OBVIOUS
<1>7. c \in DOMAIN names /\ names[c] = name
  BY <1>5, <1>6
<1>8. Feature(p, name) = features[k][c]
  BY <1>1, <1>6 DEF Feature
<1>9. Tells(Wanted(Source(p), Target(p)), names[c], features[k][c])
  BY <1>1, <1>2, <1>4, <1>7 DEF RowIs
<1>. QED BY <1>7, <1>8, <1>9 DEF Tells

(* The row, the label and the pair at one index belong together, and the    *)
(* embeddings in a row are those of the vertices of its two addresses.      *)
THEOREM RowsOfPairs == Spec => []RowsBelongToPairs
<1>1. ASSUME FeatureInv, phase = "done", NEW p \in OrderedPairs
      PROVE  LET k == Position(p)
             IN  /\ Len(features[k]) = Len(get_feature_names(m_config))
                 /\ "labels" \in mode => labels[k] = (p \in ground_truth)
                 /\ "pairs" \in mode => pairs[k] = p
                 /\ Has({"emb_dot_src_dst"}) =>
                      Feature(p, "emb_dot_src_dst") = <<Source(p), Target(p)>>
                 /\ Has({"emb_hadamard_mean"}) =>
                      Feature(p, "emb_hadamard_mean") = <<Source(p), Target(p)>>
  <2>1. RowIs(Position(p), p)
    BY <1>1, RowsWritten
  <2>2. PICK u, v : u = Source(p) /\ v = Target(p)
    OBVIOUS
  <2>3. /\ "emb_dot_src_dst" \in DOMAIN Wanted(u, v) /\ "emb_hadamard_mean" \in DOMAIN Wanted(u, v)
        /\ Wanted(u, v)["emb_dot_src_dst"] = embedding_columns(u, v)[1].value
        /\ Wanted(u, v)["emb_hadamard_mean"] = embedding_columns(u, v)[9].value
    BY DEF Wanted
  <2>4. embedding_columns(u, v)[1].value = <<u, v>> /\ embedding_columns(u, v)[9].value = <<u, v>>
    BY DEF embedding_columns, Column
  <2>5. Has({"emb_dot_src_dst"}) => Feature(p, "emb_dot_src_dst") = <<u, v>>
    BY <1>1, <2>2, <2>3, <2>4, FeatureTold
  <2>6. Has({"emb_hadamard_mean"}) => Feature(p, "emb_hadamard_mean") = <<u, v>>
    BY <1>1, <2>2, <2>3, <2>4, FeatureTold
  <2>. QED BY <2>1, <2>2, <2>5, <2>6, Zenon DEF RowIs
<1>2. ASSUME FeatureInv PROVE RowsBelongToPairs
  BY <1>1, <1>2, RowsWritten, Zenon DEF RowsBelongToPairs
<1>. QED BY <1>2, FeatureInvariance, PTL

(* What is selected stood at one of the positions.                          *)
LEMMA SelectedFrom ==
  ASSUME NEW s, NEW X, s \in Seq(X), NEW S
  PROVE  \A k \in 1..Len(Selected(s, S)) : \E n \in S \cap (1..Len(s)) : Selected(s, S)[k] = s[n]
<1> DEFINE L == Len(s)
<1>1. L \in Nat /\ \A n \in 1..L : s[n] \in X
  OBVIOUS
<1>2. PICK f : Chooses(f, s, S, L) /\ Selected(s, S) = f[L]
  BY <1>1, SelectedIsChosen
<1> DEFINE Good(n) == /\ IsSequence(f[n])
                      /\ \A k \in 1..Len(f[n]) : \E m \in S \cap (1..L) : f[n][k] = s[m]
           T == {n \in 0..L : Good(n)}
<1>3. \A n \in 0..L :
        f[n] = IF n = 0 THEN << >> ELSE IF n \in S THEN Append(f[n - 1], s[n]) ELSE f[n - 1]
  BY <1>2 DEF Chooses
<1> HIDE DEF L
<1>4. Good(0)
  <2>1. f[0] = << >> /\ << >> \in Seq({})
    BY <1>1, <1>3
  <2>. QED BY <2>1 DEF IsSequence
<1>5. ASSUME NEW n \in 1..L, Good(n - 1) PROVE Good(n)
  <2>1. n \in 0..L /\ n # 0
    BY <1>1
  <2>2. CASE n \notin S
    <3>1. f[n] = f[n - 1]
      BY <1>3, <2>1, <2>2
    <3>. QED BY <1>5, <3>1
  <2>3. CASE n \in S
    <3>1. PICK u, t, x : u = f[n - 1] /\ t = f[n] /\ x = s[n]
      OBVIOUS
    <3>2. IsAppended(t, u, x)
      BY <1>3, <2>1, <2>3, <3>1 DEF IsAppended
    <3>3. IsSequence(u) /\ \A k \in 1..Len(u) : \E m \in S \cap (1..L) : u[k] = s[m]
      BY <1>5, <3>1
    <3>4. /\ IsSequence(t) /\ Len(u) \in Nat /\ Len(t) = Len(u) + 1 /\ t[Len(u) + 1] = x
          /\ \A k \in 1..Len(u) : t[k] = u[k]
      BY <3>2, <3>3, Appends
    <3>5. ASSUME NEW k \in 1..Len(t) PROVE \E m \in S \cap (1..L) : t[k] = s[m]
      <4>1. CASE k = Len(u) + 1
        BY <2>3, <3>1, <3>4, <4>1
      <4>2. CASE k # Len(u) + 1
        <5>1. k \in 1..Len(u)
          BY <3>4, <4>2
        <5>. QED BY <3>3, <3>4, <5>1
      <4>. QED BY <4>1, <4>2
    <3>. QED BY <3>1, <3>4, <3>5
  <2>. QED BY <2>2, <2>3
<1> HIDE DEF Good
<1>6. \A n \in 0..L : n \in T
  <2>1. 0 \in T
    BY <1>1, <1>4
  <2>2. \A n \in 1..L : n - 1 \in T => n \in T
    BY <1>1, <1>5
  <2> HIDE DEF T
  <2>. QED BY <1>1, <2>1, <2>2, UpTo
<1>7. Good(L)
  BY <1>1, <1>6
<1>. QED BY <1>2, <1>7 DEF Good, L

LEMMA FeatureNamesAre == IsSequence(FeatureNames)
<1> DEFINE E == EmbeddingNames
           S == StructuralNames
           T == TemporalNames
           F == FlowNames
           N == NetworkNames
<1>1. /\ IsSequence(E) /\ IsSequence(S) /\ IsSequence(T) /\ IsSequence(F) /\ IsSequence(N)
  BY EmbeddingSuited, StructuralSuited, TemporalSuited, FlowSuited, NetworkSuited
<1> HIDE DEF E, S, T, F, N
<1>2. IsSequence(E \o S)
  BY <1>1, NamesConcat
<1>3. IsSequence((E \o S) \o T)
  BY <1>1, <1>2, NamesConcat
<1>4. IsSequence(((E \o S) \o T) \o F)
  BY <1>1, <1>3, NamesConcat
<1>5. IsSequence((((E \o S) \o T) \o F) \o N)
  BY <1>1, <1>4, NamesConcat
<1>. QED BY <1>5 DEF FeatureNames, E, S, T, F, N

(* A column is announced when its flag is on, and only then.                *)
LEMMA NamesEnabled ==
  ASSUME NEW name, Has({name})
  PROVE  Flag(name) \in m_config
<1>1. PICK names, chosen : /\ names = get_feature_names(m_config)
                           /\ chosen = {n \in DOMAIN FeatureNames : Flag(FeatureNames[n]) \in m_config}
  OBVIOUS
<1>2. names = Selected(FeatureNames, chosen)
  BY <1>1 DEF get_feature_names
<1>3. IsSequence(names)
  BY <1>1, RowSuited DEF Suited
<1>4. PICK k \in 1..Len(names) : names[k] = name
  <2>1. DOMAIN names = 1..Len(names)
    BY <1>3 DEF IsSequence
  <2>. QED BY <1>1, <2>1 DEF Has, ToSet
<1>5. PICK X : FeatureNames \in Seq(X)
  BY FeatureNamesAre DEF IsSequence
<1>6. PICK n \in chosen : names[k] = FeatureNames[n]
  BY <1>2, <1>5, SelectedFrom
<1>. QED BY <1>1, <1>4, <1>6

-----------------------------------------------------------------------------
(* Distances.                                                              *)

\* What WalksFrom computes for the walks of at most m flows.
Walks(f, v, m) ==
  f = [n \in 0..m |-> IF n = 0 THEN {v} ELSE UNION {get_out_neighbors(w) : w \in f[n - 1]}]

LEMMA WalksExist ==
  ASSUME NEW v, NEW m \in Nat
  PROVE  \E f : Walks(f, v, m)
<1> DEFINE Bad == {k \in Nat : ~\E f : Walks(f, v, k)}
<1>1. SUFFICES ASSUME Bad # {} PROVE FALSE
  OBVIOUS
<1>2. PICK k \in Bad : \A h \in Bad : k <= h
  BY <1>1, LeastNumber
<1>3. CASE k = 0
  <2> DEFINE f == [n \in 0..0 |-> {v}]
  <2>1. Walks(f, v, 0)
    BY DEF Walks
  <2>. QED BY <1>2, <1>3, <2>1
<1>4. CASE k # 0
  <2>1. k - 1 \in Nat /\ k - 1 \notin Bad
    BY <1>2, <1>4
  <2>2. PICK f : Walks(f, v, k - 1)
    BY <2>1
  <2> DEFINE last == UNION {get_out_neighbors(w) : w \in f[k - 1]}
             g == [n \in 0..k |-> IF n = k THEN last ELSE f[n]]
  <2>3. \A n \in 0..(k - 1) :
          f[n] = IF n = 0 THEN {v} ELSE UNION {get_out_neighbors(w) : w \in f[n - 1]}
    BY <2>2 DEF Walks
  <2>4. \A n \in 0..k : n # k => n \in 0..(k - 1) /\ g[n] = f[n]
    BY <2>1
  <2>5. g[k] = last /\ \A n \in 0..k : n # 0 => n - 1 \in 0..(k - 1) /\ g[n - 1] = f[n - 1]
    BY <1>4, <2>1
  <2> HIDE DEF last
  <2>6. \A n \in 0..k :
          g[n] = IF n = 0 THEN {v} ELSE UNION {get_out_neighbors(w) : w \in g[n - 1]}
    BY <1>4, <2>1, <2>3, <2>4, <2>5 DEF last
  <2>7. Walks(g, v, k)
    BY <2>6 DEF Walks
  <2>. QED BY <1>2, <2>7
<1>. QED BY <1>3, <1>4

LEMMA WalksFound ==
  ASSUME NEW v, Cardinality(Vertices) \in Nat
  PROVE  /\ DOMAIN WalksFrom(v) = 0..Cardinality(Vertices)
         /\ WalksFrom(v)[0] = {v}
         /\ \A n \in 1..Cardinality(Vertices) :
              WalksFrom(v)[n] = UNION {get_out_neighbors(w) : w \in WalksFrom(v)[n - 1]}
<1> DEFINE f == CHOOSE f : Walks(f, v, Cardinality(Vertices))
<1>1. Walks(f, v, Cardinality(Vertices))
  BY WalksExist
<1>2. WalksFrom(v) = f
  BY DEF WalksFrom, Walks
<1> HIDE DEF f
<1>3. /\ DOMAIN f = 0..Cardinality(Vertices) /\ f[0] = {v}
      /\ \A n \in 1..Cardinality(Vertices) : f[n] = UNION {get_out_neighbors(w) : w \in f[n - 1]}
  BY <1>1 DEF Walks
<1>. QED BY <1>2, <1>3

(* The distances of a search are the lengths of the shortest walks.         *)
LEMMA MeasuredWalks ==
  ASSUME InputsFit, NEW s \in Vertices, NEW d, Measured(Vertices, Successors, s, d), NEW v
  PROVE  /\ \A n \in DOMAIN WalksFrom(s) : v \in WalksFrom(s)[n] => v \in DOMAIN d /\ d[v] <= n
         /\ v \in DOMAIN d => d[v] \in DOMAIN WalksFrom(s) /\ v \in WalksFrom(s)[d[v]]
         /\ v \in DOMAIN d => d[v] \in Nat /\ d[v] < Cardinality(Vertices)
<1>1. PICK ends, m : ends = WalksFrom(s) /\ m = Cardinality(Vertices)
  OBVIOUS
<1>2. m \in Nat /\ IsFiniteSet(Vertices) /\ \A w \in Vertices : Successors[w] = get_out_neighbors(w)
  BY <1>1, GraphFits
<1>3. /\ DOMAIN ends = 0..m /\ ends[0] = {s}
      /\ \A n \in 1..m : ends[n] = UNION {get_out_neighbors(w) : w \in ends[n - 1]}
  BY <1>1, <1>2, WalksFound
<1>4. /\ DOMAIN d \subseteq Vertices /\ s \in DOMAIN d
      /\ \A w \in DOMAIN d : d[w] \in Nat /\ (d[w] = 0 <=> w = s)
      /\ \A w \in DOMAIN d : w # s => \E u \in DOMAIN d : w \in get_out_neighbors(u) /\ d[w] = d[u] + 1
      /\ \A w \in DOMAIN d : \A x \in get_out_neighbors(w) : x \in DOMAIN d /\ d[x] <= d[w] + 1
  <2>1. DOMAIN d \subseteq Vertices /\ s \in DOMAIN d
    BY DEF Measured, Levels
  <2>2. \A w \in DOMAIN d : Successors[w] = get_out_neighbors(w)
    BY <1>2, <2>1
  <2>. QED BY <2>1, <2>2 DEF Measured, Levels, Closed
<1>5. \A w \in DOMAIN d : d[w] < m
  BY <1>1, <1>2, LevelsFit DEF Measured
<1> DEFINE Near == {n \in 0..m : \A w \in ends[n] : w \in DOMAIN d /\ d[w] <= n}
           Far == {n \in 0..m : \A w \in DOMAIN d : d[w] = n => w \in ends[n]}
<1>6. \A n \in 0..m : n \in Near
  <2>1. 0 \in Near
    BY <1>2, <1>3, <1>4
  <2>2. ASSUME NEW n \in 1..m, n - 1 \in Near PROVE n \in Near
    <3>1. n \in 0..m
      BY <1>2
    <3>2. ASSUME NEW w \in ends[n] PROVE w \in DOMAIN d /\ d[w] <= n
      <4>1. PICK u \in ends[n - 1] : w \in get_out_neighbors(u)
        BY <1>3
      <4>2. u \in DOMAIN d /\ d[u] <= n - 1
        BY <2>2
      <4>3. w \in DOMAIN d /\ d[w] <= d[u] + 1 /\ d[w] \in Nat /\ d[u] \in Nat
        BY <1>4, <4>1, <4>2
      <4>. QED BY <1>2, <4>2, <4>3
    <3>. QED BY <3>1, <3>2
  <2> HIDE DEF Near
  <2>. QED BY <1>2, <2>1, <2>2, UpTo
<1>7. \A n \in 0..m : n \in Far
  <2>1. 0 \in Far
    BY <1>2, <1>3, <1>4
  <2>2. ASSUME NEW n \in 1..m, n - 1 \in Far PROVE n \in Far
    <3>1. n \in 0..m
      BY <1>2
    <3>2. ASSUME NEW w \in DOMAIN d, d[w] = n PROVE w \in ends[n]
      <4>1. w # s
        BY <1>4, <3>2
      <4>2. PICK u \in DOMAIN d : w \in get_out_neighbors(u) /\ d[w] = d[u] + 1
        BY <1>4, <4>1
      <4>3. d[u] = n - 1
        BY <1>2, <1>4, <3>2, <4>2
      <4>4. u \in ends[n - 1]
        BY <2>2, <4>3
      <4>5. w \in UNION {get_out_neighbors(x) : x \in ends[n - 1]}
        BY <4>2, <4>4
      <4>. QED BY <1>3, <4>5
    <3>. QED BY <3>1, <3>2
  <2> HIDE DEF Far
  <2>. QED BY <1>2, <2>1, <2>2, UpTo
<1>8. \A n \in 0..m : v \in ends[n] => v \in DOMAIN d /\ d[v] <= n
  BY <1>6
<1>9. ASSUME v \in DOMAIN d PROVE d[v] \in 0..m /\ v \in ends[d[v]] /\ d[v] \in Nat /\ d[v] < m
  <2>1. d[v] \in Nat /\ d[v] < m
    BY <1>4, <1>5, <1>9
  <2>2. d[v] \in 0..m
    BY <1>2, <2>1
  <2>. QED BY <1>7, <1>9, <2>1, <2>2
<1>. QED BY <1>1, <1>3, <1>8, <1>9

LEMMA FewAddresses ==
  ASSUME \A call \in Calls : Cardinality(DOMAIN call.ip_to_vertex) <= Unreachable
  PROVE  Spec => [](Cardinality(Addresses) <= Unreachable)
<1>1. Init => Cardinality(Addresses) <= Unreachable
  BY DEF Init, Addresses
<1>2. Cardinality(Addresses) <= Unreachable /\ [Next]_vars => (Cardinality(Addresses) <= Unreachable)'
  <2>1. [Next]_vars => Addresses' = Addresses
    BY InputsSame, SameGraph
  <2>. QED BY <2>1
<1>. QED BY <1>1, <1>2, PTL DEF Spec

(* What a row says of a distance is the length of the shortest walk, with   *)
(* fewer addresses than the distance that counts as none.                   *)
THEOREM ShortestDistances ==
  ASSUME \A call \in Calls : Cardinality(DOMAIN call.ip_to_vertex) <= Unreachable
  PROVE  Spec => []DistancesAreShortest
<1>1. ASSUME FeatureInv, Cardinality(Addresses) <= Unreachable, phase = "done",
             Has({"struct_shortest_path"}), NEW p \in OrderedPairs
      PROVE  LET ends == WalksFrom(Source(p))
                 lengths == {n \in DOMAIN ends : Target(p) \in ends[n]}
             IN  Feature(p, "struct_shortest_path") =
                   IF lengths = {} THEN Zero ELSE <<1, Earliest(lengths)>>
  <2>1. PICK u, v, ends : u = Source(p) /\ v = Target(p) /\ ends = WalksFrom(u)
    OBVIOUS
  <2>2. u \in Vertices /\ v \in Vertices /\ u # v
    <3>1. p[1] \in Addresses /\ p[2] \in Addresses /\ p[1] # p[2]
      BY DEF OrderedPairs
    <3>. QED BY <1>1, <2>1, <3>1 DEF Source, Target, Vertices, FeatureInv, InputsFit, Addresses
  <2>3. Feature(p, "struct_shortest_path") = Closeness(u, v)
    <3>1. /\ "struct_shortest_path" \in DOMAIN Wanted(u, v)
          /\ Wanted(u, v)["struct_shortest_path"] = structural_columns(u, v)[12].value
      BY DEF Wanted
    <3>2. structural_columns(u, v)[12].value = Closeness(u, v)
      BY DEF structural_columns, Column
    <3>. QED BY <1>1, <2>1, <3>1, <3>2, FeatureTold
  <2>4. "struct_shortest_path" \in m_config
    BY <1>1, NamesEnabled DEF Flag
  <2>5. PICK d : Stored(u, d)
    BY <1>1, <2>2, <2>4 DEF FeatureInv, PathsFit
  <2>6. /\ \A n \in DOMAIN ends : v \in ends[n] => v \in DOMAIN d /\ d[v] <= n
        /\ v \in DOMAIN d => d[v] \in DOMAIN ends /\ v \in ends[d[v]]
        /\ v \in DOMAIN d => d[v] \in Nat /\ d[v] < Cardinality(Vertices)
    BY <1>1, <2>1, <2>2, <2>5, MeasuredWalks DEF FeatureInv, Stored
  <2>7. PICK lengths : lengths = {n \in DOMAIN ends : v \in ends[n]}
    OBVIOUS
  <2>8. Closeness(u, v) = IF lengths = {} THEN Zero ELSE <<1, Earliest(lengths)>>
    <3>1. CASE v \in DOMAIN d
      <4>1. d[v] \in lengths /\ \A n \in lengths : d[v] <= n
        BY <2>6, <2>7, <3>1
      <4>2. lengths \in SUBSET Nat
        <5>1. Cardinality(Vertices) \in Nat
          BY <1>1, GraphFits DEF FeatureInv
        <5>2. DOMAIN ends = 0..Cardinality(Vertices)
          BY <2>1, <5>1, WalksFound
        <5>. QED BY <2>7, <5>1, <5>2
      <4>3. \A n \in lengths : (\A m \in lengths : n <= m) => n = d[v]
        <5>1. SUFFICES ASSUME NEW n \in lengths, \A m \in lengths : n <= m PROVE n = d[v]
          OBVIOUS
        <5>2. n <= d[v] /\ d[v] <= n
          BY <4>1, <5>1
        <5>3. n \in Nat /\ d[v] \in Nat
          BY <4>1, <4>2
        <5>. QED BY <5>2, <5>3
      <4>4. Earliest(lengths) = d[v]
        BY <4>1, <4>3 DEF Earliest
      <4>5. <<u, v>> \in DOMAIN m_shortest_path_cache /\ m_shortest_path_cache[<<u, v>>] = d[v]
        BY <2>2, <2>5, <3>1 DEF Stored
      <4>6. Cardinality(Vertices) \in Nat /\ Cardinality(Vertices) <= Unreachable
        BY <1>1, GraphFits DEF FeatureInv
      <4>7. d[v] # Unreachable
        BY <2>6, <3>1, <4>6 DEF Unreachable
      <4>8. Closeness(u, v) = <<1, d[v]>>
        BY <4>5, <4>7 DEF Closeness, Cached
      <4>. QED BY <4>1, <4>4, <4>8
    <3>2. CASE v \notin DOMAIN d
      <4>1. lengths = {}
        BY <2>6, <2>7, <3>2
      <4>2. <<u, v>> \notin DOMAIN m_shortest_path_cache
        BY <2>2, <2>5, <3>2 DEF Stored
      <4>3. Closeness(u, v) = Zero
        BY <4>2 DEF Closeness, Cached
      <4>. QED BY <4>1, <4>3
    <3>. QED BY <3>1, <3>2
  <2>. QED BY <2>1, <2>3, <2>7, <2>8
<1>2. ASSUME FeatureInv, Cardinality(Addresses) <= Unreachable PROVE DistancesAreShortest
  BY <1>1, <1>2, Zenon DEF DistancesAreShortest
<1>. QED BY <1>2, FeatureInvariance, FewAddresses, PTL

-----------------------------------------------------------------------------
(* The dimension.                                                          *)

\* The column of each feature, the first of the two of time_crosscorr_peak.
FeatureColumns ==
  [emb_dot_src_dst |-> 1, emb_cosine_src_dst |-> 2, emb_l1_src_dst |-> 3,
   emb_l2_src_dst |-> 4, emb_src_norm |-> 5, emb_dst_norm |-> 6, emb_norm_ratio |-> 7,
   emb_hadamard_sum |-> 8, emb_hadamard_mean |-> 9, struct_in_degree_src |-> 10,
   struct_out_degree_src |-> 11, struct_in_degree_dst |-> 12, struct_out_degree_dst |-> 13,
   struct_degree_ratio |-> 14, struct_common_neighbors |-> 15,
   struct_jaccard_coefficient |-> 16, struct_adamic_adar_index |-> 17,
   struct_preferential_attachment |-> 18, struct_resource_allocation |-> 19,
   struct_transitive_reachability |-> 20, struct_shortest_path |-> 21,
   struct_hierarchy_diff |-> 22, time_avg_duration |-> 23, time_avg_interarrival |-> 24,
   time_regularity |-> 25, time_direction_bias |-> 26, time_initiation_order |-> 27,
   time_crosscorr_peak |-> 28, time_spike_score |-> 30, flow_response_time |-> 31,
   flow_request_ratio |-> 32, flow_direction_asymmetry |-> 33, flow_causality_score |-> 34,
   flow_src_out_share |-> 35, flow_dst_in_share |-> 36, net_protocol_role |-> 37,
   net_port_role |-> 38, net_top_port |-> 39]

LEMMA EmbeddingColumns ==
  /\ IsSequence(EmbeddingNames) /\ Len(EmbeddingNames) = 9
  /\ \A n \in 1..9 : FeatureColumns[Flag(EmbeddingNames[n])] = n
<1>1. Len(EmbeddingNames) = 9
  BY DEF EmbeddingNames
<1>2. IsSequence(EmbeddingNames)
  BY EmbeddingSuited
<1>3. FeatureColumns[Flag(EmbeddingNames[1])] = 1
  BY DEF FeatureColumns, EmbeddingNames, Flag
<1>4. FeatureColumns[Flag(EmbeddingNames[2])] = 2
  BY DEF FeatureColumns, EmbeddingNames, Flag
<1>5. FeatureColumns[Flag(EmbeddingNames[3])] = 3
  BY DEF FeatureColumns, EmbeddingNames, Flag
<1>6. FeatureColumns[Flag(EmbeddingNames[4])] = 4
  BY DEF FeatureColumns, EmbeddingNames, Flag
<1>7. FeatureColumns[Flag(EmbeddingNames[5])] = 5
  BY DEF FeatureColumns, EmbeddingNames, Flag
<1>8. FeatureColumns[Flag(EmbeddingNames[6])] = 6
  BY DEF FeatureColumns, EmbeddingNames, Flag
<1>9. FeatureColumns[Flag(EmbeddingNames[7])] = 7
  BY DEF FeatureColumns, EmbeddingNames, Flag
<1>10. FeatureColumns[Flag(EmbeddingNames[8])] = 8
  BY DEF FeatureColumns, EmbeddingNames, Flag
<1>11. FeatureColumns[Flag(EmbeddingNames[9])] = 9
  BY DEF FeatureColumns, EmbeddingNames, Flag
<1>. QED BY <1>1, <1>2, <1>3, <1>4, <1>5, <1>6, <1>7, <1>8, <1>9, <1>10, <1>11

LEMMA StructuralColumns ==
  /\ IsSequence(StructuralNames) /\ Len(StructuralNames) = 13
  /\ \A n \in 1..13 : FeatureColumns[Flag(StructuralNames[n])] = 9 + n
<1>1. Len(StructuralNames) = 13
  BY DEF StructuralNames
<1>2. IsSequence(StructuralNames)
  BY StructuralSuited
<1>3. FeatureColumns[Flag(StructuralNames[1])] = 10
  BY DEF FeatureColumns, StructuralNames, Flag
<1>4. FeatureColumns[Flag(StructuralNames[2])] = 11
  BY DEF FeatureColumns, StructuralNames, Flag
<1>5. FeatureColumns[Flag(StructuralNames[3])] = 12
  BY DEF FeatureColumns, StructuralNames, Flag
<1>6. FeatureColumns[Flag(StructuralNames[4])] = 13
  BY DEF FeatureColumns, StructuralNames, Flag
<1>7. FeatureColumns[Flag(StructuralNames[5])] = 14
  BY DEF FeatureColumns, StructuralNames, Flag
<1>8. FeatureColumns[Flag(StructuralNames[6])] = 15
  BY DEF FeatureColumns, StructuralNames, Flag
<1>9. FeatureColumns[Flag(StructuralNames[7])] = 16
  BY DEF FeatureColumns, StructuralNames, Flag
<1>10. FeatureColumns[Flag(StructuralNames[8])] = 17
  BY DEF FeatureColumns, StructuralNames, Flag
<1>11. FeatureColumns[Flag(StructuralNames[9])] = 18
  BY DEF FeatureColumns, StructuralNames, Flag
<1>12. FeatureColumns[Flag(StructuralNames[10])] = 19
  BY DEF FeatureColumns, StructuralNames, Flag
<1>13. FeatureColumns[Flag(StructuralNames[11])] = 20
  BY DEF FeatureColumns, StructuralNames, Flag
<1>14. FeatureColumns[Flag(StructuralNames[12])] = 21
  BY DEF FeatureColumns, StructuralNames, Flag
<1>15. FeatureColumns[Flag(StructuralNames[13])] = 22
  BY DEF FeatureColumns, StructuralNames, Flag
<1>. QED BY <1>1, <1>2, <1>3, <1>4, <1>5, <1>6, <1>7, <1>8, <1>9, <1>10, <1>11, <1>12, <1>13, <1>14, <1>15

LEMMA TemporalColumns ==
  /\ IsSequence(TemporalNames) /\ Len(TemporalNames) = 8
  /\ \A n \in 1..8 : n # 7 => FeatureColumns[Flag(TemporalNames[n])] = 22 + n
  /\ Flag(TemporalNames[6]) = "time_crosscorr_peak" /\ Flag(TemporalNames[7]) = "time_crosscorr_peak"
<1>1. Len(TemporalNames) = 8
  BY DEF TemporalNames
<1>2. IsSequence(TemporalNames)
  BY TemporalSuited
<1>3. FeatureColumns[Flag(TemporalNames[1])] = 23
  BY DEF FeatureColumns, TemporalNames, Flag
<1>4. FeatureColumns[Flag(TemporalNames[2])] = 24
  BY DEF FeatureColumns, TemporalNames, Flag
<1>5. FeatureColumns[Flag(TemporalNames[3])] = 25
  BY DEF FeatureColumns, TemporalNames, Flag
<1>6. FeatureColumns[Flag(TemporalNames[4])] = 26
  BY DEF FeatureColumns, TemporalNames, Flag
<1>7. FeatureColumns[Flag(TemporalNames[5])] = 27
  BY DEF FeatureColumns, TemporalNames, Flag
<1>8. FeatureColumns[Flag(TemporalNames[6])] = 28
  BY DEF FeatureColumns, TemporalNames, Flag
<1>10. FeatureColumns[Flag(TemporalNames[8])] = 30
  BY DEF FeatureColumns, TemporalNames, Flag
<1>11. Flag(TemporalNames[6]) = "time_crosscorr_peak" /\ Flag(TemporalNames[7]) = "time_crosscorr_peak"
  BY DEF TemporalNames, Flag
<1>. QED BY <1>1, <1>2, <1>3, <1>4, <1>5, <1>6, <1>7, <1>8, <1>10, <1>11

LEMMA FlowColumns ==
  /\ IsSequence(FlowNames) /\ Len(FlowNames) = 6
  /\ \A n \in 1..6 : FeatureColumns[Flag(FlowNames[n])] = 30 + n
<1>1. Len(FlowNames) = 6
  BY DEF FlowNames
<1>2. IsSequence(FlowNames)
  BY FlowSuited
<1>3. FeatureColumns[Flag(FlowNames[1])] = 31
  BY DEF FeatureColumns, FlowNames, Flag
<1>4. FeatureColumns[Flag(FlowNames[2])] = 32
  BY DEF FeatureColumns, FlowNames, Flag
<1>5. FeatureColumns[Flag(FlowNames[3])] = 33
  BY DEF FeatureColumns, FlowNames, Flag
<1>6. FeatureColumns[Flag(FlowNames[4])] = 34
  BY DEF FeatureColumns, FlowNames, Flag
<1>7. FeatureColumns[Flag(FlowNames[5])] = 35
  BY DEF FeatureColumns, FlowNames, Flag
<1>8. FeatureColumns[Flag(FlowNames[6])] = 36
  BY DEF FeatureColumns, FlowNames, Flag
<1>. QED BY <1>1, <1>2, <1>3, <1>4, <1>5, <1>6, <1>7, <1>8

LEMMA NetworkColumns ==
  /\ IsSequence(NetworkNames) /\ Len(NetworkNames) = 3
  /\ \A n \in 1..3 : FeatureColumns[Flag(NetworkNames[n])] = 36 + n
<1>1. Len(NetworkNames) = 3
  BY DEF NetworkNames
<1>2. IsSequence(NetworkNames)
  BY NetworkSuited
<1>3. FeatureColumns[Flag(NetworkNames[1])] = 37
  BY DEF FeatureColumns, NetworkNames, Flag
<1>4. FeatureColumns[Flag(NetworkNames[2])] = 38
  BY DEF FeatureColumns, NetworkNames, Flag
<1>5. FeatureColumns[Flag(NetworkNames[3])] = 39
  BY DEF FeatureColumns, NetworkNames, Flag
<1>. QED BY <1>1, <1>2, <1>3, <1>4, <1>5

IsConcat(w, s, t) == w = s \o t

\* First s, then t.
Follows(w, s, t) ==
  /\ IsSequence(w) /\ Len(w) = Len(s) + Len(t)
  /\ \A k \in 1..Len(s) : w[k] = s[k]
  /\ \A k \in 1..Len(t) : w[Len(s) + k] = t[k]

LEMMA Concats ==
  ASSUME NEW s, NEW t, IsSequence(s), IsSequence(t), NEW w, IsConcat(w, s, t)
  PROVE  Follows(w, s, t)
<1>1. PICK X : s \in Seq(X) /\ t \in Seq(X)
  BY SequencesConcat
<1>2. Len(s) \in Nat /\ Len(t) \in Nat
  BY <1>1
<1>3. /\ w \in Seq(X) /\ Len(w) = Len(s) + Len(t)
      /\ \A k \in 1..(Len(s) + Len(t)) : w[k] = IF k <= Len(s) THEN s[k] ELSE t[k - Len(s)]
  BY <1>1, ConcatProperties DEF IsConcat
<1>4. \A k \in 1..Len(s) : w[k] = s[k]
  BY <1>2, <1>3
<1>5. ASSUME NEW k \in 1..Len(t) PROVE w[Len(s) + k] = t[k]
  <2>1. Len(s) + k \in 1..(Len(s) + Len(t)) /\ ~(Len(s) + k <= Len(s)) /\ (Len(s) + k) - Len(s) = k
    BY <1>2
  <2>. QED BY <1>3, <2>1
<1>. QED BY <1>3, <1>4, <1>5 DEF IsSequence, Follows

(* Where the names of the families stand.                                   *)
LEMMA FamiliesStand ==
  /\ IsSequence(FeatureNames) /\ Len(FeatureNames) = 39
  /\ \A k \in 1..9 : FeatureNames[k] = EmbeddingNames[k]
  /\ \A k \in 1..13 : FeatureNames[9 + k] = StructuralNames[k]
  /\ \A k \in 1..8 : FeatureNames[22 + k] = TemporalNames[k]
  /\ \A k \in 1..6 : FeatureNames[30 + k] = FlowNames[k]
  /\ \A k \in 1..3 : FeatureNames[36 + k] = NetworkNames[k]
<1>1. PICK E, S, T, F, N, ES, EST, ESTF, all :
        /\ E = EmbeddingNames /\ S = StructuralNames /\ T = TemporalNames /\ F = FlowNames /\ N = NetworkNames
        /\ ES = E \o S /\ EST = ES \o T /\ ESTF = EST \o F /\ all = ESTF \o N
  OBVIOUS
<1>2. all = FeatureNames
  BY <1>1 DEF FeatureNames
<1>3. /\ IsSequence(E) /\ Len(E) = 9 /\ IsSequence(S) /\ Len(S) = 13 /\ IsSequence(T) /\ Len(T) = 8
      /\ IsSequence(F) /\ Len(F) = 6 /\ IsSequence(N) /\ Len(N) = 3
      /\ IsConcat(ES, E, S) /\ IsConcat(EST, ES, T) /\ IsConcat(ESTF, EST, F) /\ IsConcat(all, ESTF, N)
  BY <1>1, EmbeddingColumns, StructuralColumns, TemporalColumns, FlowColumns, NetworkColumns DEF IsConcat
<1>4. IsSequence(ES) /\ Len(ES) = 22 /\ (\A k \in 1..9 : ES[k] = E[k]) /\ (\A k \in 1..13 : ES[9 + k] = S[k])
  <2>1. IsSequence(E) /\ IsSequence(S) /\ Len(E) = 9 /\ Len(S) = 13 /\ IsConcat(ES, E, S)
    BY <1>3
  <2>2. Follows(ES, E, S)
    BY <2>1, Concats
  <2>. QED BY <2>1, <2>2 DEF Follows
<1>5. IsSequence(EST) /\ Len(EST) = 30 /\ (\A k \in 1..22 : EST[k] = ES[k]) /\ (\A k \in 1..8 : EST[22 + k] = T[k])
  <2>1. IsSequence(ES) /\ IsSequence(T) /\ Len(ES) = 22 /\ Len(T) = 8 /\ IsConcat(EST, ES, T)
    BY <1>3, <1>4
  <2>2. Follows(EST, ES, T)
    BY <2>1, Concats
  <2>. QED BY <2>1, <2>2 DEF Follows
<1>6. IsSequence(ESTF) /\ Len(ESTF) = 36 /\ (\A k \in 1..30 : ESTF[k] = EST[k]) /\ (\A k \in 1..6 : ESTF[30 + k] = F[k])
  <2>1. IsSequence(EST) /\ IsSequence(F) /\ Len(EST) = 30 /\ Len(F) = 6 /\ IsConcat(ESTF, EST, F)
    BY <1>3, <1>5
  <2>2. Follows(ESTF, EST, F)
    BY <2>1, Concats
  <2>. QED BY <2>1, <2>2 DEF Follows
<1>7. IsSequence(all) /\ Len(all) = 39 /\ (\A k \in 1..36 : all[k] = ESTF[k]) /\ (\A k \in 1..3 : all[36 + k] = N[k])
  <2>1. IsSequence(ESTF) /\ IsSequence(N) /\ Len(ESTF) = 36 /\ Len(N) = 3 /\ IsConcat(all, ESTF, N)
    BY <1>3, <1>6
  <2>2. Follows(all, ESTF, N)
    BY <2>1, Concats
  <2>. QED BY <2>1, <2>2 DEF Follows
<1>8. \A k \in 1..9 : all[k] = E[k]
  BY <1>4, <1>5, <1>6, <1>7
<1>9. \A k \in 1..13 : all[9 + k] = S[k]
  BY <1>4, <1>5, <1>6, <1>7
<1>10. \A k \in 1..8 : all[22 + k] = T[k]
  BY <1>5, <1>6, <1>7
<1>11. \A k \in 1..6 : all[30 + k] = F[k]
  BY <1>6, <1>7
<1>. QED BY <1>1, <1>2, <1>7, <1>8, <1>9, <1>10, <1>11

LEMMA AllColumns ==
  /\ IsSequence(FeatureNames) /\ Len(FeatureNames) = 39
  /\ \A n \in 1..39 : n # 29 => FeatureColumns[Flag(FeatureNames[n])] = n
  /\ Flag(FeatureNames[28]) = "time_crosscorr_peak" /\ Flag(FeatureNames[29]) = "time_crosscorr_peak"
<1>1. PICK all, E, S, T, F, N :
        /\ all = FeatureNames
        /\ E = EmbeddingNames /\ S = StructuralNames /\ T = TemporalNames /\ F = FlowNames /\ N = NetworkNames
  OBVIOUS
<1>2. IsSequence(all) /\ Len(all) = 39
  BY <1>1, FamiliesStand
<1>3. \A k \in 1..9 : all[k] = E[k]
  BY <1>1, FamiliesStand
<1>4. \A k \in 1..13 : all[9 + k] = S[k]
  BY <1>1, FamiliesStand
<1>5. \A k \in 1..8 : all[22 + k] = T[k]
  BY <1>1, FamiliesStand
<1>6. \A k \in 1..6 : all[30 + k] = F[k]
  BY <1>1, FamiliesStand
<1>7. \A k \in 1..3 : all[36 + k] = N[k]
  BY <1>1, FamiliesStand
<1>8. ASSUME NEW n \in 1..39, n # 29 PROVE FeatureColumns[Flag(all[n])] = n
  <2>1. CASE n \in 1..9
    BY <1>1, <1>3, <2>1, EmbeddingColumns
  <2>2. CASE n - 9 \in 1..13
    <3>1. 9 + (n - 9) = n
      OBVIOUS
    <3>2. all[n] = S[n - 9] /\ FeatureColumns[Flag(S[n - 9])] = 9 + (n - 9)
      BY <1>1, <1>4, <2>2, <3>1, StructuralColumns
    <3>. QED BY <3>1, <3>2
  <2>3. CASE n - 22 \in 1..8
    <3>1. 22 + (n - 22) = n /\ n - 22 # 7
      BY <1>8
    <3>2. all[n] = T[n - 22] /\ FeatureColumns[Flag(T[n - 22])] = 22 + (n - 22)
      BY <1>1, <1>5, <2>3, <3>1, TemporalColumns
    <3>. QED BY <3>1, <3>2
  <2>4. CASE n - 30 \in 1..6
    <3>1. 30 + (n - 30) = n
      OBVIOUS
    <3>2. all[n] = F[n - 30] /\ FeatureColumns[Flag(F[n - 30])] = 30 + (n - 30)
      BY <1>1, <1>6, <2>4, <3>1, FlowColumns
    <3>. QED BY <3>1, <3>2
  <2>5. CASE n - 36 \in 1..3
    <3>1. 36 + (n - 36) = n
      OBVIOUS
    <3>2. all[n] = N[n - 36] /\ FeatureColumns[Flag(N[n - 36])] = 36 + (n - 36)
      BY <1>1, <1>7, <2>5, <3>1, NetworkColumns
    <3>. QED BY <3>1, <3>2
  <2>. QED BY <2>1, <2>2, <2>3, <2>4, <2>5
<1>9. Flag(all[28]) = "time_crosscorr_peak" /\ Flag(all[29]) = "time_crosscorr_peak"
  <2>1. all[28] = T[6] /\ all[29] = T[7]
    <3>1. 22 + 6 = 28 /\ 22 + 7 = 29 /\ 6 \in 1..8 /\ 7 \in 1..8
      OBVIOUS
    <3>. QED BY <1>5, <3>1
  <2>. QED BY <1>1, <2>1, TemporalColumns
<1>. QED BY <1>1, <1>2, <1>8, <1>9

(* As many columns are announced as the dimension says.                     *)
LEMMA DimensionOfNames ==
  ASSUME InputsFit
  PROVE  /\ Len(get_feature_names(m_config)) = get_dimension(m_config)
         /\ get_dimension(m_config) \in Nat
<1>1. PICK P, Q, names, config :
        /\ names = FeatureNames /\ config = m_config
        /\ P = {n \in DOMAIN names : Flag(names[n]) \in config} /\ Q = P \ {29}
  OBVIOUS
<1>2. /\ IsSequence(names) /\ Len(names) = 39
      /\ \A n \in 1..39 : n # 29 => FeatureColumns[Flag(names[n])] = n
      /\ Flag(names[28]) = "time_crosscorr_peak" /\ Flag(names[29]) = "time_crosscorr_peak"
  BY <1>1, AllColumns
<1>3. DOMAIN names = 1..39
  BY <1>2 DEF IsSequence
<1>4. P \in SUBSET (1..39) /\ P \cap (1..39) = P
  BY <1>1, <1>3
<1>5. PICK X : names \in Seq(X)
  BY <1>2 DEF IsSequence
<1>6. IsFiniteSet(P) /\ Len(Selected(names, P)) = Cardinality(P)
  <2>1. /\ IsFiniteSet(P \cap (1..Len(names)))
        /\ Len(Selected(names, P)) = Cardinality(P \cap (1..Len(names)))
    BY <1>5, SelectedLength
  <2>. QED BY <1>2, <1>4, <2>1
<1>7. Len(get_feature_names(m_config)) = Cardinality(P)
  BY <1>1, <1>6 DEF get_feature_names
<1> DEFINE flag == [n \in Q |-> Flag(names[n])]
<1>8. flag \in [Q -> config]
  BY <1>1
<1>9. \A n, m \in Q : flag[n] = flag[m] => n = m
  <2>1. SUFFICES ASSUME NEW n \in Q, NEW m \in Q, Flag(names[n]) = Flag(names[m]) PROVE n = m
    OBVIOUS
  <2>2. n \in 1..39 /\ m \in 1..39 /\ n # 29 /\ m # 29
    BY <1>1, <1>4
  <2>. QED BY <1>2, <2>1, <2>2
<1>10. \A c \in config : \E n \in Q : flag[n] = c
  <2>1. SUFFICES ASSUME NEW c \in config PROVE \E n \in Q : Flag(names[n]) = c
    OBVIOUS
  <2>2. c \in AllFeatures
    BY <1>1 DEF InputsFit
  <2>3. PICK k \in 1..39 : Flag(names[k]) = c
    BY <1>1, <1>3, <2>2 DEF AllFeatures, ToSet
  <2>4. CASE k = 29
    <3>1. 28 \in P /\ Flag(names[28]) = c
      BY <1>1, <1>2, <1>3, <2>3, <2>4
    <3>. QED BY <1>1, <3>1
  <2>5. CASE k # 29
    BY <1>1, <1>3, <2>3, <2>5
  <2>. QED BY <2>4, <2>5
<1> HIDE DEF flag
<1>11. flag \in Injection(Q, config)
  BY <1>8, <1>9 DEF Injection, IsInjective
<1>12. flag \in Surjection(Q, config)
  BY <1>8, <1>10 DEF Surjection
<1>13. flag \in Bijection(Q, config)
  BY <1>11, <1>12 DEF Bijection
<1>14. IsFiniteSet(Q)
  BY <1>1, <1>6, FS_Subset
<1>15. Cardinality(config) = Cardinality(Q) /\ Cardinality(Q) \in Nat
  BY <1>13, <1>14, FS_Bijection, FS_CardinalityType DEF ExistsBijection
<1>16. 29 \in P <=> "time_crosscorr_peak" \in config
  BY <1>1, <1>2, <1>3
<1>17. Cardinality(P) = Cardinality(Q) + (IF "time_crosscorr_peak" \in config THEN 1 ELSE 0)
  <2>1. CASE 29 \in P
    <3>1. P = Q \cup {29} /\ 29 \notin Q
      BY <1>1, <2>1
    <3>2. Cardinality(P) = Cardinality(Q) + 1
      BY <1>14, <3>1, FS_AddElement
    <3>. QED BY <1>16, <2>1, <3>2
  <2>2. CASE 29 \notin P
    <3>1. P = Q
      BY <1>1, <2>2
    <3>. QED BY <1>15, <1>16, <2>2, <3>1
  <2>. QED BY <2>1, <2>2
<1>. QED BY <1>1, <1>7, <1>15, <1>17 DEF get_dimension

-----------------------------------------------------------------------------
(* Failures.                                                               *)

\* The features in the order of what they need.
LEMMA ReadableTimes ==
  ASSUME Enabled(StartTimeFeatures)
  PROVE  TemporalReadable
<1>1. PICK D, R, needs :
        /\ D = (IF Enabled({"time_avg_duration"}) THEN {"Duration"} ELSE {})
        /\ R = (IF Enabled({"time_spike_score"}) THEN ResponseTiming ELSE {})
        /\ needs = D \cup StartTimesOnly \cup R
  OBVIOUS
<1>2. TemporalNeeds = needs
  BY <1>1 DEF TemporalNeeds
<1>3. \/ needs = StartTimesOnly
      \/ needs = StartTimesOnly \cup {"Duration"}
      \/ needs = StartTimesOnly \cup ResponseTiming
      \/ needs = StartTimesOnly \cup ResponseTiming \cup {"Duration"}
  BY <1>1
<1>4. needs \in Dispatched
  BY <1>3 DEF Dispatched
<1>5. collect(TemporalNeeds) = needs
  BY <1>2, <1>4 DEF collect
<1>6. CanCount(needs)
  BY <1>1 DEF CanCount, StartTimesOnly
<1>. QED BY <1>1, <1>5, <1>6 DEF TemporalReadable

LEMMA ReadableFlows ==
  ASSUME Enabled(TimingFeatures \cup CountFeatures)
  PROVE  FlowReadable
<1>1. PICK R, C, needs :
        /\ R = (IF Enabled(TimingFeatures) THEN ResponseTiming ELSE {})
        /\ C = (IF Enabled(CountFeatures) THEN CountsOnly ELSE {})
        /\ needs = R \cup C
  OBVIOUS
<1>2. FlowNeeds = needs
  BY <1>1 DEF FlowNeeds
<1>3. Enabled(TimingFeatures) \/ Enabled(CountFeatures)
  BY DEF Enabled
<1>4. needs = ResponseTiming \/ needs = CountsOnly \/ needs = CountsOnly \cup ResponseTiming
  BY <1>1, <1>3
<1>5. needs \in Dispatched
  BY <1>4 DEF Dispatched
<1>6. collect(FlowNeeds) = needs
  BY <1>2, <1>5 DEF collect
<1>7. CanCount(needs)
  BY <1>4 DEF CanCount, ResponseTiming, CountsOnly
<1>. QED BY <1>1, <1>6, <1>7 DEF FlowReadable

LEMMA RowDimension ==
  ASSUME FeatureInv, Writing
  PROVE  Len(Row) = get_dimension(m_config)
<1>1. PICK x, y, N : x = i /\ y = j /\ N = Cardinality(Addresses)
  OBVIOUS
<1>2. Len(prepare_sorted_vertices) = N
  BY <1>1, IpsFit DEF FeatureInv
<1>3. N \in Nat /\ N >= 2 /\ x \in 1..N /\ y \in 1..N
  <2>1. N \in Nat /\ N >= 2
    BY <1>1, GraphFits DEF FeatureInv, PhaseFits, Writing
  <2>2. x \in 1..(N + 1) /\ y \in {1} \cup 1..N /\ x <= N
    BY <1>1, <1>2 DEF FeatureInv, RowsFit, Writing
  <2>. QED BY <2>1, <2>2
<1>4. PICK u, v, p : p = PairAt(Addresses, x, y) /\ u = Source(p) /\ v = Target(p)
  OBVIOUS
<1>5. u = indices[x] /\ v = indices[y]
  BY <1>1, <1>3, <1>4, IpsFit DEF FeatureInv
<1>6. p = <<prepare_sorted_vertices[i], prepare_sorted_vertices[j]>>
  BY <1>1, <1>4, IpsFit DEF FeatureInv, PairAt
<1>7. u = ip_to_vertex[prepare_sorted_vertices[i]] /\ v = ip_to_vertex[prepare_sorted_vertices[j]]
  BY <1>4, <1>6 DEF Source, Target
<1>8. Row = write_pair_features(u, v, u, v)
  BY <1>1, <1>5, <1>7 DEF Row
<1>9. Len(Row) = Len(get_feature_names(m_config))
  BY <1>8, RowSuited DEF Suited
<1>. QED BY <1>9, DimensionOfNames DEF FeatureInv

(* Only configurations with temporal features of which none needs start     *)
(* times make an extractor read what was not collected, and none makes a    *)
(* row disagree with the dimension of the matrix.                           *)
THEOREM FailuresExplained == Spec => []FailsOnlyWithoutStartTimes
<1>1. Init => FailsOnlyWithoutStartTimes
  BY DEF Init, FailsOnlyWithoutStartTimes
<1>2. ASSUME FeatureInv, FailsOnlyWithoutStartTimes, [Next]_vars
      PROVE  FailsOnlyWithoutStartTimes'
  <2>1. UNCHANGED inputs
    BY <1>2, InputsSame
  <2>2. Addresses' = Addresses /\ m_config' = m_config
    BY <2>1, SameGraph DEF inputs
  <2>3. CASE Refuse
    <3>1. Cardinality(Vertices) = Cardinality(Addresses)
      BY <1>2, GraphFits DEF FeatureInv
    <3>2. m_config = {} \/ Cardinality(Addresses) < 2
      BY <2>3, <3>1 DEF Refuse
    <3>. QED BY <2>2, <3>2 DEF FailsOnlyWithoutStartTimes
  <2>4. CASE WriteFails
    <3>1. Writing /\ ~Writable
      BY <2>4 DEF WriteFails
    <3>2. ~Extractable
      BY <1>2, <3>1, RowDimension DEF Writable
    <3>3. Enabled(TemporalFeatures) /\ ~Enabled(StartTimeFeatures)
      BY <3>2, ReadableTimes, ReadableFlows DEF Extractable
    <3>. QED BY <2>2, <3>3 DEF FailsOnlyWithoutStartTimes, Enabled
  <2>5. CASE ~Refuse /\ ~WriteFails
    <3>1. phase' = "failed" => phase = "failed"
      BY <1>2, <2>5 DEF Next, Begin, BeginSource, VisitNext, StorePaths, FinishPaths, CountTwoHops,
             FinishHops, SkipSelf, WritePair, FinishRows, Ended, vars, AfterPaths, Writing
    <3>. QED BY <1>2, <2>2, <3>1 DEF FailsOnlyWithoutStartTimes, Enabled
  <2>. QED BY <2>3, <2>4, <2>5
<1>3. FeatureInv /\ FailsOnlyWithoutStartTimes /\ [Next]_vars => FailsOnlyWithoutStartTimes'
  BY <1>2
<1>. QED BY <1>1, <1>3, FeatureInvariance, PTL DEF Spec

-----------------------------------------------------------------------------
(* Sums.                                                                   *)

OneOf(s) == CHOOSE x \in s : TRUE

\* What SumFunction computes for each part of the domain.
SumsUp(g, f, S) ==
  g = [s \in SUBSET S |-> IF s = {} THEN 0 ELSE f[OneOf(s)] + g[s \ {OneOf(s)}]]

\* The same for the parts with at most k elements.
Parts(S, k) == {s \in SUBSET S : Cardinality(s) <= k}
SumsUpTo(g, f, S, k) ==
  g = [s \in Parts(S, k) |-> IF s = {} THEN 0 ELSE f[OneOf(s)] + g[s \ {OneOf(s)}]]

LEMMA PartsFit ==
  ASSUME NEW S, IsFiniteSet(S), NEW s \in SUBSET S
  PROVE  /\ IsFiniteSet(s) /\ Cardinality(s) \in Nat
         /\ Cardinality(s) = 0 <=> s = {}
         /\ s # {} => /\ OneOf(s) \in s /\ s \ {OneOf(s)} \in SUBSET S
                      /\ Cardinality(s \ {OneOf(s)}) = Cardinality(s) - 1
<1>1. IsFiniteSet(s) /\ Cardinality(s) \in Nat
  BY FS_Subset, FS_CardinalityType
<1>2. Cardinality(s) = 0 <=> s = {}
  BY <1>1, FS_EmptySet
<1>3. ASSUME s # {} PROVE OneOf(s) \in s
  BY <1>3 DEF OneOf
<1>4. ASSUME s # {} PROVE Cardinality(s \ {OneOf(s)}) = Cardinality(s) - 1
  BY <1>1, <1>3, <1>4, FS_RemoveElement
<1>. QED BY <1>1, <1>2, <1>3, <1>4

LEMMA PartInduction ==
  ASSUME NEW S, IsFiniteSet(S), NEW T, {} \in T,
         \A s \in SUBSET S : s # {} /\ s \ {OneOf(s)} \in T => s \in T
  PROVE  \A s \in SUBSET S : s \in T
<1> DEFINE Good == {n \in 0..Cardinality(S) : \A s \in SUBSET S : Cardinality(s) = n => s \in T}
<1>1. Cardinality(S) \in Nat /\ \A s \in SUBSET S : Cardinality(s) <= Cardinality(S)
  BY FS_CardinalityType, FS_Subset
<1>2. 0 \in Good
  <2>1. \A s \in SUBSET S : Cardinality(s) = 0 => s = {}
    BY PartsFit
  <2>. QED BY <1>1, <2>1
<1>3. ASSUME NEW n \in 1..Cardinality(S), n - 1 \in Good PROVE n \in Good
  <2>1. SUFFICES ASSUME NEW s \in SUBSET S, Cardinality(s) = n PROVE s \in T
    BY <1>1
  <2>2. n \in Nat /\ n # 0
    BY <1>1
  <2>3. s # {} /\ s \ {OneOf(s)} \in SUBSET S /\ Cardinality(s \ {OneOf(s)}) = n - 1
    BY <2>1, <2>2, PartsFit
  <2>. QED BY <1>3, <2>3
<1>4. \A n \in 0..Cardinality(S) : n \in Good
  <2> HIDE DEF Good
  <2>. QED BY <1>1, <1>2, <1>3, UpTo
<1>5. ASSUME NEW s \in SUBSET S PROVE s \in T
  <2>1. Cardinality(s) \in Nat
    BY PartsFit
  <2>2. Cardinality(s) \in 0..Cardinality(S)
    BY <1>1, <2>1
  <2>. QED BY <1>4, <2>2
<1>. QED BY <1>5

LEMMA SumsExist ==
  ASSUME NEW f, NEW S, IsFiniteSet(S)
  PROVE  \E g : SumsUp(g, f, S)
<1>1. Cardinality(S) \in Nat /\ \A s \in SUBSET S : Cardinality(s) <= Cardinality(S)
  BY FS_CardinalityType, FS_Subset
<1>2. ASSUME NEW k \in Nat PROVE \E g : SumsUpTo(g, f, S, k)
  <2> DEFINE Bad == {n \in Nat : ~\E g : SumsUpTo(g, f, S, n)}
  <2>1. SUFFICES ASSUME Bad # {} PROVE FALSE
    OBVIOUS
  <2>2. PICK n \in Bad : \A m \in Bad : n <= m
    BY <2>1, LeastNumber
  <2>3. CASE n = 0
    <3> DEFINE g == [s \in Parts(S, 0) |-> 0]
    <3>1. \A s \in Parts(S, 0) : s = {}
      <4>1. SUFFICES ASSUME NEW s \in SUBSET S, Cardinality(s) <= 0 PROVE s = {}
        BY DEF Parts
      <4>2. Cardinality(s) \in Nat /\ (Cardinality(s) = 0 <=> s = {})
        BY PartsFit
      <4>. QED BY <4>1, <4>2
    <3>2. SumsUpTo(g, f, S, 0)
      BY <3>1 DEF SumsUpTo
    <3>. QED BY <2>2, <2>3, <3>2
  <2>4. CASE n # 0
    <3>1. n - 1 \in Nat /\ n - 1 \notin Bad
      BY <2>2, <2>4
    <3>2. PICK h : SumsUpTo(h, f, S, n - 1)
      BY <3>1
    <3> DEFINE g == [s \in Parts(S, n) |-> IF s = {} THEN 0 ELSE f[OneOf(s)] + h[s \ {OneOf(s)}]]
    <3>3. \A s \in Parts(S, n - 1) : h[s] = IF s = {} THEN 0 ELSE f[OneOf(s)] + h[s \ {OneOf(s)}]
      BY <3>2 DEF SumsUpTo
    <3>4. ASSUME NEW s \in Parts(S, n), s # {}
          PROVE  s \ {OneOf(s)} \in Parts(S, n - 1) /\ s \ {OneOf(s)} \in Parts(S, n)
      <4>1. s \in SUBSET S /\ Cardinality(s) <= n
        BY DEF Parts
      <4>2. Cardinality(s) \in Nat /\ s \ {OneOf(s)} \in SUBSET S
            /\ Cardinality(s \ {OneOf(s)}) = Cardinality(s) - 1
        BY <3>4, <4>1, PartsFit
      <4>3. Cardinality(s) - 1 <= n - 1 /\ Cardinality(s) - 1 <= n
        BY <3>1, <4>1, <4>2
      <4>. QED BY <4>2, <4>3 DEF Parts
    <3>5. \A s \in Parts(S, n - 1) : s \in Parts(S, n)
      <4>1. SUFFICES ASSUME NEW s \in SUBSET S, Cardinality(s) <= n - 1 PROVE Cardinality(s) <= n
        BY DEF Parts
      <4>2. Cardinality(s) \in Nat
        BY PartsFit
      <4>. QED BY <3>1, <4>1, <4>2
    <3>6. \A s \in Parts(S, n - 1) : g[s] = h[s]
      BY <3>3, <3>5
    <3>7. \A s \in Parts(S, n) : s # {} => g[s] = f[OneOf(s)] + g[s \ {OneOf(s)}]
      <4>1. SUFFICES ASSUME NEW s \in Parts(S, n), s # {} PROVE g[s] = f[OneOf(s)] + g[s \ {OneOf(s)}]
        OBVIOUS
      <4>2. g[s \ {OneOf(s)}] = h[s \ {OneOf(s)}]
        BY <3>4, <3>6, <4>1
      <4>3. g[s] = f[OneOf(s)] + h[s \ {OneOf(s)}]
        BY <4>1
      <4>. QED BY <4>2, <4>3
    <3>8. \A s \in Parts(S, n) : s = {} => g[s] = 0
      OBVIOUS
    <3>9. DOMAIN g = Parts(S, n) /\ g = [s \in Parts(S, n) |-> g[s]]
      OBVIOUS
    <3> HIDE DEF g
    <3>10. SumsUpTo(g, f, S, n)
      BY <3>7, <3>8, <3>9 DEF SumsUpTo
    <3>. QED BY <2>2, <3>10
  <2>. QED BY <2>3, <2>4
<1>3. PICK g : SumsUpTo(g, f, S, Cardinality(S))
  BY <1>1, <1>2
<1>4. Parts(S, Cardinality(S)) = SUBSET S
  BY <1>1 DEF Parts
<1>5. SumsUp(g, f, S)
  BY <1>3, <1>4 DEF SumsUp, SumsUpTo
<1>. QED BY <1>5

\* The sums of all parts, by the element that is chosen first.
Sums(g, f, S) ==
  /\ g[{}] = 0
  /\ \A s \in SUBSET S : s # {} => g[s] = f[OneOf(s)] + g[s \ {OneOf(s)}]

LEMMA SumFound ==
  ASSUME NEW f, NEW S, S = DOMAIN f, IsFiniteSet(S)
  PROVE  \E g : Sums(g, f, S) /\ SumFunction(f) = g[S]
<1> DEFINE g == CHOOSE g : SumsUp(g, f, S)
<1>1. SumsUp(g, f, S)
  BY SumsExist
<1>2. SumFunction(f) = g[S]
  BY DEF SumFunction, SumFunctionOnSet, FoldFunctionOnSet, MapThenFoldSet, SumsUp, OneOf
<1> HIDE DEF g
<1>3. Sums(g, f, S)
  <2>1. {} \in SUBSET S
    OBVIOUS
  <2>2. \A s \in SUBSET S : g[s] = IF s = {} THEN 0 ELSE f[OneOf(s)] + g[s \ {OneOf(s)}]
    BY <1>1 DEF SumsUp
  <2>. QED BY <2>1, <2>2 DEF Sums
<1>. QED BY <1>2, <1>3

LEMMA SumOfNaturals ==
  ASSUME NEW S, IsFiniteSet(S), NEW f \in [S -> Nat]
  PROVE  /\ SumFunction(f) \in Nat
         /\ SumFunction(f) > 0 <=> \E x \in S : f[x] > 0
<1>1. PICK g : Sums(g, f, S) /\ SumFunction(f) = g[S]
  BY SumFound
<1> DEFINE Good(s) == g[s] \in Nat /\ (g[s] > 0 <=> \E x \in s : f[x] > 0)
           T == {s \in SUBSET S : Good(s)}
<1>2. {} \in T
  BY <1>1 DEF Sums
<1>3. ASSUME NEW s \in SUBSET S, s # {}, s \ {OneOf(s)} \in T PROVE s \in T
  <2>1. PICK x : x = OneOf(s)
    OBVIOUS
  <2>2. x \in s /\ f[x] \in Nat /\ g[s] = f[x] + g[s \ {x}]
    BY <1>1, <1>3, <2>1, PartsFit DEF Sums
  <2>3. g[s \ {x}] \in Nat /\ (g[s \ {x}] > 0 <=> \E y \in s \ {x} : f[y] > 0)
    BY <1>3, <2>1
  <2>4. g[s] \in Nat /\ (g[s] > 0 <=> f[x] > 0 \/ g[s \ {x}] > 0)
    BY <2>2, <2>3
  <2>5. (\E y \in s : f[y] > 0) <=> f[x] > 0 \/ \E y \in s \ {x} : f[y] > 0
    BY <2>2
  <2>. QED BY <2>3, <2>4, <2>5
<1> HIDE DEF T
<1>4. \A s \in SUBSET S : s \in T
  BY <1>2, <1>3, PartInduction
<1>. QED BY <1>1, <1>4 DEF T

(* The sum of larger numbers is larger.                                     *)
LEMMA SumsCompare ==
  ASSUME NEW S, IsFiniteSet(S), NEW f \in [S -> Nat], NEW h \in [S -> Nat],
         \A x \in S : f[x] <= h[x]
  PROVE  SumFunction(f) <= SumFunction(h)
<1>1. PICK g : Sums(g, f, S) /\ SumFunction(f) = g[S]
  BY SumFound
<1>2. PICK k : Sums(k, h, S) /\ SumFunction(h) = k[S]
  BY SumFound
<1> DEFINE T == {s \in SUBSET S : g[s] \in Nat /\ k[s] \in Nat /\ g[s] <= k[s]}
<1>3. {} \in T
  BY <1>1, <1>2 DEF Sums
<1>4. ASSUME NEW s \in SUBSET S, s # {}, s \ {OneOf(s)} \in T PROVE s \in T
  <2>1. PICK x : x = OneOf(s)
    OBVIOUS
  <2>2. x \in S /\ f[x] \in Nat /\ h[x] \in Nat /\ g[s] = f[x] + g[s \ {x}] /\ k[s] = h[x] + k[s \ {x}]
    BY <1>1, <1>2, <1>4, <2>1, PartsFit DEF Sums
  <2>3. g[s \ {x}] \in Nat /\ k[s \ {x}] \in Nat /\ g[s \ {x}] <= k[s \ {x}] /\ f[x] <= h[x]
    BY <1>4, <2>1, <2>2
  <2>. QED BY <2>2, <2>3
<1> HIDE DEF T
<1>5. \A s \in SUBSET S : s \in T
  BY <1>3, <1>4, PartInduction
<1>. QED BY <1>1, <1>2, <1>5 DEF T

LEMMA TwiceTheProduct ==
  ASSUME NEW a \in Nat, NEW c \in Nat
  PROVE  2 * (c * a) <= a * a + c * c
<1>1. CASE a <= c
  <2>1. PICK d \in Nat : c = a + d
    <3>1. c - a \in Nat /\ c = a + (c - a)
      BY <1>1
    <3>. QED BY <3>1
  <2>2. /\ (a + d) * a = a * a + d * a
        /\ (a + d) * (a + d) = a * a + 2 * (d * a) + d * d
        /\ a * a \in Nat /\ d * a \in Nat /\ d * d \in Nat
    OBVIOUS
  <2>. QED BY <2>1, <2>2
<1>2. CASE c <= a
  <2>1. PICK d \in Nat : a = c + d
    <3>1. a - c \in Nat /\ a = c + (a - c)
      BY <1>2
    <3>. QED BY <3>1
  <2>2. /\ c * (c + d) = c * c + c * d
        /\ (c + d) * (c + d) = c * c + 2 * (c * d) + d * d
        /\ c * c \in Nat /\ c * d \in Nat /\ d * d \in Nat
    OBVIOUS
  <2>. QED BY <2>1, <2>2
<1>. QED BY <1>1, <1>2

LEMMA Squares ==
  ASSUME NEW a \in Nat, NEW p \in Nat, NEW n \in Nat, NEW q \in Nat
  PROVE  /\ (a + p) * (a + p) = a * a + 2 * (a * p) + p * p
         /\ (n + 1) * (a * a + q) = n * (a * a) + n * q + a * a + q
         /\ a * a \in Nat /\ a * p \in Nat /\ p * p \in Nat /\ n * (a * a) \in Nat /\ n * q \in Nat
OBVIOUS

(* The square of a sum is at most the number of its terms times the sum of  *)
(* their squares.                                                           *)
LEMMA SumOfSquares ==
  ASSUME NEW S, IsFiniteSet(S), NEW f \in [S -> Nat], NEW h \in [S -> Nat],
         \A x \in S : h[x] = f[x] * f[x]
  PROVE  SumFunction(f) * SumFunction(f) <= Cardinality(S) * SumFunction(h)
<1>1. PICK g : Sums(g, f, S) /\ SumFunction(f) = g[S]
  BY SumFound
<1>2. PICK k : Sums(k, h, S) /\ SumFunction(h) = k[S]
  BY SumFound
<1> DEFINE Good(s) == /\ g[s] \in Nat /\ k[s] \in Nat
                      /\ \A c \in Nat : 2 * (c * g[s]) <= k[s] + Cardinality(s) * (c * c)
                      /\ g[s] * g[s] <= Cardinality(s) * k[s]
           T == {s \in SUBSET S : Good(s)}
<1>3. {} \in T
  <2>1. g[{}] = 0 /\ k[{}] = 0 /\ Cardinality({}) = 0
    BY <1>1, <1>2, FS_EmptySet DEF Sums
  <2>2. \A c \in Nat : 2 * (c * 0) <= 0 + 0 * (c * c)
    <3>1. SUFFICES ASSUME NEW c \in Nat PROVE 2 * (c * 0) <= 0 + 0 * (c * c)
      OBVIOUS
    <3>2. c * 0 = 0 /\ c * c \in Nat
      OBVIOUS
    <3>3. 0 * (c * c) = 0
      BY <3>2
    <3>. QED BY <3>2, <3>3
  <2>3. 0 * 0 <= 0 * 0
    OBVIOUS
  <2>4. Good({})
    <3>1. PICK a, b, n : a = g[{}] /\ b = k[{}] /\ n = Cardinality({})
      OBVIOUS
    <3>2. a = 0 /\ b = 0 /\ n = 0
      BY <2>1, <3>1
    <3>3. /\ a \in Nat /\ b \in Nat /\ (\A c \in Nat : 2 * (c * a) <= b + n * (c * c))
          /\ a * a <= n * b
      BY <2>2, <2>3, <3>2
    <3>. QED BY <3>1, <3>3, Zenon
  <2> HIDE DEF Good
  <2>. QED BY <2>4
<1>4. ASSUME NEW s \in SUBSET S, s # {}, s \ {OneOf(s)} \in T PROVE s \in T
  <2>1. PICK x, a, b, p, q, n :
          /\ x = OneOf(s) /\ a = f[x] /\ b = h[x] /\ p = g[s \ {x}] /\ q = k[s \ {x}]
          /\ n = Cardinality(s \ {x})
    OBVIOUS
  <2>2. /\ x \in S /\ a \in Nat /\ b = a * a /\ g[s] = a + p /\ k[s] = b + q
        /\ Cardinality(s) = n + 1 /\ n \in Nat
    <3>1. x \in s /\ Cardinality(s) \in Nat /\ n = Cardinality(s) - 1 /\ s # {}
      BY <1>4, <2>1, PartsFit
    <3>2. n \in Nat /\ Cardinality(s) = n + 1
      <4>1. PICK m : m = Cardinality(s)
        OBVIOUS
      <4>2. m # 0
        BY <3>1, <4>1, PartsFit
      <4>3. m \in Nat /\ n = m - 1
        BY <3>1, <4>1
      <4>4. n \in Nat /\ m = n + 1
        BY <4>2, <4>3
      <4>. QED BY <4>1, <4>4
    <3>. QED BY <1>1, <1>2, <2>1, <3>1, <3>2 DEF Sums
  <2>3. p \in Nat /\ q \in Nat /\ (\A c \in Nat : 2 * (c * p) <= q + n * (c * c)) /\ p * p <= n * q
    BY <1>4, <2>1
  <2>4. g[s] \in Nat /\ k[s] \in Nat
    BY <2>2, <2>3
  <2>5. ASSUME NEW c \in Nat
        PROVE  2 * (c * g[s]) <= k[s] + Cardinality(s) * (c * c)
    <3>1. 2 * (c * p) <= q + n * (c * c)
      BY <2>3
    <3>2. 2 * (c * a) <= a * a + c * c
      BY <2>2, TwiceTheProduct
    <3>3. /\ c * (a + p) = c * a + c * p /\ (n + 1) * (c * c) = n * (c * c) + c * c
          /\ c * a \in Nat /\ c * p \in Nat /\ n * (c * c) \in Nat /\ c * c \in Nat /\ a * a \in Nat
      BY <2>2, <2>3
    <3>. QED BY <2>2, <2>3, <3>1, <3>2, <3>3
  <2>6. g[s] * g[s] <= Cardinality(s) * k[s]
    <3>1. 2 * (a * p) <= q + n * (a * a) /\ p * p <= n * q
      BY <2>2, <2>3
    <3>2. /\ (a + p) * (a + p) = a * a + 2 * (a * p) + p * p
          /\ (n + 1) * (a * a + q) = n * (a * a) + n * q + a * a + q
          /\ a * a \in Nat /\ a * p \in Nat /\ p * p \in Nat /\ n * (a * a) \in Nat /\ n * q \in Nat
      BY <2>2, <2>3, Squares
    <3>. QED BY <2>2, <2>3, <3>1, <3>2
  <2>. QED BY <2>4, <2>5, <2>6
<1> HIDE DEF T
<1>5. \A s \in SUBSET S : s \in T
  BY <1>3, <1>4, PartInduction
<1>. QED BY <1>1, <1>2, <1>5 DEF T

(* The sum of the sizes of sets without a common element.                   *)
LEMMA SumOfSizes ==
  ASSUME NEW S, IsFiniteSet(S), NEW X, IsFiniteSet(X), NEW B \in [S -> SUBSET X],
         \A x, y \in S : x # y => B[x] \cap B[y] = {},
         NEW f, DOMAIN f = S, \A x \in S : f[x] = Cardinality(B[x])
  PROVE  SumFunction(f) = Cardinality(UNION {B[x] : x \in S})
<1>1. PICK g : Sums(g, f, S) /\ SumFunction(f) = g[S]
  BY SumFound
<1> DEFINE T == {s \in SUBSET S : g[s] = Cardinality(UNION {B[x] : x \in s})}
<1>2. {} \in T
  <2>1. UNION {B[x] : x \in {}} = {}
    OBVIOUS
  <2>. QED BY <1>1, <2>1, FS_EmptySet DEF Sums
<1>3. ASSUME NEW s \in SUBSET S, s # {}, s \ {OneOf(s)} \in T PROVE s \in T
  <2>1. PICK y, U : y = OneOf(s) /\ U = UNION {B[x] : x \in s \ {y}}
    OBVIOUS
  <2>2. y \in s /\ g[s] = f[y] + g[s \ {y}]
    BY <1>1, <1>3, <2>1, PartsFit DEF Sums
  <2>3. g[s \ {y}] = Cardinality(U) /\ f[y] = Cardinality(B[y])
    BY <1>3, <2>1, <2>2
  <2>4. UNION {B[x] : x \in s} = B[y] \cup U
    BY <2>1, <2>2
  <2>5. B[y] \cap U = {} /\ B[y] \in SUBSET X /\ U \in SUBSET X
    BY <2>1, <2>2
  <2>6. IsFiniteSet(B[y]) /\ IsFiniteSet(U)
    BY <2>5, FS_Subset
  <2>7. Cardinality(B[y] \cup U) = Cardinality(B[y]) + Cardinality(U)
    <3>1. Cardinality(B[y] \cup U) = Cardinality(B[y]) + Cardinality(U) - Cardinality(B[y] \cap U)
      BY <2>6, FS_Union
    <3>2. Cardinality(B[y] \cap U) = 0
      BY <2>5, FS_EmptySet
    <3>3. Cardinality(B[y]) \in Nat /\ Cardinality(U) \in Nat
      BY <2>6, FS_CardinalityType
    <3>. QED BY <3>1, <3>2, <3>3
  <2>. QED BY <2>2, <2>3, <2>4, <2>7
<1> HIDE DEF T
<1>4. \A s \in SUBSET S : s \in T
  BY <1>2, <1>3, PartInduction
<1>. QED BY <1>1, <1>4 DEF T

-----------------------------------------------------------------------------
(* The numbers of a row.                                                   *)

LEMMA GraphNumbers ==
  ASSUME InputsFit
  PROVE  /\ IsFiniteSet(DOMAIN flows)
         /\ \A f \in DOMAIN flows : flows[f].start \in Int /\ flows[f].finish \in Int
         /\ \A u, v : /\ Between(u, v) \in SUBSET DOMAIN flows /\ IsFiniteSet(Between(u, v))
                      /\ Edges(u, v) \in Nat /\ Cardinality(Between(u, v)) \in Nat
                      /\ Cardinality(Between(u, v)) = 0 <=> Between(u, v) = {}
         /\ \A v : out_degree(v) \in Nat /\ in_degree(v) \in Nat
         /\ \A u, v : Cardinality(Between(u, v)) <= out_degree(u) /\ Cardinality(Between(u, v)) <= in_degree(v)
<1>1. flows \in Seq(FlowType)
  BY DEF InputsFit
<1>2. Len(flows) \in Nat /\ DOMAIN flows = 1..Len(flows) /\ \A f \in DOMAIN flows : flows[f] \in FlowType
  BY <1>1
<1>3. IsFiniteSet(DOMAIN flows)
  BY <1>2, FS_Interval
<1>4. \A f \in DOMAIN flows : flows[f].start \in Int /\ flows[f].finish \in Int
  BY <1>2 DEF FlowType
<1>5. ASSUME NEW S \in SUBSET DOMAIN flows
      PROVE  IsFiniteSet(S) /\ Cardinality(S) \in Nat /\ (Cardinality(S) = 0 <=> S = {})
  BY <1>3, FS_Subset, FS_CardinalityType, FS_EmptySet
<1>6. ASSUME NEW v
      PROVE  /\ out_degree(v) \in Nat /\ in_degree(v) \in Nat
             /\ \A u : Cardinality(Between(v, u)) <= out_degree(v)
             /\ \A u : Cardinality(Between(u, v)) <= in_degree(v)
  <2>1. PICK Out, In : /\ Out = {f \in DOMAIN flows : flows[f].source = v}
                       /\ In = {f \in DOMAIN flows : flows[f].target = v}
    OBVIOUS
  <2>2. Out \in SUBSET DOMAIN flows /\ In \in SUBSET DOMAIN flows
    BY <2>1
  <2>3. /\ IsFiniteSet(Out) /\ Cardinality(Out) \in Nat
        /\ IsFiniteSet(In) /\ Cardinality(In) \in Nat
    BY <1>5, <2>2
  <2>4. out_degree(v) = Cardinality(Out) /\ in_degree(v) = Cardinality(In)
    BY <2>1 DEF out_degree, in_degree
  <2>5. \A u : Between(v, u) \in SUBSET Out /\ Between(u, v) \in SUBSET In
    BY <2>1 DEF Between
  <2>6. ASSUME NEW u
        PROVE  Cardinality(Between(v, u)) <= Cardinality(Out) /\ Cardinality(Between(u, v)) <= Cardinality(In)
    BY <2>3, <2>5, FS_Subset
  <2>. QED BY <2>3, <2>4, <2>6
<1>7. \A u, v : Between(u, v) \in SUBSET DOMAIN flows
  BY DEF Between
<1>. QED BY <1>3, <1>4, <1>5, <1>6, <1>7 DEF Edges

LEMMA LeastAndGreatest ==
  ASSUME NEW T \in SUBSET Int, IsFiniteSet(T), T # {}
  PROVE  /\ Earliest(T) \in T /\ \A t \in T : Earliest(T) <= t
         /\ Latest(T) \in T /\ \A t \in T : t <= Latest(T)
<1> DEFINE Good(s) == s # {} => /\ \E t \in s : \A r \in s : t <= r
                                /\ \E t \in s : \A r \in s : r <= t
           G == {s \in SUBSET T : Good(s)}
<1>1. {} \in G
  OBVIOUS
<1>2. ASSUME NEW s \in SUBSET T, s # {}, s \ {OneOf(s)} \in G PROVE s \in G
  <2>1. PICK x : x = OneOf(s) /\ x \in s
    BY <1>2 DEF OneOf
  <2>2. CASE s \ {x} = {}
    <3>1. s = {x} /\ x \in Int /\ x <= x
      BY <2>1, <2>2
    <3>. QED BY <3>1
  <2>3. CASE s \ {x} # {}
    <3>1. PICK a \in s \ {x}, b \in s \ {x} : \A r \in s \ {x} : a <= r /\ r <= b
      BY <1>2, <2>1, <2>3
    <3>2. a \in Int /\ b \in Int /\ x \in Int
      BY <2>1, <3>1
    <3>3. ASSUME NEW r \in s PROVE r \in Int /\ (r = x \/ (a <= r /\ r <= b))
      BY <3>1
    <3>4. \E t \in s : \A r \in s : t <= r
      <4>1. CASE a <= x
        BY <3>1, <3>2, <3>3, <4>1
      <4>2. CASE x <= a
        BY <2>1, <3>2, <3>3, <4>2
      <4>. QED BY <3>2, <4>1, <4>2
    <3>5. \E t \in s : \A r \in s : r <= t
      <4>1. CASE x <= b
        BY <3>1, <3>2, <3>3, <4>1
      <4>2. CASE b <= x
        BY <2>1, <3>2, <3>3, <4>2
      <4>. QED BY <3>2, <4>1, <4>2
    <3>. QED BY <3>4, <3>5
  <2>. QED BY <2>2, <2>3
<1> HIDE DEF G
<1>3. \A s \in SUBSET T : s \in G
  BY <1>1, <1>2, PartInduction
<1>4. Good(T)
  BY <1>3 DEF G
<1>. QED BY <1>4 DEF Earliest, Latest

LEMMA StartsFit ==
  ASSUME InputsFit, NEW S \in SUBSET DOMAIN flows
  PROVE  /\ Starts(S) \in SUBSET Int /\ IsFiniteSet(Starts(S))
         /\ Starts(S) = {} <=> S = {}
<1>1. Starts(S) \in SUBSET Int /\ (Starts(S) = {} <=> S = {})
  BY GraphNumbers DEF Starts
<1>2. PICK h : h = [f \in S |-> flows[f].start]
  OBVIOUS
<1>3. h \in Surjection(S, Starts(S))
  BY <1>2 DEF Surjection, Starts
<1>4. IsFiniteSet(S)
  BY GraphNumbers, FS_Subset
<1>5. IsFiniteSet(Starts(S))
  BY <1>3, <1>4, FS_Surjection
<1>. QED BY <1>1, <1>5

-----------------------------------------------------------------------------
(* The columns of a pair that depend on its flows, as functions of them.    *)

Both(u, v) == Between(u, v) \cup Between(v, u)
MeanDuration(both) ==
  Ratio(SumFunction([f \in both |-> flows[f].finish - flows[f].start]), Cardinality(both))
MeanGap(both) ==
  IF Cardinality(both) < 2 THEN Zero
  ELSE <<Latest(Starts(both)) - Earliest(Starts(both)), Cardinality(both) - 1>>
MeanProtocol(both) ==
  Ratio(SumFunction([f \in {g \in both : flows[g].protocol >= 0} |->
                       classify_protocol_role(flows[f].protocol)]),
        Cardinality(both))
Bias(forward, reverse) ==
  Ratio(Cardinality(forward) - Cardinality(reverse), Cardinality(forward \cup reverse))
Asymmetry(forward, reverse) ==
  Ratio(Cardinality(forward) - Cardinality(reverse), Cardinality(forward) + Cardinality(reverse))
Requests(forward, reverse) ==
  Ratio(Cardinality(forward), Cardinality(forward) + Cardinality(reverse))
Hierarchy(u, v) ==
  <<(in_degree(v) + 1) * (out_degree(u) + 1), (out_degree(v) + 1) * (in_degree(u) + 1)>>

LEMMA ColumnsOfFlows ==
  ASSUME NEW u, NEW v
  PROVE  /\ Wanted(u, v)["time_avg_duration"] = MeanDuration(Both(u, v))
         /\ Wanted(u, v)["time_avg_interarrival"] = MeanGap(Both(u, v))
         /\ Wanted(u, v)["time_regularity"] = Regularity(Both(u, v))
         /\ Wanted(u, v)["time_direction_bias"] = Bias(Between(u, v), Between(v, u))
         /\ Wanted(u, v)["time_initiation_order"] =
              Integer(InitiationOrder(Between(u, v), Between(v, u)))
         /\ Wanted(u, v)["time_crosscorr_max"] = CrossCorrelation(Between(u, v), Between(v, u)).max
         /\ Wanted(u, v)["time_spike_score"] = Spike(Between(u, v), Between(v, u))
         /\ Wanted(u, v)["flow_response_time"] = MeanReply(Between(u, v), Between(v, u))
         /\ Wanted(u, v)["flow_request_ratio"] = Requests(Between(u, v), Between(v, u))
         /\ Wanted(u, v)["flow_direction_asymmetry"] = Asymmetry(Between(u, v), Between(v, u))
         /\ Wanted(u, v)["flow_causality_score"] = Causality(Between(u, v), Between(v, u))
         /\ Wanted(u, v)["flow_src_out_share"] = Ratio(Edges(u, v), out_degree(u))
         /\ Wanted(u, v)["flow_dst_in_share"] = Ratio(Edges(u, v), in_degree(v))
         /\ Wanted(u, v)["net_protocol_role"] = MeanProtocol(Both(u, v))
         /\ Wanted(u, v)["net_port_role"] =
              Minus(PortRole(Between(v, u), Between(u, v)), PortRole(Between(u, v), Between(v, u)))
         /\ Wanted(u, v)["struct_hierarchy_diff"] = Hierarchy(u, v)
<1>1. /\ temporal_columns(u, v)[1].value = MeanDuration(Both(u, v))
      /\ temporal_columns(u, v)[2].value = MeanGap(Both(u, v))
      /\ temporal_columns(u, v)[3].value = Regularity(Both(u, v))
  BY DEF temporal_columns, Column, MeanDuration, MeanGap, Both
<1>2. /\ temporal_columns(u, v)[4].value = Bias(Between(u, v), Between(v, u))
      /\ temporal_columns(u, v)[5].value = Integer(InitiationOrder(Between(u, v), Between(v, u)))
      /\ temporal_columns(u, v)[6].value = CrossCorrelation(Between(u, v), Between(v, u)).max
      /\ temporal_columns(u, v)[8].value = Spike(Between(u, v), Between(v, u))
  BY DEF temporal_columns, Column, Bias
<1>3. /\ flow_columns(u, v)[1].value = MeanReply(Between(u, v), Between(v, u))
      /\ flow_columns(u, v)[2].value = Requests(Between(u, v), Between(v, u))
      /\ flow_columns(u, v)[3].value = Asymmetry(Between(u, v), Between(v, u))
      /\ flow_columns(u, v)[4].value = Causality(Between(u, v), Between(v, u))
      /\ flow_columns(u, v)[5].value = Ratio(Edges(u, v), out_degree(u))
      /\ flow_columns(u, v)[6].value = Ratio(Edges(u, v), in_degree(v))
  BY DEF flow_columns, Column, Requests, Asymmetry, Edges
<1>4. /\ protocol_columns(u, v)[1].value = MeanProtocol(Both(u, v))
      /\ protocol_columns(u, v)[2].value =
           Minus(PortRole(Between(v, u), Between(u, v)), PortRole(Between(u, v), Between(v, u)))
  BY DEF protocol_columns, Column, MeanProtocol, Both
<1>5. structural_columns(u, v)[13].value = Hierarchy(u, v)
  BY DEF structural_columns, Column, Hierarchy
<1>. QED BY <1>1, <1>2, <1>3, <1>4, <1>5 DEF Wanted

(* The row of the swapped pair is that of its vertices in the other order.  *)
LEMMA TwoRows ==
  ASSUME FeatureInv, phase = "done", NEW p \in OrderedPairs, NEW name, Has({name}),
         NEW u, u = Source(p), NEW v, v = Target(p),
         name \in DOMAIN Wanted(u, v)
  PROVE  /\ Feature(p, name) = Wanted(u, v)[name]
         /\ Feature(Swap(p), name) = Wanted(v, u)[name]
<1>1. Swap(p) \in OrderedPairs /\ Source(Swap(p)) = v /\ Target(Swap(p)) = u
  BY DEF Swap, OrderedPairs, Source, Target
<1>2. DOMAIN Wanted(u, v) = DOMAIN Wanted(v, u)
  BY DEF Wanted
<1>. QED BY <1>1, <1>2, FeatureTold

-----------------------------------------------------------------------------
(* What is said of the flows in the one and in the other direction.         *)

\* x is the quotient y with the sign reversed.
Opposite(x, y) == x[1] * y[2] = -y[1] * x[2]

LEMMA OppositeQuotients ==
  ASSUME NEW a \in Int, NEW c \in Int, NEW n \in Int, a = -c
  PROVE  Opposite(Ratio(a, n), Ratio(c, n))
<1>1. CASE n > 0
  <2>1. Ratio(a, n) = <<a, n>> /\ Ratio(c, n) = <<c, n>>
    BY <1>1 DEF Ratio
  <2>. QED BY <2>1 DEF Opposite
<1>2. CASE ~(n > 0)
  <2>1. Ratio(a, n) = <<0, 1>> /\ Ratio(c, n) = <<0, 1>>
    BY <1>2 DEF Ratio, Zero
  <2>. QED BY <2>1 DEF Opposite
<1>. QED BY <1>1, <1>2

LEMMA OppositeCounts ==
  ASSUME InputsFit, NEW u, NEW v
  PROVE  /\ Opposite(Bias(Between(u, v), Between(v, u)), Bias(Between(v, u), Between(u, v)))
         /\ Opposite(Asymmetry(Between(u, v), Between(v, u)), Asymmetry(Between(v, u), Between(u, v)))
<1>1. PICK m, n, t : /\ m = Cardinality(Between(u, v)) /\ n = Cardinality(Between(v, u))
                     /\ t = Cardinality(Between(u, v) \cup Between(v, u))
  OBVIOUS
<1>2. Between(v, u) \cup Between(u, v) = Between(u, v) \cup Between(v, u)
  OBVIOUS
<1>3. m \in Nat /\ n \in Nat
  BY <1>1, GraphNumbers
<1>4. t \in Nat
  <2>1. IsFiniteSet(Between(u, v) \cup Between(v, u))
    BY GraphNumbers, FS_Union
  <2>. QED BY <1>1, <2>1, FS_CardinalityType
<1>5. /\ Bias(Between(u, v), Between(v, u)) = Ratio(m - n, t)
      /\ Bias(Between(v, u), Between(u, v)) = Ratio(n - m, t)
  BY <1>1, <1>2 DEF Bias
<1>6. n + m = m + n /\ m - n = -(n - m) /\ m - n \in Int /\ n - m \in Int /\ m + n \in Int /\ t \in Int
  BY <1>3, <1>4
<1>7. /\ Asymmetry(Between(u, v), Between(v, u)) = Ratio(m - n, m + n)
      /\ Asymmetry(Between(v, u), Between(u, v)) = Ratio(n - m, m + n)
  BY <1>1, <1>6 DEF Asymmetry
<1>. QED BY <1>5, <1>6, <1>7, OppositeQuotients

LEMMA OppositeOrders ==
  ASSUME InputsFit, NEW u, NEW v
  PROVE  Opposite(Integer(InitiationOrder(Between(u, v), Between(v, u))),
                  Integer(InitiationOrder(Between(v, u), Between(u, v))))
<1>1. PICK F, R, f, r : /\ F = Between(u, v) /\ R = Between(v, u)
                        /\ f = Earliest(Starts(F)) /\ r = Earliest(Starts(R))
  OBVIOUS
<1>2. F # {} => f \in Int
  <2>1. F \in SUBSET DOMAIN flows
    BY <1>1, GraphNumbers
  <2>2. Starts(F) \in SUBSET Int /\ IsFiniteSet(Starts(F)) /\ (Starts(F) = {} <=> F = {})
    BY <2>1, StartsFit
  <2>3. F # {} => Earliest(Starts(F)) \in Starts(F)
    BY <2>2, LeastAndGreatest
  <2>. QED BY <1>1, <2>2, <2>3
<1>3. R # {} => r \in Int
  <2>1. R \in SUBSET DOMAIN flows
    BY <1>1, GraphNumbers
  <2>2. Starts(R) \in SUBSET Int /\ IsFiniteSet(Starts(R)) /\ (Starts(R) = {} <=> R = {})
    BY <2>1, StartsFit
  <2>3. R # {} => Earliest(Starts(R)) \in Starts(R)
    BY <2>2, LeastAndGreatest
  <2>. QED BY <1>1, <2>2, <2>3
<1>4. ~(SpeaksFirst(F, R) /\ SpeaksFirst(R, F))
  BY <1>1, <1>2, <1>3 DEF SpeaksFirst
<1>5. PICK x, y : x = InitiationOrder(F, R) /\ y = InitiationOrder(R, F)
  OBVIOUS
<1>6. (x = 1 /\ y = -1) \/ (x = -1 /\ y = 1) \/ (x = 0 /\ y = 0)
  BY <1>4, <1>5 DEF InitiationOrder
<1>7. x * 1 = -y * 1
  BY <1>6
<1>. QED BY <1>1, <1>5, <1>7 DEF Opposite, Integer

LEMMA OppositeDifferences ==
  ASSUME NEW a \in Int, NEW c \in Int, NEW m \in Int, NEW n \in Int,
         NEW x, x = <<a, m>>, NEW y, y = <<c, n>>
  PROVE  Opposite(Minus(x, y), Minus(y, x))
<1>1. PICK s, t, k : s = a * n /\ t = c * m /\ k = m * n
  OBVIOUS
<1>2. s \in Int /\ t \in Int /\ k \in Int /\ n * m = k
  BY <1>1
<1>3. Minus(x, y) = <<s - t, k>> /\ Minus(y, x) = <<t - s, k>>
  BY <1>1, <1>2 DEF Minus
<1>4. (s - t) * k = -(t - s) * k
  BY <1>2
<1>. QED BY <1>3, <1>4 DEF Opposite

LEMMA RolesFit ==
  ASSUME InputsFit, NEW F \in SUBSET DOMAIN flows, NEW R \in SUBSET DOMAIN flows
  PROVE  \E a \in Int, n \in Int : PortRole(F, R) = <<a, n>>
<1> DEFINE sources == {f \in F : flows[f].src_port > 0}
           targets == {f \in R : flows[f].dst_port > 0}
           g == [f \in sources |-> classify_port_role(flows[f].src_port)]
           h == [f \in targets |-> classify_port_role(flows[f].dst_port)]
<1>1. IsFiniteSet(sources) /\ IsFiniteSet(targets)
  BY GraphNumbers, FS_Subset
<1>2. g \in [sources -> Nat] /\ h \in [targets -> Nat]
  BY DEF classify_port_role
<1>3. PortRole(F, R) = Ratio(SumFunction(g) + SumFunction(h), Cardinality(sources) + Cardinality(targets))
  BY DEF PortRole
<1> HIDE DEF sources, targets, g, h
<1>4. PICK s, t, m, n : s = SumFunction(g) /\ t = SumFunction(h)
                        /\ m = Cardinality(sources) /\ n = Cardinality(targets)
  OBVIOUS
<1>5. s \in Nat /\ t \in Nat
  BY <1>1, <1>2, <1>4, SumOfNaturals
<1>6. m \in Nat /\ n \in Nat
  BY <1>1, <1>4, FS_CardinalityType
<1>7. PortRole(F, R) = IF m + n > 0 THEN <<s + t, m + n>> ELSE <<0, 1>>
  BY <1>3, <1>4 DEF Ratio, Zero
<1>. QED BY <1>5, <1>6, <1>7

LEMMA OppositePorts ==
  ASSUME InputsFit, NEW u, NEW v
  PROVE  Opposite(Wanted(u, v)["net_port_role"], Wanted(v, u)["net_port_role"])
<1>1. PICK x, y : /\ x = PortRole(Between(v, u), Between(u, v))
                  /\ y = PortRole(Between(u, v), Between(v, u))
  OBVIOUS
<1>2. Between(u, v) \in SUBSET DOMAIN flows /\ Between(v, u) \in SUBSET DOMAIN flows
  BY GraphNumbers
<1>3. PICK a \in Int, m \in Int : x = <<a, m>>
  BY <1>1, <1>2, RolesFit
<1>4. PICK c \in Int, n \in Int : y = <<c, n>>
  BY <1>1, <1>2, RolesFit
<1>5. Wanted(u, v)["net_port_role"] = Minus(x, y) /\ Wanted(v, u)["net_port_role"] = Minus(y, x)
  BY <1>1, ColumnsOfFlows
<1>. QED BY <1>3, <1>4, <1>5, OppositeDifferences

LEMMA SameHierarchies ==
  ASSUME InputsFit, NEW u, NEW v
  PROVE  Hierarchy(u, v)[1] * Hierarchy(v, u)[1] = Hierarchy(u, v)[2] * Hierarchy(v, u)[2]
<1>1. PICK a, c, m, n : /\ a = in_degree(v) + 1 /\ c = out_degree(u) + 1
                        /\ m = out_degree(v) + 1 /\ n = in_degree(u) + 1
  OBVIOUS
<1>2. a \in Int /\ c \in Int /\ m \in Int /\ n \in Int
  BY <1>1, GraphNumbers
<1>3. PICK s, t : s = a * c /\ t = m * n
  OBVIOUS
<1>4. s \in Int /\ t \in Int /\ n * m = t /\ c * a = s
  BY <1>2, <1>3
<1>5. Hierarchy(u, v) = <<s, t>> /\ Hierarchy(v, u) = <<t, s>>
  BY <1>1, <1>3, <1>4 DEF Hierarchy
<1>. QED BY <1>4, <1>5

LEMMA RequestsAddUp ==
  ASSUME InputsFit, NEW u, NEW v, Between(u, v) # {}
  PROVE  Requests(Between(u, v), Between(v, u))[1] + Requests(Between(v, u), Between(u, v))[1]
           = Requests(Between(u, v), Between(v, u))[2]
<1>1. PICK m, n : m = Cardinality(Between(u, v)) /\ n = Cardinality(Between(v, u))
  OBVIOUS
<1>2. m \in Nat /\ m > 0 /\ n \in Nat
  BY <1>1, GraphNumbers
<1>3. /\ Requests(Between(u, v), Between(v, u)) = <<m, m + n>>
      /\ Requests(Between(v, u), Between(u, v)) = <<n, n + m>>
  BY <1>1, <1>2 DEF Requests, Ratio
<1>. QED BY <1>2, <1>3

-----------------------------------------------------------------------------
(* The peak of the cross-correlation.                                       *)

Follow(f, g, lag) ==
  flows[g].start - (flows[f].start + 100 * lag) \in (1 - kCorrelationTolerance)..(kCorrelationTolerance - 1)
Matching(forward, reverse, lag) == {f \in forward : \E g \in reverse : Follow(f, g, lag)}
Peak(forward, reverse) == Latest({Matches(forward, reverse, lag) : lag \in Lags})

LEMMA LagsFit ==
  /\ Lags \in SUBSET Int /\ IsFiniteSet(Lags) /\ Lags # {}
  /\ \A lag \in Lags : -lag \in Lags
<1>1. Lags = -5..5
  BY DEF Lags, kMaxCorrelationLag
<1>2. IsFiniteSet(Lags)
  <2>1. PICK a \in Int, c \in Int : a = -5 /\ c = 5
    OBVIOUS
  <2>2. IsFiniteSet(a..c)
    BY FS_Interval
  <2>. QED BY <1>1, <2>1, <2>2
<1>3. \A x : x \in Lags <=> x \in Int /\ -5 <= x /\ x <= 5
  BY <1>1
<1>4. Lags # {}
  <2>1. 0 \in Lags
    BY <1>3
  <2>. QED BY <2>1
<1>5. \A lag \in Lags : -lag \in Lags
  <2> TAKE lag \in Lags
  <2>1. lag \in Int /\ -5 <= lag /\ lag <= 5
    BY <1>3
  <2>2. -lag \in Int /\ -5 <= -lag /\ -lag <= 5
    BY <2>1
  <2>. QED BY <1>3, <2>2
<1>6. Lags \in SUBSET Int
  BY <1>3
<1>. QED BY <1>2, <1>4, <1>5, <1>6

LEMMA MatchesFit ==
  ASSUME InputsFit, NEW F \in SUBSET DOMAIN flows, NEW R \in SUBSET DOMAIN flows, NEW lag \in Lags
  PROVE  /\ Matches(F, R, lag) = Cardinality(Matching(F, R, lag))
         /\ Matches(F, R, lag) \in Nat /\ Matches(F, R, lag) <= Cardinality(F)
         /\ Matches(F, R, lag) > 0 <=> \E f \in F, g \in R : Follow(f, g, lag)
<1>1. Matches(F, R, lag) = Cardinality(Matching(F, R, lag))
  BY DEF Matches, Matching, Follow, Starts
<1>2. Matching(F, R, lag) \in SUBSET F /\ IsFiniteSet(F)
  BY GraphNumbers, FS_Subset DEF Matching
<1>3. /\ IsFiniteSet(Matching(F, R, lag))
      /\ Cardinality(Matching(F, R, lag)) <= Cardinality(F)
      /\ Cardinality(Matching(F, R, lag)) \in Nat
  BY <1>2, FS_Subset, FS_CardinalityType
<1>4. Cardinality(Matching(F, R, lag)) = 0 <=> Matching(F, R, lag) = {}
  BY <1>3, FS_EmptySet
<1>5. Matching(F, R, lag) # {} <=> \E f \in F, g \in R : Follow(f, g, lag)
  BY DEF Matching
<1>6. PICK m : m = Cardinality(Matching(F, R, lag))
  OBVIOUS
<1>7. m > 0 <=> m # 0
  BY <1>3, <1>6
<1>. QED BY <1>1, <1>3, <1>4, <1>5, <1>6, <1>7

LEMMA PeakFits ==
  ASSUME InputsFit, NEW F \in SUBSET DOMAIN flows, NEW R \in SUBSET DOMAIN flows
  PROVE  /\ Peak(F, R) \in Nat /\ Peak(F, R) <= Cardinality(F)
         /\ Peak(F, R) > 0 <=> \E lag \in Lags, f \in F, g \in R : Follow(f, g, lag)
<1>1. PICK h : h = [lag \in Lags |-> Matches(F, R, lag)]
  OBVIOUS
<1>2. PICK T : T = {Matches(F, R, lag) : lag \in Lags}
  OBVIOUS
<1>3. h \in Surjection(Lags, T)
  BY <1>1, <1>2 DEF Surjection
<1>4. IsFiniteSet(T)
  BY <1>3, LagsFit, FS_Surjection
<1>5. T \in SUBSET Int /\ T # {} /\ \A t \in T : t \in Nat /\ t <= Cardinality(F)
  <2>1. T # {}
    BY <1>2, LagsFit
  <2>2. \A lag \in Lags : Matches(F, R, lag) \in Nat /\ Matches(F, R, lag) <= Cardinality(F)
    BY MatchesFit
  <2>3. \A t \in T : t \in Nat /\ t <= Cardinality(F)
    BY <1>2, <2>2
  <2>. QED BY <2>1, <2>3
<1>6. Peak(F, R) \in T /\ \A t \in T : t <= Peak(F, R)
  BY <1>2, <1>4, <1>5, LeastAndGreatest DEF Peak
<1>7. (\E t \in T : t > 0) <=> \E lag \in Lags, f \in F, g \in R : Follow(f, g, lag)
  <2>1. (\E t \in T : t > 0) <=> \E lag \in Lags : Matches(F, R, lag) > 0
    BY <1>2
  <2>. QED BY <2>1, MatchesFit
<1>8. PICK top : top = Peak(F, R)
  OBVIOUS
<1>9. top > 0 <=> \E t \in T : t > 0
  <2>1. ASSUME NEW t \in T, t > 0 PROVE top > 0
    <3>1. top \in Nat /\ t \in Nat /\ t <= top
      BY <1>5, <1>6, <1>8
    <3>. QED BY <2>1, <3>1
  <2>. QED BY <1>6, <1>8, <2>1
<1>. QED BY <1>5, <1>6, <1>7, <1>8, <1>9

LEMMA FollowsBack ==
  ASSUME InputsFit, NEW f \in DOMAIN flows, NEW g \in DOMAIN flows, NEW lag \in Lags
  PROVE  Follow(f, g, lag) <=> Follow(g, f, -lag)
<1>1. PICK s, t : s = flows[f].start /\ t = flows[g].start
  OBVIOUS
<1>2. s \in Int /\ t \in Int
  BY <1>1, GraphNumbers
<1>3. lag \in Int
  BY LagsFit
<1>4. PICK d, e : d = t - (s + 100 * lag) /\ e = s - (t + 100 * (-lag))
  OBVIOUS
<1>5. d \in Int /\ e \in Int /\ e = -d
  BY <1>2, <1>3, <1>4
<1>6. Follow(f, g, lag) <=> -499 <= d /\ d <= 499
  BY <1>1, <1>4, <1>5 DEF Follow, kCorrelationTolerance
<1>7. Follow(g, f, -lag) <=> -499 <= e /\ e <= 499
  BY <1>1, <1>4, <1>5 DEF Follow, kCorrelationTolerance
<1>. QED BY <1>5, <1>6, <1>7

LEMMA PeaksBothWays ==
  ASSUME InputsFit, NEW F \in SUBSET DOMAIN flows, NEW R \in SUBSET DOMAIN flows
  PROVE  Peak(F, R) > 0 => Peak(R, F) > 0
<1>1. SUFFICES ASSUME Peak(F, R) > 0 PROVE Peak(R, F) > 0
  OBVIOUS
<1>2. PICK lag \in Lags, f \in F, g \in R : Follow(f, g, lag)
  BY <1>1, PeakFits
<1>3. -lag \in Lags /\ Follow(g, f, -lag)
  BY <1>2, FollowsBack, LagsFit
<1>. QED BY <1>3, PeakFits

LEMMA CorrelationIsPeak ==
  ASSUME InputsFit, NEW F \in SUBSET DOMAIN flows, NEW R \in SUBSET DOMAIN flows
  PROVE  CrossCorrelation(F, R).max =
           IF F = {} \/ R = {} THEN Zero ELSE Ratio(Peak(F, R), Cardinality(F))
<1>1. {[x \in Lags |-> Matches(F, R, x)][lag] : lag \in Lags} = {Matches(F, R, lag) : lag \in Lags}
  OBVIOUS
<1>. QED BY <1>1 DEF CrossCorrelation, Peak

LEMMA CorrelationBothWays ==
  ASSUME InputsFit, NEW u, NEW v
  PROVE  CrossCorrelation(Between(u, v), Between(v, u)).max[1] > 0
           <=> CrossCorrelation(Between(v, u), Between(u, v)).max[1] > 0
<1>1. PICK F, R : F = Between(u, v) /\ R = Between(v, u)
  OBVIOUS
<1>2. /\ F \in SUBSET DOMAIN flows /\ R \in SUBSET DOMAIN flows
      /\ Cardinality(F) \in Nat /\ Cardinality(R) \in Nat
      /\ Cardinality(F) = 0 <=> F = {}
      /\ Cardinality(R) = 0 <=> R = {}
  BY <1>1, GraphNumbers
<1>3. Peak(F, R) > 0 <=> Peak(R, F) > 0
  BY <1>2, PeaksBothWays
<1>4. CASE F = {} \/ R = {}
  <2>1. CrossCorrelation(F, R).max = Zero /\ CrossCorrelation(R, F).max = Zero
    BY <1>2, <1>4, CorrelationIsPeak
  <2>. QED BY <1>1, <2>1
<1>5. CASE F # {} /\ R # {}
  <2>1. /\ CrossCorrelation(F, R).max = Ratio(Peak(F, R), Cardinality(F))
        /\ CrossCorrelation(R, F).max = Ratio(Peak(R, F), Cardinality(R))
    BY <1>2, <1>5, CorrelationIsPeak
  <2>2. Cardinality(F) > 0 /\ Cardinality(R) > 0
    BY <1>2, <1>5
  <2>3. /\ Ratio(Peak(F, R), Cardinality(F))[1] = Peak(F, R)
        /\ Ratio(Peak(R, F), Cardinality(R))[1] = Peak(R, F)
    BY <2>2 DEF Ratio
  <2>. QED BY <1>1, <1>3, <2>1, <2>3
<1>. QED BY <1>4, <1>5

(* The rows of a pair and of the swapped pair describe the same flows.      *)
THEOREM RowsMirror == Spec => []MirrorRows
<1>1. ASSUME FeatureInv, phase = "done", NEW p \in OrderedPairs,
             NEW u, u = Source(p), NEW v, v = Target(p)
      PROVE  /\ \A name \in {"time_avg_duration", "time_avg_interarrival", "time_regularity",
                              "net_protocol_role"} :
                  Has({name}) => Feature(p, name) = Feature(Swap(p), name)
             /\ \A name \in {"time_direction_bias", "time_initiation_order",
                              "flow_direction_asymmetry", "net_port_role"} :
                  Has({name}) => Opposite(Feature(p, name), Feature(Swap(p), name))
             /\ Has({"struct_hierarchy_diff"}) =>
                  Feature(p, "struct_hierarchy_diff")[1] * Feature(Swap(p), "struct_hierarchy_diff")[1]
                    = Feature(p, "struct_hierarchy_diff")[2] * Feature(Swap(p), "struct_hierarchy_diff")[2]
             /\ Has({"time_crosscorr_max"}) =>
                  (Feature(p, "time_crosscorr_max")[1] > 0 <=> Feature(Swap(p), "time_crosscorr_max")[1] > 0)
             /\ Has({"flow_request_ratio"}) /\ Between(Source(p), Target(p)) # {} =>
                  Feature(p, "flow_request_ratio")[1] + Feature(Swap(p), "flow_request_ratio")[1]
                    = Feature(p, "flow_request_ratio")[2]
  <2>1. InputsFit
    BY <1>1 DEF FeatureInv
  <2>2. ASSUME NEW name \in DOMAIN Wanted(u, v), Has({name})
        PROVE  /\ Feature(p, name) = Wanted(u, v)[name]
               /\ Feature(Swap(p), name) = Wanted(v, u)[name]
    BY <1>1, <2>2, TwoRows
  <2>3. {"time_avg_duration", "time_avg_interarrival", "time_regularity", "net_protocol_role",
         "time_direction_bias", "time_initiation_order", "flow_direction_asymmetry", "net_port_role",
         "struct_hierarchy_diff", "time_crosscorr_max", "flow_request_ratio"} \in SUBSET DOMAIN Wanted(u, v)
    BY DEF Wanted
  <2>4. Both(v, u) = Both(u, v)
    BY DEF Both
  <2>5. \A name \in {"time_avg_duration", "time_avg_interarrival", "time_regularity",
                     "net_protocol_role"} : Wanted(u, v)[name] = Wanted(v, u)[name]
    BY <2>4, ColumnsOfFlows
  <2>6. \A name \in {"time_direction_bias", "time_initiation_order",
                     "flow_direction_asymmetry", "net_port_role"} :
          Opposite(Wanted(u, v)[name], Wanted(v, u)[name])
    BY <2>1, ColumnsOfFlows, OppositeCounts, OppositeOrders, OppositePorts
  <2>7. Wanted(u, v)["struct_hierarchy_diff"][1] * Wanted(v, u)["struct_hierarchy_diff"][1]
          = Wanted(u, v)["struct_hierarchy_diff"][2] * Wanted(v, u)["struct_hierarchy_diff"][2]
    BY <2>1, ColumnsOfFlows, SameHierarchies
  <2>8. Wanted(u, v)["time_crosscorr_max"][1] > 0 <=> Wanted(v, u)["time_crosscorr_max"][1] > 0
    BY <2>1, ColumnsOfFlows, CorrelationBothWays
  <2>9. Between(u, v) # {} =>
          Wanted(u, v)["flow_request_ratio"][1] + Wanted(v, u)["flow_request_ratio"][1]
            = Wanted(u, v)["flow_request_ratio"][2]
    BY <2>1, ColumnsOfFlows, RequestsAddUp
  <2>. QED BY <1>1, <2>2, <2>3, <2>5, <2>6, <2>7, <2>8, <2>9
<1>2. FeatureInv => MirrorRows
  BY <1>1 DEF MirrorRows, Opposite
<1>. QED BY <1>2, FeatureInvariance, PTL

-----------------------------------------------------------------------------
(* Fractions.                                                               *)

IsFraction(x) == 0 <= x[1] /\ x[1] <= x[2]

LEMMA Fractions ==
  ASSUME NEW n \in Nat, NEW d \in Nat, n <= d
  PROVE  IsFraction(Ratio(n, d)) /\ Ratio(n, d)[1] \in Nat
<1>1. CASE d > 0
  BY <1>1 DEF Ratio, IsFraction
<1>2. CASE ~(d > 0)
  BY <1>2 DEF Ratio, Zero, IsFraction
<1>. QED BY <1>1, <1>2

(* Degrees count disjoint sets of flows.                                    *)
LEMMA OutDegreesSum ==
  ASSUME InputsFit, NEW S \in SUBSET Vertices, NEW v, NEW f, f = [w \in S |-> Edges(v, w)]
  PROVE  SumFunction(f) = Cardinality({g \in DOMAIN flows : flows[g].source = v /\ flows[g].target \in S})
<1>1. IsFiniteSet(S) /\ IsFiniteSet(DOMAIN flows)
  BY GraphFits, GraphNumbers, FS_Subset
<1>2. PICK B : B = [w \in S |-> Between(v, w)]
  OBVIOUS
<1>3. B \in [S -> SUBSET DOMAIN flows] /\ \A x, y \in S : x # y => B[x] \cap B[y] = {}
  BY <1>2 DEF Between
<1>4. DOMAIN f = S /\ \A x \in S : f[x] = Cardinality(B[x])
  BY <1>2 DEF Edges
<1>5. SumFunction(f) = Cardinality(UNION {B[x] : x \in S})
  BY <1>1, <1>3, <1>4, SumOfSizes
<1>6. UNION {B[x] : x \in S} = {g \in DOMAIN flows : flows[g].source = v /\ flows[g].target \in S}
  BY <1>2 DEF Between
<1>. QED BY <1>5, <1>6

LEMMA InDegreesSum ==
  ASSUME InputsFit, NEW S \in SUBSET Vertices, NEW v, NEW f, f = [w \in S |-> Edges(w, v)]
  PROVE  SumFunction(f) = Cardinality({g \in DOMAIN flows : flows[g].target = v /\ flows[g].source \in S})
<1>1. IsFiniteSet(S) /\ IsFiniteSet(DOMAIN flows)
  BY GraphFits, GraphNumbers, FS_Subset
<1>2. PICK B : B = [w \in S |-> Between(w, v)]
  OBVIOUS
<1>3. B \in [S -> SUBSET DOMAIN flows] /\ \A x, y \in S : x # y => B[x] \cap B[y] = {}
  BY <1>2 DEF Between
<1>4. DOMAIN f = S /\ \A x \in S : f[x] = Cardinality(B[x])
  BY <1>2 DEF Edges
<1>5. SumFunction(f) = Cardinality(UNION {B[x] : x \in S})
  BY <1>1, <1>3, <1>4, SumOfSizes
<1>6. UNION {B[x] : x \in S} = {g \in DOMAIN flows : flows[g].target = v /\ flows[g].source \in S}
  BY <1>2 DEF Between
<1>. QED BY <1>5, <1>6

(* Common neighbours, as often as in both neighbourhoods, are not more than *)
(* either neighbourhood has.                                                *)
LEMMA CommonNeighbors ==
  ASSUME InputsFit, NEW u, NEW v
  PROVE  /\ IsFiniteSet(get_out_neighbors(u)) /\ get_out_neighbors(u) \in SUBSET Vertices
         /\ get_common_neighbors(u, v) \in [get_out_neighbors(u) -> Nat]
         /\ SumFunction(get_common_neighbors(u, v)) \in Nat
         /\ SumFunction(get_common_neighbors(u, v)) <= out_degree(u)
         /\ SumFunction(get_common_neighbors(u, v)) <= in_degree(v)
<1>1. PICK S : S = get_out_neighbors(u)
  OBVIOUS
<1>2. S \in SUBSET Vertices /\ IsFiniteSet(S)
  BY <1>1, GraphFits, FS_Subset
<1>3. PICK c, f, h : c = get_common_neighbors(u, v) /\ f = [w \in S |-> Edges(u, w)] /\ h = [w \in S |-> Edges(w, v)]
  OBVIOUS
<1>4. f \in [S -> Nat] /\ h \in [S -> Nat]
  BY <1>3, GraphNumbers
<1>5. c \in [S -> Nat] /\ \A w \in S : c[w] <= f[w] /\ c[w] <= h[w]
  <2>1. c = [w \in S |-> Lesser(Edges(u, w), Edges(w, v))]
    BY <1>1, <1>3 DEF get_common_neighbors
  <2>2. ASSUME NEW w \in S
        PROVE  c[w] \in Nat /\ c[w] <= f[w] /\ c[w] <= h[w]
    <3>1. PICK a \in Nat, d \in Nat : a = Edges(u, w) /\ d = Edges(w, v)
      BY GraphNumbers
    <3>2. c[w] = Lesser(a, d) /\ f[w] = a /\ h[w] = d
      BY <1>3, <2>1, <3>1
    <3>. QED BY <3>2 DEF Lesser
  <2>. QED BY <2>1, <2>2
<1>6. SumFunction(c) <= SumFunction(f) /\ SumFunction(c) <= SumFunction(h)
  BY <1>2, <1>4, <1>5, SumsCompare
<1>7. /\ SumFunction(c) \in Nat /\ SumFunction(f) \in Nat /\ SumFunction(h) \in Nat
  BY <1>2, <1>4, <1>5, SumOfNaturals
<1>8. SumFunction(f) <= out_degree(u)
  <2>1. {g \in DOMAIN flows : flows[g].source = u /\ flows[g].target \in S}
          \in SUBSET {g \in DOMAIN flows : flows[g].source = u}
    OBVIOUS
  <2>2. IsFiniteSet({g \in DOMAIN flows : flows[g].source = u})
    BY GraphNumbers, FS_Subset
  <2>3. Cardinality({g \in DOMAIN flows : flows[g].source = u /\ flows[g].target \in S}) <= out_degree(u)
    BY <2>1, <2>2, FS_Subset DEF out_degree
  <2>4. SumFunction(f) = Cardinality({g \in DOMAIN flows : flows[g].source = u /\ flows[g].target \in S})
    BY <1>2, <1>3, OutDegreesSum
  <2>. QED BY <2>3, <2>4
<1>9. SumFunction(h) <= in_degree(v)
  <2>1. {g \in DOMAIN flows : flows[g].target = v /\ flows[g].source \in S}
          \in SUBSET {g \in DOMAIN flows : flows[g].target = v}
    OBVIOUS
  <2>2. IsFiniteSet({g \in DOMAIN flows : flows[g].target = v})
    BY GraphNumbers, FS_Subset
  <2>3. Cardinality({g \in DOMAIN flows : flows[g].target = v /\ flows[g].source \in S}) <= in_degree(v)
    BY <2>1, <2>2, FS_Subset DEF in_degree
  <2>4. SumFunction(h) = Cardinality({g \in DOMAIN flows : flows[g].target = v /\ flows[g].source \in S})
    BY <1>2, <1>3, InDegreesSum
  <2>. QED BY <2>3, <2>4
<1>10. PICK k, a, d : k = SumFunction(c) /\ a = SumFunction(f) /\ d = SumFunction(h)
  OBVIOUS
<1>11. PICK m, n : m = out_degree(u) /\ n = in_degree(v)
  OBVIOUS
<1>12. m \in Nat /\ n \in Nat
  BY <1>11, GraphNumbers
<1>13. k <= m /\ k <= n
  BY <1>6, <1>7, <1>8, <1>9, <1>10, <1>11, <1>12
<1>. QED BY <1>1, <1>2, <1>3, <1>5, <1>7, <1>10, <1>11, <1>13

-----------------------------------------------------------------------------
(* Rows with all features.                                                  *)

WantedNames ==
  {"struct_in_degree_src", "struct_out_degree_src", "struct_in_degree_dst", "struct_out_degree_dst",
   "struct_common_neighbors", "struct_jaccard_coefficient", "struct_transitive_reachability",
   "struct_shortest_path", "time_direction_bias", "time_crosscorr_max", "time_spike_score",
   "flow_response_time", "flow_request_ratio", "flow_direction_asymmetry", "flow_causality_score",
   "flow_src_out_share", "flow_dst_in_share"}

LEMMA AllNamed ==
  ASSUME NEW name \in WantedNames
  PROVE  name \in ToSet(FeatureNames)
<1>1. PICK all, L : all = FeatureNames /\ L = Len(all)
  OBVIOUS
<1>2. L = 39 /\ DOMAIN all = 1..39
  BY <1>1, FamiliesStand DEF IsSequence
<1>3. \A n \in 1..39 : all[n] \in ToSet(all)
  BY <1>2 DEF ToSet
<1>4. \A k \in 1..13 : StructuralNames[k] \in ToSet(all)
  <2> TAKE k \in 1..13
  <2>1. 9 + k \in 1..39 /\ all[9 + k] = StructuralNames[k]
    BY <1>1, FamiliesStand
  <2>. QED BY <1>3, <2>1
<1>5. \A k \in 1..8 : TemporalNames[k] \in ToSet(all)
  <2> TAKE k \in 1..8
  <2>1. 22 + k \in 1..39 /\ all[22 + k] = TemporalNames[k]
    BY <1>1, FamiliesStand
  <2>. QED BY <1>3, <2>1
<1>6. \A k \in 1..6 : FlowNames[k] \in ToSet(all)
  <2> TAKE k \in 1..6
  <2>1. 30 + k \in 1..39 /\ all[30 + k] = FlowNames[k]
    BY <1>1, FamiliesStand
  <2>. QED BY <1>3, <2>1
<1>7. /\ StructuralNames[1] = "struct_in_degree_src" /\ StructuralNames[2] = "struct_out_degree_src"
      /\ StructuralNames[3] = "struct_in_degree_dst" /\ StructuralNames[4] = "struct_out_degree_dst"
      /\ StructuralNames[6] = "struct_common_neighbors" /\ StructuralNames[7] = "struct_jaccard_coefficient"
      /\ StructuralNames[11] = "struct_transitive_reachability"
      /\ StructuralNames[12] = "struct_shortest_path"
  BY DEF StructuralNames
<1>8. /\ TemporalNames[4] = "time_direction_bias" /\ TemporalNames[6] = "time_crosscorr_max"
      /\ TemporalNames[8] = "time_spike_score"
  BY DEF TemporalNames
<1>9. /\ FlowNames[1] = "flow_response_time" /\ FlowNames[2] = "flow_request_ratio"
      /\ FlowNames[3] = "flow_direction_asymmetry" /\ FlowNames[4] = "flow_causality_score"
      /\ FlowNames[5] = "flow_src_out_share" /\ FlowNames[6] = "flow_dst_in_share"
  BY DEF FlowNames
<1>10. /\ 1 \in 1..13 /\ 2 \in 1..13 /\ 3 \in 1..13 /\ 4 \in 1..13 /\ 6 \in 1..13 /\ 7 \in 1..13
       /\ 11 \in 1..13 /\ 12 \in 1..13
       /\ 4 \in 1..8 /\ 6 \in 1..8 /\ 8 \in 1..8
       /\ 1 \in 1..6 /\ 2 \in 1..6 /\ 3 \in 1..6 /\ 4 \in 1..6 /\ 5 \in 1..6 /\ 6 \in 1..6
  OBVIOUS
<1>11. /\ "struct_in_degree_src" \in ToSet(all) /\ "struct_out_degree_src" \in ToSet(all)
       /\ "struct_in_degree_dst" \in ToSet(all) /\ "struct_out_degree_dst" \in ToSet(all)
       /\ "struct_common_neighbors" \in ToSet(all) /\ "struct_jaccard_coefficient" \in ToSet(all)
       /\ "struct_transitive_reachability" \in ToSet(all) /\ "struct_shortest_path" \in ToSet(all)
  BY <1>4, <1>7, <1>10
<1>12. /\ "time_direction_bias" \in ToSet(all) /\ "time_crosscorr_max" \in ToSet(all)
       /\ "time_spike_score" \in ToSet(all)
  BY <1>5, <1>8, <1>10
<1>13. /\ "flow_response_time" \in ToSet(all) /\ "flow_request_ratio" \in ToSet(all)
       /\ "flow_direction_asymmetry" \in ToSet(all) /\ "flow_causality_score" \in ToSet(all)
       /\ "flow_src_out_share" \in ToSet(all) /\ "flow_dst_in_share" \in ToSet(all)
  BY <1>6, <1>9, <1>10
<1>. QED BY <1>1, <1>11, <1>12, <1>13 DEF WantedNames

LEMMA FeatureAsWanted ==
  ASSUME FeatureInv, phase = "done", Has(ToSet(FeatureNames)), NEW p \in OrderedPairs,
         NEW name \in WantedNames
  PROVE  Feature(p, name) = Wanted(Source(p), Target(p))[name]
<1>1. Has({name})
  BY AllNamed DEF Has
<1>2. name \in DOMAIN Wanted(Source(p), Target(p))
  BY DEF Wanted, WantedNames
<1>. QED BY <1>1, <1>2, FeatureTold

LEMMA ColumnsOfVertices ==
  ASSUME NEW u, NEW v, NEW size, size = SumFunction(get_common_neighbors(u, v))
  PROVE  /\ Wanted(u, v)["struct_in_degree_src"] = Percentile(in_degree(u))
         /\ Wanted(u, v)["struct_out_degree_src"] = Percentile(out_degree(u))
         /\ Wanted(u, v)["struct_in_degree_dst"] = Percentile(in_degree(v))
         /\ Wanted(u, v)["struct_out_degree_dst"] = Percentile(out_degree(v))
         /\ Wanted(u, v)["struct_common_neighbors"] = Ratio(size, Lesser(out_degree(u), in_degree(v)))
         /\ Wanted(u, v)["struct_jaccard_coefficient"] = Ratio(size, out_degree(u) + in_degree(v) - size)
         /\ Wanted(u, v)["struct_transitive_reachability"] = Integer(Cached(m_transitive_path_cache, u, v, 0))
         /\ Wanted(u, v)["struct_shortest_path"] = Closeness(u, v)
<1>1. /\ structural_columns(u, v)[1].value = Percentile(in_degree(u))
      /\ structural_columns(u, v)[2].value = Percentile(out_degree(u))
      /\ structural_columns(u, v)[3].value = Percentile(in_degree(v))
      /\ structural_columns(u, v)[4].value = Percentile(out_degree(v))
  BY DEF structural_columns, Column
<1>2. /\ structural_columns(u, v)[6].value = Ratio(size, Lesser(out_degree(u), in_degree(v)))
      /\ structural_columns(u, v)[7].value = Ratio(size, out_degree(u) + in_degree(v) - size)
  BY DEF structural_columns, Column
<1>3. /\ structural_columns(u, v)[11].value = Integer(Cached(m_transitive_path_cache, u, v, 0))
      /\ structural_columns(u, v)[12].value = Closeness(u, v)
  BY DEF structural_columns, Column
<1>. QED BY <1>1, <1>2, <1>3 DEF Wanted

-----------------------------------------------------------------------------
(* Shares.                                                                  *)

LEMMA StructuralFractions ==
  ASSUME InputsFit, NEW u, NEW v
  PROVE  /\ IsFraction(Wanted(u, v)["struct_common_neighbors"])
         /\ IsFraction(Wanted(u, v)["struct_jaccard_coefficient"])
<1>1. PICK k, m, n : k = SumFunction(get_common_neighbors(u, v)) /\ m = out_degree(u) /\ n = in_degree(v)
  OBVIOUS
<1>2. k \in Nat /\ k <= m /\ k <= n
  BY <1>1, CommonNeighbors
<1>3. m \in Nat /\ n \in Nat
  BY <1>1, GraphNumbers
<1>4. Lesser(m, n) \in Nat /\ k <= Lesser(m, n) /\ m + n - k \in Nat /\ k <= m + n - k
  BY <1>2, <1>3 DEF Lesser
<1>5. /\ Wanted(u, v)["struct_common_neighbors"] = Ratio(k, Lesser(m, n))
      /\ Wanted(u, v)["struct_jaccard_coefficient"] = Ratio(k, m + n - k)
  BY <1>1, ColumnsOfVertices
<1>. QED BY <1>2, <1>4, <1>5, Fractions

LEMMA FlowFractions ==
  ASSUME InputsFit, NEW u, NEW v
  PROVE  /\ IsFraction(Wanted(u, v)["flow_request_ratio"])
         /\ IsFraction(Wanted(u, v)["flow_src_out_share"])
         /\ IsFraction(Wanted(u, v)["flow_dst_in_share"])
<1>1. PICK m, n, a, d : /\ m = Cardinality(Between(u, v)) /\ n = Cardinality(Between(v, u))
                        /\ a = out_degree(u) /\ d = in_degree(v)
  OBVIOUS
<1>2. m \in Nat /\ n \in Nat /\ a \in Nat /\ d \in Nat /\ m <= a /\ m <= d
  BY <1>1, GraphNumbers
<1>3. m + n \in Nat /\ m <= m + n
  BY <1>2
<1>4. /\ Wanted(u, v)["flow_request_ratio"] = Ratio(m, m + n)
      /\ Wanted(u, v)["flow_src_out_share"] = Ratio(m, a)
      /\ Wanted(u, v)["flow_dst_in_share"] = Ratio(m, d)
  BY <1>1, ColumnsOfFlows DEF Requests, Edges
<1>. QED BY <1>2, <1>3, <1>4, Fractions

LEMMA PeakFraction ==
  ASSUME InputsFit, NEW u, NEW v
  PROVE  IsFraction(Wanted(u, v)["time_crosscorr_max"])
<1>1. PICK F, R, m, n : F = Between(u, v) /\ R = Between(v, u) /\ m = Peak(F, R) /\ n = Cardinality(F)
  OBVIOUS
<1>2. F \in SUBSET DOMAIN flows /\ R \in SUBSET DOMAIN flows /\ n \in Nat
  BY <1>1, GraphNumbers
<1>3. m \in Nat /\ m <= n
  BY <1>1, <1>2, PeakFits
<1>4. IsFraction(Ratio(m, n)) /\ IsFraction(Zero)
  <2>1. IsFraction(Ratio(m, n))
    BY <1>2, <1>3, Fractions
  <2>2. IsFraction(Zero)
    BY DEF IsFraction, Zero
  <2>. QED BY <2>1, <2>2
<1>5. Wanted(u, v)["time_crosscorr_max"] = CrossCorrelation(F, R).max
  BY <1>1, ColumnsOfFlows
<1>6. CrossCorrelation(F, R).max = IF F = {} \/ R = {} THEN Zero ELSE Ratio(m, n)
  BY <1>1, <1>2, CorrelationIsPeak
<1>. QED BY <1>4, <1>5, <1>6

(* A reply starts after the flow it answers has ended.                      *)
LEMMA DelaysFit ==
  ASSUME InputsFit, NEW F \in SUBSET DOMAIN flows, NEW R \in SUBSET DOMAIN flows
  PROVE  /\ IsFiniteSet(Answered(F, R)) /\ Answered(F, R) \in SUBSET F
         /\ \A f \in Answered(F, R) : Delay(f, R) \in Nat
<1>1. IsFiniteSet(Answered(F, R)) /\ Answered(F, R) \in SUBSET F
  BY GraphNumbers, FS_Subset DEF Answered
<1>2. ASSUME NEW f \in Answered(F, R) PROVE Delay(f, R) \in Nat
  <2>1. After(f, R) # {} /\ f \in DOMAIN flows
    BY DEF Answered
  <2>2. Starts(R) \in SUBSET Int /\ IsFiniteSet(Starts(R))
    BY StartsFit
  <2>3. After(f, R) \in SUBSET Starts(R)
    BY DEF After
  <2>4. After(f, R) \in SUBSET Int /\ IsFiniteSet(After(f, R))
    BY <2>2, <2>3, FS_Subset
  <2>5. Earliest(After(f, R)) \in After(f, R)
    BY <2>1, <2>4, LeastAndGreatest
  <2>6. PICK t, e : t = Earliest(After(f, R)) /\ e = flows[f].finish
    OBVIOUS
  <2>7. t \in Int /\ e \in Int /\ e <= t
    BY <2>1, <2>4, <2>5, <2>6, GraphNumbers DEF After
  <2>8. t - e \in Nat
    BY <2>7
  <2>. QED BY <2>6, <2>8 DEF Delay
<1>. QED BY <1>1, <1>2

LEMMA SpikeFraction ==
  ASSUME InputsFit, NEW u, NEW v
  PROVE  IsFraction(Wanted(u, v)["time_spike_score"])
<1>1. PICK F, R, A : F = Between(u, v) /\ R = Between(v, u) /\ A = Answered(F, R)
  OBVIOUS
<1>2. F \in SUBSET DOMAIN flows /\ R \in SUBSET DOMAIN flows
  BY <1>1, GraphNumbers
<1>3. PICK f, h : f = [x \in A |-> Delay(x, R)] /\ h = [x \in A |-> Delay(x, R) * Delay(x, R)]
  OBVIOUS
<1>4. IsFiniteSet(A) /\ \A x \in A : Delay(x, R) \in Nat
  BY <1>1, <1>2, DelaysFit
<1>5. f \in [A -> Nat] /\ h \in [A -> Nat] /\ \A x \in A : h[x] = f[x] * f[x]
  BY <1>3, <1>4
<1>6. SumFunction(f) * SumFunction(f) <= Cardinality(A) * SumFunction(h)
  BY <1>4, <1>5, SumOfSquares
<1>7. SumFunction(f) \in Nat /\ SumFunction(h) \in Nat
  BY <1>4, <1>5, SumOfNaturals
<1>8. Cardinality(A) \in Nat
  BY <1>4, FS_CardinalityType
<1>9. PICK m, n : m = SumFunction(f) * SumFunction(f) /\ n = Cardinality(A) * SumFunction(h)
  OBVIOUS
<1>10. m \in Nat /\ n \in Nat /\ m <= n
  BY <1>6, <1>7, <1>8, <1>9
<1>11. Wanted(u, v)["time_spike_score"] = Spike(F, R)
  BY <1>1, ColumnsOfFlows
<1>12. Spike(F, R) = Ratio(m, n)
  BY <1>1, <1>3, <1>9 DEF Spike
<1>. QED BY <1>10, <1>11, <1>12, Fractions

LEMMA PercentilesFit ==
  ASSUME InputsFit, NEW k \in Nat, NEW n \in Nat, k <= n
  PROVE  IsFraction(Percentile(k)) /\ Percentile(k)[1] <= Percentile(n)[1]
<1> DEFINE Before(x) == {e \in Degrees : Degree(e) < x \/ (Degree(e) = x /\ x \in rounded_up)}
<1>1. IsFiniteSet(Degrees)
  <2>1. IsFiniteSet(Vertices) /\ IsFiniteSet({"in", "out"})
    <3>1. IsFiniteSet({"in"}) /\ IsFiniteSet({"out"})
      BY FS_Singleton
    <3>2. {"in", "out"} = {"in"} \cup {"out"}
      OBVIOUS
    <3>3. IsFiniteSet({"in"} \cup {"out"})
      BY <3>1, FS_Union
    <3>. QED BY <3>2, <3>3, GraphFits
  <2>2. IsFiniteSet(Vertices \X {"in", "out"})
    BY <2>1, FS_Product
  <2>3. Degrees = Vertices \X {"in", "out"}
    BY DEF Degrees
  <2>. QED BY <2>2, <2>3
<1>2. \A e \in Degrees : Degree(e) \in Nat
  BY GraphNumbers DEF Degree
<1>3. Before(k) \in SUBSET Before(n)
  <2>1. ASSUME NEW e \in Before(k) PROVE e \in Before(n)
    BY <1>2, <2>1
  <2>. QED BY <2>1
<1>4. Before(k) \in SUBSET Degrees /\ Before(n) \in SUBSET Degrees
  OBVIOUS
<1>5. Percentile(k) = Ratio(Cardinality(Before(k)), Cardinality(Degrees))
      /\ Percentile(n) = Ratio(Cardinality(Before(n)), Cardinality(Degrees))
  BY DEF Percentile
<1> HIDE DEF Before
<1>6. PICK a, b, d : a = Cardinality(Before(k)) /\ b = Cardinality(Before(n)) /\ d = Cardinality(Degrees)
  OBVIOUS
<1>7. IsFiniteSet(Before(k)) /\ IsFiniteSet(Before(n))
  BY <1>1, <1>4, FS_Subset
<1>8. a <= b /\ a <= d
  BY <1>1, <1>3, <1>4, <1>6, <1>7, FS_Subset
<1>9. a \in Nat /\ b \in Nat /\ d \in Nat
  BY <1>1, <1>6, <1>7, FS_CardinalityType
<1>10. IsFraction(Ratio(a, d))
  BY <1>8, <1>9, Fractions
<1>11. Ratio(a, d)[1] <= Ratio(b, d)[1]
  BY <1>8, <1>9 DEF Ratio, Zero
<1>. QED BY <1>5, <1>6, <1>10, <1>11

\* The pairs in S lead from v to each other vertex.
FansOut(S, v) ==
  /\ IsFiniteSet(S)
  /\ \A p \in S : Source(p) = v /\ Target(p) \in Vertices /\ Target(p) # v
  /\ \A p, q \in S : p # q => Target(p) # Target(q)
  /\ \A w \in Vertices : w # v => \E p \in S : Target(p) = w

(* The pairs of a source lead to all other vertices, to each once.          *)
LEMMA PairsOfSource ==
  ASSUME InputsFit, NEW a \in Addresses, NEW S, S = {q \in OrderedPairs : q[1] = a}
  PROVE  FansOut(S, ip_to_vertex[a])
<1>1. IsFiniteSet(S)
  <2>1. IsFiniteSet(Addresses)
    BY DEF InputsFit
  <2>2. IsFiniteSet(Addresses \X Addresses)
    BY <2>1, FS_Product
  <2>3. S \in SUBSET (Addresses \X Addresses)
    BY DEF OrderedPairs
  <2>. QED BY <2>2, <2>3, FS_Subset
<1>2. \A p \in S : p = <<a, p[2]>> /\ p[2] \in Addresses /\ p[2] # a
  BY DEF OrderedPairs
<1>3. \A x, y \in Addresses : ip_to_vertex[x] = ip_to_vertex[y] => x = y
  BY DEF InputsFit
<1>4. \A p \in S : Source(p) = ip_to_vertex[a] /\ Target(p) \in Vertices /\ Target(p) # ip_to_vertex[a]
  <2> TAKE p \in S
  <2>1. p[1] = a /\ p[2] \in Addresses /\ p[2] # a
    BY <1>2
  <2>. QED BY <1>3, <2>1 DEF Source, Target, Vertices, Addresses
<1>5. \A p, q \in S : p # q => Target(p) # Target(q)
  <2> TAKE p, q \in S
  <2>1. p[2] \in Addresses /\ q[2] \in Addresses /\ (p[2] = q[2] => p = q)
    BY <1>2
  <2>. QED BY <1>3, <2>1 DEF Target
<1>6. ASSUME NEW w \in Vertices, w # ip_to_vertex[a] PROVE \E p \in S : Target(p) = w
  <2>1. PICK x \in Addresses : w = ip_to_vertex[x]
    BY DEF Vertices, Addresses
  <2>2. <<a, x>> \in S /\ Target(<<a, x>>) = w
    BY <1>6, <2>1 DEF OrderedPairs, Target
  <2>. QED BY <2>2
<1>. QED BY <1>1, <1>4, <1>5, <1>6 DEF FansOut

\* f gives the flows that lead from v to the target of each pair.
CountsFlows(f, S, v) == DOMAIN f = S /\ \A p \in S : f[p] = Edges(v, Target(p))

LEMMA EdgesOfSource ==
  ASSUME InputsFit, NEW S, NEW v, FansOut(S, v), NEW f, CountsFlows(f, S, v)
  PROVE  out_degree(v) = Edges(v, v) + SumFunction(f)
<1>1. PICK B : B = [p \in S |-> Between(v, Target(p))]
  OBVIOUS
<1>2. \A p \in S : f[p] = Cardinality(B[p])
  BY <1>1 DEF Edges, CountsFlows
<1>3. PICK out, rest : /\ out = {g \in DOMAIN flows : flows[g].source = v}
                       /\ rest = UNION {B[p] : p \in S}
  OBVIOUS
<1>4. IsFiniteSet(DOMAIN flows)
  BY GraphNumbers
<1>5. SumFunction(f) = Cardinality(rest)
  <2>1. B \in [S -> SUBSET DOMAIN flows]
    BY <1>1 DEF Between
  <2>2. \A x, y \in S : x # y => B[x] \cap B[y] = {}
    BY <1>1 DEF Between, FansOut
  <2>3. IsFiniteSet(S)
    BY DEF FansOut
  <2>4. DOMAIN f = S
    BY DEF CountsFlows
  <2>5. SumFunction(f) = Cardinality(UNION {B[x] : x \in S})
    BY <1>2, <1>4, <2>1, <2>2, <2>3, <2>4, SumOfSizes
  <2>. QED BY <1>3, <2>5
<1>6. out = Between(v, v) \cup rest /\ Between(v, v) \cap rest = {}
  <2>1. ASSUME NEW g \in out, flows[g].target # v PROVE g \in rest
    <3>1. g \in DOMAIN flows /\ flows[g].source = v /\ flows[g].target \in Vertices
      BY <1>3 DEF InputsFit
    <3>2. PICK p \in S : Target(p) = flows[g].target
      BY <2>1, <3>1 DEF FansOut
    <3>3. g \in B[p]
      BY <1>1, <3>1, <3>2 DEF Between
    <3>. QED BY <1>3, <3>3
  <2>2. \A g \in rest : g \in out /\ flows[g].target # v
    <3> TAKE g \in rest
    <3>1. PICK p \in S : g \in B[p]
      BY <1>3
    <3>. QED BY <1>1, <1>3, <3>1 DEF Between, FansOut
  <2>3. \A g : g \in Between(v, v) <=> g \in out /\ flows[g].target = v
    BY <1>3 DEF Between
  <2>. QED BY <2>1, <2>2, <2>3
<1>7. Cardinality(out) = Cardinality(Between(v, v)) + Cardinality(rest)
  <2>1. Between(v, v) \in SUBSET DOMAIN flows /\ rest \in SUBSET out /\ out \in SUBSET DOMAIN flows
    BY <1>3, <1>6 DEF Between
  <2>2. IsFiniteSet(Between(v, v)) /\ IsFiniteSet(rest)
    BY <1>4, <2>1, FS_Subset
  <2>3. PICK x, y, z : x = Cardinality(Between(v, v)) /\ y = Cardinality(rest) /\ z = Cardinality(Between(v, v) \cap rest)
    OBVIOUS
  <2>4. x \in Nat /\ y \in Nat /\ z = 0
    BY <1>6, <2>2, <2>3, FS_CardinalityType, FS_EmptySet
  <2>5. Cardinality(out) = x + y - z
    BY <1>6, <2>2, <2>3, FS_Union
  <2>. QED BY <2>3, <2>4, <2>5
<1>. QED BY <1>3, <1>5, <1>7 DEF out_degree, Edges

LEMMA SharesOfSource ==
  ASSUME FeatureInv, phase = "done", Has(ToSet(FeatureNames)), NEW a \in Addresses,
         NEW f, f = [p \in {q \in OrderedPairs : q[1] = a} |-> Feature(p, "flow_src_out_share")[1]]
  PROVE  out_degree(ip_to_vertex[a]) = Edges(ip_to_vertex[a], ip_to_vertex[a]) + SumFunction(f)
<1>1. InputsFit
  BY DEF FeatureInv
<1>2. PICK v, S : v = ip_to_vertex[a] /\ S = {q \in OrderedPairs : q[1] = a}
  OBVIOUS
<1>3. FansOut(S, v)
  BY <1>1, <1>2, PairsOfSource
<1>4. ASSUME NEW p \in S PROVE f[p] = Edges(v, Target(p))
  <2>1. p \in OrderedPairs /\ f[p] = Feature(p, "flow_src_out_share")[1]
    BY <1>2
  <2>2. Feature(p, "flow_src_out_share") = Wanted(Source(p), Target(p))["flow_src_out_share"]
    BY <2>1, FeatureAsWanted DEF WantedNames
  <2>3. PICK w, m, n : w = Target(p) /\ m = Cardinality(Between(v, w)) /\ n = out_degree(v)
    OBVIOUS
  <2>4. m \in Nat /\ n \in Nat /\ m <= n
    BY <1>1, <2>3, GraphNumbers
  <2>5. Wanted(v, w)["flow_src_out_share"] = Ratio(m, n)
    BY <2>3, ColumnsOfFlows DEF Edges
  <2>6. Ratio(m, n)[1] = m
    BY <2>4 DEF Ratio, Zero
  <2>. QED BY <1>3, <2>1, <2>2, <2>3, <2>5, <2>6 DEF FansOut, Edges
<1>5. CountsFlows(f, S, v)
  <2>1. DOMAIN f = S
    BY <1>2
  <2>. QED BY <1>4, <2>1 DEF CountsFlows
<1>6. out_degree(v) = Edges(v, v) + SumFunction(f)
  BY <1>1, <1>3, <1>5, EdgesOfSource
<1>. QED BY <1>2, <1>6

(* Normalised features are fractions, percentiles order vertices as their   *)
(* degrees do, and the shares of a source add up to all its flows but those *)
(* to itself.                                                               *)
THEOREM SharesFit == Spec => []SharesAddUp
<1>1. ASSUME FeatureInv, phase = "done", Has(ToSet(FeatureNames)), NEW p \in OrderedPairs,
             NEW name \in {"struct_common_neighbors", "struct_jaccard_coefficient",
                           "flow_request_ratio", "flow_src_out_share", "flow_dst_in_share",
                           "time_crosscorr_max", "time_spike_score",
                           "struct_in_degree_src", "struct_out_degree_dst"}
      PROVE  IsFraction(Feature(p, name))
  <2>1. InputsFit
    BY <1>1 DEF FeatureInv
  <2>2. name \in WantedNames
    BY <1>1 DEF WantedNames
  <2>3. PICK u, v : u = Source(p) /\ v = Target(p)
    OBVIOUS
  <2>4. Feature(p, name) = Wanted(u, v)[name]
    BY <1>1, <2>2, <2>3, FeatureAsWanted
  <2>5. /\ IsFraction(Wanted(u, v)["struct_in_degree_src"])
        /\ IsFraction(Wanted(u, v)["struct_out_degree_dst"])
    <3>1. /\ Wanted(u, v)["struct_in_degree_src"] = Percentile(in_degree(u))
          /\ Wanted(u, v)["struct_out_degree_dst"] = Percentile(out_degree(v))
      BY ColumnsOfVertices
    <3>2. PICK m, n : m = in_degree(u) /\ n = out_degree(v)
      OBVIOUS
    <3>3. m \in Nat /\ n \in Nat
      BY <2>1, <3>2, GraphNumbers
    <3>4. m <= m /\ n <= n
      BY <3>3
    <3>5. IsFraction(Percentile(m)) /\ IsFraction(Percentile(n))
      BY <2>1, <3>3, <3>4, PercentilesFit
    <3>. QED BY <3>1, <3>2, <3>5
  <2>. QED BY <1>1, <2>1, <2>4, <2>5, StructuralFractions, FlowFractions, PeakFraction, SpikeFraction
<1>2. ASSUME FeatureInv, phase = "done", Has(ToSet(FeatureNames)), NEW p \in OrderedPairs,
             NEW q \in OrderedPairs, in_degree(Target(p)) <= out_degree(Source(q))
      PROVE  Feature(p, "struct_in_degree_dst")[1] <= Feature(q, "struct_out_degree_src")[1]
  <2>1. InputsFit
    BY <1>2 DEF FeatureInv
  <2>2. /\ Feature(p, "struct_in_degree_dst") = Wanted(Source(p), Target(p))["struct_in_degree_dst"]
        /\ Feature(q, "struct_out_degree_src") = Wanted(Source(q), Target(q))["struct_out_degree_src"]
    BY <1>2, FeatureAsWanted DEF WantedNames
  <2>3. /\ Wanted(Source(p), Target(p))["struct_in_degree_dst"] = Percentile(in_degree(Target(p)))
        /\ Wanted(Source(q), Target(q))["struct_out_degree_src"] = Percentile(out_degree(Source(q)))
    BY ColumnsOfVertices
  <2>4. PICK m, n : m = in_degree(Target(p)) /\ n = out_degree(Source(q))
    OBVIOUS
  <2>5. m \in Nat /\ n \in Nat /\ m <= n
    BY <1>2, <2>1, <2>4, GraphNumbers
  <2>6. Percentile(m)[1] <= Percentile(n)[1]
    BY <2>1, <2>5, PercentilesFit
  <2>. QED BY <2>2, <2>3, <2>4, <2>6
<1>3. FeatureInv => SharesAddUp
  BY <1>1, <1>2, SharesOfSource DEF SharesAddUp, IsFraction
<1>. QED BY <1>3, FeatureInvariance, PTL

-----------------------------------------------------------------------------
(* What caches, neighbourhoods and flows say of a pair.                     *)

(* The first two levels of a search.                                        *)
LEMMA NearVertices ==
  ASSUME NEW V, NEW E, NEW s, NEW d, Measured(V, E, s, d), NEW v, v # s
  PROVE  /\ (v \in DOMAIN d /\ d[v] = 1) <=> v \in E[s]
         /\ v \notin E[s] => ((v \in DOMAIN d /\ d[v] = 2) <=> \E w \in E[s] : v \in E[w])
<1>1. /\ s \in DOMAIN d
      /\ \A x \in DOMAIN d : d[x] \in Nat /\ (d[x] = 0 <=> x = s)
      /\ \A x \in DOMAIN d : x # s => \E y \in DOMAIN d : x \in E[y] /\ d[x] = d[y] + 1
      /\ \A x \in DOMAIN d : \A y \in E[x] : y \in DOMAIN d /\ d[y] <= d[x] + 1
  BY DEF Measured, Levels, Closed
<1>2. \A x \in DOMAIN d : d[x] = 1 => x \in E[s]
  <2> TAKE x \in DOMAIN d
  <2> HAVE d[x] = 1
  <2>1. x # s
    BY <1>1
  <2>2. PICK y \in DOMAIN d : x \in E[y] /\ d[x] = d[y] + 1
    BY <1>1, <2>1
  <2>3. d[y] = 0
    BY <1>1, <2>2
  <2>. QED BY <1>1, <2>2, <2>3
<1>3. \A x \in E[s] : x \in DOMAIN d /\ (x # s => d[x] = 1)
  <2> TAKE x \in E[s]
  <2>1. x \in DOMAIN d /\ d[x] <= d[s] + 1 /\ d[s] = 0 /\ d[x] \in Nat
    BY <1>1
  <2>. QED BY <1>1, <2>1
<1>4. ASSUME v \in DOMAIN d, d[v] = 2 PROVE \E w \in E[s] : v \in E[w]
  <2>1. PICK w \in DOMAIN d : v \in E[w] /\ d[v] = d[w] + 1
    BY <1>1, <1>4
  <2>2. d[w] = 1
    BY <1>1, <1>4, <2>1
  <2>. QED BY <1>2, <2>1, <2>2
<1>5. ASSUME v \notin E[s], NEW w \in E[s], v \in E[w] PROVE v \in DOMAIN d /\ d[v] = 2
  <2>1. w \in DOMAIN d /\ w # s /\ d[w] = 1
    BY <1>3, <1>5
  <2>2. v \in DOMAIN d /\ d[v] <= 2 /\ d[v] \in Nat
    BY <1>1, <1>5, <2>1
  <2>3. d[v] # 0 /\ d[v] # 1
    BY <1>1, <1>2, <1>5, <2>2
  <2>. QED BY <2>2, <2>3
<1>. QED BY <1>2, <1>3, <1>4, <1>5

LEMMA NeighborsAreBetween ==
  \A u, v : v \in get_out_neighbors(u) <=> Between(u, v) # {}
  BY DEF get_out_neighbors, Between

(* Two flows lead from u to v by way of one vertex.                         *)
Indirect(u, v) == \E w \in get_out_neighbors(u) : Between(w, v) # {}

LEMMA NearClosenesses ==
  ASSUME InputsFit, PathsFit, phase = "done", "struct_shortest_path" \in m_config,
         NEW u \in Vertices, NEW v \in Vertices, u # v
  PROVE  /\ Closeness(u, v) = <<1, 1>> <=> Between(u, v) # {}
         /\ Between(u, v) = {} => (Closeness(u, v) = <<1, 2>> <=> Indirect(u, v))
<1>1. PICK d : Stored(u, d)
  BY DEF PathsFit
<1>2. PICK E : E = Successors
  OBVIOUS
<1>3. Measured(Vertices, E, u, d)
  BY <1>1, <1>2 DEF Stored
<1>4. DOMAIN d \in SUBSET Vertices
  BY <1>3 DEF Measured, Levels
<1>5. \A w \in Vertices : E[w] = get_out_neighbors(w)
  BY <1>2 DEF Successors
<1>6. PICK dist : dist = Cached(m_shortest_path_cache, u, v, Unreachable)
  OBVIOUS
<1>7. Closeness(u, v) = IF dist = Unreachable THEN Zero ELSE <<1, dist>>
  BY <1>6 DEF Closeness
<1>8. dist = IF v \in DOMAIN d THEN d[v] ELSE Unreachable
  BY <1>1, <1>6 DEF Stored, Cached
<1>9. \A n \in {1, 2} : Closeness(u, v) = <<1, n>> <=> v \in DOMAIN d /\ d[v] = n
  <2>1. \A n \in {1, 2} : n # Unreachable /\ <<1, n>> # Zero
    BY DEF Unreachable, Zero
  <2>. QED BY <1>7, <1>8, <2>1
<1>10. /\ (v \in DOMAIN d /\ d[v] = 1) <=> v \in E[u]
       /\ v \notin E[u] => ((v \in DOMAIN d /\ d[v] = 2) <=> \E w \in E[u] : v \in E[w])
  BY <1>3, NearVertices
<1>11. v \in E[u] <=> Between(u, v) # {}
  BY <1>5, NeighborsAreBetween
<1>12. (\E w \in E[u] : v \in E[w]) <=> Indirect(u, v)
  <2>1. E[u] \in SUBSET Vertices
    BY <1>5, GraphFits
  <2>. QED BY <1>5, <2>1, NeighborsAreBetween DEF Indirect
<1>. QED BY <1>9, <1>10, <1>11, <1>12

(* Counts of paths and of common neighbours are there together.             *)
LEMMA HopsAreIndirect ==
  ASSUME InputsFit, HopsFit, phase = "done", "struct_transitive_reachability" \in m_config,
         NEW u \in Vertices, NEW v \in Vertices, u # v
  PROVE  Cached(m_transitive_path_cache, u, v, 0) > 0 <=> Indirect(u, v)
<1>1. Counted(u)
  BY DEF HopsFit
<1>2. PICK S, ends : S = get_out_neighbors(u) /\ ends = (UNION {get_out_neighbors(w) : w \in S}) \ {u}
  OBVIOUS
<1>3. PICK f : f = [w \in S |-> Edges(u, w) * Edges(w, v)]
  OBVIOUS
<1>4. <<u, v>> \in DOMAIN TwoHops(u) <=> v \in ends
  BY <1>2 DEF TwoHops
<1>5. v \in ends => TwoHops(u)[<<u, v>>] = SumFunction(f)
  BY <1>2, <1>3 DEF TwoHops
<1>6. v \in ends <=> Indirect(u, v)
  <2>1. v \in ends <=> \E w \in S : v \in get_out_neighbors(w)
    BY <1>2
  <2>. QED BY <1>2, <2>1, NeighborsAreBetween DEF Indirect
<1>7. Cached(m_transitive_path_cache, u, v, 0) = IF v \in ends THEN SumFunction(f) ELSE 0
  BY <1>1, <1>4, <1>5 DEF Counted, Cached
<1>8. IsFiniteSet(S)
  BY <1>2, CommonNeighbors
<1>9. f \in [S -> Nat]
  <2>1. \A w \in S : Edges(u, w) \in Nat /\ Edges(w, v) \in Nat
    BY GraphNumbers
  <2>. QED BY <1>3, <2>1
<1>10. SumFunction(f) > 0 <=> \E w \in S : f[w] > 0
  BY <1>8, <1>9, SumOfNaturals
<1>11. ASSUME Indirect(u, v) PROVE \E w \in S : f[w] > 0
  <2>1. PICK w \in S : Between(u, w) # {} /\ Between(w, v) # {}
    BY <1>2, <1>11, NeighborsAreBetween DEF Indirect
  <2>2. PICK a, c : a = Edges(u, w) /\ c = Edges(w, v)
    OBVIOUS
  <2>3. a \in Nat /\ c \in Nat /\ a # 0 /\ c # 0
    BY <2>1, <2>2, GraphNumbers DEF Edges
  <2>4. a * c > 0
    BY <2>3
  <2>. QED BY <1>3, <2>2, <2>4
<1>. QED BY <1>6, <1>7, <1>10, <1>11

LEMMA CommonAreIndirect ==
  ASSUME InputsFit, NEW u, NEW v
  PROVE  SumFunction(get_common_neighbors(u, v)) > 0 <=> Indirect(u, v)
<1>1. PICK S, c : S = get_out_neighbors(u) /\ c = get_common_neighbors(u, v)
  OBVIOUS
<1>2. IsFiniteSet(S) /\ c \in [S -> Nat]
  BY <1>1, CommonNeighbors
<1>3. SumFunction(c) > 0 <=> \E w \in S : c[w] > 0
  BY <1>2, SumOfNaturals
<1>4. ASSUME NEW w \in S PROVE c[w] > 0 <=> Between(w, v) # {}
  <2>1. PICK a, n : a = Edges(u, w) /\ n = Edges(w, v)
    OBVIOUS
  <2>2. Between(u, w) # {}
    BY <1>1, NeighborsAreBetween
  <2>3. a \in Nat /\ n \in Nat /\ a # 0 /\ (n # 0 <=> Between(w, v) # {})
    BY <2>1, <2>2, GraphNumbers DEF Edges
  <2>4. c[w] = Lesser(a, n)
    BY <1>1, <2>1 DEF get_common_neighbors
  <2>5. Lesser(a, n) > 0 <=> n # 0
    BY <2>3 DEF Lesser
  <2>. QED BY <2>3, <2>4, <2>5
<1>. QED BY <1>1, <1>3, <1>4 DEF Indirect

(* Flows between two vertices lead one way or the other.                    *)
LEMMA BiasIsAsymmetry ==
  ASSUME InputsFit, NEW u, NEW v, u # v
  PROVE  Bias(Between(u, v), Between(v, u)) = Asymmetry(Between(u, v), Between(v, u))
<1>1. PICK F, R, m, n : F = Between(u, v) /\ R = Between(v, u) /\ m = Cardinality(F) /\ n = Cardinality(R)
  OBVIOUS
<1>2. F \cap R = {}
  BY <1>1 DEF Between
<1>3. IsFiniteSet(F) /\ IsFiniteSet(R) /\ m \in Nat /\ n \in Nat
  BY <1>1, GraphNumbers
<1>4. PICK z : z = Cardinality(F \cap R)
  OBVIOUS
<1>5. z = 0
  BY <1>2, <1>4, FS_EmptySet
<1>6. Cardinality(F \cup R) = m + n - z
  BY <1>1, <1>3, <1>4, FS_Union
<1>7. Cardinality(F \cup R) = m + n
  BY <1>3, <1>5, <1>6
<1>. QED BY <1>1, <1>7 DEF Bias, Asymmetry

\* Some flow of F is answered only after a while.
Waits(F, R) == \E f \in Answered(F, R) : Delay(f, R) > 0

(* Both scores of the replies come from the same delays.                    *)
LEMMA ScoresOfReplies ==
  ASSUME InputsFit, NEW F \in SUBSET DOMAIN flows, NEW R \in SUBSET DOMAIN flows
  PROVE  /\ MeanReply(F, R)[1] > 0 <=> Waits(F, R)
         /\ Spike(F, R)[1] > 0 <=> Waits(F, R)
<1>1. PICK A : A = Answered(F, R)
  OBVIOUS
<1>2. PICK f, h : f = [x \in A |-> Delay(x, R)] /\ h = [x \in A |-> Delay(x, R) * Delay(x, R)]
  OBVIOUS
<1>3. IsFiniteSet(A) /\ \A x \in A : Delay(x, R) \in Nat
  BY <1>1, DelaysFit
<1>4. f \in [A -> Nat] /\ h \in [A -> Nat] /\ \A x \in A : f[x] = Delay(x, R) /\ h[x] = f[x] * f[x]
  BY <1>2, <1>3
<1>5. PICK s, t, c : s = SumFunction(f) /\ t = SumFunction(h) /\ c = Cardinality(A)
  OBVIOUS
<1>6. s \in Nat /\ (s > 0 <=> \E x \in A : f[x] > 0)
  BY <1>3, <1>4, <1>5, SumOfNaturals
<1>7. t \in Nat /\ (t > 0 <=> \E x \in A : h[x] > 0)
  BY <1>3, <1>4, <1>5, SumOfNaturals
<1>8. c \in Nat /\ (c = 0 <=> A = {})
  BY <1>3, <1>5, FS_CardinalityType, FS_EmptySet
<1>9. s > 0 <=> Waits(F, R)
  BY <1>1, <1>4, <1>6 DEF Waits
<1>10. s > 0 => t > 0 /\ c > 0
  <2> HAVE s > 0
  <2>1. PICK x \in A : f[x] > 0
    BY <1>6
  <2>2. PICK k : k = f[x]
    OBVIOUS
  <2>3. k \in Nat /\ k > 0 /\ h[x] = k * k
    BY <1>4, <2>1, <2>2
  <2>4. k * k > 0
    BY <2>3
  <2>. QED BY <1>7, <1>8, <2>3, <2>4
<1>11. MeanReply(F, R) = Ratio(s, c)
  BY <1>1, <1>2, <1>5 DEF MeanReply
<1>12. Spike(F, R) = Ratio(s * s, c * t)
  BY <1>1, <1>2, <1>5 DEF Spike
<1>13. Ratio(s, c)[1] > 0 <=> s > 0
  BY <1>6, <1>8, <1>10 DEF Ratio, Zero
<1>14. Ratio(s * s, c * t)[1] > 0 <=> s > 0
  <2>1. CASE s > 0
    <3>1. PICK a, d : a = s * s /\ d = c * t
      OBVIOUS
    <3>2. a > 0
      BY <1>6, <2>1, <3>1
    <3>3. d > 0
      BY <1>7, <1>8, <1>10, <2>1, <3>1
    <3>. QED BY <2>1, <3>1, <3>2, <3>3 DEF Ratio
  <2>2. CASE ~(s > 0)
    <3>1. s = 0
      BY <1>6, <2>2
    <3>2. s * s = 0
      BY <3>1
    <3>. QED BY <2>2, <3>2 DEF Ratio, Zero
  <2>. QED BY <2>1, <2>2
<1>. QED BY <1>9, <1>11, <1>12, <1>13, <1>14

Ends(F) == {flows[f].finish : f \in F}
Events(F, R) == Sorted(Ends(F) \cup Starts(R))
Successions(times, A, B) == {k \in 1..(Len(times) - 1) : times[k] \in A /\ times[k + 1] \in B}

(* A reply right after the end of a flow, and not at the same time, is a    *)
(* reply that was waited for.                                               *)
LEMMA SuccessionsWait ==
  ASSUME InputsFit, NEW F \in SUBSET DOMAIN flows, NEW R \in SUBSET DOMAIN flows,
         Ends(F) \cap Starts(R) = {}, NEW times, times = Events(F, R)
  PROVE  /\ Cardinality(Successions(times, Ends(F), Starts(R))) \in Nat
         /\ Cardinality(Successions(times, Starts(R), Ends(F))) \in Nat
         /\ Cardinality(Successions(times, Ends(F), Starts(R))) > 0 => Waits(F, R)
<1>1. Starts(R) \in SUBSET Int /\ IsFiniteSet(Starts(R))
  BY StartsFit
<1>2. Ends(F) \in SUBSET Int /\ IsFiniteSet(Ends(F))
  <2>1. PICK h : h = [f \in F |-> flows[f].finish]
    OBVIOUS
  <2>2. h \in Surjection(F, Ends(F))
    BY <2>1 DEF Surjection, Ends
  <2>3. IsFiniteSet(F)
    BY GraphNumbers, FS_Subset
  <2>4. IsFiniteSet(Ends(F))
    BY <2>2, <2>3, FS_Surjection
  <2>. QED BY <2>4, GraphNumbers DEF Ends
<1>3. PICK T, C : T = Ends(F) \cup Starts(R) /\ C = Cardinality(T)
  OBVIOUS
<1>4. T \in SUBSET Int /\ IsFiniteSet(T)
  BY <1>1, <1>2, <1>3, FS_Union
<1>5. times = Sorted(T)
  BY <1>3 DEF Events
<1>6. C \in Nat /\ times \in [1..C -> T] /\ \A h, k \in 1..C : h < k => times[h] < times[k]
  BY <1>3, <1>4, <1>5, SortedLists
<1>7. Len(times) = C
  BY <1>6
<1>8. \A A, B : /\ IsFiniteSet(Successions(times, A, B))
                /\ Cardinality(Successions(times, A, B)) \in Nat
                /\ Cardinality(Successions(times, A, B)) > 0 => Successions(times, A, B) # {}
  <2> TAKE A, B
  <2>1. PICK n \in Int : n = C - 1
    BY <1>6
  <2>2. IsFiniteSet(1..n)
    BY FS_Interval
  <2>3. Successions(times, A, B) \in SUBSET (1..n)
    BY <1>7, <2>1 DEF Successions
  <2>4. IsFiniteSet(Successions(times, A, B))
    BY <2>2, <2>3, FS_Subset
  <2>5. PICK c : c = Cardinality(Successions(times, A, B))
    OBVIOUS
  <2>6. c \in Nat /\ (c = 0 <=> Successions(times, A, B) = {})
    BY <2>4, <2>5, FS_CardinalityType, FS_EmptySet
  <2>. QED BY <2>4, <2>5, <2>6
<1>9. ASSUME NEW k \in Successions(times, Ends(F), Starts(R)) PROVE Waits(F, R)
  <2>1. k \in 1..C /\ k + 1 \in 1..C /\ k < k + 1
    BY <1>6, <1>7 DEF Successions
  <2>2. PICK e, r : e = times[k] /\ r = times[k + 1]
    OBVIOUS
  <2>3. e \in Ends(F) /\ r \in Starts(R) /\ e < r
    BY <1>6, <2>1, <2>2 DEF Successions
  <2>4. PICK f \in F : flows[f].finish = e
    BY <2>3 DEF Ends
  <2>5. r \in After(f, R)
    BY <1>1, <1>2, <2>3, <2>4 DEF After
  <2>6. f \in Answered(F, R)
    BY <2>4, <2>5 DEF Answered
  <2>7. After(f, R) \in SUBSET Starts(R)
    BY DEF After
  <2>8. After(f, R) \in SUBSET Int /\ IsFiniteSet(After(f, R))
    BY <1>1, <2>7, FS_Subset
  <2>9. PICK t : t = Earliest(After(f, R))
    OBVIOUS
  <2>10. t \in After(f, R)
    BY <2>5, <2>8, <2>9, LeastAndGreatest
  <2>11. t \in Int /\ t \in Starts(R) /\ e <= t
    BY <2>4, <2>8, <2>10 DEF After
  <2>12. t # e
    BY <2>3, <2>11
  <2>13. t - e > 0
    BY <1>2, <2>3, <2>11, <2>12
  <2>14. Delay(f, R) = t - e
    BY <2>4, <2>9 DEF Delay
  <2>. QED BY <2>6, <2>13, <2>14 DEF Waits
<1>. QED BY <1>8, <1>9

LEMMA CausesWait ==
  ASSUME InputsFit, NEW F \in SUBSET DOMAIN flows, NEW R \in SUBSET DOMAIN flows,
         Causality(F, R) # Number, Causality(F, R)[1] > 0
  PROVE  Waits(F, R)
<1>1. PICK times : times = Events(F, R)
  OBVIOUS
<1>2. PICK a, q : /\ a = Cardinality(Successions(times, Ends(F), Starts(R)))
                  /\ q = Cardinality(Successions(times, Starts(R), Ends(F)))
  OBVIOUS
<1>3. Causality(F, R) = IF Ends(F) \cap Starts(R) # {} THEN Number ELSE Ratio(a - q, a + q)
  BY <1>1, <1>2 DEF Causality, Ends, Events, Successions
<1>4. Ends(F) \cap Starts(R) = {} /\ Ratio(a - q, a + q)[1] > 0
  BY <1>3
<1>5. a \in Nat /\ q \in Nat /\ (a > 0 => Waits(F, R))
  BY <1>1, <1>2, <1>4, SuccessionsWait
<1>6. a - q > 0
  BY <1>4, <1>5 DEF Ratio, Zero
<1>. QED BY <1>5, <1>6

Positive(x) == x[1] > 0

(* Flows from u to v, as three columns tell of them.                        *)
LEMMA DirectColumns ==
  ASSUME InputsFit, NEW u, NEW v
  PROVE  /\ Positive(Wanted(u, v)["flow_request_ratio"]) <=> Between(u, v) # {}
         /\ Positive(Wanted(u, v)["flow_src_out_share"]) <=> Between(u, v) # {}
         /\ Positive(Wanted(u, v)["flow_dst_in_share"]) <=> Between(u, v) # {}
<1>1. PICK m, n, a, d : /\ m = Cardinality(Between(u, v)) /\ n = Cardinality(Between(v, u))
                        /\ a = out_degree(u) /\ d = in_degree(v)
  OBVIOUS
<1>2. m \in Nat /\ n \in Nat /\ a \in Nat /\ d \in Nat /\ m <= a /\ m <= d
  BY <1>1, GraphNumbers
<1>3. m # 0 <=> Between(u, v) # {}
  BY <1>1, GraphNumbers
<1>4. /\ Wanted(u, v)["flow_request_ratio"] = Ratio(m, m + n)
      /\ Wanted(u, v)["flow_src_out_share"] = Ratio(m, a)
      /\ Wanted(u, v)["flow_dst_in_share"] = Ratio(m, d)
  BY <1>1, ColumnsOfFlows DEF Requests, Edges
<1>5. /\ Positive(Ratio(m, m + n)) <=> m # 0
      /\ Positive(Ratio(m, a)) <=> m # 0
      /\ Positive(Ratio(m, d)) <=> m # 0
  BY <1>2 DEF Ratio, Zero, Positive
<1>. QED BY <1>3, <1>4, <1>5

LEMMA CommonColumn ==
  ASSUME InputsFit, NEW u, NEW v
  PROVE  Positive(Wanted(u, v)["struct_common_neighbors"]) <=> Indirect(u, v)
<1>1. PICK k, m, n : k = SumFunction(get_common_neighbors(u, v)) /\ m = out_degree(u) /\ n = in_degree(v)
  OBVIOUS
<1>2. k \in Nat /\ k <= m /\ k <= n
  BY <1>1, CommonNeighbors
<1>3. m \in Nat /\ n \in Nat
  BY <1>1, GraphNumbers
<1>4. Wanted(u, v)["struct_common_neighbors"] = Ratio(k, Lesser(m, n))
  BY <1>1, ColumnsOfVertices
<1>5. PICK l \in Nat : l = Lesser(m, n) /\ k <= l
  BY <1>2, <1>3 DEF Lesser
<1>6. Positive(Ratio(k, l)) <=> k > 0
  BY <1>2, <1>5 DEF Ratio, Zero, Positive
<1>7. k > 0 <=> Indirect(u, v)
  BY <1>1, CommonAreIndirect
<1>. QED BY <1>4, <1>5, <1>6, <1>7

(* The columns of a pair of vertices tell one story, if all are there.      *)
StoryOf(row) ==
  /\ Positive(row["flow_request_ratio"]) <=> row["struct_shortest_path"] = <<1, 1>>
  /\ Positive(row["flow_request_ratio"]) <=> Positive(row["flow_src_out_share"])
  /\ Positive(row["flow_request_ratio"]) <=> Positive(row["flow_dst_in_share"])
  /\ Positive(row["struct_transitive_reachability"]) <=> Positive(row["struct_common_neighbors"])
  /\ ~Positive(row["flow_request_ratio"]) =>
       (Positive(row["struct_transitive_reachability"]) <=> row["struct_shortest_path"] = <<1, 2>>)
  /\ row["time_direction_bias"] = row["flow_direction_asymmetry"]
  /\ Positive(row["time_spike_score"]) <=> Positive(row["flow_response_time"])
  /\ row["flow_causality_score"] # Number /\ Positive(row["flow_causality_score"]) =>
       Positive(row["flow_response_time"])

LEMMA OneStory ==
  ASSUME InputsFit, PathsFit, HopsFit, phase = "done",
         "struct_shortest_path" \in m_config, "struct_transitive_reachability" \in m_config,
         NEW u \in Vertices, NEW v \in Vertices, u # v
  PROVE  StoryOf(Wanted(u, v))
<1>1. PICK F, R : F = Between(u, v) /\ R = Between(v, u)
  OBVIOUS
<1>2. F \in SUBSET DOMAIN flows /\ R \in SUBSET DOMAIN flows
  BY <1>1, GraphNumbers
<1>3. PICK row : row = Wanted(u, v)
  OBVIOUS
<1>4. /\ Positive(row["flow_request_ratio"]) <=> F # {}
      /\ Positive(row["flow_src_out_share"]) <=> F # {}
      /\ Positive(row["flow_dst_in_share"]) <=> F # {}
  BY <1>1, <1>3, DirectColumns
<1>5. row["struct_shortest_path"] = Closeness(u, v)
  BY <1>3, ColumnsOfVertices
<1>6. /\ row["struct_shortest_path"] = <<1, 1>> <=> F # {}
      /\ F = {} => (row["struct_shortest_path"] = <<1, 2>> <=> Indirect(u, v))
  BY <1>1, <1>5, NearClosenesses
<1>7. Positive(row["struct_transitive_reachability"]) <=> Indirect(u, v)
  <2>1. row["struct_transitive_reachability"] = Integer(Cached(m_transitive_path_cache, u, v, 0))
    BY <1>3, ColumnsOfVertices
  <2>2. Cached(m_transitive_path_cache, u, v, 0) > 0 <=> Indirect(u, v)
    BY HopsAreIndirect
  <2>. QED BY <2>1, <2>2 DEF Positive, Integer
<1>8. Positive(row["struct_common_neighbors"]) <=> Indirect(u, v)
  BY <1>3, CommonColumn
<1>9. row["time_direction_bias"] = row["flow_direction_asymmetry"]
  <2>1. row["time_direction_bias"] = Bias(F, R) /\ row["flow_direction_asymmetry"] = Asymmetry(F, R)
    BY <1>1, <1>3, ColumnsOfFlows
  <2>. QED BY <1>1, <2>1, BiasIsAsymmetry
<1>10. /\ row["time_spike_score"] = Spike(F, R) /\ row["flow_response_time"] = MeanReply(F, R)
       /\ row["flow_causality_score"] = Causality(F, R)
  BY <1>1, <1>3, ColumnsOfFlows
<1>11. /\ Positive(row["time_spike_score"]) <=> Waits(F, R)
       /\ Positive(row["flow_response_time"]) <=> Waits(F, R)
  BY <1>2, <1>10, ScoresOfReplies DEF Positive
<1>12. row["flow_causality_score"] # Number /\ Positive(row["flow_causality_score"]) => Waits(F, R)
  BY <1>2, <1>10, CausesWait DEF Positive
<1>. QED BY <1>3, <1>4, <1>6, <1>7, <1>8, <1>9, <1>11, <1>12 DEF StoryOf

(* With all features, those that come from the caches, the neighbourhoods   *)
(* and the flows of a pair tell one story of it.                            *)
THEOREM RowsTellOneStory == Spec => []RowsAgree
<1>1. ASSUME FeatureInv, phase = "done", Has(ToSet(FeatureNames)), NEW p \in OrderedPairs,
             NEW row, row = Wanted(Source(p), Target(p))
      PROVE  StoryOf(row) /\ \A name \in WantedNames : Feature(p, name) = row[name]
  <2>1. InputsFit /\ PathsFit /\ HopsFit
    BY <1>1 DEF FeatureInv
  <2>2. Source(p) \in Vertices /\ Target(p) \in Vertices /\ Source(p) # Target(p)
    <3>1. p[1] \in Addresses /\ p[2] \in Addresses /\ p[1] # p[2]
      BY DEF OrderedPairs
    <3>. QED BY <2>1, <3>1 DEF Source, Target, Vertices, InputsFit, Addresses
  <2>3. "struct_shortest_path" \in m_config /\ "struct_transitive_reachability" \in m_config
    <3>1. Has({"struct_shortest_path"}) /\ Has({"struct_transitive_reachability"})
      BY <1>1, AllNamed DEF Has, WantedNames
    <3>. QED BY <3>1, NamesEnabled DEF Flag
  <2>4. StoryOf(row)
    BY <1>1, <2>1, <2>2, <2>3, OneStory
  <2>. QED BY <1>1, <2>4, FeatureAsWanted
<1>2. ASSUME FeatureInv PROVE RowsAgree
  <2>1. SUFFICES ASSUME phase = "done", Has(ToSet(FeatureNames)), NEW p \in OrderedPairs
                 PROVE  LET positive(name) == Feature(p, name)[1] > 0
                            direct == positive("flow_request_ratio")
                            indirect == positive("struct_transitive_reachability")
                        IN  /\ direct <=> Feature(p, "struct_shortest_path") = <<1, 1>>
                            /\ direct <=> positive("flow_src_out_share")
                            /\ direct <=> positive("flow_dst_in_share")
                            /\ indirect <=> positive("struct_common_neighbors")
                            /\ ~direct => (indirect <=> Feature(p, "struct_shortest_path") = <<1, 2>>)
                            /\ Feature(p, "time_direction_bias") = Feature(p, "flow_direction_asymmetry")
                            /\ positive("time_spike_score") <=> positive("flow_response_time")
                            /\ LET score == Feature(p, "flow_causality_score")
                               IN  score # Number /\ score[1] > 0 => positive("flow_response_time")
    BY DEF RowsAgree
  <2>2. PICK row : row = Wanted(Source(p), Target(p))
    OBVIOUS
  <2>3. StoryOf(row) /\ \A name \in WantedNames : Feature(p, name) = row[name]
    BY <1>1, <1>2, <2>1, <2>2
  <2>. QED BY <2>3 DEF StoryOf, Positive, WantedNames
<1>. QED BY <1>2, FeatureInvariance, PTL

=============================================================================
