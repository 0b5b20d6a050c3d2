----------------------- MODULE RandomWalkManagerProofs -----------------------
(***************************************************************************)
(* What holds of generate_random_walks for every number of threads, walks  *)
(* and vertices and in both builds.  The inductive invariant IInv says     *)
(* what the team is doing (TeamInv), how far each thread has come and that *)
(* its generator has come equally far (ThreadInv), and what is therefore   *)
(* in each slot of the vector (SlotInv).                                   *)
(***************************************************************************)
EXTENDS RandomWalkManager, TLAPS

-----------------------------------------------------------------------------
(* The segments of a team lie inside the batch, in the order of the        *)
(* threads, and share no slot: for every team and every number of walks,   *)
(* in the std::thread build as in the OpenMP build.                        *)

(* Euclidean division, as the segment size is computed by it.               *)
LEMMA Division ==
  ASSUME NEW a \in Nat, NEW b \in Nat \ {0}
  PROVE  /\ a \div b \in Nat
         /\ a % b \in 0 .. b - 1
         /\ a = b * (a \div b) + (a % b)
  BY SMT

(* Multiplying by a segment size keeps the order of thread numbers.         *)
LEMMA ProductMonotonic ==
  ASSUME NEW a \in Nat, NEW b \in Nat, NEW c \in Nat, a <= b
  PROVE  a * c <= b * c
  BY SMT

(* A slot below k segments of width b lies in one of the first k of them.   *)
LEMMA QuotientBound ==
  ASSUME NEW i \in Nat, NEW k \in Nat, NEW b \in Nat \ {0}, i < k * b
  PROVE  i \div b < k
<1>1. i = b * (i \div b) + (i % b) /\ i \div b \in Nat /\ i % b \in 0 .. b - 1
  BY Division
<1>2. CASE k <= i \div b
  <2>1. k * b <= (i \div b) * b
    BY <1>1, <1>2, ProductMonotonic
  <2>. QED BY <1>1, <2>1
<1>. QED BY <1>1, <1>2

(* The loop bounds handed to a thread are an interval inside the batch.     *)
LEMMA SegmentLimits ==
  ASSUME NEW total \in Nat, NEW n \in Nat \ {0}, NEW t \in 0 .. n - 1
  PROVE  /\ SegmentFirst(t, total, n) \in Nat
         /\ SegmentEnd(t, total, n) \in Nat
         /\ SegmentFirst(t, total, n) <= SegmentEnd(t, total, n)
         /\ SegmentEnd(t, total, n) <= total
<1> DEFINE q == total \div n
           r == total % n
<1>1. q \in Nat /\ r \in 0 .. n - 1 /\ total = n * q + r
  BY Division
<1>2. t * q \in Nat /\ (t + 1) * q \in Nat /\ (t + 1) * q = t * q + q
  <2> HIDE DEF q
  <2>1. t \in Nat
    OBVIOUS
  <2>2. q \in Nat
    BY <1>1
  <2>. QED BY <2>1, <2>2
<1>3. (t + 1) * q <= n * q /\ n * q \in Nat
  <2>1. t + 1 <= n /\ t + 1 \in Nat
    OBVIOUS
  <2>2. q \in Nat /\ n \in Nat
    BY <1>1
  <2> HIDE DEF q
  <2>3. (t + 1) * q <= n * q
    BY <2>1, <2>2, ProductMonotonic
  <2>. QED BY <2>2, <2>3
<1> HIDE DEF q, r
<1>4. CASE UseOpenMP
  <2>1. SegmentFirst(t, total, n) = t * q + Lesser(t, r)
    BY <1>4 DEF SegmentFirst, StaticFirst, q, r
  <2>2. SegmentEnd(t, total, n) = (t + 1) * q + Lesser(t + 1, r)
    BY <1>4 DEF SegmentEnd, StaticFirst, q, r
  <2>. QED BY <1>1, <1>2, <1>3, <2>1, <2>2 DEF Lesser
<1>5. CASE ~UseOpenMP
  <2>1. SegmentFirst(t, total, n) = t * q
    BY <1>5 DEF SegmentFirst, q
  <2>2. SegmentEnd(t, total, n) = IF t = n - 1 THEN total ELSE t * q + q
    BY <1>5, <2>1 DEF SegmentEnd, q
  <2>. QED BY <1>1, <1>2, <1>3, <2>1, <2>2
<1>. QED BY <1>4, <1>5

(* A thread ends its segment where, or before, a later one begins.          *)
LEMMA SegmentsInOrder ==
  ASSUME NEW total \in Nat, NEW n \in Nat \ {0},
         NEW t \in 0 .. n - 1, NEW u \in 0 .. n - 1, t < u
  PROVE  SegmentEnd(t, total, n) <= SegmentFirst(u, total, n)
<1> DEFINE q == total \div n
           r == total % n
<1>1. q \in Nat /\ r \in 0 .. n - 1
  BY Division
<1>2. (t + 1) * q <= u * q /\ u * q \in Nat /\ (t + 1) * q = t * q + q /\ t * q \in Nat
  <2>1. t + 1 <= u /\ t + 1 \in Nat /\ t \in Nat /\ u \in Nat
    OBVIOUS
  <2>2. q \in Nat
    BY <1>1
  <2> HIDE DEF q
  <2>3. (t + 1) * q <= u * q
    BY <2>1, <2>2, ProductMonotonic
  <2>. QED BY <2>1, <2>2, <2>3
<1> HIDE DEF q, r
<1>3. CASE UseOpenMP
  <2>1. SegmentFirst(u, total, n) = u * q + Lesser(u, r)
    BY <1>3 DEF SegmentFirst, StaticFirst, q, r
  <2>2. SegmentEnd(t, total, n) = (t + 1) * q + Lesser(t + 1, r)
    BY <1>3 DEF SegmentEnd, StaticFirst, q, r
  <2>. QED BY <1>1, <1>2, <2>1, <2>2 DEF Lesser
<1>4. CASE ~UseOpenMP
  <2>1. SegmentFirst(u, total, n) = u * q
    BY <1>4 DEF SegmentFirst, q
  <2>2. SegmentEnd(t, total, n) = t * q + q
    BY <1>4 DEF SegmentEnd, SegmentFirst, q
  <2>. QED BY <1>2, <2>1, <2>2
<1>. QED BY <1>3, <1>4

(* Two threads of a team never share a slot of all_walks.                   *)
THEOREM SegmentsDisjoint ==
  ASSUME NEW total \in Nat, NEW n \in Nat \ {0},
         NEW t \in 0 .. n - 1, NEW u \in 0 .. n - 1, t # u
  PROVE  Segment(t, total, n) \cap Segment(u, total, n) = {}
<1>1. /\ SegmentFirst(t, total, n) \in Nat /\ SegmentEnd(t, total, n) \in Nat
      /\ SegmentFirst(u, total, n) \in Nat /\ SegmentEnd(u, total, n) \in Nat
  BY SegmentLimits
<1>2. CASE t < u
  <2>1. SegmentEnd(t, total, n) <= SegmentFirst(u, total, n)
    BY <1>2, SegmentsInOrder
  <2>. QED BY <1>1, <2>1 DEF Segment
<1>3. CASE u < t
  <2>1. SegmentEnd(u, total, n) <= SegmentFirst(t, total, n)
    BY <1>3, SegmentsInOrder
  <2>. QED BY <1>1, <2>1 DEF Segment
<1>. QED BY <1>2, <1>3

-----------------------------------------------------------------------------
(* The promised batch.                                                     *)

(* Every slot belongs to the segment of exactly the thread that WalkBatch   *)
(* names its owner, at the place WalkBatch gives it.                        *)
THEOREM SlotHasOwner ==
  ASSUME NEW total \in Nat, NEW n \in Nat \ {0}, n <= total,
         NEW i \in 0 .. total - 1
  PROVE  LET t == WB!Owner(i, total, n)
         IN  /\ t \in 0 .. n - 1
             /\ i \in Segment(t, total, n)
             /\ WB!Place(i, total, n) = i - SegmentFirst(t, total, n)
<1> DEFINE q == total \div n
           r == total % n
           t == WB!Owner(i, total, n)
<1>1. q \in Nat /\ r \in 0 .. n - 1 /\ total = n * q + r
  BY Division
<1>2. q # 0
  <2>1. CASE q = 0
    BY <1>1, <2>1
  <2>. QED BY <2>1
<1>0. i \in Nat
  OBVIOUS
<1> HIDE DEF q, r
<1>3. CASE ~UseOpenMP
  <2> DEFINE d == i \div q
  <2>1. d \in Nat /\ i % q \in 0 .. q - 1 /\ i = q * d + (i % q)
    <3>1. q \in Nat \ {0}
      BY <1>1, <1>2
    <3>. QED BY <1>0, <3>1, Division
  <2> HIDE DEF d
  <2>2. t = IF d <= n - 1 THEN d ELSE n - 1
    BY <1>3 DEF WB!Owner, WB!Less, q, d
  <2>3. SegmentFirst(t, total, n) = t * q
    BY <1>3 DEF SegmentFirst, q
  <2>4. SegmentEnd(t, total, n) = IF t = n - 1 THEN total ELSE t * q + q
    BY <1>3, <2>3 DEF SegmentEnd, q
  <2>5. WB!Place(i, total, n) = i - t * q
    BY <1>3 DEF WB!Place, q
  <2>6. t \in 0 .. n - 1 /\ t <= d
    BY <2>1, <2>2
  <2>7. t * q <= i /\ t * q \in Nat
    <3>1. t * q <= d * q
      BY <1>1, <2>1, <2>6, ProductMonotonic
    <3>2. t * q \in Nat /\ d * q = q * d /\ d * q \in Nat
      BY <1>1, <2>1, <2>6
    <3> HIDE DEF t
    <3>. QED BY <2>1, <3>1, <3>2, <1>1
  <2>8. t # n - 1 => i < t * q + q
    <3>1. t # n - 1 => t = d
      BY <2>1, <2>2
    <3>2. d * q = q * d
      BY <1>1, <2>1
    <3>. QED BY <2>1, <3>1, <3>2, <1>1
  <2> HIDE DEF t
  <2>9. t * q <= i /\ i < SegmentEnd(t, total, n)
    BY <2>4, <2>7, <2>8
  <2>. QED BY <2>3, <2>5, <2>6, <2>9 DEF Segment, t
<1>4. CASE UseOpenMP
  <2>1. SegmentFirst(t, total, n) = t * q + Lesser(t, r)
    BY <1>4 DEF SegmentFirst, StaticFirst, q, r
  <2>2. SegmentEnd(t, total, n) = (t + 1) * q + Lesser(t + 1, r)
    BY <1>4 DEF SegmentEnd, StaticFirst, q, r
  <2>3. WB!Place(i, total, n) = i - t * q - Lesser(t, r)
    BY <1>4 DEF WB!Place, WB!Less, Lesser, q, r
  <2>4. CASE i < r * (q + 1)
    <3>1. t = i \div (q + 1)
      BY <1>4, <2>4 DEF WB!Owner, q, r
    <3>2. t \in Nat /\ \E k \in 0 .. q : i = (q + 1) * t + k
      <4> DEFINE b == q + 1
      <4>1. b \in Nat \ {0} /\ b - 1 = q
        BY <1>1
      <4>2. t = i \div b
        BY <3>1
      <4> HIDE DEF b, t
      <4>3. t \in Nat /\ i % b \in 0 .. b - 1 /\ i = b * t + (i % b)
        BY <1>0, <4>1, <4>2, Division
      <4>. QED BY <4>1, <4>3 DEF b
    <3>3. t < r
      BY <1>1, <2>4, <3>1, QuotientBound
    <3> HIDE DEF t
    <3>4. (q + 1) * t = t * q + t /\ (t + 1) * q = t * q + q /\ t * q \in Nat
      BY <1>1, <3>2
    <3>5. t * q + Lesser(t, r) <= i /\ i < (t + 1) * q + Lesser(t + 1, r)
      BY <1>1, <3>2, <3>3, <3>4 DEF Lesser
    <3>6. t * q + Lesser(t, r) \in Nat
      BY <1>1, <3>2, <3>4 DEF Lesser
    <3>. QED BY <1>1, <2>1, <2>2, <2>3, <3>2, <3>3, <3>4, <3>5, <3>6 DEF Segment, Lesser, t
  <2>5. CASE ~(i < r * (q + 1))
    <3> DEFINE j == i - r * (q + 1)
               d == j \div q
    <3>1. r * (q + 1) = r * q + r /\ r * q \in Nat
      BY <1>1
    <3>2. j \in Nat /\ i = r * q + r + j
      BY <2>5, <3>1, <1>1
    <3>3. t = r + d
      BY <1>4, <2>5 DEF WB!Owner, q, r
    <3> HIDE DEF j
    <3>4. d \in Nat /\ j % q \in 0 .. q - 1 /\ j = q * d + (j % q)
      BY <1>1, <1>2, <3>2, Division
    <3>5. d < n - r
      <4>1. n - r \in Nat /\ (n - r) * q = n * q - r * q
        BY <1>1
      <4>2. j < (n - r) * q
        BY <1>1, <3>1, <3>2, <4>1
      <4>. QED BY <1>1, <1>2, <3>2, <4>1, <4>2, QuotientBound
    <3> HIDE DEF d, t
    <3>6. t \in r .. n - 1
      BY <1>1, <3>3, <3>4, <3>5
    <3>7. t * q = r * q + q * d /\ (t + 1) * q = t * q + q /\ t * q \in Nat
      BY <1>1, <3>3, <3>4
    <3>8. t * q + Lesser(t, r) <= i /\ i < (t + 1) * q + Lesser(t + 1, r)
      BY <1>1, <3>1, <3>2, <3>4, <3>6, <3>7 DEF Lesser
    <3>9. t * q + Lesser(t, r) = t * q + r
      BY <1>1, <3>6 DEF Lesser
    <3>10. t \in 0 .. n - 1 /\ i \in Segment(t, total, n)
      BY <1>1, <2>1, <2>2, <3>6, <3>8 DEF Segment
    <3>11. WB!Place(i, total, n) = i - SegmentFirst(t, total, n)
      BY <1>0, <1>1, <2>1, <2>3, <3>6, <3>7, <3>9 DEF Lesser
    <3>. QED BY <3>10, <3>11 DEF t
  <2>. QED BY <2>4, <2>5
<1>. QED BY <1>3, <1>4

-----------------------------------------------------------------------------
(* The inductive invariant.                                                *)

\* A call is in progress.
Active == main \in {"start", "join"}

\* Threads start in order, all of them before the first is joined, and are
\* joined in order, each after it is done.
TeamInv ==
  Active =>
    /\ vertex_count \in Nat \ {0}
    /\ team \in TeamSizes(total_walks)
    /\ main = "start" => started < team /\ joined = 0
    /\ main = "start" /\ UseOpenMP => started = 0
    /\ main = "join" => started = team
    /\ \A t \in Threads : pc[t] = "none" <=> t >= started
    /\ \A t \in Threads : t < joined => pc[t] = "done"

\* Thread t is inside its segment, and its generator has produced one walk
\* for each slot it has passed.
ProgressOf(t) ==
  /\ First(t) <= next[t] /\ next[t] <= End(t)
  /\ pc[t] = "loop" => drawn[t] = next[t] - First(t)
  /\ pc[t] = "store" =>
       /\ next[t] < End(t)
       /\ drawn[t] = next[t] - First(t) + 1
       /\ walk[t] = Walk(next[t] \div WalksPerVertex, t, next[t] - First(t))
  /\ pc[t] = "done" => next[t] = End(t)

ThreadInv == Active => \A t \in Threads : t < started => ProgressOf(t)

\* Slot i of the segment of t has its walk.
Written(t, i) == t < started /\ i < next[t]

SlotInv ==
  Active =>
    \A t \in 0 .. team - 1 : \A i \in Segment(t, total_walks, team) :
      all_walks[i] = IF Written(t, i)
                       THEN Walk(i \div WalksPerVertex, t, i - First(t))
                       ELSE Empty

IInv == TypeOK /\ TeamInv /\ ThreadInv /\ SlotInv

-----------------------------------------------------------------------------
(* Its proof.                                                              *)

(* While a call is in progress its team and its segments are in range.      *)
LEMMA TeamFacts ==
  ASSUME TypeOK, TeamInv, Active
  PROVE  /\ total_walks \in Nat \ {0}
         /\ team \in Nat \ {0} /\ team <= total_walks /\ team <= NumThreads
         /\ \A t \in 0 .. team - 1 :
              /\ t \in Threads
              /\ First(t) \in Nat /\ End(t) \in Nat
              /\ First(t) <= End(t) /\ End(t) <= total_walks
<1>1. total_walks \in Nat \ {0}
  BY WalkAssumption DEF TeamInv, total_walks
<1>2. team \in Nat \ {0} /\ team <= total_walks /\ team <= NumThreads
  BY <1>1, WalkAssumption DEF TeamInv, TeamSizes, TeamLimit, Lesser
<1>3. ASSUME NEW t \in 0 .. team - 1
      PROVE  /\ t \in Threads
             /\ First(t) \in Nat /\ End(t) \in Nat
             /\ First(t) <= End(t) /\ End(t) <= total_walks
  <2>1. t \in Threads
    BY <1>2, WalkAssumption DEF Threads
  <2>. QED BY <1>1, <1>2, <2>1, SegmentLimits DEF First, End
<1>. QED BY <1>1, <1>2, <1>3

(* The manager as constructed satisfies the inductive invariant.            *)
LEMMA InitEstablishesIInv == Init => IInv
  BY WalkAssumption DEF Init, IInv, TypeOK, TeamInv, ThreadInv, SlotInv, Active, Threads

(* A new call prepares an empty vector and a team of which nobody runs yet. *)
LEMMA CallPreservesIInv ==
  ASSUME IInv, Call
  PROVE  IInv'
<1> USE WalkAssumption, BoundsAssumption
<1>1. PICK n \in 1 .. MaxVertices :
        /\ vertex_count' = n
        /\ team' \in TeamSizes(n * WalksPerVertex)
        /\ all_walks' = [i \in 0 .. n * WalksPerVertex - 1 |-> Empty]
  BY DEF Call
<1>2. total_walks' = n * WalksPerVertex /\ n * WalksPerVertex \in Nat \ {0}
  BY <1>1 DEF total_walks
<1>3. team' \in 1 .. NumThreads
  BY <1>1, <1>2 DEF TeamSizes, TeamLimit, Lesser
<1>4. /\ main' = "start" /\ started' = 0 /\ joined' = 0 /\ draws' = draws + 1
      /\ pc' = [t \in Threads |-> "none"]
      /\ next' = next /\ drawn' = drawn /\ walk' = walk
  BY DEF Call, FreshTeam
<1>5. TypeOK'
  BY <1>1, <1>2, <1>3, <1>4 DEF IInv, TypeOK
<1>6. TeamInv'
  BY <1>1, <1>2, <1>3, <1>4 DEF TeamInv, Threads, Active
<1>7. ThreadInv'
  BY <1>4 DEF ThreadInv, Threads
<1>8. SlotInv'
  BY <1>1, <1>2, <1>4 DEF SlotInv, Written, Segment
<1>. QED BY <1>5, <1>6, <1>7, <1>8 DEF IInv

(* What every step but Call leaves alone.                                   *)
LEMMA SameTeam ==
  ASSUME UNCHANGED <<draws, vertex_count, team>>
  PROVE  /\ total_walks' = total_walks
         /\ \A t : First(t)' = First(t) /\ End(t)' = End(t)
         /\ \A t : Segment(t, total_walks, team)' = Segment(t, total_walks, team)
         /\ \A v, t, k : Walk(v, t, k)' = Walk(v, t, k)
  BY DEF total_walks, First, End, Walk, Segment

(* Threads start at the first slot of their segment with a new generator.   *)
LEMMA StartPreservesIInv ==
  ASSUME IInv, StartThread \/ EnterRegion
  PROVE  IInv'
<1> DEFINE ts == IF UseOpenMP THEN 0 .. team - 1 ELSE {started}
<1>1. /\ main = "start" /\ Active
      /\ Begin(ts)
      /\ started' = IF UseOpenMP THEN team ELSE started + 1
      /\ main' = IF started' = team THEN "join" ELSE main
      /\ UNCHANGED <<draws, vertex_count, team, joined, walk, all_walks>>
  BY DEF StartThread, EnterRegion, Active, AllStarted
<1>2. /\ total_walks \in Nat \ {0}
      /\ team \in Nat \ {0} /\ team <= total_walks /\ team <= NumThreads
      /\ \A t \in 0 .. team - 1 :
              /\ t \in Threads
              /\ First(t) \in Nat /\ End(t) \in Nat
              /\ First(t) <= End(t) /\ End(t) <= total_walks
  BY <1>1, TeamFacts DEF IInv
<1>3. /\ total_walks' = total_walks
      /\ \A t : First(t)' = First(t) /\ End(t)' = End(t)
      /\ \A t : Segment(t, total_walks, team)' = Segment(t, total_walks, team)
      /\ \A v, t, k : Walk(v, t, k)' = Walk(v, t, k)
  BY <1>1, SameTeam
<1>4. /\ started \in Nat /\ started < team /\ joined = 0
      /\ UseOpenMP => started = 0
      /\ started' \in Nat /\ started < started' /\ started' <= team
  BY <1>1, <1>2 DEF IInv, TypeOK, TeamInv
<1>5. \A t : t \in ts <=> t \in Int /\ started <= t /\ t < started'
  <2>1. CASE UseOpenMP
    BY <1>1, <1>2, <1>4, <2>1
  <2>2. CASE ~UseOpenMP
    BY <1>1, <1>2, <1>4, <2>2
  <2>. QED BY <2>1, <2>2
<1>6. ts \subseteq 0 .. team - 1
  BY <1>2, <1>4, <1>5
<1> HIDE DEF ts
<1>7. \A t \in Threads :
        /\ pc'[t] = IF t \in ts THEN "loop" ELSE pc[t]
        /\ next'[t] = IF t \in ts THEN First(t) ELSE next[t]
        /\ drawn'[t] = IF t \in ts THEN 0 ELSE drawn[t]
  BY <1>1 DEF Begin
<1>8. TypeOK'
  <2>1. pc' \in [Threads -> {"none", "loop", "store", "done"}]
    BY <1>1 DEF Begin, IInv, TypeOK
  <2>2. next' \in [Threads -> Nat] /\ drawn' \in [Threads -> Nat]
    BY <1>1, <1>2, <1>4, <1>5, <1>6 DEF Begin, IInv, TypeOK
  <2>. QED BY <1>1, <1>3, <1>4, <2>1, <2>2 DEF IInv, TypeOK, Active
<1>9. TeamInv'
  <2>1. \A t \in Threads : pc'[t] = "none" <=> t >= started'
    BY <1>1, <1>2, <1>4, <1>5, <1>6, <1>7 DEF IInv, TeamInv, Threads
  <2>. QED BY <1>1, <1>3, <1>4, <2>1, WalkAssumption DEF IInv, TeamInv, Active, Threads
<1>10. ThreadInv'
  <2> SUFFICES ASSUME NEW t \in Threads, t < started' PROVE ProgressOf(t)'
    BY DEF ThreadInv
  <2>1. t \in Nat /\ t \in 0 .. team - 1
    BY <1>2, <1>4 DEF Threads
  <2>2. CASE t \in ts
    <3>1. pc'[t] = "loop" /\ next'[t] = First(t) /\ drawn'[t] = 0
      BY <1>7, <2>1, <2>2
    <3>. QED BY <1>2, <1>3, <2>1, <3>1 DEF ProgressOf
  <2>3. CASE t \notin ts
    <3>1. t < started
      BY <1>4, <1>5, <2>1, <2>3
    <3>2. ProgressOf(t)
      BY <1>1, <3>1 DEF IInv, ThreadInv
    <3>. QED BY <1>1, <1>3, <1>7, <2>1, <2>3, <3>2 DEF ProgressOf
  <2>. QED BY <2>2, <2>3
<1>11. SlotInv'
  <2> SUFFICES ASSUME NEW t \in 0 .. team - 1, NEW i \in Segment(t, total_walks, team)
               PROVE  all_walks'[i] = IF Written(t, i)' THEN Walk(i \div WalksPerVertex, t, i - First(t))
                                      ELSE Empty
    BY <1>1, <1>3 DEF SlotInv
  <2>1. Written(t, i)' <=> Written(t, i)
    <3>1. t \in Threads /\ t \in Nat
      BY <1>2
    <3>2. CASE t \in ts
      <4>1. next'[t] = First(t) /\ ~(t < started)
        BY <1>4, <1>5, <1>7, <3>1, <3>2
      <4>2. i \in Int /\ First(t) \in Int /\ First(t) <= i
        BY <1>2 DEF Segment, First
      <4>. QED BY <4>1, <4>2 DEF Written
    <3>3. CASE t \notin ts
      <4>1. next'[t] = next[t] /\ (t < started' <=> t < started)
        BY <1>4, <1>5, <1>7, <3>1, <3>3
      <4>. QED BY <4>1 DEF Written
    <3>. QED BY <3>2, <3>3
  <2>. QED BY <1>1, <2>1 DEF IInv, SlotInv
<1>. QED BY <1>8, <1>9, <1>10, <1>11 DEF IInv

(* The other steps of the calling thread move no other thread.              *)
LEMMA CallerPreservesIInv ==
  ASSUME IInv, CallEmpty \/ StartFails \/ Join \/ Return
  PROVE  IInv'
<1>1. CASE CallEmpty
  BY <1>1 DEF CallEmpty, threadVars, IInv, TypeOK, TeamInv, ThreadInv, SlotInv, Active
<1>2. CASE StartFails
  BY <1>2 DEF StartFails, threadVars, IInv, TypeOK, TeamInv, ThreadInv, SlotInv, Active
<1>3. CASE Join
  <2>1. /\ main = "join" /\ main' = "join" /\ Active
        /\ joined < team /\ pc[joined] = "done" /\ joined' = joined + 1
        /\ UNCHANGED <<draws, vertex_count, team, started, threadVars, all_walks>>
    BY <1>3 DEF Join, Joinable, Active
  <2>2. TypeOK'
    BY <2>1 DEF IInv, TypeOK, TeamInv, total_walks, threadVars, Active
  <2>3. TeamInv'
    BY <2>1 DEF IInv, TypeOK, TeamInv, total_walks, threadVars, Active, Threads
  <2>4. ThreadInv'
    BY <2>1, SameTeam DEF IInv, ThreadInv, ProgressOf, threadVars
  <2>5. SlotInv'
    BY <2>1, SameTeam DEF IInv, SlotInv, Written, threadVars
  <2>. QED BY <2>2, <2>3, <2>4, <2>5 DEF IInv
<1>4. CASE Return
  BY <1>4 DEF Return, threadVars, IInv, TypeOK, TeamInv, ThreadInv, SlotInv, Active
<1>. QED BY <1>1, <1>2, <1>3, <1>4

(* A step of thread t moves t and fills, at most, the slot t stands at.     *)
LEMMA ThreadPreservesIInv ==
  ASSUME IInv, NEW t \in Threads, ThreadStep(t)
  PROVE  IInv'
<1>1. /\ Active /\ pc[t] \in {"loop", "store"}
      /\ UNCHANGED callVars
  BY DEF ThreadStep, Generate, Store, Leave, Runs, Active
<1>2. /\ total_walks \in Nat \ {0}
      /\ team \in Nat \ {0} /\ team <= total_walks /\ team <= NumThreads
      /\ \A u \in 0 .. team - 1 :
              /\ u \in Threads
              /\ First(u) \in Nat /\ End(u) \in Nat
              /\ First(u) <= End(u) /\ End(u) <= total_walks
  BY <1>1, TeamFacts DEF IInv
<1>3. /\ total_walks' = total_walks
      /\ \A u : First(u)' = First(u) /\ End(u)' = End(u)
      /\ \A u : Segment(u, total_walks, team)' = Segment(u, total_walks, team)
      /\ \A v, u, k : Walk(v, u, k)' = Walk(v, u, k)
  BY <1>1, SameTeam DEF callVars
<1>4. /\ t < started /\ t \in 0 .. team - 1 /\ t >= joined
      /\ ProgressOf(t)
      /\ next[t] \in Nat /\ drawn[t] \in Nat
      /\ First(t) \in Nat /\ End(t) \in Nat /\ End(t) <= total_walks
  <2>1. t < started /\ t >= joined /\ next[t] \in Nat /\ drawn[t] \in Nat
    BY <1>1 DEF IInv, TypeOK, TeamInv, Threads
  <2>2. t \in 0 .. team - 1
    BY <1>2, <2>1 DEF IInv, TypeOK, Threads
  <2>. QED BY <1>1, <1>2, <2>1, <2>2 DEF IInv, ThreadInv
<1>5. CASE Generate(t)
  <2> DEFINE w == Walk(next[t] \div WalksPerVertex, t, next[t] - First(t))
  <2>1. /\ pc[t] = "loop" /\ next[t] < End(t)
        /\ walk' = [walk EXCEPT ![t] = w]
        /\ drawn' = [drawn EXCEPT ![t] = @ + 1]
        /\ pc' = [pc EXCEPT ![t] = "store"]
        /\ UNCHANGED <<next, all_walks>>
    BY <1>4, <1>5 DEF Generate, Rng, ProgressOf
  <2>2. w \in WalkType
    BY <1>4, <2>1, WalkAssumption, Division DEF Walk, WalkType, ProgressOf, IInv, TypeOK
  <2> HIDE DEF w
  <2>3. TypeOK'
    BY <1>1, <1>3, <1>4, <2>1, <2>2 DEF IInv, TypeOK, callVars
  <2>4. TeamInv'
    BY <1>1, <1>3, <1>4, <2>1 DEF IInv, TypeOK, TeamInv, callVars, Active
  <2>5. ThreadInv'
    <3> SUFFICES ASSUME NEW u \in Threads, u < started PROVE ProgressOf(u)'
      BY <1>1 DEF ThreadInv, callVars
    <3>1. ProgressOf(u)
      BY <1>1 DEF IInv, ThreadInv
    <3>2. CASE u = t
      <4>1. /\ pc'[t] = "store" /\ next'[t] = next[t] /\ drawn'[t] = drawn[t] + 1
            /\ walk'[t] = w
        BY <2>1 DEF IInv, TypeOK
      <4>. QED BY <1>3, <1>4, <2>1, <3>2, <4>1 DEF ProgressOf, w
    <3>3. CASE u # t
      <4>1. /\ pc'[u] = pc[u] /\ next'[u] = next[u] /\ drawn'[u] = drawn[u]
            /\ walk'[u] = walk[u]
        BY <2>1, <3>3 DEF IInv, TypeOK
      <4>. QED BY <1>3, <3>1, <4>1 DEF ProgressOf
    <3>. QED BY <3>2, <3>3
  <2>6. SlotInv'
    BY <1>1, <1>3, <2>1 DEF IInv, SlotInv, Written, callVars
  <2>. QED BY <2>3, <2>4, <2>5, <2>6 DEF IInv
<1>6. CASE Store(t)
  <2>1. /\ pc[t] = "store"
        /\ all_walks' = [all_walks EXCEPT ![next[t]] = walk[t]]
        /\ next' = [next EXCEPT ![t] = @ + 1]
        /\ pc' = [pc EXCEPT ![t] = "loop"]
        /\ UNCHANGED <<drawn, walk>>
    BY <1>6 DEF Store
  <2>2. /\ First(t) <= next[t] /\ next[t] < End(t)
        /\ drawn[t] = next[t] - First(t) + 1
        /\ walk[t] = Walk(next[t] \div WalksPerVertex, t, next[t] - First(t))
    BY <1>4, <2>1 DEF ProgressOf
  <2>3. TypeOK'
    <3>1. pc' \in [Threads -> {"none", "loop", "store", "done"}] /\ next' \in [Threads -> Nat]
      BY <1>4, <2>1 DEF IInv, TypeOK
    <3>2. all_walks' \in [0 .. total_walks - 1 -> WalkType \cup {Empty}]
      BY <1>1, <2>1 DEF IInv, TypeOK, Active
    <3>. QED BY <1>1, <1>3, <2>1, <3>1, <3>2 DEF IInv, TypeOK, callVars
  <2>4. TeamInv'
    BY <1>1, <1>3, <1>4, <2>1 DEF IInv, TypeOK, TeamInv, callVars, Active
  <2>5. ThreadInv'
    <3> SUFFICES ASSUME NEW u \in Threads, u < started PROVE ProgressOf(u)'
      BY <1>1 DEF ThreadInv, callVars
    <3>1. ProgressOf(u)
      BY <1>1 DEF IInv, ThreadInv
    <3>2. CASE u = t
      <4>1. pc'[t] = "loop" /\ next'[t] = next[t] + 1 /\ drawn'[t] = drawn[t]
        BY <2>1 DEF IInv, TypeOK
      <4>. QED BY <1>3, <1>4, <2>2, <3>2, <4>1 DEF ProgressOf
    <3>3. CASE u # t
      <4>1. /\ pc'[u] = pc[u] /\ next'[u] = next[u] /\ drawn'[u] = drawn[u]
            /\ walk'[u] = walk[u]
        BY <2>1, <3>3 DEF IInv, TypeOK
      <4>. QED BY <1>3, <3>1, <4>1 DEF ProgressOf
    <3>. QED BY <3>2, <3>3
  <2>6. SlotInv'
    <3> SUFFICES ASSUME NEW u \in 0 .. team - 1, NEW i \in Segment(u, total_walks, team)
                 PROVE  all_walks'[i] = IF Written(u, i)' THEN Walk(i \div WalksPerVertex, u, i - First(u))
                                        ELSE Empty
      BY <1>1, <1>3 DEF SlotInv, callVars
    <3>1. next[t] \in Segment(t, total_walks, team)
      BY <1>2, <1>4, <2>2 DEF Segment, First, End
    <3>2. i \in DOMAIN all_walks /\ i \in Nat /\ next[t] \in DOMAIN all_walks
      <4>1. DOMAIN all_walks = 0 .. total_walks - 1
        BY <1>1 DEF IInv, TypeOK, Active
      <4>. QED BY <1>2, <3>1, <4>1 DEF Segment
    <3>3. CASE u = t /\ i = next[t]
      <4>1. all_walks'[i] = walk[t] /\ next'[t] = next[t] + 1
        BY <2>1, <3>2, <3>3 DEF IInv, TypeOK
      <4>. QED BY <1>1, <1>4, <2>2, <3>3, <4>1 DEF Written, callVars
    <3>4. CASE u = t /\ i # next[t]
      <4>1. all_walks'[i] = all_walks[i] /\ next'[t] = next[t] + 1
        BY <2>1, <3>2, <3>4 DEF IInv, TypeOK
      <4>2. Written(u, i)' <=> Written(u, i)
        BY <1>1, <1>4, <3>2, <3>4, <4>1 DEF Written, callVars
      <4>. QED BY <1>1, <4>1, <4>2 DEF IInv, SlotInv
    <3>5. CASE u # t
      <4>1. i # next[t]
        BY <1>2, <1>4, <3>1, <3>5, SegmentsDisjoint
      <4>2. all_walks'[i] = all_walks[i] /\ next'[u] = next[u]
        BY <1>2, <2>1, <3>2, <3>5, <4>1 DEF IInv, TypeOK
      <4>3. Written(u, i)' <=> Written(u, i)
        BY <1>1, <4>2 DEF Written, callVars
      <4>. QED BY <1>1, <4>2, <4>3 DEF IInv, SlotInv
    <3>. QED BY <3>3, <3>4, <3>5
  <2>. QED BY <2>3, <2>4, <2>5, <2>6 DEF IInv
<1>7. CASE Leave(t)
  <2>1. /\ pc[t] = "loop" /\ next[t] >= End(t)
        /\ pc' = [pc EXCEPT ![t] = "done"]
        /\ UNCHANGED <<next, drawn, walk, all_walks>>
    BY <1>7 DEF Leave
  <2>2. TypeOK'
    BY <1>1, <1>3, <1>4, <2>1 DEF IInv, TypeOK, callVars
  <2>3. TeamInv'
    BY <1>1, <1>3, <1>4, <2>1 DEF IInv, TypeOK, TeamInv, callVars, Active
  <2>4. ThreadInv'
    <3> SUFFICES ASSUME NEW u \in Threads, u < started PROVE ProgressOf(u)'
      BY <1>1 DEF ThreadInv, callVars
    <3>1. ProgressOf(u)
      BY <1>1 DEF IInv, ThreadInv
    <3>2. pc'[u] = IF u = t THEN "done" ELSE pc[u]
      BY <2>1 DEF IInv, TypeOK
    <3>. QED BY <1>3, <1>4, <2>1, <3>1, <3>2 DEF ProgressOf
  <2>5. SlotInv'
    BY <1>1, <1>3, <2>1 DEF IInv, SlotInv, Written, callVars
  <2>. QED BY <2>2, <2>3, <2>4, <2>5 DEF IInv
<1>. QED BY <1>5, <1>6, <1>7 DEF ThreadStep

(* A step that changes nothing keeps the inductive invariant.               *)
LEMMA StutterPreservesIInv ==
  ASSUME IInv, UNCHANGED vars
  PROVE  IInv'
BY SameTeam DEF vars, callVars, threadVars, IInv, TypeOK, TeamInv, ThreadInv, SlotInv, Active,
   ProgressOf, Written, First, End, total_walks, Walk, Segment

(* The inductive invariant holds throughout every run of the manager.       *)
THEOREM Invariance == Spec => []IInv
<1>1. ASSUME IInv, [Next]_vars PROVE IInv'
  BY <1>1, CallPreservesIInv, StartPreservesIInv, CallerPreservesIInv, ThreadPreservesIInv,
     StutterPreservesIInv DEF Next, CallerStep, ThreadStep
<1>. QED BY InitEstablishesIInv, <1>1, PTL DEF Spec

(* Every variable of the manager keeps its type.                            *)
THEOREM TypeCorrectness == Spec => []TypeOK
<1>1. IInv => TypeOK
  BY DEF IInv
<1>. QED BY Invariance, <1>1, PTL

(* What a running thread may still touch lies in its own segment.           *)
LEMMA ClaimedInSegment ==
  ASSUME IInv, Active, NEW t \in Threads, pc[t] \in {"loop", "store"}
  PROVE  /\ t \in 0 .. team - 1
         /\ Claimed(t) \subseteq Segment(t, total_walks, team)
         /\ next[t] \in Nat /\ next[t] <= End(t) /\ End(t) <= total_walks
<1>1. t < started /\ t \in 0 .. team - 1
  BY TeamFacts DEF IInv, TypeOK, TeamInv, Threads
<1>2. DOMAIN all_walks = 0 .. total_walks - 1
  BY DEF IInv, TypeOK, Active
<1>3. /\ First(t) <= next[t] /\ next[t] <= End(t) /\ next[t] \in Nat
      /\ First(t) \in Nat /\ End(t) \in Nat /\ End(t) <= total_walks
  BY <1>1, TeamFacts DEF IInv, ThreadInv, ProgressOf, TypeOK
<1>. QED BY <1>1, <1>2, <1>3 DEF Claimed, Segment, First, End

(* No two threads ever have a slot of all_walks in common, none stores      *)
(* outside it, and it is returned only when nobody can write to it.         *)
THEOREM NoDataRaces == Spec => []NoDataRace
<1>1. IInv => NoDataRace
  <2> SUFFICES ASSUME IInv, Active PROVE NoDataRace
    BY DEF NoDataRace, Active
  <2>1. ASSUME NEW t \in Threads, NEW u \in Threads, t # u
        PROVE  Claimed(t) \cap Claimed(u) = {}
    <3>1. CASE pc[t] \in {"loop", "store"} /\ pc[u] \in {"loop", "store"}
      <4>1. /\ t \in 0 .. team - 1 /\ Claimed(t) \subseteq Segment(t, total_walks, team)
            /\ u \in 0 .. team - 1 /\ Claimed(u) \subseteq Segment(u, total_walks, team)
        BY <3>1, ClaimedInSegment
      <4>2. Segment(t, total_walks, team) \cap Segment(u, total_walks, team) = {}
        BY <2>1, <4>1, TeamFacts, SegmentsDisjoint DEF IInv
      <4>. QED BY <4>1, <4>2
    <3>. QED BY <3>1 DEF Claimed
  <2>2. ASSUME NEW t \in Threads, pc[t] = "store"
        PROVE  next[t] \in DOMAIN all_walks
    <3>1. next[t] \in Nat /\ next[t] < End(t) /\ End(t) <= total_walks
      BY <2>2, ClaimedInSegment DEF IInv, TeamInv, ThreadInv, ProgressOf, TypeOK, Threads
    <3>2. DOMAIN all_walks = 0 .. total_walks - 1 /\ total_walks \in Nat /\ End(t) \in Nat
      BY <2>2, ClaimedInSegment, TeamFacts DEF IInv, TypeOK, Active
    <3>. QED BY <3>1, <3>2
  <2>3. ASSUME joined = team, main = "join", NEW t \in Threads
        PROVE  Claimed(t) = {}
    BY <2>3, TeamFacts DEF Claimed, IInv, TypeOK, TeamInv, Threads
  <2>. QED BY <2>1, <2>2, <2>3 DEF NoDataRace
<1>. QED BY Invariance, <1>1, PTL

(* No step of a call replaces a walk that is already stored.                *)
THEOREM SlotsWrittenOnce == Spec => WrittenOnce
<1> DEFINE Keeps ==
      draws' = draws =>
        \A i \in DOMAIN all_walks : all_walks[i] # Empty => all_walks'[i] = all_walks[i]
<1>1. ASSUME IInv, [Next]_vars PROVE [Keeps]_vars
  <2>1. ASSUME NEW t \in Threads, Store(t) PROVE Keeps
    <3>1. /\ Active /\ pc[t] = "store"
          /\ all_walks' = [all_walks EXCEPT ![next[t]] = walk[t]]
      BY <2>1 DEF Store, Runs, Active
    <3>2. t \in 0 .. team - 1 /\ next[t] \in Nat /\ End(t) <= total_walks
      BY <1>1, <3>1, ClaimedInSegment
    <3>3. First(t) <= next[t] /\ next[t] < End(t) /\ First(t) \in Nat /\ End(t) \in Nat
      BY <1>1, <3>1, <3>2, TeamFacts DEF IInv, TypeOK, TeamInv, ThreadInv, ProgressOf, Threads
    <3>4. next[t] \in Segment(t, total_walks, team)
      BY <1>1, <3>1, <3>2, <3>3, TeamFacts DEF IInv, Segment, First, End
    <3>5. all_walks[next[t]] = Empty
      BY <1>1, <3>1, <3>2, <3>4 DEF IInv, SlotInv, Written
    <3>. QED BY <3>1, <3>5
  <2>2. CASE Call
    BY <1>1, <2>2 DEF Call, IInv, TypeOK
  <2>3. CASE UNCHANGED all_walks
    BY <2>3
  <2>. QED BY <1>1, <2>1, <2>2, <2>3 DEF Next, CallEmpty, CallerStep, StartThread, EnterRegion,
              Join, Return, StartFails, Generate, Leave, vars
<1>. QED BY Invariance, <1>1, PTL DEF Spec, WrittenOnce

(* generate_random_walks implements WalkBatch: whatever the schedule, the   *)
(* batch it returns is complete and determined by seed, vertices and team.  *)
THEOREM Refinement == Spec => ImplementsWalkBatch
<1>1. Init => WB!BatchInit
  BY DEF Init, WB!BatchInit, WB!NoWalks, NoWalks
<1>2. ASSUME IInv, [Next]_vars PROVE [WB!BatchNext]_(WB!batchVars)
  <2>1. CASE CallEmpty
    <3>1. WB!RequestNothing
      BY <2>1 DEF CallEmpty, WB!RequestNothing, WB!NoWalks, NoWalks
    <3>. QED BY <3>1 DEF WB!BatchNext
  <2>2. CASE Call
    <3>1. WB!Request
      BY <2>2 DEF Call, WB!Request
    <3>. QED BY <3>1 DEF WB!BatchNext
  <2>3. CASE StartThread \/ EnterRegion
    BY <2>3 DEF StartThread, EnterRegion, WB!batchVars
  <2>4. CASE Join
    BY <2>4 DEF Join, WB!batchVars
  <2>5. CASE Return
    <3>1. Active /\ main = "join" /\ joined = team
      BY <2>5 DEF Return, Active
    <3>2. /\ total_walks \in Nat \ {0} /\ team \in Nat \ {0} /\ team <= total_walks
          /\ team <= NumThreads
          /\ \A t \in 0 .. team - 1 : t \in Threads /\ End(t) \in Nat
      BY <1>2, <3>1, TeamFacts DEF IInv
    <3>3. ASSUME NEW i \in 0 .. total_walks - 1
          PROVE  all_walks[i] = WB!PromisedWalk(i, draws, total_walks, team)
      <4> DEFINE t == WB!Owner(i, total_walks, team)
      <4>1. /\ t \in 0 .. team - 1
            /\ i \in Segment(t, total_walks, team)
            /\ WB!Place(i, total_walks, team) = i - First(t)
        BY <3>2, SlotHasOwner DEF First
      <4> HIDE DEF t
      <4>2. t \in Threads /\ t < joined /\ t < started /\ pc[t] = "done"
        BY <1>2, <3>1, <3>2, <4>1 DEF IInv, TypeOK, TeamInv
      <4>3. next[t] = End(t)
        BY <1>2, <3>1, <4>2 DEF IInv, ThreadInv, ProgressOf
      <4>4. Written(t, i)
        BY <3>2, <4>1, <4>2, <4>3 DEF Written, Segment, End
      <4>5. all_walks[i] = Walk(i \div WalksPerVertex, t, i - First(t))
        BY <1>2, <3>1, <4>1, <4>4 DEF IInv, SlotInv
      <4>. QED BY <4>1, <4>5 DEF Walk, WB!PromisedWalk, t
    <3>4. all_walks = WB!Promised(draws, vertex_count, team)
      BY <1>2, <3>1, <3>3 DEF WB!Promised, IInv, TypeOK, Active, total_walks
    <3>5. team \in WB!Teams(vertex_count * WalksPerVertex)
      BY <1>2, <3>1 DEF IInv, TeamInv, TeamSizes, TeamLimit, Lesser, WB!Teams, WB!Less, total_walks
    <3>6. WB!Deliver
      BY <2>5, <3>4, <3>5 DEF Return, WB!Deliver
    <3>. QED BY <3>6 DEF WB!BatchNext
  <2>6. CASE StartFails
    <3>1. WB!Fail
      BY <2>6 DEF StartFails, WB!Fail
    <3>. QED BY <3>1 DEF WB!BatchNext
  <2>7. ASSUME NEW t \in Threads, Generate(t) \/ Store(t) \/ Leave(t)
        PROVE  UNCHANGED WB!batchVars
    BY <2>7 DEF Generate, Store, Leave, callVars, WB!batchVars
  <2>8. CASE UNCHANGED vars
    BY <2>8 DEF vars, callVars, WB!batchVars
  <2>. QED BY <1>2, <2>1, <2>2, <2>3, <2>4, <2>5, <2>6, <2>7, <2>8 DEF Next, CallerStep
<1>. QED BY Invariance, <1>1, <1>2, PTL DEF Spec, ImplementsWalkBatch, WB!BatchSpec

=============================================================================
