-------------------------- MODULE CalibrationProofs --------------------------
(***************************************************************************)
(* Calibration scores every sample out of fold and keeps an optimal        *)
(* threshold: for every data set, number of folds and metric, and whatever *)
(* the forests return.                                                     *)
(***************************************************************************)
EXTENDS Calibration, FiniteSetTheorems, TLAPS

Candidates == {0, Scale} \cup {positive_scores[i] : i \in Samples}

\* The thresholds below every candidate that is left.
Covered == {t \in 0 .. Scale : \A u \in thresholds : t < u}

\* The folds cover the samples, and none holds a whole class, unless a class
\* has a single sample.
FoldInv ==
  phase \in {"folds", "search", "trained"} =>
    /\ num_folds \in Nat \ {0}
    /\ fold_indices \in [0 .. num_folds - 1 -> SUBSET Samples]
    /\ \A i \in Samples : \E f \in 0 .. num_folds - 1 : i \in fold_indices[f]
    /\ \A i \in Samples : i \in scored <=> \E f \in 0 .. fold - 1 : i \in fold_indices[f]
    /\ \/ \E d \in Classes : Cardinality(OfClass(d)) = 1
       \/ \A c \in Classes : \A f \in 0 .. num_folds - 1 :
            \E i \in OfClass(c) : i \notin fold_indices[f]

\* Of the thresholds C, none is better than b.
BestOf(C, b) ==
  /\ C = {} => b.value = <<-1, 1>>
  /\ C # {} => b.threshold \in C /\ b.value = Value(ConfusionAt(b.threshold))
  /\ \A t \in C :
       /\ ~Exceeds(Value(ConfusionAt(t)), b.value)
       /\ t \in Candidates /\ ~Exceeds(b.value, Value(ConfusionAt(t)))
            => Distance(b.threshold) <= Distance(t)

\* The counts are those of the confusion matrix at the thresholds covered.
SearchInv ==
  phase \in {"search", "trained"} =>
    /\ thresholds \subseteq Candidates /\ Candidates \ thresholds \subseteq Covered
    /\ passed = {i \in Samples : positive_scores[i] \in Covered}
    /\ counts = [tp |-> Cardinality(OfClass(1) \ passed),
                 fp |-> Cardinality((Samples \ OfClass(1)) \ passed),
                 tn |-> Cardinality((Samples \ OfClass(1)) \cap passed),
                 fn |-> Cardinality(OfClass(1) \cap passed)]
    /\ BestOf(Covered, best)
    /\ phase = "trained" => thresholds = {} /\ m_binary_threshold = best.threshold

CalibrationInv == TypeOK /\ FoldInv /\ SearchInv /\ EverySampleScored

-----------------------------------------------------------------------------
(* Quotients.                                                              *)

Quotients == Int \X (Nat \ {0})

LEMMA MultiplyOrder ==
  ASSUME NEW a \in Int, NEW b \in Int, NEW c \in Nat \ {0}
  PROVE  a <= b <=> a * c <= b * c
OBVIOUS

LEMMA ExceedsIsStrict ==
  ASSUME NEW v \in Quotients, NEW w \in Quotients
  PROVE  Exceeds(v, w) => ~Exceeds(w, v)
<1>1. v[1] * w[2] \in Int /\ w[1] * v[2] \in Int
  BY DEF Quotients
<1> QED
  BY <1>1 DEF Exceeds

LEMMA NotExceedsIsTransitive ==
  ASSUME NEW v \in Quotients, NEW w \in Quotients, NEW x \in Quotients,
         ~Exceeds(v, w), ~Exceeds(w, x)
  PROVE  ~Exceeds(v, x)
<1> DEFINE a == v[1]  b == v[2]  c == w[1]  d == w[2]  e == x[1]  f == x[2]
<1>1. a \in Int /\ c \in Int /\ e \in Int
      /\ b \in Nat \ {0} /\ d \in Nat \ {0} /\ f \in Nat \ {0}
  BY DEF Quotients
<1>2. a * d \in Int /\ c * b \in Int /\ c * f \in Int /\ e * d \in Int
      /\ a * f \in Int /\ e * b \in Int
  BY <1>1
<1>3. a * d <= c * b /\ c * f <= e * d
  BY <1>2 DEF Exceeds
<1> HIDE DEF a, b, c, d, e, f
<1>4. (a * d) * f <= (c * b) * f
  BY <1>1, <1>2, <1>3, MultiplyOrder
<1>5. (c * f) * b <= (e * d) * b
  BY <1>1, <1>2, <1>3, MultiplyOrder
<1>6. (a * d) * f = (a * f) * d /\ (c * b) * f = (c * f) * b /\ (e * d) * b = (e * b) * d
  BY <1>1
<1>7. (a * f) * d <= (e * b) * d
  BY <1>1, <1>2, <1>4, <1>5, <1>6
<1>8. a * f <= e * b
  BY <1>1, <1>2, <1>7, MultiplyOrder
<1> USE DEF a, b, c, d, e, f
<1> QED
  BY <1>2, <1>8 DEF Exceeds

LEMMA ValueType ==
  ASSUME metric \in Metrics, NEW c \in [tp : Nat, fp : Nat, tn : Nat, fn : Nat]
  PROVE  Value(c) \in Quotients /\ Value(c)[1] >= 0
<1>1. ASSUME NEW a \in Nat, NEW b \in Nat
      PROVE  Quotient(a, b) \in Quotients /\ Quotient(a, b)[1] >= 0
  BY DEF Quotient, Quotients
<1>2. metric \in {"f1", "precision", "recall", "accuracy"}
  BY CalibrationAssumption
<1>3. CASE metric = "f1"
  <2>1. Value(c) = IF c.tp > 0 THEN <<2 * c.tp, 2 * c.tp + c.fp + c.fn>> ELSE <<0, 1>>
    BY <1>3 DEF Value
  <2> QED
    BY <2>1 DEF Quotients
<1>4. CASE metric = "precision"
  BY <1>1, <1>4 DEF Value
<1>5. CASE metric = "recall"
  BY <1>1, <1>5 DEF Value
<1>6. CASE metric = "accuracy"
  BY <1>1, <1>6 DEF Value
<1> QED
  BY <1>2, <1>3, <1>4, <1>5, <1>6

LEMMA SamplesAreFinite ==
  ASSUME TypeOK
  PROVE  /\ IsFiniteSet(Samples)
         /\ \A S \in SUBSET Samples : IsFiniteSet(S) /\ Cardinality(S) \in Nat
<1>1. labels \in Seq(Nat)
  BY CalibrationAssumption DEF TypeOK
<1>2. Samples = 1 .. Len(labels) /\ Len(labels) \in Nat
  BY <1>1 DEF Samples
<1>3. IsFiniteSet(Samples)
  BY <1>2, FS_Interval
<1> QED
  BY <1>3, FS_Subset, FS_CardinalityType

LEMMA ConfusionType ==
  ASSUME TypeOK, NEW t
  PROVE  ConfusionAt(t) \in [tp : Nat, fp : Nat, tn : Nat, fn : Nat]
BY SamplesAreFinite DEF ConfusionAt, OfClass, Predicted
-----------------------------------------------------------------------------
(* Folds.                                                                  *)

LEMMA Remainders ==
  ASSUME NEW m \in Nat \ {0}
  PROVE  /\ \A i \in Nat : i % m \in 0 .. m - 1
         /\ m >= 2 => 0 % m = 0 /\ 1 % m = 1
OBVIOUS

\* A shuffled class is dealt out whole, and no fold gets all of a class of
\* two or more, when there are two or more folds.
DealtOut(S, class, m) ==
  /\ \A f : Dealt(class, f, m) \subseteq S
  /\ \A x \in S : \E f \in 0 .. m - 1 : x \in Dealt(class, f, m)
  /\ Cardinality(S) >= 2 /\ m >= 2 => \A f : \E x \in S : x \notin Dealt(class, f, m)

LEMMA DealingOut ==
  ASSUME NEW S, IsFiniteSet(S), NEW class \in Shuffles(S), NEW m \in Nat \ {0}
  PROVE  DealtOut(S, class, m)
<1> DEFINE n == Cardinality(S)
<1>1. n \in Nat
  BY FS_CardinalityType
<1>2. /\ class \in [0 .. n - 1 -> S]
      /\ \A i, j \in 0 .. n - 1 : class[i] = class[j] => i = j
      /\ \A x \in S : \E i \in 0 .. n - 1 : class[i] = x
  BY DEF Shuffles, Bijection, Injection, Surjection, IsInjective
<1>3. \A i \in 0 .. n - 1 : FoldOf(i, m) \in 0 .. m - 1
  <2>1. \A i \in Nat : i % m \in 0 .. m - 1
    BY Remainders
  <2> QED
    BY <1>1, <2>1 DEF FoldOf
<1>4. DOMAIN class = 0 .. n - 1
  BY <1>2
<1>5. \A x, f : x \in Dealt(class, f, m) <=>
               \E i \in 0 .. n - 1 : FoldOf(i, m) = f /\ x = class[i]
  BY <1>4 DEF Dealt
<1>6. \A f : Dealt(class, f, m) \subseteq S
  BY <1>2, <1>5
<1>7. \A x \in S : \E f \in 0 .. m - 1 : x \in Dealt(class, f, m)
  BY <1>2, <1>3, <1>5
<1>8. ASSUME n >= 2, m >= 2, NEW f
      PROVE  \E x \in S : x \notin Dealt(class, f, m)
  <2>1. FoldOf(0, m) = 0 /\ FoldOf(1, m) = 1 /\ 0 \in 0 .. n - 1 /\ 1 \in 0 .. n - 1
    <3>1. 0 % m = 0 /\ 1 % m = 1
      BY <1>8, Remainders
    <3> QED
      BY <1>1, <1>8, <3>1 DEF FoldOf
  <2>2. PICK i \in {0, 1} : FoldOf(i, m) # f
    BY <2>1
  <2>3. i \in 0 .. n - 1 /\ class[i] \in S
    BY <1>2, <2>1
  <2>4. class[i] \notin Dealt(class, f, m)
    BY <1>2, <1>5, <2>2, <2>3
  <2> QED
    BY <2>3, <2>4
<1> QED
  BY <1>6, <1>7, <1>8 DEF DealtOut

LEMMA AssigningFolds ==
  ASSUME TypeOK, AssignFolds
  PROVE  TypeOK' /\ FoldInv' /\ SearchInv' /\ EverySampleScored'
<1> USE DEF AssignFolds
<1>1. /\ IsFiniteSet(OfClass(0)) /\ IsFiniteSet(OfClass(1))
      /\ Cardinality(OfClass(0)) \in Nat /\ Cardinality(OfClass(1)) \in Nat
      /\ OfClass(0) \subseteq Samples /\ OfClass(1) \subseteq Samples
  BY SamplesAreFinite DEF OfClass
<1>2. OfClass(0) # {} /\ OfClass(1) # {} /\ num_folds \in Nat /\ num_folds >= 2
      /\ Samples = OfClass(0) \cup OfClass(1)
  BY DEF Acceptable, Classes, TypeOK, OfClass
<1>3. Cardinality(OfClass(0)) > 0 /\ Cardinality(OfClass(1)) > 0
  BY <1>1, <1>2, FS_EmptySet
<1>4. /\ num_folds' \in Nat \ {0}
      /\ \/ \E d \in Classes : Cardinality(OfClass(d)) = 1
         \/ /\ num_folds' >= 2
            /\ Cardinality(OfClass(0)) >= 2 /\ Cardinality(OfClass(1)) >= 2
  BY <1>1, <1>2, <1>3 DEF Clamp, Smaller, Classes
<1>5. PICK zeros \in Shuffles(OfClass(0)), ones \in Shuffles(OfClass(1)) :
        fold_indices' = [f \in 0 .. num_folds' - 1 |-> Dealt(zeros, f, num_folds')
                          \cup Dealt(ones, f, num_folds')]
  OBVIOUS
<1>6. DealtOut(OfClass(0), zeros, num_folds') /\ DealtOut(OfClass(1), ones, num_folds')
  BY <1>1, <1>4, <1>5, DealingOut, Zenon
<1>7. labels' = labels /\ Samples' = Samples /\ \A c : OfClass(c)' = OfClass(c)
  BY DEF Samples, OfClass
<1>8. OfClass(0) \cap OfClass(1) = {}
  BY DEF OfClass
<1>9. fold_indices' \in [0 .. num_folds' - 1 -> SUBSET Samples]
  BY <1>1, <1>5, <1>6 DEF DealtOut
<1>10. \A i \in Samples : \E f \in 0 .. num_folds' - 1 : i \in fold_indices'[f]
  BY <1>2, <1>5, <1>6 DEF DealtOut
<1>11. ASSUME num_folds' >= 2, Cardinality(OfClass(0)) >= 2, Cardinality(OfClass(1)) >= 2,
              NEW c \in Classes, NEW f \in 0 .. num_folds' - 1
       PROVE  \E i \in OfClass(c) : i \notin fold_indices'[f]
  BY <1>5, <1>6, <1>8, <1>11 DEF Classes, DealtOut
<1>12. \A i \in Samples : i \in scored' <=> \E f \in 0 .. fold' - 1 : i \in fold_indices'[f]
  OBVIOUS
<1>13. FoldInv'
  <2>1. \/ \E d \in Classes : Cardinality(OfClass(d)) = 1
        \/ \A c \in Classes : \A f \in 0 .. num_folds' - 1 :
             \E i \in OfClass(c) : i \notin fold_indices'[f]
    BY <1>4, <1>11
  <2> QED
    BY <1>4, <1>7, <1>9, <1>10, <1>12, <2>1, Zenon DEF FoldInv
<1>14. TypeOK'
  <2>1. fold' \in 0 .. num_folds' /\ scored' \subseteq Samples /\ phase' = "folds"
        /\ num_folds' \in Nat
    BY <1>4
  <2>2. positive_scores' \in [Samples -> 0 .. Scale]
    BY CalibrationAssumption
  <2>3. UNCHANGED <<labels, metric, thresholds, counts, passed, best, m_binary_threshold>>
    BY DEF searching
  <2> QED
    BY <1>7, <1>9, <2>1, <2>2, <2>3 DEF TypeOK
<1> QED
  BY <1>13, <1>14 DEF SearchInv, EverySampleScored

LEMMA ScoringFold ==
  ASSUME TypeOK, FoldInv, ScoreFold
  PROVE  TypeOK' /\ FoldInv' /\ SearchInv' /\ EverySampleScored'
<1> USE DEF ScoreFold
<1>1. UNCHANGED <<labels, metric, num_folds, phase, fold_indices, thresholds, counts,
                  passed, best, m_binary_threshold>>
  BY DEF searching
<1>2. Samples' = Samples /\ \A c : OfClass(c)' = OfClass(c)
  BY <1>1 DEF Samples, OfClass
<1>3. phase = "folds" /\ fold \in 0 .. num_folds - 1 /\ num_folds \in Nat
  BY DEF FoldsLeft, TypeOK
<1>4. fold_indices[fold] \in SUBSET Samples
  BY <1>3 DEF FoldInv
<1>5. positive_scores' \in [Samples -> 0 .. Scale]
  <2>1. PICK probabilities \in [fold_indices[fold] -> Scores] :
          positive_scores' = [i \in Samples |-> IF i \in fold_indices[fold]
                                THEN probabilities[i] ELSE positive_scores[i]]
    OBVIOUS
  <2>2. positive_scores \in [Samples -> 0 .. Scale]
    BY <1>3 DEF TypeOK
  <2>3. ASSUME NEW i \in Samples
        PROVE  (IF i \in fold_indices[fold] THEN probabilities[i] ELSE positive_scores[i])
                 \in 0 .. Scale
    BY <2>1, <2>2, CalibrationAssumption
  <2> QED
    BY <2>1, <2>3
<1>6. fold' \in 0 .. num_folds /\ fold' = fold + 1 /\ scored' \subseteq Samples
  BY <1>3, <1>4 DEF TypeOK
<1>7. TypeOK'
  BY <1>1, <1>2, <1>3, <1>5, <1>6 DEF TypeOK
<1>8. ASSUME NEW i \in Samples
      PROVE  i \in scored' <=> \E f \in 0 .. fold' - 1 : i \in fold_indices[f]
  <2>1. i \in scored <=> \E f \in 0 .. fold - 1 : i \in fold_indices[f]
    BY <1>3 DEF FoldInv
  <2>2. \A f \in Int : f \in 0 .. fold' - 1 <=> f \in 0 .. fold - 1 \/ f = fold
    BY <1>3, <1>6
  <2> QED
    BY <1>3, <2>1, <2>2
<1>9. FoldInv'
  BY <1>1, <1>2, <1>3, <1>8 DEF FoldInv
<1> QED
  BY <1>3, <1>7, <1>9 DEF SearchInv, EverySampleScored

-----------------------------------------------------------------------------
(* The search.                                                             *)

LEMMA DistanceType ==
  ASSUME NEW t \in 0 .. Scale
  PROVE  Distance(t) \in Int
BY CalibrationAssumption DEF Distance

\* A comparison with one more threshold, which stands for others that predict
\* the same, leaves the best of all.
LEMMA KeepingTheBest ==
  ASSUME TypeOK, NEW C \in SUBSET (0 .. Scale), NEW D \in SUBSET (0 .. Scale),
         C \subseteq D, NEW t \in D, BestOf(C, best),
         \A x \in D \ C : /\ Value(ConfusionAt(x)) = Value(ConfusionAt(t))
                          /\ x \in Candidates => x = t,
         NEW b, b = IF Better(Value(ConfusionAt(t)), t)
                    THEN [value |-> Value(ConfusionAt(t)), threshold |-> t] ELSE best
  PROVE  BestOf(D, b)
<1> DEFINE V(x) == Value(ConfusionAt(x))
<1>1. \A x : V(x) \in Quotients /\ V(x)[1] >= 0
  BY ValueType, ConfusionType DEF TypeOK
<1>2. best.value \in Quotients /\ best.threshold \in 0 .. Scale
  BY DEF TypeOK, Quotients
<1>3. \A x \in 0 .. Scale : Distance(x) \in Int
  BY DistanceType
<1>4. /\ \A v, w \in Quotients : Exceeds(v, w) => ~Exceeds(w, v)
      /\ \A v, w, x \in Quotients : ~Exceeds(v, w) /\ ~Exceeds(w, x) => ~Exceeds(v, x)
  BY ExceedsIsStrict, NotExceedsIsTransitive
<1>5. Better(V(t), t) <=> \/ Exceeds(V(t), best.value)
                          \/ /\ ~Exceeds(best.value, V(t))
                             /\ Distance(t) < Distance(best.threshold)
  BY DEF Better
<1>6. \A x \in D \ C : V(x) = V(t) /\ (x \in Candidates => x = t)
  OBVIOUS
<1>7. /\ C = {} => best.value = <<-1, 1>>
      /\ C # {} => best.threshold \in C /\ best.value = V(best.threshold)
      /\ \A x \in C : /\ ~Exceeds(V(x), best.value)
                      /\ x \in Candidates /\ ~Exceeds(best.value, V(x))
                           => Distance(best.threshold) <= Distance(x)
  BY DEF BestOf
<1>8. b = IF Better(V(t), t) THEN [value |-> V(t), threshold |-> t] ELSE best
  OBVIOUS
<1>9. SUFFICES /\ b.threshold \in D /\ b.value = V(b.threshold)
               /\ \A x \in D : /\ ~Exceeds(V(x), b.value)
                               /\ x \in Candidates /\ ~Exceeds(b.value, V(x))
                                    => Distance(b.threshold) <= Distance(x)
  BY DEF BestOf
<1> HIDE DEF V
<1>10. CASE Better(V(t), t)
  <2>1. b.value = V(t) /\ b.threshold = t
    BY <1>8, <1>10
  <2>2. ~Exceeds(best.value, V(t))
    BY <1>1, <1>2, <1>4, <1>5, <1>10
  <2>3. ASSUME NEW x \in C
        PROVE  ~Exceeds(V(x), V(t))
    BY <1>1, <1>2, <1>4, <1>7, <2>2, <2>3
  <2>4. ASSUME NEW x \in C, x \in Candidates, ~Exceeds(V(t), V(x))
        PROVE  Distance(t) <= Distance(x)
    <3>1. ~Exceeds(V(x), best.value) /\ ~Exceeds(V(t), best.value)
      BY <1>1, <1>2, <1>4, <1>7, <2>4
    <3>2. Distance(t) < Distance(best.threshold)
      BY <1>5, <1>10, <3>1
    <3>3. ~Exceeds(best.value, V(x))
      BY <1>1, <1>2, <1>4, <2>2, <2>4
    <3>4. Distance(best.threshold) <= Distance(x)
      BY <1>7, <2>4, <3>3
    <3> QED
      BY <1>2, <1>3, <3>2, <3>4
  <2>5. ~Exceeds(V(t), V(t)) /\ Distance(t) <= Distance(t)
    BY <1>1, <1>3, <1>4
  <2> QED
    BY <1>6, <2>1, <2>3, <2>4, <2>5
<1>11. CASE ~Better(V(t), t)
  <2>1. b = best /\ ~Exceeds(V(t), best.value)
    BY <1>5, <1>8, <1>11
  <2>2. C # {}
    <3>1. SUFFICES ASSUME best.value = <<-1, 1>>
                   PROVE  Exceeds(V(t), best.value)
      BY <1>7, <2>1
    <3> QED
      BY <1>1, <3>1 DEF Exceeds, Quotients
  <2>3. ~Exceeds(best.value, V(t)) => Distance(best.threshold) <= Distance(t)
    BY <1>2, <1>3, <1>5, <1>11
  <2> QED
    BY <1>6, <1>7, <2>1, <2>2, <2>3
<1> QED
  BY <1>10, <1>11

LEMMA FinishingFolds ==
  ASSUME CalibrationInv, FinishFolds
  PROVE  CalibrationInv'
<1> USE DEF FinishFolds, CalibrationInv
<1>1. fold = num_folds /\ num_folds \in Nat /\ scored \subseteq Samples /\ phase = "folds"
  BY DEF TypeOK, FoldsLeft
<1>2. scored = Samples
  BY <1>1 DEF FoldInv
<1>3. phase' = "search" /\ StartSearch
  BY <1>2
<1>4. UNCHANGED <<labels, metric, num_folds, fold_indices, fold, positive_scores, scored,
                  m_binary_threshold>>
  BY DEF folding
<1>5. Samples' = Samples /\ (\A c : OfClass(c)' = OfClass(c)) /\ Candidates' = Candidates
  BY <1>4 DEF Samples, OfClass, Candidates
<1>6. thresholds' = Candidates /\ 0 \in Candidates /\ Candidates \subseteq 0 .. Scale
  <2>1. positive_scores \in [Samples -> 0 .. Scale]
    BY <1>1 DEF TypeOK
  <2> QED
    BY <1>3, <2>1, CalibrationAssumption DEF StartSearch, Candidates
<1>7. Covered' = {}
  BY <1>6 DEF Covered
<1>8. counts' \in [tp : Nat, fp : Nat, tn : Nat, fn : Nat]
  BY <1>3, SamplesAreFinite DEF StartSearch, OfClass
<1>9. best' \in [value : Int \X (Nat \ {0}), threshold : 0 .. Scale]
  BY <1>3, CalibrationAssumption DEF StartSearch
<1>10. TypeOK'
  BY <1>1, <1>3, <1>4, <1>5, <1>6, <1>8, <1>9 DEF TypeOK, StartSearch
<1>11. FoldInv'
  BY <1>1, <1>3, <1>4, <1>5 DEF FoldInv
<1>12. SearchInv'
  <2>1. BestOf(Covered, best)'
    BY <1>3, <1>7 DEF BestOf, StartSearch
  <2>2. passed' = {i \in Samples' : positive_scores'[i] \in Covered'}
    BY <1>3, <1>7 DEF StartSearch
  <2>3. counts' = [tp |-> Cardinality(OfClass(1)' \ passed'),
                   fp |-> Cardinality((Samples' \ OfClass(1)') \ passed'),
                   tn |-> Cardinality((Samples' \ OfClass(1)') \cap passed'),
                   fn |-> Cardinality(OfClass(1)' \cap passed')]
    <3>1. passed' = {} /\ counts' = [tp |-> Cardinality(OfClass(1)),
                     fp |-> Cardinality(Samples \ OfClass(1)), tn |-> 0, fn |-> 0]
      BY <1>3 DEF StartSearch
    <3>2. \A S : S \ {} = S /\ S \cap {} = {}
      OBVIOUS
    <3> QED
      BY <1>5, <3>1, <3>2, FS_EmptySet
  <2> QED
    BY <1>3, <1>5, <1>6, <2>1, <2>2, <2>3 DEF SearchInv
<1> QED
  BY <1>3, <1>10, <1>11, <1>12 DEF EverySampleScored

LEMMA MovingSamples ==
  ASSUME NEW A, IsFiniteSet(A), NEW P, NEW Q, P \cap Q = {}
  PROVE  /\ Cardinality(A \ (P \cup Q)) = Cardinality(A \ P) - Cardinality(Q \cap A)
         /\ Cardinality(A \cap (P \cup Q)) = Cardinality(A \cap P) + Cardinality(Q \cap A)
<1>1. /\ IsFiniteSet(A \ P) /\ IsFiniteSet(A \cap P) /\ IsFiniteSet(Q \cap A)
      /\ IsFiniteSet(A \ (P \cup Q))
  BY FS_Subset
<1>2. /\ Cardinality(A \ P) \in Nat /\ Cardinality(A \cap P) \in Nat
      /\ Cardinality(Q \cap A) \in Nat /\ Cardinality(A \ (P \cup Q)) \in Nat
  BY <1>1, FS_CardinalityType
<1>3. /\ A \ P = (A \ (P \cup Q)) \cup (Q \cap A)
      /\ (A \ (P \cup Q)) \cap (Q \cap A) = {}
      /\ A \cap (P \cup Q) = (A \cap P) \cup (Q \cap A)
      /\ (A \cap P) \cap (Q \cap A) = {}
  OBVIOUS
<1>4. \A S, T : IsFiniteSet(S) /\ IsFiniteSet(T) /\ S \cap T = {} =>
                Cardinality(S \cup T) = Cardinality(S) + Cardinality(T)
  <2>1. ASSUME NEW S, NEW T, IsFiniteSet(S), IsFiniteSet(T), S \cap T = {}
        PROVE  Cardinality(S \cup T) = Cardinality(S) + Cardinality(T)
    <3>1. Cardinality(S \cup T) = Cardinality(S) + Cardinality(T) - Cardinality(S \cap T)
      BY <2>1, FS_Union
    <3>2. Cardinality(S) \in Nat /\ Cardinality(T) \in Nat /\ Cardinality(S \cap T) = 0
      BY <2>1, FS_CardinalityType, FS_EmptySet
    <3> QED
      BY <3>1, <3>2
  <2> QED
    BY <2>1
<1>5. /\ Cardinality(A \ P) = Cardinality(A \ (P \cup Q)) + Cardinality(Q \cap A)
      /\ Cardinality(A \cap (P \cup Q)) = Cardinality(A \cap P) + Cardinality(Q \cap A)
  BY <1>1, <1>3, <1>4, Zenon
<1> QED
  BY <1>2, <1>5

\* What a round of the search covers: its threshold t, the least that is left,
\* and others that predict the same; and what it passes.
LEMMA Covering ==
  ASSUME CalibrationInv, phase = "search",
         NEW t \in thresholds, \A u \in thresholds : t <= u, thresholds' = thresholds \ {t},
         passed' = passed \cup Passing(t)
  PROVE  /\ t \in Covered' /\ t \in Candidates /\ Covered \subseteq Covered'
         /\ \A x \in Candidates : x \in Covered' <=> x \in Covered \/ x = t
         /\ \A i \in Samples : i \in passed' <=> positive_scores[i] <= t
         /\ \A i \in Samples : i \in passed' <=> positive_scores[i] \in Covered'
         /\ \A x \in Covered' \ Covered : Predicted(x) = Predicted(t)
<1> USE DEF CalibrationInv
<1>1. /\ thresholds \subseteq Candidates /\ Candidates \ thresholds \subseteq Covered
      /\ passed = {i \in Samples : positive_scores[i] \in Covered}
      /\ thresholds \subseteq 0 .. Scale
  BY DEF SearchInv, TypeOK
<1>2. /\ \A i \in Samples : positive_scores[i] \in Candidates
      /\ Candidates \subseteq 0 .. Scale
  BY CalibrationAssumption DEF TypeOK, Candidates
<1>3. Scale \in Nat /\ t \in 0 .. Scale /\ t \in Candidates
  BY <1>1, CalibrationAssumption
<1>4. /\ Covered = {x \in 0 .. Scale : \A u \in thresholds : x < u}
      /\ Covered' = {x \in 0 .. Scale : \A u \in thresholds \ {t} : x < u}
  BY DEF Covered
<1>5. t \in Covered'
  BY <1>1, <1>3, <1>4
<1>6. Covered \subseteq Covered'
  BY <1>4
<1>7. \A x \in Covered : x < t
  BY <1>4
<1>8. ASSUME NEW x \in Candidates
      PROVE  x \in Covered' <=> x \in Covered \/ x = t
  <2>1. x \in thresholds \ {t} => x \notin Covered'
    BY <1>1, <1>4
  <2>2. x \in Covered \/ x \in thresholds
    BY <1>1
  <2> QED
    BY <1>5, <1>6, <2>1, <2>2
<1>9. ASSUME NEW x \in Candidates
      PROVE  x \in Covered' <=> x <= t
  <2>1. x \in Covered \/ x = t => x <= t
    BY <1>2, <1>3, <1>7
  <2>2. x \in thresholds => t <= x
    OBVIOUS
  <2>3. x \in Covered \/ x \in thresholds
    BY <1>1
  <2> QED
    BY <1>2, <1>3, <1>8, <2>1, <2>2, <2>3
<1>10. ASSUME NEW i \in Samples
       PROVE  i \in passed' <=> positive_scores[i] <= t
  <2>1. i \in passed' <=> i \in passed \/ positive_scores[i] <= t
    BY DEF Passing
  <2>2. i \in passed => positive_scores[i] <= t
    BY <1>1, <1>2, <1>6, <1>9
  <2> QED
    BY <2>1, <2>2
<1>11. ASSUME NEW x \in Covered' \ Covered
       PROVE  Predicted(x) = Predicted(t)
  <2>1. x \in 0 .. Scale /\ t <= x
    BY <1>1, <1>3, <1>4
  <2>2. ASSUME NEW i \in Samples
        PROVE  positive_scores[i] > x <=> positive_scores[i] > t
    <3>1. positive_scores[i] \in Candidates /\ positive_scores[i] \in 0 .. Scale
      BY <1>2
    <3>2. CASE positive_scores[i] <= t
      BY <1>3, <2>1, <3>1, <3>2
    <3>3. CASE positive_scores[i] > t
      <4>1. positive_scores[i] \notin Covered' /\ positive_scores[i] # t
        BY <1>3, <1>9, <3>1, <3>3
      <4>2. positive_scores[i] \in thresholds \ {t}
        BY <1>1, <1>6, <3>1, <4>1
      <4> QED
        BY <1>4, <2>1, <3>1, <3>3, <4>2
    <3> QED
      BY <1>3, <3>1, <3>2, <3>3
  <2> QED
    BY <2>2 DEF Predicted
<1> QED
  BY <1>2, <1>3, <1>5, <1>6, <1>8, <1>9, <1>10, <1>11

LEMMA TryingThreshold ==
  ASSUME CalibrationInv, TryThreshold
  PROVE  CalibrationInv'
<1> USE DEF CalibrationInv
<1>1. phase = "search" /\ phase' = "search"
      /\ UNCHANGED <<labels, metric, num_folds, fold_indices, fold, positive_scores, scored,
                     m_binary_threshold>>
  BY DEF TryThreshold, folding
<1>2. PICK t \in thresholds :
        /\ \A u \in thresholds : t <= u
        /\ thresholds' = thresholds \ {t}
        /\ counts' = [tp |-> counts.tp - Cardinality(Passing(t) \cap OfClass(1)),
                      fn |-> counts.fn + Cardinality(Passing(t) \cap OfClass(1)),
                      fp |-> counts.fp - Cardinality(Passing(t) \ OfClass(1)),
                      tn |-> counts.tn + Cardinality(Passing(t) \ OfClass(1))]
        /\ passed' = passed \cup Passing(t)
        /\ best' = IF Better(Value(counts'), t)
                   THEN [value |-> Value(counts'), threshold |-> t] ELSE best
  BY DEF TryThreshold
<1>3. /\ Samples' = Samples /\ Candidates' = Candidates
      /\ \A c : OfClass(c)' = OfClass(c)
      /\ \A x : Predicted(x)' = Predicted(x)
  BY <1>1 DEF Samples, OfClass, Candidates, Predicted
<1>4. /\ t \in Covered' /\ t \in Candidates /\ Covered \subseteq Covered'
      /\ \A x \in Candidates : x \in Covered' <=> x \in Covered \/ x = t
      /\ \A i \in Samples : i \in passed' <=> positive_scores[i] <= t
      /\ \A i \in Samples : i \in passed' <=> positive_scores[i] \in Covered'
      /\ \A x \in Covered' \ Covered : Predicted(x) = Predicted(t)
  BY <1>1, <1>2, Covering
<1>5. Covered \in SUBSET (0 .. Scale) /\ Covered' \in SUBSET (0 .. Scale)
  BY DEF Covered
<1>6. passed \subseteq Samples /\ Passing(t) \subseteq Samples /\ passed \cap Passing(t) = {}
  BY DEF TypeOK, Passing
<1>7. Passing(t) \ OfClass(1) = Passing(t) \cap (Samples \ OfClass(1))
  BY <1>6
<1> DEFINE A == OfClass(1)  B == Samples \ OfClass(1)
<1>8. /\ IsFiniteSet(A) /\ IsFiniteSet(B)
      /\ \A S \in SUBSET Samples : Cardinality(S) \in Nat
      /\ A \subseteq Samples
  BY SamplesAreFinite DEF OfClass
<1>9. counts = [tp |-> Cardinality(A \ passed), fp |-> Cardinality(B \ passed),
                tn |-> Cardinality(B \cap passed), fn |-> Cardinality(A \cap passed)]
  BY <1>1 DEF SearchInv
<1>10. counts' = [tp |-> Cardinality(A \ passed'), fp |-> Cardinality(B \ passed'),
                  tn |-> Cardinality(B \cap passed'), fn |-> Cardinality(A \cap passed')]
  <2>1. /\ Cardinality(A \ passed') = Cardinality(A \ passed) - Cardinality(Passing(t) \cap A)
        /\ Cardinality(A \cap passed') = Cardinality(A \cap passed) + Cardinality(Passing(t) \cap A)
    BY <1>2, <1>6, <1>8, MovingSamples
  <2>2. /\ Cardinality(B \ passed') = Cardinality(B \ passed) - Cardinality(Passing(t) \cap B)
        /\ Cardinality(B \cap passed') = Cardinality(B \cap passed) + Cardinality(Passing(t) \cap B)
    BY <1>2, <1>6, <1>8, MovingSamples
  <2> QED
    BY <1>2, <1>7, <1>9, <2>1, <2>2
<1>11. counts' = ConfusionAt(t)
  <2>1. /\ A \ passed' = A \cap Predicted(t) /\ A \cap passed' = A \ Predicted(t)
        /\ B \ passed' = Predicted(t) \ A /\ B \cap passed' = B \ Predicted(t)
    <3>1. positive_scores \in [Samples -> 0 .. Scale] /\ t \in 0 .. Scale
      BY <1>1, <1>4, <1>5 DEF TypeOK
    <3>2. \A i \in Samples : positive_scores[i] \in Int /\ t \in Int
      BY <3>1, CalibrationAssumption
    <3>3. \A i \in Samples : i \in passed' <=> i \notin Predicted(t)
      BY <1>4, <3>2 DEF Predicted
    <3>4. Predicted(t) \subseteq Samples
      BY DEF Predicted
    <3> QED
      BY <1>8, <3>3, <3>4
  <2> QED
    BY <1>10, <2>1 DEF ConfusionAt
<1>12. \A x \in Covered' \ Covered : /\ ConfusionAt(x) = ConfusionAt(t)
                                     /\ x \in Candidates => x = t
  BY <1>4 DEF ConfusionAt
<1>13. BestOf(Covered', best')
  <2>1. BestOf(Covered, best)
    BY <1>1 DEF SearchInv
  <2>2. best' = IF Better(Value(ConfusionAt(t)), t)
                THEN [value |-> Value(ConfusionAt(t)), threshold |-> t] ELSE best
    BY <1>2, <1>11
  <2> QED
    BY <1>4, <1>5, <1>12, <2>1, <2>2, KeepingTheBest
<1>14. BestOf(Covered, best)'
  <2>1. \A x : ConfusionAt(x)' = ConfusionAt(x)
    BY <1>3 DEF ConfusionAt
  <2>2. \A x : Value(ConfusionAt(x))' = Value(ConfusionAt(x))
    BY <1>1, <2>1 DEF Value
  <2>3. \A x : Distance(x)' = Distance(x)
    BY DEF Distance
  <2> QED
    BY <1>3, <1>13, <2>2 DEF BestOf
<1>15. TypeOK'
  <2>1. counts' \in [tp : Nat, fp : Nat, tn : Nat, fn : Nat]
    BY <1>11, ConfusionType
  <2>2. t \in 0 .. Scale /\ thresholds' \subseteq 0 .. Scale /\ passed' \subseteq Samples
    BY <1>2, <1>4, <1>5, <1>6 DEF TypeOK
  <2>3. best' \in [value : Int \X (Nat \ {0}), threshold : 0 .. Scale]
    <3>1. Value(counts') \in Int \X (Nat \ {0})
      BY <2>1, ValueType DEF TypeOK, Quotients
    <3> QED
      BY <1>2, <2>2, <3>1 DEF TypeOK
  <2> QED
    BY <1>1, <1>3, <2>1, <2>2, <2>3 DEF TypeOK
<1>16. FoldInv'
  BY <1>1, <1>3 DEF FoldInv
<1>17. SearchInv'
  <2>1. /\ thresholds' \subseteq Candidates' /\ Candidates' \ thresholds' \subseteq Covered'
        /\ passed' = {i \in Samples' : positive_scores'[i] \in Covered'}
    <3>1. thresholds \subseteq Candidates /\ Candidates \ thresholds \subseteq Covered
      BY <1>1 DEF SearchInv
    <3>2. passed' \subseteq Samples
      BY <1>2, <1>6
    <3> QED
      BY <1>1, <1>2, <1>3, <1>4, <3>1, <3>2
  <2> QED
    BY <1>1, <1>3, <1>10, <1>14, <2>1 DEF SearchInv
<1> QED
  BY <1>1, <1>15, <1>16, <1>17 DEF EverySampleScored

LEMMA FinishingSearch ==
  ASSUME CalibrationInv, FinishSearch
  PROVE  CalibrationInv'
<1> USE DEF CalibrationInv, FinishSearch
<1>1. /\ phase = "search" /\ phase' = "trained" /\ thresholds = {}
      /\ m_binary_threshold' = best.threshold
      /\ UNCHANGED <<labels, metric, num_folds, fold_indices, fold, positive_scores, scored,
                     thresholds, counts, passed, best>>
  BY DEF folding, searching
<1>2. /\ Samples' = Samples /\ Candidates' = Candidates /\ Covered' = Covered
      /\ \A c : OfClass(c)' = OfClass(c)
      /\ \A x : Predicted(x)' = Predicted(x)
  BY <1>1 DEF Samples, OfClass, Candidates, Predicted, Covered
<1>3. \A x : ConfusionAt(x)' = ConfusionAt(x)
  BY <1>2 DEF ConfusionAt
<1>4. \A x : Value(ConfusionAt(x))' = Value(ConfusionAt(x))
  BY <1>1, <1>3 DEF Value
<1>5. BestOf(Covered, best)'
  <2>1. BestOf(Covered, best)
    BY <1>1 DEF SearchInv
  <2> QED
    BY <1>1, <1>2, <1>4, <2>1 DEF BestOf
<1>6. TypeOK'
  BY <1>1, <1>2 DEF TypeOK
<1>7. FoldInv'
  BY <1>1, <1>2 DEF FoldInv
<1>8. SearchInv'
  BY <1>1, <1>2, <1>5 DEF SearchInv
<1> QED
  BY <1>1, <1>6, <1>7, <1>8 DEF EverySampleScored

-----------------------------------------------------------------------------
(* The theorems.                                                           *)

LEMMA CalibrationInvInit ==
  Init => CalibrationInv
<1> SUFFICES ASSUME Init
             PROVE  CalibrationInv
  OBVIOUS
<1>1. TypeOK
  <2>1. Scale \div 2 \in 0 .. Scale
    BY CalibrationAssumption
  <2> QED
    BY <2>1, CalibrationAssumption DEF Init, TypeOK
<1> QED
  BY <1>1 DEF Init, CalibrationInv, FoldInv, SearchInv, EverySampleScored

LEMMA CalibrationInvStep ==
  CalibrationInv /\ [Next]_vars => CalibrationInv'
<1> SUFFICES ASSUME CalibrationInv, [Next]_vars
             PROVE  CalibrationInv'
  OBVIOUS
<1>1. ASSUME phase' = "failed",
             UNCHANGED <<labels, metric, num_folds, folding, searching, m_binary_threshold>>
      PROVE  CalibrationInv'
  BY <1>1 DEF CalibrationInv, FoldInv, SearchInv, EverySampleScored, TypeOK, Samples,
              folding, searching
<1>2. CASE Reject
  BY <1>1, <1>2 DEF Reject
<1>3. CASE AssignFolds
  BY <1>3, AssigningFolds DEF CalibrationInv
<1>4. CASE ScoreFold
  BY <1>4, ScoringFold DEF CalibrationInv
<1>5. CASE FoldFails
  BY <1>1, <1>5 DEF FoldFails
<1>6. CASE FinishFolds
  BY <1>6, FinishingFolds
<1>7. CASE TryThreshold
  BY <1>7, TryingThreshold
<1>8. CASE FinishSearch
  BY <1>8, FinishingSearch
<1>9. CASE UNCHANGED vars
  <2>1. UNCHANGED <<labels, metric, num_folds, phase, fold_indices, fold, positive_scores,
                    scored, thresholds, counts, passed, best, m_binary_threshold>>
    BY <1>9 DEF vars, folding, searching
  <2>2. /\ Samples' = Samples /\ Candidates' = Candidates /\ Covered' = Covered
        /\ \A c : OfClass(c)' = OfClass(c)
        /\ \A x : Predicted(x)' = Predicted(x)
    BY <2>1 DEF Samples, OfClass, Candidates, Predicted, Covered
  <2>3. \A x : Value(ConfusionAt(x))' = Value(ConfusionAt(x))
    <3>1. \A x : ConfusionAt(x)' = ConfusionAt(x)
      BY <2>2 DEF ConfusionAt
    <3> QED
      BY <2>1, <3>1 DEF Value
  <2>4. TypeOK' /\ FoldInv' /\ EverySampleScored'
    BY <2>1, <2>2 DEF CalibrationInv, TypeOK, FoldInv, EverySampleScored
  <2>5. BestOf(Covered, best)' = BestOf(Covered, best)
    BY <2>1, <2>2, <2>3 DEF BestOf
  <2> QED
    BY <2>1, <2>2, <2>4, <2>5 DEF CalibrationInv, SearchInv
<1> QED
  BY <1>2, <1>3, <1>4, <1>5, <1>6, <1>7, <1>8, <1>9 DEF Next, Ended

LEMMA CalibrationInvariance ==
  Spec => []CalibrationInv
<1> QED
  BY CalibrationInvInit, CalibrationInvStep, PTL DEF Spec

\* The state stays well typed: no unsigned count of the search drops below
\* zero, whatever the scores and however many samples share one.
THEOREM CalibrationTypeCorrectness == Spec => []TypeOK
<1>1. CalibrationInv => TypeOK
  BY DEF CalibrationInv
<1> QED
  BY <1>1, CalibrationInvariance, PTL

\* No sample is without a score at the end of the folds: the folds cover the
\* samples, however many there are and however they are shuffled.
THEOREM EverySampleIsScored == Spec => []EverySampleScored
<1>1. CalibrationInv => EverySampleScored
  BY DEF CalibrationInv
<1> QED
  BY <1>1, CalibrationInvariance, PTL

\* A forest that scores a fold has seen both classes, unless there is only
\* one sample of a class.
THEOREM ForestsSeeBothClasses == Spec => []FoldForestsSeeBothClasses
<1>1. CalibrationInv => FoldForestsSeeBothClasses
  <2> SUFFICES ASSUME CalibrationInv, phase = "folds", fold < num_folds,
                      \A d \in Classes : Cardinality(OfClass(d)) # 1,
                      NEW c \in Classes
               PROVE  training_indices \cap OfClass(c) # {}
    BY DEF FoldForestsSeeBothClasses, FoldsLeft
  <2>1. fold \in 0 .. num_folds - 1
    BY DEF CalibrationInv, TypeOK
  <2>2. \E i \in OfClass(c) : i \notin fold_indices[fold]
    BY <2>1 DEF CalibrationInv, FoldInv
  <2> QED
    BY <2>2 DEF training_indices, OfClass
<1> QED
  BY <1>1, CalibrationInvariance, PTL

\* The threshold that is kept maximises the metric over all thresholds, and is
\* the candidate closest to one half among those that do.
THEOREM OptimalThreshold == Spec => []ThresholdIsOptimal
<1>1. CalibrationInv => ThresholdIsOptimal
  <2> SUFFICES ASSUME CalibrationInv, phase = "trained"
               PROVE  ThresholdIsOptimal
    BY DEF ThresholdIsOptimal
  <2>1. thresholds = {} /\ m_binary_threshold = best.threshold /\ BestOf(Covered, best)
    BY DEF CalibrationInv, SearchInv
  <2>2. Covered = 0 .. Scale /\ Covered # {}
    <3>1. Covered = 0 .. Scale
      BY <2>1, Zenon DEF Covered
    <3>2. 0 \in 0 .. Scale
      BY CalibrationAssumption
    <3> QED
      BY <3>1, <3>2
  <2>3. best.value = Value(ConfusionAt(m_binary_threshold))
    BY <2>1, <2>2 DEF BestOf
  <2> QED
    BY <2>1, <2>2, <2>3 DEF BestOf, ThresholdIsOptimal, Candidates
<1> QED
  BY <1>1, CalibrationInvariance, PTL

-----------------------------------------------------------------------------
(* The folds.                                                               *)

(* A bijection keeps the size of a finite set.                             *)
LEMMA SameSize ==
  ASSUME NEW S, IsFiniteSet(S), NEW T, NEW f \in Bijection(S, T)
  PROVE  IsFiniteSet(T) /\ Cardinality(T) = Cardinality(S)
<1>1. f \in Surjection(S, T) /\ f \in Injection(S, T)
  BY DEF Bijection
<1>. QED BY <1>1, FS_Surjection

(* Quotient and remainder of a division are unique.                        *)
LEMMA Euclid ==
  ASSUME NEW m \in Nat \ {0}
  PROVE  /\ \A j \in Nat : j \div m \in Nat /\ j % m \in 0 .. m - 1 /\ j = m * (j \div m) + (j % m)
         /\ \A k \in Nat, f \in 0 .. m - 1 : (m * k + f) % m = f
<1>1. ASSUME NEW j \in Nat
      PROVE  j \div m \in Nat /\ j % m \in 0 .. m - 1 /\ j = m * (j \div m) + (j % m)
  <2>1. j \div m \in Nat
    OBVIOUS
  <2>2. j % m \in 0 .. m - 1
    OBVIOUS
  <2>3. j = m * (j \div m) + (j % m)
    OBVIOUS
  <2>. QED BY <2>1, <2>2, <2>3
<1>2. ASSUME NEW k \in Nat, NEW d \in Nat, NEW f \in 0 .. m - 1, NEW e \in 0 .. m - 1,
             m * k + f = m * d + e
      PROVE  e = f
  <2>1. ASSUME NEW x \in Nat, NEW y \in Nat, x < y
        PROVE  m * x + m <= m * y
    <3>1. (x + 1) * m <= y * m
      BY <2>1, MultiplyOrder
    <3>2. (x + 1) * m = m * x + m /\ y * m = m * y
      OBVIOUS
    <3>. QED BY <3>1, <3>2
  <2>2. m * k \in Nat /\ m * d \in Nat
    OBVIOUS
  <2>3. CASE k < d
    <3>1. m * k + m <= m * d
      BY <2>1, <2>3
    <3>. QED BY <1>2, <2>2, <3>1
  <2>4. CASE d < k
    <3>1. m * d + m <= m * k
      BY <2>1, <2>4
    <3>. QED BY <1>2, <2>2, <3>1
  <2>5. CASE k = d
    BY <1>2, <2>2, <2>5
  <2>. QED BY <2>3, <2>4, <2>5
<1>3. ASSUME NEW k \in Nat, NEW f \in 0 .. m - 1
      PROVE  (m * k + f) % m = f
  <2>1. PICK j \in Nat : j = m * k + f
    <3>1. m * k \in Nat
      OBVIOUS
    <3>. QED BY <3>1
  <2>2. PICK d \in Nat, e \in 0 .. m - 1 : j = m * d + e /\ e = j % m
    BY <1>1
  <2>3. e = f
    BY <1>2, <2>1, <2>2
  <2>. QED BY <2>1, <2>2, <2>3
<1>. QED BY <1>1, <1>3

\* The numbers below n with the remainder f.
WithRemainder(n, m, f) == {j \in 0 .. n - 1 : j % m = f}

(* As many numbers below n leave the remainder f as there are full rounds,  *)
(* and one more when f comes within the rest.                              *)
LEMMA RemainderClass ==
  ASSUME NEW n \in Nat, NEW m \in Nat \ {0}, NEW q \in Nat, NEW r \in 0 .. m - 1, n = m * q + r,
         NEW f \in 0 .. m - 1
  PROVE  Cardinality(WithRemainder(n, m, f)) = IF f < r THEN q + 1 ELSE q
<1> DEFINE c == IF f < r THEN q + 1 ELSE q
           S == 0 .. c - 1
           T == {j \in 0 .. n - 1 : j % m = f}
           h == [k \in S |-> m * k + f]
<1>1. c \in Nat
  OBVIOUS
<1>2. \A k \in Nat : /\ m * k \in Nat /\ m * (k + 1) = m * k + m
                     /\ k < c => m * k + f < n
                     /\ k >= c => m * k + f >= n
  <2> SUFFICES ASSUME NEW k \in Nat
               PROVE  /\ m * k \in Nat /\ m * (k + 1) = m * k + m
                      /\ k < c => m * k + f < n
                      /\ k >= c => m * k + f >= n
    OBVIOUS
  <2>1. m * k \in Nat /\ m * q \in Nat /\ m * (k + 1) = m * k + m /\ m * (q + 1) = m * q + m
    OBVIOUS
  <2>2. ASSUME NEW a \in Nat, NEW b \in Nat, a <= b
        PROVE  m * a <= m * b
    <3>1. a * m <= b * m
      BY <2>2, MultiplyOrder
    <3>. QED BY <3>1
  <2>3. CASE k < q
    <3>1. m * (k + 1) <= m * q
      BY <2>2, <2>3
    <3>. QED BY <2>1, <2>3, <3>1
  <2>4. CASE k = q
    BY <2>1, <2>4
  <2>5. CASE k > q
    <3>1. m * (q + 1) <= m * k
      BY <2>2, <2>5
    <3>. QED BY <2>1, <2>5, <3>1
  <2>. QED BY <2>3, <2>4, <2>5
<1>3. \A k \in Nat : (m * k + f) % m = f
  BY Euclid
<1>4. \A j \in Nat : \E k \in Nat : j = m * k + (j % m)
  <2> TAKE j \in Nat
  <2>1. j \div m \in Nat /\ j = m * (j \div m) + (j % m)
    BY Euclid
  <2>. QED BY <2>1
<1>5. \A k \in S : k \in Nat /\ k < c
  BY <1>1
<1>6. h \in [S -> T]
  <2>1. \A k \in S : m * k + f \in 0 .. n - 1
    BY <1>2, <1>5
  <2>. QED BY <1>3, <1>5, <2>1
<1>7. \A k, l \in S : h[k] = h[l] => k = l
  <2> SUFFICES ASSUME NEW k \in S, NEW l \in S, k < l, m * k + f = m * l + f
               PROVE  FALSE
    BY <1>5
  <2>1. m * (k + 1) <= m * l
    <3>1. (k + 1) * m <= l * m
      BY <1>5, MultiplyOrder
    <3>. QED BY <1>5, <3>1
  <2>. QED BY <1>2, <1>5, <2>1
<1>8. \A j \in T : \E k \in S : h[k] = j
  <2> TAKE j \in T
  <2>1. PICK k \in Nat : j = m * k + f
    <3>1. j \in Nat /\ j % m = f
      BY <1>1
    <3>. QED BY <1>4, <3>1
  <2>2. k < c
    BY <1>1, <1>2, <2>1
  <2>3. k \in S
    BY <1>1, <2>2
  <2>. QED BY <2>1, <2>3
<1>9. h \in Bijection(S, T)
  BY <1>6, <1>7, <1>8 DEF Bijection, Injection, Surjection, IsInjective
<1> HIDE DEF h, T, S, c
<1>10. IsFiniteSet(S) /\ Cardinality(S) = c
  <2>1. 0 \in Int /\ c - 1 \in Int
    BY <1>1
  <2>2. IsFiniteSet(0 .. c - 1) /\ Cardinality(0 .. c - 1) = IF 0 > c - 1 THEN 0 ELSE (c - 1) - 0 + 1
    BY <2>1, FS_Interval
  <2>. QED BY <1>1, <2>2 DEF S
<1>11. Cardinality(T) = c
  BY <1>9, <1>10, SameSize
<1>. QED BY <1>11 DEF T, c, WithRemainder

(* A shuffled class is dealt out evenly: every sample to one fold, and to   *)
(* any two folds of those dealt to the same number of samples or one more.  *)
LEMMA DealingEvenly ==
  ASSUME NEW S, IsFiniteSet(S), NEW class \in Shuffles(S), NEW m \in Nat \ {0}, m <= Cardinality(S)
  PROVE  /\ \A f \in 0 .. m - 1 : Dealt(class, f, m) \subseteq S
         /\ \A x \in S : \E f \in 0 .. m - 1 : \A g : x \in Dealt(class, g, m) <=> g = f
         /\ \E q \in Nat \ {0} : \A f \in 0 .. m - 1 : Cardinality(Dealt(class, f, m)) \in {q, q + 1}
<1> DEFINE n == Cardinality(S)
<1>1. n \in Nat
  BY FS_CardinalityType
<1>2. /\ class \in [0 .. n - 1 -> S]
      /\ \A i, j \in 0 .. n - 1 : class[i] = class[j] => i = j
      /\ \A x \in S : \E i \in 0 .. n - 1 : class[i] = x
  BY DEF Shuffles, Bijection, Injection, Surjection, IsInjective
<1> HIDE DEF n
<1>3. \A x, f : x \in Dealt(class, f, m) <=> \E i \in 0 .. n - 1 : i % m = f /\ x = class[i]
  BY <1>2 DEF Dealt, FoldOf
<1>4. \A f \in 0 .. m - 1 : Dealt(class, f, m) \subseteq S
  BY <1>2, <1>3
<1>5. ASSUME NEW x \in S
      PROVE  \E f \in 0 .. m - 1 : \A g : x \in Dealt(class, g, m) <=> g = f
  <2>1. PICK i \in 0 .. n - 1 : class[i] = x
    BY <1>2
  <2>2. i % m \in 0 .. m - 1
    BY <1>1, Remainders
  <2>3. \A g : x \in Dealt(class, g, m) <=> g = i % m
    BY <1>2, <1>3, <2>1
  <2>. QED BY <2>2, <2>3
<1>6. PICK q \in Nat, r \in 0 .. m - 1 : n = m * q + r
  <2>1. n \div m \in Nat /\ n % m \in 0 .. m - 1 /\ n = m * (n \div m) + (n % m)
    BY <1>1, Euclid
  <2> DEFINE q == n \div m
             r == n % m
  <2>2. q \in Nat /\ r \in 0 .. m - 1 /\ n = m * q + r
    BY <2>1
  <2> HIDE DEF q, r
  <2>. QED BY <2>2
<1>7. q # 0
  <2>1. m <= n
    BY DEF n
  <2>2. q = 0 => n = r
    BY <1>6
  <2>. QED BY <2>1, <2>2
<1>8. ASSUME NEW f \in 0 .. m - 1
      PROVE  Cardinality(Dealt(class, f, m)) \in {q, q + 1}
  <2> DEFINE T == {j \in 0 .. n - 1 : j % m = f}
             D == Dealt(class, f, m)
             h == [j \in T |-> class[j]]
  <2>1. h \in Bijection(T, D)
    <3>1. h \in [T -> D]
      BY <1>3
    <3>2. \A j, k \in T : h[j] = h[k] => j = k
      BY <1>2
    <3>3. \A x \in D : \E j \in T : h[j] = x
      BY <1>3
    <3>. QED BY <3>1, <3>2, <3>3 DEF Bijection, Injection, Surjection, IsInjective
  <2>2. Cardinality(T) \in {q, q + 1}
    <3>1. n = m * q + r
      BY <1>6
    <3>2. Cardinality(WithRemainder(n, m, f)) = IF f < r THEN q + 1 ELSE q
      BY <1>1, <3>1, RemainderClass
    <3>. QED BY <3>2 DEF WithRemainder
  <2>3. IsFiniteSet(T)
    <3>1. 0 \in Int /\ n - 1 \in Int
      BY <1>1
    <3>2. IsFiniteSet(0 .. n - 1)
      BY <3>1, FS_Interval
    <3>3. T \subseteq 0 .. n - 1
      OBVIOUS
    <3>. QED BY <3>2, <3>3, FS_Subset
  <2> HIDE DEF T, D, h
  <2>4. Cardinality(D) = Cardinality(T)
    BY <2>1, <2>3, SameSize
  <2>. QED BY <2>2, <2>4 DEF D
<1>. QED BY <1>4, <1>5, <1>7, <1>8

(* The folds as they are assigned are stratified.                          *)
LEMMA AssigningStratifies ==
  ASSUME TypeOK, AssignFolds
  PROVE  FoldsAreStratified'
<1> USE DEF AssignFolds
<1>1. /\ IsFiniteSet(OfClass(0)) /\ IsFiniteSet(OfClass(1))
      /\ Cardinality(OfClass(0)) \in Nat /\ Cardinality(OfClass(1)) \in Nat
  BY SamplesAreFinite DEF OfClass
<1>2. /\ OfClass(0) # {} /\ OfClass(1) # {} /\ num_folds \in Nat /\ num_folds >= 2
      /\ Samples = OfClass(0) \cup OfClass(1)
  BY DEF Acceptable, Classes, TypeOK, OfClass
<1>3. Cardinality(OfClass(0)) > 0 /\ Cardinality(OfClass(1)) > 0
  BY <1>1, <1>2, FS_EmptySet
<1>4. PICK m : m = num_folds'
  OBVIOUS
<1>5. m \in Nat \ {0} /\ m <= Cardinality(OfClass(0)) /\ m <= Cardinality(OfClass(1))
  BY <1>1, <1>2, <1>3, <1>4 DEF Clamp, Smaller
<1>6. PICK zeros \in Shuffles(OfClass(0)), ones \in Shuffles(OfClass(1)) :
        fold_indices' = [f \in 0 .. m - 1 |-> Dealt(zeros, f, m) \cup Dealt(ones, f, m)]
  BY <1>4
<1> DEFINE class(c) == IF c = 0 THEN zeros ELSE ones
<1>7. \A c \in Classes :
        /\ \A f \in 0 .. m - 1 : Dealt(class(c), f, m) \subseteq OfClass(c)
        /\ \A x \in OfClass(c) : \E f \in 0 .. m - 1 : \A g : x \in Dealt(class(c), g, m) <=> g = f
        /\ \E q \in Nat \ {0} : \A f \in 0 .. m - 1 : Cardinality(Dealt(class(c), f, m)) \in {q, q + 1}
  <2>1. class(0) \in Shuffles(OfClass(0)) /\ class(1) \in Shuffles(OfClass(1))
    BY <1>6
  <2> HIDE DEF class
  <2>2. ASSUME NEW c \in Classes
        PROVE  /\ \A f \in 0 .. m - 1 : Dealt(class(c), f, m) \subseteq OfClass(c)
               /\ \A x \in OfClass(c) :
                    \E f \in 0 .. m - 1 : \A g : x \in Dealt(class(c), g, m) <=> g = f
               /\ \E q \in Nat \ {0} :
                    \A f \in 0 .. m - 1 : Cardinality(Dealt(class(c), f, m)) \in {q, q + 1}
    <3>1. PICK k : k = class(c)
      OBVIOUS
    <3>2. PICK S : S = OfClass(c)
      OBVIOUS
    <3>3. IsFiniteSet(S) /\ k \in Shuffles(S) /\ m \in Nat \ {0} /\ m <= Cardinality(S)
      BY <1>1, <1>5, <2>1, <3>1, <3>2 DEF Classes
    <3>4. /\ \A f \in 0 .. m - 1 : Dealt(k, f, m) \subseteq S
          /\ \A x \in S : \E f \in 0 .. m - 1 : \A g : x \in Dealt(k, g, m) <=> g = f
          /\ \E q \in Nat \ {0} : \A f \in 0 .. m - 1 : Cardinality(Dealt(k, f, m)) \in {q, q + 1}
      BY <3>3, DealingEvenly
    <3>. QED BY <3>1, <3>2, <3>4
  <2>. QED BY <2>2
<1>8. \A c \in Classes : \A x \in OfClass(c) : \A d \in Classes : x \in OfClass(d) => d = c
  BY DEF OfClass
<1>9. ASSUME NEW c \in Classes, NEW f \in 0 .. m - 1
      PROVE  fold_indices'[f] \cap OfClass(c) = Dealt(class(c), f, m)
  <2>1. fold_indices'[f] = Dealt(class(0), f, m) \cup Dealt(class(1), f, m)
    <3>1. class(0) = zeros /\ class(1) = ones
      OBVIOUS
    <3> HIDE DEF class
    <3>. QED BY <1>6, <3>1
  <2>2. Dealt(class(0), f, m) \subseteq OfClass(0) /\ Dealt(class(1), f, m) \subseteq OfClass(1)
    BY <1>7 DEF Classes
  <2> HIDE DEF class
  <2>3. CASE c = 0
    BY <1>8, <2>1, <2>2, <2>3 DEF Classes
  <2>4. CASE c = 1
    BY <1>8, <2>1, <2>2, <2>4 DEF Classes
  <2>. QED BY <2>3, <2>4 DEF Classes
<1>10. DOMAIN fold_indices' = 0 .. m - 1
  BY <1>6
<1> HIDE DEF class
<1>11. ASSUME NEW c \in Classes, NEW i \in OfClass(c)
       PROVE  Cardinality({f \in 0 .. m - 1 : i \in fold_indices'[f]}) = 1
  <2>1. PICK f \in 0 .. m - 1 : \A g : i \in Dealt(class(c), g, m) <=> g = f
    BY <1>7
  <2>2. \A g \in 0 .. m - 1 : i \in fold_indices'[g] <=> g = f
    BY <1>9, <2>1
  <2>3. {g \in 0 .. m - 1 : i \in fold_indices'[g]} = {f}
    BY <2>2
  <2>. QED BY <2>3, FS_Singleton
<1>12. ASSUME NEW c \in Classes, NEW f \in 0 .. m - 1, NEW g \in 0 .. m - 1
       PROVE  LET x == Cardinality(fold_indices'[f] \cap OfClass(c))
                  y == Cardinality(fold_indices'[g] \cap OfClass(c))
              IN  x >= 1 /\ x - y \in {-1, 0, 1}
  <2>1. PICK q \in Nat \ {0} : \A e \in 0 .. m - 1 : Cardinality(Dealt(class(c), e, m)) \in {q, q + 1}
    BY <1>7
  <2>2. /\ Cardinality(fold_indices'[f] \cap OfClass(c)) \in {q, q + 1}
        /\ Cardinality(fold_indices'[g] \cap OfClass(c)) \in {q, q + 1}
    BY <1>9, <2>1
  <2>. QED BY <2>2
<1>13. Samples' = Samples /\ \A c : OfClass(c)' = OfClass(c)
  BY DEF Samples, OfClass
<1>14. \A i \in Samples : \E c \in Classes : i \in OfClass(c)
  BY <1>2 DEF Classes
<1>15. \A i \in Samples : Cardinality({f \in 0 .. m - 1 : i \in fold_indices'[f]}) = 1
  BY <1>11, <1>14
<1>16. /\ DOMAIN fold_indices' = 0 .. m - 1
       /\ \A i \in Samples' : Cardinality({f \in DOMAIN fold_indices' : i \in fold_indices'[f]}) = 1
  BY <1>10, <1>13, <1>15
<1>17. \A c \in Classes : \A f, g \in DOMAIN fold_indices' :
         LET x == Cardinality(fold_indices'[f] \cap OfClass(c)')
             y == Cardinality(fold_indices'[g] \cap OfClass(c)')
         IN  x >= 1 /\ x - y \in {-1, 0, 1}
  <2> SUFFICES ASSUME NEW c \in Classes, NEW f \in 0 .. m - 1, NEW g \in 0 .. m - 1
               PROVE  LET x == Cardinality(fold_indices'[f] \cap OfClass(c)')
                          y == Cardinality(fold_indices'[g] \cap OfClass(c)')
                      IN  x >= 1 /\ x - y \in {-1, 0, 1}
    BY <1>10
  <2>1. OfClass(c)' = OfClass(c)
    BY <1>13
  <2>. QED BY <1>12, <2>1
<1>. QED BY <1>16, <1>17 DEF FoldsAreStratified

(* Two folds differ by at most one sample of each class, and none is        *)
(* without: dealing out in turns does that for classes of any sizes.        *)
THEOREM FoldsStratified == Spec => []FoldsAreStratified
<1>1. Init => FoldsAreStratified
  BY DEF Init, FoldsAreStratified
<1>2. ASSUME TypeOK, FoldsAreStratified, [Next]_vars PROVE FoldsAreStratified'
  <2>1. CASE AssignFolds
    BY <1>2, <2>1, AssigningStratifies
  <2>2. CASE ScoreFold
    <3>1. phase' = phase /\ fold_indices' = fold_indices /\ labels' = labels
      BY <2>2 DEF ScoreFold
    <3>. QED BY <1>2, <3>1 DEF FoldsAreStratified, Samples, OfClass
  <2>3. CASE UNCHANGED vars
    BY <1>2, <2>3 DEF vars, folding, FoldsAreStratified, Samples, OfClass
  <2>4. CASE Reject \/ FoldFails \/ FinishFolds \/ FinishSearch
    BY <2>4 DEF Reject, FoldFails, FinishFolds, FinishSearch, FoldsAreStratified
  <2>5. CASE TryThreshold
    BY <2>5 DEF TryThreshold, FoldsAreStratified
  <2>. QED BY <1>2, <2>1, <2>2, <2>3, <2>4, <2>5 DEF Next, Ended
<1>. QED BY CalibrationTypeCorrectness, <1>1, <1>2, PTL DEF Spec

=============================================================================
