----------------------------- MODULE Calibration -----------------------------
(***************************************************************************)
(* BinaryRandomForestClassifier: training with calibration of the decision *)
(* threshold.  Every sample is scored by a forest that has not seen it,    *)
(* then the threshold with the best metric over these scores is searched   *)
(* for in one pass over the sorted scores.  The forests are mlpack's: they *)
(* may return any probability.  A probability is a multiple of 1 / Scale;  *)
(* metrics are exact quotients, where the code rounds.                     *)
(***************************************************************************)
EXTENDS Integers, Sequences, FiniteSets, Functions

CONSTANTS
  LabelVectors,         \* what there may be to train on, sequences of labels
  FoldsAsked,           \* values of the parameter num_folds
  Metrics,
  Scale,
  Scores                \* probabilities, as multiples of 1 / Scale

Classes == {0, 1}

ASSUME CalibrationAssumption ==
  /\ LabelVectors \subseteq Seq(Nat) /\ FoldsAsked \subseteq Nat
  /\ Metrics \subseteq {"f1", "precision", "recall", "accuracy"}
  /\ Scale \in Nat \ {0} /\ Scale % 2 = 0 /\ Scores \subseteq 0 .. Scale

VARIABLES
  labels, metric, num_folds,
  phase,                \* where train_with_calibration is: see TypeOK
  fold_indices,         \* the samples of each fold
  fold,                 \* the loop variable over the folds
  positive_scores, scored,
  thresholds,           \* candidates not yet tried
  counts,               \* of the confusion matrix: tp, fp, tn, fn
  passed,               \* the samples at sorted positions below position
  best,                 \* best_value and best_threshold
  m_binary_threshold

folding == <<fold_indices, fold, positive_scores, scored>>
searching == <<thresholds, counts, passed, best>>
vars == <<labels, metric, num_folds, phase, folding, searching, m_binary_threshold>>

Samples == DOMAIN labels
OfClass(c) == {i \in Samples : labels[i] = c}

Smaller(a, b) == IF a <= b THEN a ELSE b

-----------------------------------------------------------------------------
(* Folds.                                                                  *)

Init ==
  /\ labels \in LabelVectors /\ metric \in Metrics /\ num_folds \in FoldsAsked
  /\ phase = "start"
  /\ fold_indices = << >> /\ fold = 0
  /\ positive_scores = << >> /\ scored = {}
  /\ thresholds = {} /\ passed = {}
  /\ counts = [tp |-> 0, fp |-> 0, tn |-> 0, fn |-> 0]
  /\ best = [value |-> <<-1, 1>>, threshold |-> Scale \div 2]
  /\ m_binary_threshold = Scale \div 2

\* The caller passes as many columns of features as labels.
Acceptable ==
  /\ num_folds >= 2
  /\ \A i \in Samples : labels[i] \in Classes
  /\ \A c \in Classes : OfClass(c) # {}

Reject ==
  /\ phase = "start" /\ ~Acceptable
  /\ phase' = "failed"
  /\ UNCHANGED <<labels, metric, num_folds, folding, searching, m_binary_threshold>>

\* Seeded fault: a small class does not limit the folds.
FaultyClamp == num_folds

Clamp == Smaller(num_folds, Smaller(Cardinality(OfClass(0)), Cardinality(OfClass(1))))

\* Seeded fault: a fold is filled before the next one is begun.
FaultyFoldOf(i, n) == i \div n

\* The fold of the i-th sample of a shuffled class, of n folds.
FoldOf(i, n) == i % n

Shuffles(S) == Bijection(0 .. Cardinality(S) - 1, S)

\* What a shuffled class gives to a fold.
Dealt(class, f, n) == {class[i] : i \in {j \in DOMAIN class : FoldOf(j, n) = f}}

AssignFolds ==
  /\ phase = "start" /\ Acceptable
  /\ phase' = "folds"
  /\ num_folds' = Clamp
  /\ \E zeros \in Shuffles(OfClass(0)), ones \in Shuffles(OfClass(1)) :
       fold_indices' = [f \in 0 .. num_folds' - 1 |->
                          Dealt(zeros, f, num_folds') \cup Dealt(ones, f, num_folds')]
  /\ fold' = 0
  /\ positive_scores' = [i \in Samples |-> 0] /\ scored' = {}
  /\ UNCHANGED <<labels, metric, searching, m_binary_threshold>>

\* The samples a fold's classifier is trained on.
training_indices == Samples \ fold_indices[fold]

\* Seeded fault: the last fold is left out.
FaultyFoldsLeft == fold < num_folds - 1

FoldsLeft == fold < num_folds

\* A round of the loop over the folds.
ScoreFold ==
  /\ phase = "folds" /\ FoldsLeft
  /\ \E probabilities \in [fold_indices[fold] -> Scores] :
       positive_scores' = [i \in Samples |-> IF i \in fold_indices[fold] THEN probabilities[i]
                                             ELSE positive_scores[i]]
  /\ scored' = scored \cup fold_indices[fold]
  /\ fold' = fold + 1
  /\ UNCHANGED <<labels, metric, num_folds, phase, fold_indices, searching, m_binary_threshold>>

\* mlpack may refuse to train on nothing.
FoldFails ==
  /\ phase = "folds" /\ FoldsLeft /\ training_indices = {}
  /\ phase' = "failed"
  /\ UNCHANGED <<labels, metric, num_folds, folding, searching, m_binary_threshold>>

-----------------------------------------------------------------------------
(* find_optimal_threshold.                                                 *)

StartSearch ==
  /\ thresholds' = {0, Scale} \cup {positive_scores[i] : i \in Samples}
  /\ counts' = [tp |-> Cardinality(OfClass(1)), fp |-> Cardinality(Samples \ OfClass(1)),
                tn |-> 0, fn |-> 0]
  /\ passed' = {}
  /\ best' = [value |-> <<-1, 1>>, threshold |-> Scale \div 2]

\* The check after the loop comes first.
FinishFolds ==
  /\ phase = "folds" /\ ~FoldsLeft
  /\ IF scored = Samples THEN phase' = "search" /\ StartSearch
     ELSE phase' = "unscored" /\ UNCHANGED searching
  /\ UNCHANGED <<labels, metric, num_folds, folding, m_binary_threshold>>

Quotient(a, b) == IF b > 0 THEN <<a, b>> ELSE <<0, 1>>

\* calculate_binary_metrics, with 2PR / (P + R) in closed form.
Value(c) ==
  CASE metric = "accuracy"  -> Quotient(c.tp + c.tn, c.tp + c.fp + c.tn + c.fn)
    [] metric = "precision" -> Quotient(c.tp, c.tp + c.fp)
    [] metric = "recall"    -> Quotient(c.tp, c.tp + c.fn)
    [] metric = "f1"        -> IF c.tp > 0 THEN <<2 * c.tp, 2 * c.tp + c.fp + c.fn>> ELSE <<0, 1>>

Exceeds(v, w) == v[1] * w[2] > w[1] * v[2]

Distance(t) == IF 2 * t >= Scale THEN 2 * t - Scale ELSE Scale - 2 * t

\* Seeded fault: among equal values the last one wins.
FaultyBetter(value, threshold) == ~Exceeds(best.value, value)

Better(value, threshold) ==
  \/ Exceeds(value, best.value)
  \/ ~Exceeds(best.value, value) /\ Distance(threshold) < Distance(best.threshold)

\* The samples that are no longer predicted positive at the threshold.
Passing(threshold) == {i \in Samples \ passed : positive_scores[i] <= threshold}

TryThreshold ==
  /\ phase = "search" /\ thresholds # {}
  /\ \E t \in thresholds :
       /\ \A u \in thresholds : t <= u
       /\ thresholds' = thresholds \ {t}
       /\ LET positives == Cardinality(Passing(t) \cap OfClass(1))
              others == Cardinality(Passing(t) \ OfClass(1))
          IN  counts' = [tp |-> counts.tp - positives, fn |-> counts.fn + positives,
                         fp |-> counts.fp - others, tn |-> counts.tn + others]
       /\ passed' = passed \cup Passing(t)
       /\ best' = IF Better(Value(counts'), t) THEN [value |-> Value(counts'), threshold |-> t]
                  ELSE best
  /\ UNCHANGED <<labels, metric, num_folds, phase, folding, m_binary_threshold>>

\* The threshold is kept and the final forest trained, on all samples.
FinishSearch ==
  /\ phase = "search" /\ thresholds = {}
  /\ m_binary_threshold' = best.threshold
  /\ phase' = "trained"
  /\ UNCHANGED <<labels, metric, num_folds, folding, searching>>

Ended == phase \in {"failed", "unscored", "trained"} /\ UNCHANGED vars

Next ==
  \/ Reject \/ AssignFolds \/ ScoreFold \/ FoldFails \/ FinishFolds
  \/ TryThreshold \/ FinishSearch
  \/ Ended

Spec == Init /\ [][Next]_vars

-----------------------------------------------------------------------------
(* Properties.                                                             *)

\* The state stays well typed: no unsigned count of the search drops below
\* zero, and the threshold is a probability.
TypeOK ==
  /\ labels \in LabelVectors /\ metric \in Metrics /\ num_folds \in Nat
  /\ phase \in {"start", "folds", "search", "trained", "failed", "unscored"}
  /\ fold \in 0 .. num_folds /\ scored \subseteq Samples
  /\ phase \in {"folds", "search", "trained"} =>
       /\ fold_indices \in [0 .. num_folds - 1 -> SUBSET Samples]
       /\ positive_scores \in [Samples -> 0 .. Scale]
  /\ thresholds \subseteq 0 .. Scale /\ passed \subseteq Samples
  /\ counts \in [tp : Nat, fp : Nat, tn : Nat, fn : Nat]
  /\ best \in [value : Int \X (Nat \ {0}), threshold : 0 .. Scale]
  /\ m_binary_threshold \in 0 .. Scale

\* The folds are stratified: each sample is in one of them, and two folds
\* differ by at most one sample of each class, none being without.
FoldsAreStratified ==
  phase = "folds" =>
    /\ \A i \in Samples : Cardinality({f \in DOMAIN fold_indices : i \in fold_indices[f]}) = 1
    /\ \A c \in Classes : \A f, g \in DOMAIN fold_indices :
         LET m == Cardinality(fold_indices[f] \cap OfClass(c))
             n == Cardinality(fold_indices[g] \cap OfClass(c))
         IN  m >= 1 /\ m - n \in {-1, 0, 1}

\* Every forest that scores a fold has seen both classes, unless a class has
\* only one sample.
FoldForestsSeeBothClasses ==
  phase = "folds" /\ FoldsLeft =>
    \A c \in Classes : training_indices \cap OfClass(c) # {} \/
                       \E d \in Classes : Cardinality(OfClass(d)) = 1

\* The check for samples without a score never fails.
EverySampleScored == phase # "unscored"

Predicted(threshold) == {i \in Samples : positive_scores[i] > threshold}

ConfusionAt(threshold) ==
  [tp |-> Cardinality(OfClass(1) \cap Predicted(threshold)),
   fp |-> Cardinality(Predicted(threshold) \ OfClass(1)),
   tn |-> Cardinality((Samples \ OfClass(1)) \ Predicted(threshold)),
   fn |-> Cardinality(OfClass(1) \ Predicted(threshold))]

\* At the end, no threshold at all gives the metric a higher value over the
\* out-of-fold scores than the one that is kept, and no candidate that gives
\* it the same value is closer to one half.
ThresholdIsOptimal ==
  phase = "trained" =>
    LET kept == Value(ConfusionAt(m_binary_threshold))
    IN  \A t \in 0 .. Scale :
          /\ ~Exceeds(Value(ConfusionAt(t)), kept)
          /\ /\ ~Exceeds(kept, Value(ConfusionAt(t)))
             /\ t \in {0, Scale} \cup {positive_scores[i] : i \in Samples}
             => Distance(m_binary_threshold) <= Distance(t)

\* Calibration uses at least two folds, as its first check demands.
AtLeastTwoFolds == phase = "folds" => num_folds >= 2

=============================================================================
