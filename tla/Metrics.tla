------------------------------- MODULE Metrics -------------------------------
(***************************************************************************)
(* statistics/metrics: what the metrics report says of the predictions of  *)
(* the pairs, given their labels and scores, all of them sequences in the  *)
(* order of the pairs.  A number is a fraction <<numerator, denominator>>. *)
(***************************************************************************)
EXTENDS Integers, Sequences, FiniteSets, Selection

CONSTANT Cutoffs      \* DEFAULT_RANKING_CUTOFFS

ASSUME CutoffsAssumption == Cutoffs \subseteq Nat \ {0}

Fraction(n, d) == IF d > 0 THEN <<n, d>> ELSE <<0, 1>>
Add(a, b) == <<a[1] * b[2] + b[1] * a[2], a[2] * b[2]>>
Times(a, b) == <<a[1] * b[1], a[2] * b[2]>>
Equal(a, b) == a[1] * b[2] = b[1] * a[2]

\* A metric may be undefined: an optional is a sequence of at most one.
Undefined == << >>

Positives(labels) == {i \in DOMAIN labels : labels[i]}
Both(labels, predictions, is, predicted) ==
  Cardinality({i \in DOMAIN labels : labels[i] = is /\ predictions[i] = predicted})

calculate_binary_metrics(tp, fp, tn, fn) ==
  LET precision == Fraction(tp, tp + fp)
      recall == Fraction(tp, tp + fn)
      both == Add(precision, recall)
  IN  [accuracy |-> Fraction(tp + tn, tp + fp + tn + fn), precision |-> precision, recall |-> recall,
       f1_score |-> IF both[1] > 0
                    THEN Fraction(2 * precision[1] * recall[1] * both[2],
                                  precision[2] * recall[2] * both[1])
                    ELSE <<0, 1>>]

\* Seeded fault: equal scores are ranked the other way round, and lower ones before higher.
FaultyAhead(scores, i, k) == scores[i] < scores[k] \/ (scores[i] = scores[k] /\ i > k)

\* Whether i is ranked before k.
Ahead(scores, i, k) == scores[i] > scores[k] \/ (scores[i] = scores[k] /\ i < k)

Before(scores, i) == {k \in DOMAIN scores : Ahead(scores, k, i)}

sorted_score_indices_desc(scores) ==
  [rank \in DOMAIN scores |->
     CHOOSE i \in DOMAIN scores : Cardinality(Before(scores, i)) = rank - 1]

Limit(ranked, k) == IF k < Len(ranked) THEN k ELSE Len(ranked)
Hits(ranked, labels, k) == Cardinality({rank \in 1..k : labels[ranked[rank]]})

precision_at_k(ranked, labels, k) ==
  IF Limit(ranked, k) = 0 THEN Undefined
  ELSE <<Fraction(Hits(ranked, labels, Limit(ranked, k)), Limit(ranked, k))>>

recall_at_k(ranked, labels, k) ==
  IF Limit(ranked, k) = 0 \/ Positives(labels) = {} THEN Undefined
  ELSE <<Fraction(Hits(ranked, labels, Limit(ranked, k)), Cardinality(Positives(labels)))>>

average_precision(ranked, labels) ==
  LET precision_sum[rank \in 0 .. Len(ranked)] ==
        IF rank = 0 THEN <<0, 1>>
        ELSE IF labels[ranked[rank]]
        THEN Add(precision_sum[rank - 1], Fraction(Hits(ranked, labels, rank), rank))
        ELSE precision_sum[rank - 1]
  IN  IF Positives(labels) = {} THEN Undefined
      ELSE <<Times(precision_sum[Len(ranked)], <<1, Cardinality(Positives(labels))>>)>>

reciprocal_rank(ranked, labels) ==
  IF Positives(labels) = {} THEN Undefined
  ELSE <<<<1, CHOOSE rank \in DOMAIN ranked :
                labels[ranked[rank]] /\ Hits(ranked, labels, rank) = 1>>>>

\* The area under the curve: how likely a positive scores higher than a negative, half of
\* an equal score counting.
ROCAUCScore(scores, labels) ==
  LET positives == Positives(labels)
      negatives == DOMAIN labels \ positives
      above == {p \in positives \X negatives : scores[p[1]] > scores[p[2]]}
      level == {p \in positives \X negatives : scores[p[1]] = scores[p[2]]}
  IN  Fraction(2 * Cardinality(above) + Cardinality(level),
               2 * Cardinality(positives) * Cardinality(negatives))

calculate_roc_auc(scores, labels) ==
  IF Positives(labels) \in {{}, DOMAIN labels} THEN Undefined
  ELSE <<ROCAUCScore(scores, labels)>>

\* For predictions of pairs that there are: without labels nothing is calculated.
calculate_metrics(predictions, labels, scores) ==
  LET ranked == sorted_score_indices_desc(scores)
      counts(is, predicted) == Both(labels, predictions, is, predicted)
  IN  Joined(
        calculate_binary_metrics(counts(TRUE, TRUE), counts(FALSE, TRUE),
                                 counts(FALSE, FALSE), counts(TRUE, FALSE)),
        [roc_auc |-> calculate_roc_auc(scores, labels),
         average_precision |-> average_precision(ranked, labels),
         mean_reciprocal_rank |-> reciprocal_rank(ranked, labels),
         ranking_at_k |-> [k \in Cutoffs |-> [precision |-> precision_at_k(ranked, labels, k),
                                             recall |-> recall_at_k(ranked, labels, k)]]])

=============================================================================
