------------------------- MODULE PredictionReporter -------------------------
(***************************************************************************)
(* reporting/PredictionReporter: what the reports of a prediction and the  *)
(* manifest of a run contain.  Pairs, predictions and scores are sequences *)
(* of one length; labels and a service are optional, a sequence of at most *)
(* one.                                                                    *)
(***************************************************************************)
EXTENDS Metrics, ServiceClassification

CONSTANTS
  ScoreUnit,      \* a score is a number of units of 1 \div ScoreUnit
  WrittenUnit     \* 10^SCORE_PRECISION: what is printed is in units of 1 \div WrittenUnit

ASSUME UnitsAssumption == ScoreUnit \in Nat \ {0} /\ WrittenUnit \in Nat \ {0}

\* What a fixed number of decimals keeps of a fraction: the nearest, of two the even one.
Written(fraction) ==
  LET below == (fraction[1] * WrittenUnit) \div fraction[2]
      twice == 2 * ((fraction[1] * WrittenUnit) % fraction[2])
  IN  IF twice > fraction[2] \/ (twice = fraction[2] /\ below % 2 = 1) THEN below + 1 ELSE below

WrittenScore(score) == Written(<<score, ScoreUnit>>)

LabelOf(labels, i) == IF labels = << >> THEN << >> ELSE <<labels[1][i]>>

write_pair_scores(pairs, predictions, scores, labels) ==
  [i \in DOMAIN pairs |->
     [pair |-> pairs[i], score |-> WrittenScore(scores[i]), predicted_label |-> predictions[i],
      label |-> LabelOf(labels, i)]]

\* JSON keeps every digit of a score.
write_prediction_explanations(pairs, predictions, scores, group_results, labels) ==
  [i \in DOMAIN pairs |->
     [pair |-> pairs[i], score |-> scores[i], predicted_label |-> predictions[i],
      label |-> LabelOf(labels, i), groups |-> group_results]]

\* With the service of each, if services are classified: port_config is optional.
write_positive_predictions(pairs, predictions, scores, flows, port_config, svc_config) ==
  LET positive == Selected([i \in DOMAIN pairs |-> i], {i \in DOMAIN pairs : predictions[i]})
      between(pair) == Selected(flows, {f \in DOMAIN flows : /\ flows[f].source = pair[1]
                                                            /\ flows[f].target = pair[2]})
      service(pair) == IF port_config = << >> THEN << >>
                       ELSE <<[classify(port_config[1], svc_config, between(pair))
                                 EXCEPT !.confidence = Written(@)]>>
  IN  [n \in DOMAIN positive |->
         [pair |-> pairs[positive[n]], score |-> WrittenScore(scores[positive[n]]),
          service |-> service(pairs[positive[n]])]]

write_metrics_report(metrics, positive_predictions, total_predictions) ==
  Joined(metrics, [positive_predictions |-> positive_predictions,
                   total_predictions |-> total_predictions])

\* The manifest of a run: its paths, what it fixed, and what it found.
write_run_manifest(mode, paths, reference, projection, config, graph, evaluated_pairs, classifier) ==
  [mode |-> mode, paths |-> paths, reference_path |-> reference,
   reference_projection |-> projection,
   seed |-> config.SEED, num_threads |-> config.NUM_THREADS[1],
   retained_vertices |-> Cardinality(graph.addresses), retained_edges |-> Len(graph.flows),
   evaluated_pairs |-> evaluated_pairs, feature_config |-> config.FEATURE_CONFIG,
   rf_params |-> classifier.params, classifier_threshold |-> classifier.threshold]

=============================================================================
