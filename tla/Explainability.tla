--------------------------- MODULE Explainability ---------------------------
(***************************************************************************)
(* explainability: the baseline that a training leaves beside its          *)
(* classifier, and the explanation of a prediction by replacing the        *)
(* features of one group after the other by their baseline.  A median is   *)
(* named by its training and its feature; the scores that the classifier   *)
(* gives to ablated features are left out.                                 *)
(***************************************************************************)
EXTENDS FeatureConfig

FEATURE_GROUPS ==
  <<[name |-> "embedding", features |-> ToSet(EmbeddingNames)],
    [name |-> "topology", features |-> ToSet(StructuralNames)],
    [name |-> "temporal", features |-> ToSet(TemporalNames)],
    [name |-> "observed_flow", features |-> ToSet(FlowNames)],
    [name |-> "network", features |-> ToSet(NetworkNames)]>>

\* For pairs that there are; without any it throws.
compute_feature_baseline(training, feature_names) ==
  [feature_names |-> feature_names,
   medians |-> [row \in DOMAIN feature_names |-> [training |-> training, of |-> feature_names[row]]]]

\* Seeded fault: only the number of features is compared.
faulty_validate_feature_baseline(baseline, feature_names) ==
  Len(baseline.medians) > 0

validate_feature_baseline(baseline, feature_names) ==
  /\ baseline.feature_names = feature_names
  /\ Len(baseline.medians) = Len(feature_names)

RowsOf(group, feature_names) ==
  {row \in DOMAIN feature_names : feature_names[row] \in group.features}

\* What replaces each row of the group, by the position of the row.
Ablated(group, feature_names, baseline) ==
  [row \in RowsOf(group, feature_names) |-> baseline.medians[row]]

\* The results for a valid baseline, one for each group with features.
explain_with_group_ablation(feature_names, baseline) ==
  LET active == Selected(FEATURE_GROUPS,
                         {n \in DOMAIN FEATURE_GROUPS : RowsOf(FEATURE_GROUPS[n], feature_names) # {}})
  IN  [n \in DOMAIN active |->
         [group |-> active[n].name, replaced |-> Ablated(active[n], feature_names, baseline)]]

=============================================================================
