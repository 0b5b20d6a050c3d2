---------------------------- MODULE FeatureConfig ----------------------------
(***************************************************************************)
(* FeatureConfig: the flags that enable features, here the set of those    *)
(* that are on, and what they say of the columns of a feature matrix.      *)
(***************************************************************************)
EXTENDS Integers, Sequences, FiniteSets, SequencesExt, Selection

EmbeddingNames ==
  <<"emb_dot_src_dst", "emb_cosine_src_dst", "emb_l1_src_dst", "emb_l2_src_dst",
    "emb_src_norm", "emb_dst_norm", "emb_norm_ratio", "emb_hadamard_sum", "emb_hadamard_mean">>
StructuralNames ==
  <<"struct_in_degree_src", "struct_out_degree_src", "struct_in_degree_dst",
    "struct_out_degree_dst", "struct_degree_ratio", "struct_common_neighbors",
    "struct_jaccard_coefficient", "struct_adamic_adar_index",
    "struct_preferential_attachment", "struct_resource_allocation",
    "struct_transitive_reachability", "struct_shortest_path", "struct_hierarchy_diff">>
TemporalNames ==
  <<"time_avg_duration", "time_avg_interarrival", "time_regularity", "time_direction_bias",
    "time_initiation_order", "time_crosscorr_max", "time_crosscorr_lag", "time_spike_score">>
FlowNames ==
  <<"flow_response_time", "flow_request_ratio", "flow_direction_asymmetry",
    "flow_causality_score", "flow_src_out_share", "flow_dst_in_share">>
NetworkNames == <<"net_protocol_role", "net_port_role", "net_top_port">>

FeatureNames == EmbeddingNames \o StructuralNames \o TemporalNames \o FlowNames \o NetworkNames

\* One flag stands for two columns.
Flag(name) ==
  IF name \in {"time_crosscorr_max", "time_crosscorr_lag"} THEN "time_crosscorr_peak" ELSE name
AllFeatures == {Flag(name) : name \in ToSet(FeatureNames)}

get_feature_names(config) ==
  Selected(FeatureNames, {n \in DOMAIN FeatureNames : Flag(FeatureNames[n]) \in config})
get_dimension(config) ==
  Cardinality(config) + (IF "time_crosscorr_peak" \in config THEN 1 ELSE 0)

=============================================================================
