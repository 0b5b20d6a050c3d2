------------------------- MODULE MCEmbeddingTraining -------------------------
(***************************************************************************)
(* An instance of EmbeddingTraining for TLC: three vertices, walks that    *)
(* are shorter than a context, as long as one and longer, that visit a     *)
(* vertex twice or stay at their start.                                    *)
(***************************************************************************)
EXTENDS EmbeddingTraining

MCWalks == {<<0>>, <<0, 1, 0, 2>>, <<0, 1, 2>>, <<1>>, <<1, 2>>, <<1, 1, 0, 2, 0>>, <<2>>, <<2, 0, 1>>}
MCBatchSizes == {None, 1, 2, 3, 9}

=============================================================================
