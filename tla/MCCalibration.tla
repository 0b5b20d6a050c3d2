---------------------------- MODULE MCCalibration ----------------------------
(***************************************************************************)
(* An instance of Calibration for TLC: classes of one, two and three       *)
(* samples, a label that is none of the two, a class without samples.      *)
(***************************************************************************)
EXTENDS Calibration

MCLabelVectors == {<<0, 1>>, <<1, 0, 1>>, <<0, 1, 0, 1>>, <<1, 0, 1, 0, 1>>,
                   <<0, 2, 1>>, <<1, 1>>, <<0, 0>>, << >>}

=============================================================================
