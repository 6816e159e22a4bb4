------------------------ MODULE MCAveragedPerceptron ------------------------
(* Small instances of AveragedPerceptron for TLC. *)
EXTENDS AveragedPerceptron
CONSTANTS k1, k2, k3
=============================================================================
