---------------------------- MODULE MCEnrollment ----------------------------
(* Instances of Enrollment for TLC.                                        *)
EXTENDS Enrollment, TLC

Symmetry == Permutations(Callers) \cup Permutations(Places)
=============================================================================
