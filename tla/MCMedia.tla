------------------------------ MODULE MCMedia ------------------------------
(* Instances of Media for TLC.                                              *)
EXTENDS Media, TLC
=============================================================================
