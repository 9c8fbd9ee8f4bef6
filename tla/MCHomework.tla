----------------------------- MODULE MCHomework -----------------------------
(* Instances of Homework for TLC.                                           *)
EXTENDS Homework, TLC
=============================================================================
