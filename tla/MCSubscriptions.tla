--------------------------- MODULE MCSubscriptions ---------------------------
(* Instances of Subscriptions for TLC: every row belongs to one teacher, so *)
(* that rows compete for the teacher's single open place.                   *)
EXTENDS Subscriptions, TLC

CONSTANTS teacher

MCTeachers == {teacher}
MCOwner == [s \in Subs |-> teacher]

Symmetry == Permutations(Callers) \cup Permutations(Subs)
=============================================================================
