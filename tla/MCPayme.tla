------------------------------- MODULE MCPayme -------------------------------
(* Instances of Payme for TLC. OnePlaceOneSub sells a course place and a    *)
(* subscription side by side; AllForOnePlace puts every invoice on one      *)
(* place, the smallest double payment.                                      *)
EXTENDS Payme, TLC

CONSTANTS teacher, student, group

MCTeachers == {teacher}
MCStudents == {student}
MCGroups == {group}
MCOwner == [s \in Subs |-> teacher]
AllForOnePlace == [i \in Invoices |-> <<group, student>>]
OnePlaceOneSub ==
  CHOOSE f \in [Invoices -> Places \cup Subs] : Places \cup Subs \subseteq {f[i] : i \in Invoices}

Symmetry == Permutations(Workers) \cup Permutations(Payments)
=============================================================================
