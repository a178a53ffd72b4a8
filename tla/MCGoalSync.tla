----------------------------- MODULE MCGoalSync -----------------------------
(* Instances of GoalSync for TLC. *)
EXTENDS GoalSync, TLC

Symmetric == Permutations(Device) \cup Permutations(Account)

\* Bound: behaviours are followed until a second of the things happened that excuse
\* a property.
OneMishap ==
  Cardinality(Account \ tidy) + Cardinality(Account \ whole) + (IF late THEN 1 ELSE 0) <= 1

=============================================================================
