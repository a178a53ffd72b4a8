---------------------------- MODULE MCCalculator ----------------------------
(* Instances of Calculator for TLC. *)
EXTENDS Calculator, TLC

\* Two courses in the first semester, one in the second.
TwoSemesters == <<<<1, 2>>, <<1>>>>

\* Grades are only paired with courses, never compared.
Symmetric == Permutations(Grade)

=============================================================================
