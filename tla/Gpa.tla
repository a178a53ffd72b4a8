-------------------------------- MODULE Gpa --------------------------------
(***************************************************************************)
(* Grade point averages and semesters, as StatFunction and AuthProvider    *)
(* compute with them.  An average is a number of hundredths: a cumulative  *)
(* one is rounded to two decimals by getCGPA; the result of one semester   *)
(* is taken to the hundredth.                                              *)
(***************************************************************************)
EXTENDS Integers

CONSTANTS
  Years,    \* courseData['year']: the length of the course
  System,   \* the grading system of the university, 4 or 5
  NaN       \* the double that is not a number, 0/0

ASSUME GpaAssumption ==
  /\ Years \in Nat \ {0}
  /\ System \in Nat \ {0}
  /\ NaN \notin Int

\* '-1.0': no average yet.
Unset == -100

\* The averages of courses graded 0 .. System.
Value == 0 .. 100 * System

\* A semester without units has the result 0/0.
Score == Value \cup {NaN}

Position == [level : 1 .. Years, semester : {"1st", "2nd"}]

Start == [level |-> 1, semester |-> "1st"]

Final(p) == p.semester = "2nd" /\ p.level = Years

getCurrentSemester(p) == 2 * (p.level - 1) + (IF p.semester = "2nd" THEN 2 ELSE 1)

\* mutant: the last level is not looked at
incrementAlways(p) ==
  IF p.semester = "1st" THEN [p EXCEPT !.semester = "2nd"]
  ELSE [level |-> p.level + 1, semester |-> "1st"]

\* incrementUser's next level and semester; the last semester has no next one.
increment(p) ==
  IF p.semester = "1st" THEN [p EXCEPT !.semester = "2nd"]
  ELSE IF p.level = Years THEN p
  ELSE [level |-> p.level + 1, semester |-> "1st"]

\* x / n to two decimals.  Which way a tie goes depends on the binary fraction
\* that stands for it.
toStringAsFixed2(x, n) ==
  LET q == x \div n
      r == x % n
  IN  CASE 2 * r < n -> {q}
        [] 2 * r > n -> {q + 1}
        [] OTHER     -> {q, q + 1}

\* mutant: the past average counts for all the semesters
getCGPAAllPast(past, gpa, p) ==
  LET n == getCurrentSemester(p)
  IN  IF past = Unset THEN {gpa}
      ELSE IF NaN \in {past, gpa} THEN {NaN}
      ELSE toStringAsFixed2(past * n + gpa, n)

\* The cumulative average after semester p, of the one before and p's result.
getCGPA(past, gpa, p) ==
  LET n == getCurrentSemester(p)
  IN  IF past = Unset THEN {gpa}
      ELSE IF NaN \in {past, gpa} THEN {NaN}
      ELSE toStringAsFixed2(past * (n - 1) + gpa, n)

\* mutant: the semester to come counts as past
highestGpaLate(u) ==
  LET n == getCurrentSemester(u.at)
  IN  (2 * Years - n) * 100 * System + u.cgpa * n

\* The average of user u at the end of the course with the best results from now on,
\* times the number of semesters.
highestGpa(u) ==
  LET n == getCurrentSemester(u.at)
  IN  (2 * Years - (n - 1)) * 100 * System + u.cgpa * (n - 1)

\* Whether the dashboard calls the goal possible; no comparison with NaN is true.
getGoalPossibility(u, goal) ==
  \/ u.cgpa = Unset
  \/ u.cgpa # NaN /\ highestGpa(u) >= goal * 2 * Years

=============================================================================
