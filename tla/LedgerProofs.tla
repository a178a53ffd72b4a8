---------------------------- MODULE LedgerProofs ----------------------------
(***************************************************************************)
(* The record of semesters, for every course, grading system, result and   *)
(* list, with profile edits and kills at any time: types, the averages of  *)
(* the records and what the dashboard makes of them, what a change of a    *)
(* record may touch, and when list and user may cease to agree.            *)
(***************************************************************************)
EXTENDS Ledger, SequenceTheorems, WellFoundedInduction, TLAPS

-----------------------------------------------------------------------------
(* What getCGPA and incrementUser's next position return, for every length *)
(* of course, grading system and average.                                  *)


\* n = 1, 2, ... counts the semesters up to p.
LEMMA SemesterCounts ==
  ASSUME NEW p \in Position
  PROVE  /\ getCurrentSemester(p) \in 1 .. 2 * Years
         /\ getCurrentSemester(p) = 1 <=> p = Start
         /\ getCurrentSemester(p) = 2 * Years <=> Final(p)
BY GpaAssumption DEF Position, getCurrentSemester, Start, Final

\* The next position of a student is the next semester, and there is none after
\* the last (incrementUser): no semester is left out or repeated before the end.
THEOREM IncrementAdvances ==
  ASSUME NEW p \in Position
  PROVE  /\ increment(p) \in Position
         /\ Final(p) => increment(p) = p
         /\ ~Final(p) => getCurrentSemester(increment(p)) = getCurrentSemester(p) + 1
BY GpaAssumption DEF Position, getCurrentSemester, Final, increment

\* Euclidean division, as the rounding uses it.
LEMMA DivMod ==
  ASSUME NEW x \in Nat, NEW n \in Nat \ {0}
  PROVE  /\ x \div n \in Nat
         /\ x % n \in 0 .. n - 1
         /\ x = n * (x \div n) + (x % n)
OBVIOUS

\* Two decimals are at most half a hundredth away, whichever way a tie goes.
LEMMA FixedIsNear ==
  ASSUME NEW x \in Nat, NEW n \in Nat \ {0}, NEW q \in toStringAsFixed2(x, n)
  PROVE  /\ q \in Nat
         /\ 2 * (n * q) <= 2 * x + n
         /\ 2 * x <= 2 * (n * q) + n
<1> DEFINE d == x \div n
           r == x % n
<1>1. d \in Nat /\ r \in 0 .. n - 1 /\ x = n * d + r
  BY DivMod
<1>2. \/ q = d /\ 2 * r <= n
      \/ q = d + 1 /\ 2 * r >= n
  BY <1>1 DEF toStringAsFixed2
<1> HIDE DEF d, r
<1>3. n * (d + 1) = n * d + n
  BY <1>1
<1> QED
  BY <1>1, <1>2, <1>3

\* The average after a semester is on the scale again, or the number is missing
\* because the past or the semester's was: getCGPA never leaves 0 .. System, and
\* never returns the sentinel -1.0.
THEOREM AverageStaysOnScale ==
  ASSUME NEW past \in Score \cup {Unset}, NEW gpa \in Score, NEW p \in Position
  PROVE  /\ getCGPA(past, gpa, p) \subseteq Score
         /\ past # NaN /\ gpa # NaN => getCGPA(past, gpa, p) \subseteq Value
<1> DEFINE n == getCurrentSemester(p)
           top == 100 * System
<1>1. n \in Nat \ {0} /\ top \in Nat /\ Value = 0 .. top
  BY SemesterCounts, GpaAssumption DEF Value
<1>2. CASE past = Unset
  BY <1>2 DEF getCGPA, Score
<1>3. CASE past # Unset /\ NaN \in {past, gpa}
  BY <1>3 DEF getCGPA, Score
<1>4. CASE past # Unset /\ NaN \notin {past, gpa}
  <2>1. past \in 0 .. top /\ gpa \in 0 .. top
    BY <1>1, <1>4 DEF Score
  <2>2. getCGPA(past, gpa, p) = toStringAsFixed2(past * (n - 1) + gpa, n)
    BY <1>4 DEF getCGPA
  <2> HIDE DEF n, top
  <2>3. PICK x : x = past * (n - 1) + gpa
    OBVIOUS
  <2>4. x \in Nat /\ x <= n * top
    <3>1. past * (n - 1) \in Nat /\ past * (n - 1) <= top * (n - 1)
      BY <1>1, <2>1
    <3>2. top * (n - 1) + top = n * top
      BY <1>1
    <3> QED
      BY <1>1, <2>1, <2>3, <3>1, <3>2
  <2>5. ASSUME NEW q \in toStringAsFixed2(x, n)
        PROVE  q \in 0 .. top
    <3>1. q \in Nat /\ 2 * (n * q) <= 2 * x + n
      BY <1>1, <2>4, FixedIsNear
    <3>2. ASSUME q >= top + 1
          PROVE  FALSE
      <4>1. n * q >= n * top + n
        BY <1>1, <3>1, <3>2
      <4> QED
        BY <1>1, <2>4, <3>1, <4>1
    <3> QED
      BY <1>1, <3>1, <3>2
  <2> QED
    BY <1>1, <2>2, <2>3, <2>5 DEF Score
<1> QED
  BY <1>2, <1>3, <1>4

\* Recording a semester never raises what the dashboard holds possible
\* (stats_function.dart:36) by more than the rounding of one average: a goal that is
\* out of reach does not come back into it.
THEOREM HopeOnlyFalls ==
  ASSUME NEW past \in Value, NEW gpa \in Value, NEW p \in Position, ~Final(p),
         NEW c \in getCGPA(past, gpa, p)
  PROVE  2 * highestGpa([cgpa |-> c, at |-> increment(p)])
           <= 2 * highestGpa([cgpa |-> past, at |-> p]) + getCurrentSemester(p)
<1> DEFINE n == getCurrentSemester(p)
           top == 100 * System
           all == 2 * Years
<1>1. n \in Nat \ {0} /\ n \in 1 .. all /\ all \in Nat /\ top \in Nat /\ Value = 0 .. top
  BY SemesterCounts, GpaAssumption DEF Value
<1>2. past \in 0 .. top /\ gpa \in 0 .. top /\ past # Unset /\ NaN \notin {past, gpa}
  BY <1>1, GpaAssumption DEF Unset
<1>3. c \in toStringAsFixed2(past * (n - 1) + gpa, n)
  BY <1>2 DEF getCGPA
<1>4. getCurrentSemester(increment(p)) = n + 1
  BY IncrementAdvances
<1>5. /\ highestGpa([cgpa |-> c, at |-> increment(p)]) = (all - n) * top + c * n
      /\ highestGpa([cgpa |-> past, at |-> p]) = (all - (n - 1)) * top + past * (n - 1)
  <2>1. highestGpa([cgpa |-> past, at |-> p]) = (all - (n - 1)) * top + past * (n - 1)
    BY <1>1, GpaAssumption DEF highestGpa
  <2>2. highestGpa([cgpa |-> c, at |-> increment(p)]) = (all - (n + 1 - 1)) * top + c * (n + 1 - 1)
    BY <1>1, <1>4, GpaAssumption DEF highestGpa
  <2>3. n + 1 - 1 = n
    BY <1>1
  <2> QED
    BY <2>1, <2>2, <2>3
<1> HIDE DEF n, top, all
<1>6. PICK x : x = past * (n - 1)
  OBVIOUS
<1>7. x \in Nat
  BY <1>1, <1>2, <1>6
<1>8. c \in Nat /\ 2 * (n * c) <= 2 * (x + gpa) + n
  <2>1. c \in toStringAsFixed2(x + gpa, n)
    BY <1>3, <1>6
  <2>2. x + gpa \in Nat
    BY <1>1, <1>2, <1>7
  <2> QED
    BY <1>1, <2>1, <2>2, FixedIsNear
<1>9. PICK y : y = (all - n) * top
  OBVIOUS
<1>10. y \in Int /\ (all - (n - 1)) * top = y + top
  BY <1>1, <1>9
<1>11. PICK z \in Nat : z = n * c /\ c * n = z
  BY <1>1, <1>8
<1>12. 2 * (y + z) <= 2 * (y + top + x) + n
  BY <1>1, <1>2, <1>7, <1>8, <1>10, <1>11
<1> QED
  BY <1>5, <1>6, <1>9, <1>10, <1>11, <1>12 DEF n

-----------------------------------------------------------------------------
(* Induction and recursion over the natural numbers, without operators as  *)
(* parameters.                                                             *)

\* A set with 0 and the successor of each of its numbers has them all.
LEMMA SetInduction ==
  ASSUME NEW S, 0 \in S, \A n \in Nat : n \in S => n + 1 \in S
  PROVE  Nat \subseteq S
<1> DEFINE T == Nat \ S
           R == {ss \in Nat \X Nat : ss[1] < ss[2]}
<1>1. IsWellFoundedOn(R, Nat)
  BY NatLessThanWellFounded DEF OpToRel
<1>2. ASSUME T # {}
      PROVE  FALSE
  <2>1. \E x \in T : \A y \in T : ~ (<<y, x>> \in R)
    <3>1. T \subseteq Nat
      OBVIOUS
    <3> HIDE DEF T, R
    <3> QED
      BY <1>1, <1>2, <3>1, WFMin
  <2>2. PICK x \in T : \A y \in T : ~ (y < x)
    BY <2>1
  <2>3. x \in Nat \ {0}
    OBVIOUS
  <2>4. x - 1 \in Nat /\ x - 1 \notin T
    BY <2>2, <2>3
  <2>5. (x - 1) + 1 \in S
    BY <2>4
  <2> QED
    BY <2>3, <2>5
<1> QED
  BY <1>2

\* Total's sum satisfies its recursion.
LEMMA SumExists ==
  ASSUME NEW list
  PROVE  \A n \in Nat : \E sum :
           sum = [k \in 0 .. n |-> IF k = 0 THEN 0 ELSE sum[k - 1] + list[k].gpa]
<1> DEFINE Body(sum, n) == [k \in 0 .. n |-> IF k = 0 THEN 0 ELSE sum[k - 1] + list[k].gpa]
           S == {n \in Nat : \E sum : sum = Body(sum, n)}
<1>1. 0 \in S
  <2>1. [k \in 0 .. 0 |-> 0] = Body([k \in 0 .. 0 |-> 0], 0)
    OBVIOUS
  <2> QED
    BY <2>1
<1>2. ASSUME NEW n \in Nat, n \in S
      PROVE  n + 1 \in S
  <2>1. PICK sum : sum = Body(sum, n)
    BY <1>2
  <2>2. PICK next : next = [k \in 0 .. n + 1 |-> IF k \in 0 .. n THEN sum[k]
                                                 ELSE sum[n] + list[n + 1].gpa]
    OBVIOUS
  <2>3. ASSUME NEW k \in 0 .. n + 1
        PROVE  next[k] = IF k = 0 THEN 0 ELSE next[k - 1] + list[k].gpa
    BY <2>1, <2>2
  <2>4. next = Body(next, n + 1)
    BY <2>2, <2>3
  <2> QED
    BY <2>4
<1> HIDE DEF S
<1>3. Nat \subseteq S
  BY <1>1, <1>2, SetInduction
<1> QED
  BY <1>3 DEF S

\* The total of a list grows by the result of each record.
LEMMA TotalGrows ==
  ASSUME NEW list, Len(list) \in Nat
  PROVE  \E sum : /\ Total(list) = sum[Len(list)]
                  /\ sum[0] = 0
                  /\ \A k \in 1 .. Len(list) : sum[k] = sum[k - 1] + list[k].gpa
<1> DEFINE sum[k \in 0 .. Len(list)] == IF k = 0 THEN 0 ELSE sum[k - 1] + list[k].gpa
<1>1. Total(list) = sum[Len(list)]
  BY DEF Total
<1>2. sum = [k \in 0 .. Len(list) |-> IF k = 0 THEN 0 ELSE sum[k - 1] + list[k].gpa]
  BY SumExists
<1> HIDE DEF sum
<1> QED
  BY <1>1, <1>2
-----------------------------------------------------------------------------
(* What a change of a record makes of the list.                            *)

\* A record as the program makes them: it follows from what it holds.
GoodUpdate == {u \in Update : u.cgpa \in getCGPA(u.past, u.gpa, u.at)}

\* The lists in before, each with what editUpdates puts at k.
EditAt(old, update, edited, before, k) ==
  UNION {{Append(new, u) : u \in IF k < edited THEN {old[k]}
                                 ELSE IF k = edited THEN {update}
                                 ELSE replaceUpdate(old[k], new[k - 1])} :
         new \in before}

\* The recursion of editUpdates' upTo.
IsEdit(old, update, edited, n, upTo) ==
  upTo = [k \in 0 .. n |-> IF k = 0 THEN {<<>>}
                           ELSE EditAt(old, update, edited, upTo[k - 1], k)]

\* It has a solution.
LEMMA EditExists ==
  ASSUME NEW old, NEW update, NEW edited
  PROVE  \A n \in Nat : \E upTo : IsEdit(old, update, edited, n, upTo)
<1> DEFINE S == {n \in Nat : \E upTo : IsEdit(old, update, edited, n, upTo)}
<1>1. 0 \in S
  <2>1. IsEdit(old, update, edited, 0, [k \in 0 .. 0 |-> {<<>>}])
    BY DEF IsEdit
  <2> QED
    BY <2>1
<1>2. ASSUME NEW n \in Nat, n \in S
      PROVE  n + 1 \in S
  <2>1. PICK upTo : IsEdit(old, update, edited, n, upTo)
    BY <1>2
  <2>2. PICK next : next = [k \in 0 .. n + 1 |->
                              IF k \in 0 .. n THEN upTo[k]
                              ELSE EditAt(old, update, edited, upTo[n], n + 1)]
    OBVIOUS
  <2>3. ASSUME NEW k \in 0 .. n + 1
        PROVE  next[k] = IF k = 0 THEN {<<>>}
                         ELSE EditAt(old, update, edited, next[k - 1], k)
    <3>1. CASE k \in 0 .. n
      <4>1. next[k] = upTo[k] /\ (k # 0 => k - 1 \in 0 .. n /\ next[k - 1] = upTo[k - 1])
        BY <2>2, <3>1
      <4>2. upTo[k] = IF k = 0 THEN {<<>>}
                      ELSE EditAt(old, update, edited, upTo[k - 1], k)
        BY <2>1, <3>1 DEF IsEdit
      <4> QED
        BY <4>1, <4>2
    <3>2. CASE k = n + 1
      <4>1. k - 1 = n /\ k # 0 /\ k \notin 0 .. n /\ n \in 0 .. n + 1 /\ n \in 0 .. n
        BY <3>2
      <4>2. next[k] = EditAt(old, update, edited, upTo[n], k) /\ next[n] = upTo[n]
        BY <2>2, <3>2, <4>1
      <4> QED
        BY <4>1, <4>2
    <3> QED
      BY <3>1, <3>2
  <2>4. IsEdit(old, update, edited, n + 1, next)
    BY <2>2, <2>3 DEF IsEdit
  <2> QED
    BY <2>4
<1> HIDE DEF S
<1>3. Nat \subseteq S
  BY <1>1, <1>2, SetInduction
<1> QED
  BY <1>3 DEF S

LEMMA EditUpTo ==
  ASSUME NEW old, Len(old) \in Nat, NEW update, NEW index
  PROVE  \E upTo : /\ IsEdit(old, update, Len(old) + 1 - index, Len(old), upTo)
                   /\ editUpdates(old, update, index) = upTo[Len(old)]
<1> DEFINE edited == Len(old) + 1 - index
           upTo[k \in 0 .. Len(old)] ==
             IF k = 0 THEN {<<>>}
             ELSE UNION {{Append(new, u) : u \in IF k < edited THEN {old[k]}
                                                 ELSE IF k = edited THEN {update}
                                                 ELSE replaceUpdate(old[k], new[k - 1])} :
                         new \in upTo[k - 1]}
<1>1. editUpdates(old, update, index) = upTo[Len(old)]
  BY DEF editUpdates
<1>2. IsEdit(old, update, edited, Len(old), upTo)
  <2>1. \E f : IsEdit(old, update, edited, Len(old), f)
    <3> HIDE DEF edited
    <3> QED
      BY EditExists
  <2>2. upTo = CHOOSE f : IsEdit(old, update, edited, Len(old), f)
    BY DEF EditAt, IsEdit
  <2> HIDE DEF upTo, edited
  <2> QED
    BY <2>1, <2>2
<1> HIDE DEF upTo
<1> QED
  BY <1>1, <1>2

\* -1.0 is not the result of a semester.
LEMMA UnsetIsNoScore == Unset \notin Score
  BY GpaAssumption DEF Unset, Score, Value

\* A record that follows a new average is again one as the program makes them, of
\* the same semester and with the same result.
LEMMA ReplaceFollows ==
  ASSUME NEW this \in GoodUpdate, NEW past \in GoodUpdate, NEW u \in replaceUpdate(this, past)
  PROVE  u \in GoodUpdate /\ u.at = this.at /\ u.gpa = this.gpa /\ u.past = past.cgpa
<1>1. this \in Update /\ past.cgpa \in Score
  BY DEF GoodUpdate, Update
<1>2. PICK c \in getCGPA(past.cgpa, this.gpa, this.at) :
        u = [this EXCEPT !.cgpa = c, !.past = past.cgpa]
  BY DEF replaceUpdate
<1>3. this.gpa \in Score /\ this.at \in Position
  BY <1>1 DEF Update
<1>4. c \in Score
  BY <1>1, <1>2, <1>3, AverageStaysOnScale
<1>5. u \in Update /\ u.cgpa = c /\ u.past = past.cgpa /\ u.gpa = this.gpa /\ u.at = this.at
  BY <1>1, <1>2, <1>4 DEF Update, Cgpa
<1> QED
  BY <1>2, <1>5 DEF GoodUpdate

\* The k-th record of a list after the change of the edited-th.
EditedAs(old, update, edited, new, k) ==
  /\ k < edited => new[k] = old[k]
  /\ k = edited => new[k] = update
  /\ k > edited => new[k] \in replaceUpdate(old[k], new[k - 1])

\* A change keeps the length of the list: the older records are as they were, the
\* edited one is the update, and each newer one follows from the one before it.
LEMMA EditFollows ==
  ASSUME NEW old \in Seq(GoodUpdate), NEW update \in GoodUpdate, NEW index \in 1 .. Len(old),
         NEW new \in editUpdates(old, update, index)
  PROVE  /\ new \in Seq(GoodUpdate)
         /\ Len(new) = Len(old)
         /\ \A k \in 1 .. Len(old) : EditedAs(old, update, Len(old) + 1 - index, new, k)
<1>1. PICK n \in Nat : n = Len(old)
  OBVIOUS
<1>2. PICK edited \in 1 .. n : edited = Len(old) + 1 - index
  BY <1>1
<1>3. PICK upTo : /\ editUpdates(old, update, index) = upTo[n]
                  /\ upTo[0] = {<<>>}
                  /\ \A k \in 1 .. n : upTo[k] = EditAt(old, update, edited, upTo[k - 1], k)
  <2>1. Len(old) \in Nat
    OBVIOUS
  <2>2. PICK f : /\ IsEdit(old, update, Len(old) + 1 - index, Len(old), f)
                 /\ editUpdates(old, update, index) = f[Len(old)]
    BY <2>1, EditUpTo
  <2>3. IsEdit(old, update, edited, n, f)
    BY <1>1, <1>2, <2>2
  <2>4. f[0] = {<<>>}
    BY <2>3 DEF IsEdit
  <2>5. ASSUME NEW k \in 1 .. n
        PROVE  f[k] = EditAt(old, update, edited, f[k - 1], k)
    <3>1. k \in 0 .. n /\ k # 0
      OBVIOUS
    <3> QED
      BY <2>3, <3>1 DEF IsEdit
  <2> QED
    BY <1>1, <2>2, <2>4, <2>5
<1> DEFINE Edited(l, k) == /\ l \in Seq(GoodUpdate)
                           /\ Len(l) = k
                           /\ \A j \in 1 .. k : EditedAs(old, update, edited, l, j)
           S == {k \in Nat : k <= n => \A l \in upTo[k] : Edited(l, k)}
<1>4. 0 \in S
  <2>1. Edited(<<>>, 0)
    BY EmptySeq
  <2> QED
    BY <1>3, <2>1
<1>5. ASSUME NEW k \in Nat, k \in S, k + 1 <= n, NEW l \in upTo[k + 1]
      PROVE  Edited(l, k + 1)
  <2>1. k + 1 \in 1 .. n /\ k + 1 - 1 = k
    BY <1>5
  <2>2. PICK before, u :
          /\ before \in upTo[k]
          /\ l = Append(before, u)
          /\ u \in IF k + 1 < edited THEN {old[k + 1]}
                    ELSE IF k + 1 = edited THEN {update}
                    ELSE replaceUpdate(old[k + 1], before[k])
    BY <1>3, <2>1 DEF EditAt
  <2>3. Edited(before, k)
    BY <1>5, <2>2
  <2>4. old[k + 1] \in GoodUpdate
    BY <1>1, <2>1
  <2>5. u \in GoodUpdate
    <3>1. CASE k + 1 > edited
      <4>1. before[k] \in GoodUpdate
        BY <2>3, <3>1
      <4>2. u \in replaceUpdate(old[k + 1], before[k])
        BY <2>2, <3>1
      <4> QED
        BY <2>4, <4>1, <4>2, ReplaceFollows
    <3> QED
      BY <2>2, <2>4, <3>1
  <2>6. /\ l \in Seq(GoodUpdate) /\ Len(l) = k + 1 /\ l[k + 1] = u
        /\ \A j \in 1 .. k : l[j] = before[j]
    BY <2>2, <2>3, <2>5
  <2>7. ASSUME NEW j \in 1 .. k + 1
        PROVE  EditedAs(old, update, edited, l, j)
    <3>1. CASE j <= k
      <4>1. EditedAs(old, update, edited, before, j) /\ l[j] = before[j]
        BY <2>3, <2>6, <3>1
      <4>2. j > edited => l[j - 1] = before[j - 1]
        BY <2>6, <3>1
      <4> QED
        BY <4>1, <4>2 DEF EditedAs
    <3>2. CASE j = k + 1
      <4>1. j > edited => l[k] = before[k]
        BY <2>6, <3>2
      <4> QED
        BY <2>2, <2>6, <3>2, <4>1 DEF EditedAs
    <3> QED
      BY <3>1, <3>2
  <2> QED
    BY <2>6, <2>7
<1> HIDE DEF Edited
<1>6. Nat \subseteq S
  <2>1. \A k \in Nat : k \in S => k + 1 \in S
    BY <1>5
  <2> HIDE DEF S
  <2> QED
    BY <1>4, <2>1, SetInduction
<1>7. Edited(new, n)
  BY <1>3, <1>6
<1> QED
  BY <1>1, <1>2, <1>7 DEF Edited

-----------------------------------------------------------------------------
(* The invariant.                                                          *)

Types ==
  /\ user \in User
  /\ userBox \in Seq(User) /\ userBox # <<>>
  /\ updateBox \in Seq(Seq(GoodUpdate)) /\ updateBox # <<>>
  /\ screen \in {"home", "dashboard", "form", "result", "past", "editor"}
  /\ shown \in [home : Seq(GoodUpdate), past : Seq(GoodUpdate)]
  /\ unread \in BOOLEAN
  /\ form \in [past : Cgpa, at : Position, index : Nat, from : {"home", "past", "dashboard"}]
  /\ waiting \in BOOLEAN
  /\ profile \subseteq User

\* Which screens hold a list, and which one the screen on top was pushed on.
Screens ==
  /\ screen \notin {"past", "editor"} => shown.past = <<>>
  /\ screen = "editor" /\ form.from # "past" => shown.past = <<>>
  /\ screen = "editor" => form.from \in {"home", "past"}
  /\ screen \in {"form", "result"} => form.from = "dashboard"

\* Two lists of the same semesters.
SameSemesters(s, t) == Len(s) = Len(t) /\ \A k \in 1 .. Len(s) : s[k].at = t[k].at

\* The list of the past semesters may have old averages, but it is of the semesters
\* of the list there is, and an editor opened from it is open on one of them.  One
\* opened from the home tab is open on the newest record of the tab's list, of
\* whatever semester that is.
Lists ==
  /\ shown.past # <<>> => SameSemesters(shown.past, updates)
  /\ screen = "editor" /\ form.from = "past" =>
       /\ form.index \in 1 .. Len(updates)
       /\ form.at = updates[Len(updates) + 1 - form.index].at
  /\ screen = "editor" /\ form.from = "home" =>
       form.index = 1 /\ form.at = Last(shown.home).at

\* With no put of the user under way, the user on disk is the one in memory.
Saved == Len(userBox) = 1 => userBox[1] = user

IInv == Types /\ Screens /\ Lists /\ Saved

LEMMA LastOf ==
  ASSUME NEW S, NEW box \in Seq(S), box # <<>>
  PROVE  /\ Last(box) \in S
         /\ Len(box) \in Nat \ {0}
BY DEF Last

\* What a put, a put that completes, and a restart make of a box.
LEMMA PutIn ==
  ASSUME NEW S, NEW box \in Seq(S), box # <<>>, NEW value \in S
  PROVE  /\ Append(box, value) \in Seq(S) /\ Append(box, value) # <<>>
         /\ Last(Append(box, value)) = value
         /\ Len(Append(box, value)) = Len(box) + 1
         /\ Len(Append(box, value)) > 1
BY DEF Last

LEMMA FlushOf ==
  ASSUME NEW S, NEW box \in Seq(S), Len(box) > 1
  PROVE  /\ Tail(box) \in Seq(S) /\ Tail(box) # <<>>
         /\ Last(Tail(box)) = Last(box)
         /\ Tail(box)[1] = box[2] /\ box[2] \in S
BY DEF Last

LEMMA OneIn ==
  ASSUME NEW S, NEW value \in S
  PROVE  /\ <<value>> \in Seq(S) /\ <<value>> # <<>>
         /\ Last(<<value>>) = value /\ <<value>>[1] = value
         /\ Len(<<value>>) = 1
BY DEF Last

\* Every profile the screen accepts is a user.
LEMMA ProfilesGood ==
  ASSUME NEW u, u.cgpa \in Cgpa, NEW p \in Profiles(u)
  PROVE  p \in User
<1>1. p \in [cgpa : Typed \cup {u.cgpa, Unset}, at : Position]
  BY GpaAssumption DEF Profiles, Start, Position
<1>2. Typed \cup {u.cgpa, Unset} \subseteq Cgpa
  BY LedgerAssumption DEF Cgpa, Score
<1> QED
  BY <1>1, <1>2 DEF User

\* A record made of what a screen captured is one as the program makes them.
LEMMA RecordGood ==
  ASSUME NEW past \in Cgpa, NEW at \in Position,
         NEW result \in Score, NEW c \in getCGPA(past, result, at)
  PROVE  /\ c \in Score
         /\ [gpa |-> result, cgpa |-> c, past |-> past, at |-> at] \in GoodUpdate
<1>1. c \in Score
  BY AverageStaysOnScale DEF Cgpa
<1> QED
  BY <1>1 DEF GoodUpdate, Update

LEMMA InvInit == Init => IInv
<1> SUFFICES ASSUME Init PROVE IInv
  OBVIOUS
<1>1. user \in User
  BY ProfilesGood DEF Init, Cgpa
<1>2. <<>> \in Seq(GoodUpdate)
  BY EmptySeq
<1>3. Start \in Position
  BY GpaAssumption DEF Start, Position
<1>4. Types
  <2>1. userBox \in Seq(User) /\ userBox # <<>>
    BY <1>1, OneIn DEF Init
  <2>2. updateBox \in Seq(Seq(GoodUpdate)) /\ updateBox # <<>>
    BY <1>2, OneIn DEF Init
  <2> QED
    BY <1>1, <1>2, <1>3, <2>1, <2>2 DEF Init, Types, NoForm, Cgpa
<1>5. Screens
  BY DEF Init, Screens, NoForm
<1>6. Lists
  BY DEF Init, Lists, NoForm
<1>7. Saved
  BY <1>1, OneIn DEF Init, Saved
<1> QED
  BY <1>4, <1>5, <1>6, <1>7 DEF IInv

\* The list there is, and the user there will be.
LEMMA Current ==
  ASSUME Types
  PROVE  /\ updates \in Seq(GoodUpdate) /\ Len(updates) \in Nat
         /\ Last(userBox) \in User
BY LastOf DEF Types, updates

\* A put of a list, and of a user.
LEMMA ListPut ==
  ASSUME Types, NEW list \in Seq(GoodUpdate), Put(updateBox, list)
  PROVE  /\ updateBox' \in Seq(Seq(GoodUpdate)) /\ updateBox' # <<>>
         /\ updates' = list
<1>1. PICK S : S = Seq(GoodUpdate)
  OBVIOUS
<1>2. updateBox \in Seq(S) /\ updateBox # <<>> /\ list \in S /\ updateBox' = Append(updateBox, list)
  BY <1>1 DEF Types, Put
<1>3. /\ Append(updateBox, list) \in Seq(S) /\ Append(updateBox, list) # <<>>
      /\ Last(Append(updateBox, list)) = list
  BY <1>2, PutIn
<1> QED
  BY <1>1, <1>2, <1>3 DEF updates

LEMMA UserPut ==
  ASSUME Types, NEW u \in User, Put(userBox, u)
  PROVE  /\ userBox' \in Seq(User) /\ userBox' # <<>> /\ Len(userBox') > 1
         /\ Last(userBox') = u
BY PutIn DEF Types, Put

LEMMA InvRecording == IInv /\ Recording => IInv'
<1> SUFFICES ASSUME IInv, Recording PROVE IInv'
  OBVIOUS
<1> USE DEF IInv
<1>0. updates \in Seq(GoodUpdate) /\ <<>> \in Seq(GoodUpdate) /\ NoForm.index = 0
  BY Current, EmptySeq DEF NoForm
<1>a. ASSUME form' = NoForm
      PROVE  /\ form' \in [past : Cgpa, at : Position, index : Nat, from : {"home", "past", "dashboard"}]
             /\ form'.index = 0
  BY <1>a, GpaAssumption DEF NoForm, Cgpa, Start, Position
<1>b. ASSUME UNCHANGED boxes
      PROVE  updates' = updates
  BY <1>b DEF boxes, updates
<1>1. CASE OpenDashboard
  <2>1. UNCHANGED <<user, boxes, form, waiting, profile>> /\ updates' = updates
    BY <1>1, <1>b DEF OpenDashboard
  <2>2. Types'
    BY <1>0, <1>1, <2>1 DEF OpenDashboard, Types, boxes
  <2>3. Screens'
    BY <1>1, <2>1 DEF OpenDashboard, Screens, Types
  <2>4. Lists'
    BY <1>1, <2>1 DEF OpenDashboard, Lists, Types
  <2>5. Saved'
    BY <2>1 DEF Saved, boxes
  <2> QED
    BY <2>2, <2>3, <2>4, <2>5
<1>2. CASE OpenForm
  <2>1. UNCHANGED <<user, boxes, shown, waiting, profile>> /\ updates' = updates
    BY <1>2, <1>b DEF OpenForm
  <2>2. Types'
    BY <1>2, <2>1 DEF OpenForm, Types, boxes, User
  <2>3. Screens'
    BY <1>2, <2>1 DEF OpenForm, Screens, Types
  <2>4. Lists'
    BY <1>2, <2>1 DEF OpenForm, Lists, Types
  <2>5. Saved'
    BY <2>1 DEF Saved, boxes
  <2> QED
    BY <2>2, <2>3, <2>4, <2>5
<1>3. ASSUME NEW result \in Results, Submit(result)
      PROVE  IInv'
  <2>1. PICK c \in getCGPA(form.past, result, form.at) :
          /\ Put(updateBox, Append(updates, [gpa |-> result, cgpa |-> c,
                                             past |-> form.past, at |-> form.at]))
          /\ Put(userBox, [cgpa |-> c, at |-> increment(user.at)])
    BY <1>3 DEF Submit
  <2>2. PICK u, new : /\ u = [gpa |-> result, cgpa |-> c, past |-> form.past, at |-> form.at]
                      /\ new = [cgpa |-> c, at |-> increment(user.at)]
    OBVIOUS
  <2>3. u \in GoodUpdate /\ c \in Score
    <3>1. /\ form.past \in Cgpa /\ form.at \in Position /\ result \in Score
      BY LedgerAssumption DEF Types
    <3> QED
      BY <2>2, <3>1, RecordGood
  <2>4. new \in User
    <3>1. user.at \in Position
      BY DEF Types, User
    <3>2. increment(user.at) \in Position
      BY <3>1, IncrementAdvances
    <3> QED
      BY <2>2, <2>3, <3>2, UnsetIsNoScore DEF User, Cgpa
  <2>5. Append(updates, u) \in Seq(GoodUpdate)
    BY <1>0, <2>3
  <2>6. /\ Put(updateBox, Append(updates, u)) /\ Put(userBox, new)
        /\ UNCHANGED <<user, shown, unread, form, waiting, profile>>
        /\ screen = "form" /\ screen' = "result"
    BY <1>3, <2>1, <2>2 DEF Submit
  <2>7. updateBox' \in Seq(Seq(GoodUpdate)) /\ updateBox' # <<>>
    <3>1. PICK list \in Seq(GoodUpdate) : list = Append(updates, u)
      BY <2>5
    <3> QED
      BY <2>6, <3>1, ListPut
  <2>8. userBox' \in Seq(User) /\ userBox' # <<>> /\ Len(userBox') > 1
    BY <2>4, <2>6, UserPut
  <2>9. Types'
    BY <2>6, <2>7, <2>8 DEF Types
  <2>10. Screens'
    BY <2>6 DEF Screens
  <2>11. shown.past = <<>>
    BY <2>6 DEF Screens
  <2>12. Lists'
    BY <2>6, <2>11 DEF Lists
  <2>13. Saved'
    BY <2>8 DEF Saved
  <2> QED
    BY <2>9, <2>10, <2>12, <2>13
<1>4. CASE GoHome
  <2>1. UNCHANGED <<user, boxes, waiting, profile>> /\ updates' = updates
    BY <1>4, <1>b DEF GoHome
  <2>2. form' = NoForm /\ screen' = "home" /\ shown' = [home |-> updates, past |-> <<>>]
        /\ unread' = FALSE
    BY <1>4 DEF GoHome
  <2>3. Types'
    BY <1>0, <1>a, <2>1, <2>2 DEF Types, boxes
  <2>4. Screens'
    BY <1>a, <2>2 DEF Screens
  <2>5. Lists'
    BY <1>0, <2>1, <2>2 DEF Lists, SameSemesters
  <2>6. Saved'
    BY <2>1 DEF Saved, boxes
  <2> QED
    BY <2>3, <2>4, <2>5, <2>6
<1>5. CASE Back
  <2>0. UNCHANGED <<user, boxes, profile>> /\ updates' = updates
    BY <1>5, <1>b DEF Back
  <2>1. CASE screen = "result" /\ screen' = "form" /\ UNCHANGED <<shown, unread, form, waiting>>
    <3>1. Types'
      BY <2>0, <2>1 DEF Types, boxes
    <3>2. Screens' /\ Lists'
      BY <2>0, <2>1 DEF Screens, Lists
    <3> QED
      BY <2>0, <3>1, <3>2 DEF Saved, boxes
  <2>2. CASE /\ screen \in {"form", "editor"} /\ screen' = form.from /\ form' = NoForm
             /\ waiting' = FALSE /\ UNCHANGED <<shown, unread>>
    <3>1. Types'
      BY <1>a, <2>0, <2>2 DEF Types, boxes
    <3>2. Screens'
      BY <1>a, <2>2 DEF Screens, Types
    <3>3. Lists'
      BY <2>0, <2>2 DEF Lists, Types
    <3> QED
      BY <2>0, <3>1, <3>2, <3>3 DEF Saved, boxes
  <2>3. CASE /\ screen \in {"dashboard", "past"} /\ screen' = "home"
             /\ shown' = [shown EXCEPT !.past = <<>>]
             /\ unread' = FALSE /\ UNCHANGED <<form, waiting>>
    <3>1. Types'
      BY <1>0, <2>0, <2>3 DEF Types, boxes
    <3>2. Screens'
      BY <2>3 DEF Screens
    <3>3. Lists'
      BY <1>0, <2>0, <2>3 DEF Lists, SameSemesters, Types
    <3> QED
      BY <2>0, <3>1, <3>2, <3>3 DEF Saved, boxes
  <2> QED
    BY <1>5, <2>1, <2>2, <2>3 DEF Back
<1> QED
  BY <1>1, <1>2, <1>3, <1>4, <1>5 DEF Recording

\* What SubmitEdit makes of the list and the user.
Changes(u, new, next) ==
  /\ u.past = form.past
  /\ u.at = form.at
  /\ Put(updateBox, new)
  /\ next = [user EXCEPT !.cgpa = Last(new).cgpa]
  /\ user' = next
  /\ Put(userBox, next)
  /\ form.index \in 1 .. Len(updates)
  /\ Len(new) = Len(updates)
  /\ \A k \in 1 .. Len(updates) :
       /\ EditedAs(updates, u, Len(updates) + 1 - form.index, new, k)
       /\ k # Len(updates) + 1 - form.index => new[k].at = updates[k].at

LEMMA Changed ==
  ASSUME IInv, NEW result \in Corrections, SubmitEdit(result)
  PROVE  \E u \in GoodUpdate, new \in Seq(GoodUpdate), next \in User : Changes(u, new, next)
<1> USE DEF IInv
<1>1. PICK c, u, new :
        /\ c \in getCGPA(form.past, result, form.at)
        /\ u = [gpa |-> result, cgpa |-> c, past |-> form.past, at |-> form.at]
        /\ new \in editUpdates(updates, u, form.index)
        /\ Put(updateBox, new)
        /\ user' = [user EXCEPT !.cgpa = Last(new).cgpa]
        /\ Put(userBox, user')
        /\ screen = "editor" /\ form.index <= Len(updates)
  BY DEF SubmitEdit
<1>2. u \in GoodUpdate
  <2>1. /\ form.past \in Cgpa /\ form.at \in Position /\ result \in Score
    BY LedgerAssumption DEF Types
  <2> QED
    BY <1>1, <2>1, RecordGood
<1>3. PICK old \in Seq(GoodUpdate) : old = updates
  BY Current
<1>4. PICK index \in 1 .. Len(old) : index = form.index
  <2>1. form.index \in Nat /\ form.index >= 1
    BY <1>1 DEF Types, Screens, Lists
  <2> QED
    BY <1>1, <1>3, <2>1
<1>5. /\ new \in Seq(GoodUpdate) /\ Len(new) = Len(old)
      /\ \A k \in 1 .. Len(old) : EditedAs(old, u, Len(old) + 1 - index, new, k)
  BY <1>1, <1>2, <1>3, <1>4, EditFollows
<1>6. ASSUME NEW k \in 1 .. Len(old), k # Len(old) + 1 - index
      PROVE  new[k].at = old[k].at
  <2>1. EditedAs(old, u, Len(old) + 1 - index, new, k)
    BY <1>5
  <2>2. CASE k > Len(old) + 1 - index
    <3>1. /\ new[k] \in replaceUpdate(old[k], new[k - 1])
          /\ old[k] \in GoodUpdate /\ new[k - 1] \in GoodUpdate
      BY <1>4, <1>5, <2>1, <2>2 DEF EditedAs
    <3> QED
      BY <3>1, ReplaceFollows
  <2> QED
    BY <1>4, <1>6, <2>1, <2>2 DEF EditedAs
<1>7. Last(new) \in GoodUpdate
  BY <1>4, <1>5, LastOf
<1>8. PICK next \in User : next = user'
  BY <1>1, <1>7, UnsetIsNoScore DEF Types, User, GoodUpdate, Update, Cgpa
<1>9. Changes(u, new, next)
  BY <1>1, <1>3, <1>4, <1>5, <1>6, <1>8 DEF Changes
<1> QED
  BY <1>2, <1>5, <1>9

\* If the record put in place of another is of its semester, the list is of the same
\* semesters as before.
LEMMA ChangedSemesters ==
  ASSUME NEW old \in Seq(GoodUpdate), NEW new, NEW edited \in 1 .. Len(old), NEW u,
         Len(new) = Len(old), u.at = old[edited].at, new[edited] = u,
         \A k \in 1 .. Len(old) : k # edited => new[k].at = old[k].at
  PROVE  SameSemesters(new, old)
BY DEF SameSemesters

\* A record changed from the past semesters keeps its semester, so their list is still
\* of the semesters of the list there is.
LEMMA InvEditing == IInv /\ Editing => IInv'
<1> SUFFICES ASSUME IInv, Editing PROVE IInv'
  OBVIOUS
<1> USE DEF IInv
<1>0. updates \in Seq(GoodUpdate) /\ <<>> \in Seq(GoodUpdate)
  BY Current, EmptySeq
<1>a. ASSUME form' = NoForm
      PROVE  /\ form' \in [past : Cgpa, at : Position, index : Nat, from : {"home", "past", "dashboard"}]
             /\ form'.index = 0
  BY <1>a, GpaAssumption DEF NoForm, Cgpa, Start, Position
<1>b. ASSUME UNCHANGED boxes
      PROVE  updates' = updates
  BY <1>b DEF boxes, updates
<1>1. CASE SwitchTab
  <2>1. updates' = updates
    BY <1>1, <1>b DEF SwitchTab
  <2>2. Types'
    BY <1>0, <1>1 DEF SwitchTab, Types, boxes
  <2>3. Screens' /\ Lists'
    BY <1>0, <1>1, <2>1 DEF SwitchTab, Screens, Lists, SameSemesters, Types
  <2> QED
    BY <1>1, <2>2, <2>3 DEF SwitchTab, Saved, boxes
<1>2. CASE OpenPast
  <2>1. updates' = updates
    BY <1>2, <1>b DEF OpenPast
  <2>2. Types'
    BY <1>0, <1>2 DEF OpenPast, Types, boxes
  <2>3. Screens' /\ Lists'
    BY <1>0, <1>2, <2>1 DEF OpenPast, Screens, Lists, SameSemesters, Types
  <2> QED
    BY <1>2, <2>2, <2>3 DEF OpenPast, Saved, boxes
<1>3. ASSUME NEW index \in 1 .. MaxUpdates, OpenEditor(index)
      PROVE  IInv'
  <2>1. PICK list : list = shown[screen]
    OBVIOUS
  <2>2. PICK update : update = list[Len(list) + 1 - index]
    OBVIOUS
  <2>3. /\ screen \in {"home", "past"} /\ index \in 1 .. Len(list)
        /\ form' = [past |-> update.past, at |-> update.at, index |-> index, from |-> screen]
        /\ screen' = "editor" /\ UNCHANGED <<user, boxes, shown, unread, waiting, profile>>
    BY <1>3, <2>1, <2>2 DEF OpenEditor
  <2>4. list \in Seq(GoodUpdate)
    BY <2>1, <2>3 DEF Types
  <2>5. Len(list) + 1 - index \in 1 .. Len(list) /\ update \in GoodUpdate /\ list # <<>>
    BY <2>2, <2>3, <2>4
  <2>6. updates' = updates
    BY <1>b, <2>3
  <2>7. Types'
    BY <2>3, <2>5 DEF Types, boxes, GoodUpdate, Update
  <2>8. Screens'
    BY <2>3 DEF Screens
  <2>9. ASSUME screen = "past"
        PROVE  Lists'
    <3>1. SameSemesters(list, updates)
      BY <2>1, <2>5, <2>9 DEF Lists
    <3>2. form'.index \in 1 .. Len(updates) /\ form'.at = updates[Len(updates) + 1 - form'.index].at
      BY <2>2, <2>3, <2>5, <3>1 DEF SameSemesters
    <3> QED
      <4>1. form'.from = "past" /\ shown'.past = list /\ screen' = "editor"
        BY <2>1, <2>3, <2>9
      <4>2. SameSemesters(shown'.past, updates')
        BY <2>6, <3>1, <4>1
      <4> QED
        BY <2>6, <3>2, <4>1, <4>2 DEF Lists
  <2>10. ASSUME screen = "home"
         PROVE  Lists'
    <3>1. index = 1 /\ Len(list) + 1 - index = Len(list)
      BY <1>3, <2>4, <2>10 DEF OpenEditor
    <3>2. form'.at = Last(shown.home).at
      BY <2>1, <2>2, <2>3, <2>10, <3>1 DEF Last
    <3>3. shown.past = <<>>
      BY <2>10 DEF Screens
    <3> QED
      <4>1. form'.from = "home" /\ form'.index = 1 /\ shown' = shown
        BY <2>3, <2>10, <3>1
      <4> QED
        BY <2>3, <3>2, <3>3, <4>1 DEF Lists
  <2>11. Lists'
    BY <2>3, <2>9, <2>10
  <2> QED
    BY <2>3, <2>7, <2>8, <2>11 DEF Saved, boxes
<1>4. ASSUME NEW result \in Corrections, SubmitEdit(result)
      PROVE  IInv'
  <2>1. /\ screen = "editor" /\ waiting' = TRUE
        /\ UNCHANGED <<screen, shown, unread, form, profile>>
    BY <1>4 DEF SubmitEdit
  <2>2. PICK u \in GoodUpdate, new \in Seq(GoodUpdate), next \in User :
             Changes(u, new, next)
    BY <1>4, Changed
  <2>3. /\ Put(updateBox, new) /\ Put(userBox, next) /\ user' = next
        /\ Len(new) = Len(updates)
    BY <2>2 DEF Changes
  <2>4. updateBox' \in Seq(Seq(GoodUpdate)) /\ updateBox' # <<>> /\ updates' = new
    BY <2>3, ListPut
  <2>5. userBox' \in Seq(User) /\ userBox' # <<>> /\ Len(userBox') > 1
    BY <2>3, UserPut
  <2>6. Types'
    BY <2>1, <2>3, <2>4, <2>5 DEF Types
  <2>7. Screens'
    BY <2>1 DEF Screens
  <2>8. Lists'
    <3>1. CASE form.from = "past"
      <4>1. PICK old \in Seq(GoodUpdate) : old = updates
        BY <1>0
      <4>2. PICK index \in 1 .. Len(old) : /\ index = form.index
                                           /\ form.at = old[Len(old) + 1 - index].at
        BY <2>1, <3>1, <4>1 DEF Lists
      <4>3. PICK edited \in 1 .. Len(old) : edited = Len(old) + 1 - index
        BY <4>2
      <4>4. /\ u.at = old[edited].at /\ new[edited] = u
            /\ \A k \in 1 .. Len(old) : k # edited => new[k].at = old[k].at
        BY <2>2, <4>1, <4>2, <4>3 DEF Changes, EditedAs
      <4>5. SameSemesters(new, old)
        BY <2>3, <4>1, <4>4, ChangedSemesters
      <4>6. shown.past # <<>> => SameSemesters(shown.past, new)
        BY <4>1, <4>5 DEF Lists, SameSemesters
      <4>7. form.index \in 1 .. Len(new) /\ form.at = new[Len(new) + 1 - form.index].at
        BY <4>1, <4>2, <4>3, <4>5 DEF SameSemesters
      <4> QED
        BY <2>1, <2>4, <3>1, <4>6, <4>7 DEF Lists
    <3>2. CASE form.from # "past"
      BY <2>1, <3>2 DEF Lists, Screens
    <3> QED
      BY <3>1, <3>2
  <2>9. Saved'
    BY <2>5 DEF Saved
  <2> QED
    BY <2>6, <2>7, <2>8, <2>9
<1>5. CASE EditSaved
  <2>1. updates' = updates
    BY <1>5, <1>b DEF EditSaved
  <2>2. Types'
    BY <1>0, <1>5, <1>a DEF EditSaved, Types, boxes
  <2>3. Screens'
    BY <1>5, <1>a DEF EditSaved, Screens
  <2>4. Lists'
    BY <1>0, <1>5, <2>1 DEF EditSaved, Lists, SameSemesters
  <2> QED
    BY <1>5, <2>2, <2>3, <2>4 DEF EditSaved, Saved, boxes
<1>6. CASE EditNotSaved
  <2>1. updates' = updates
    BY <1>6, <1>b DEF EditNotSaved
  <2>2. Types' /\ Screens' /\ Lists'
    BY <1>6, <2>1 DEF EditNotSaved, Types, Screens, Lists, boxes
  <2> QED
    BY <1>6, <2>2 DEF EditNotSaved, Saved, boxes
<1> QED
  BY <1>1, <1>2, <1>3, <1>4, <1>5, <1>6 DEF Editing

LEMMA InvRest == IInv /\ (ProfileEdit \/ Storage \/ Crash) => IInv'
<1> SUFFICES ASSUME IInv, ProfileEdit \/ Storage \/ Crash PROVE IInv'
  OBVIOUS
<1> USE DEF IInv
<1>0. updates \in Seq(GoodUpdate) /\ <<>> \in Seq(GoodUpdate)
  BY Current, EmptySeq
<1>1. CASE StartProfileEdit
  <2>1. PICK p \in Profiles(user) : profile' = {p}
    BY <1>1 DEF StartProfileEdit
  <2>2. p \in User
    BY ProfilesGood DEF Types, User
  <2>3. /\ Put(updateBox, <<>>) /\ screen = "home"
        /\ shown' \in {shown, [shown EXCEPT !.home = <<>>]}
        /\ UNCHANGED <<user, userBox, screen, unread, form, waiting>>
    BY <1>1 DEF StartProfileEdit
  <2>4. updateBox' \in Seq(Seq(GoodUpdate)) /\ updateBox' # <<>>
    BY <1>0, <2>3, ListPut
  <2>5. Types'
    BY <1>0, <2>1, <2>2, <2>3, <2>4 DEF Types
  <2>6. Screens' /\ Lists'
    BY <2>3 DEF Screens, Lists, Types
  <2> QED
    BY <2>3, <2>5, <2>6 DEF Saved
<1>2. CASE EndProfileEdit
  <2>1. PICK p \in profile : user' = p /\ Put(userBox, p) /\ profile' = {}
    BY <1>2 DEF EndProfileEdit
  <2>2. UNCHANGED <<updateBox, screen, shown, unread, form, waiting>> /\ updates' = updates
    BY <1>2 DEF EndProfileEdit, updates
  <2>3. p \in User
    BY <2>1 DEF Types
  <2>4. userBox' \in Seq(User) /\ userBox' # <<>> /\ Len(userBox') > 1
    BY <2>1, <2>3, UserPut
  <2>5. Types'
    BY <2>1, <2>2, <2>3, <2>4 DEF Types
  <2>6. Screens' /\ Lists'
    BY <2>2 DEF Screens, Lists
  <2>7. Saved'
    BY <2>4 DEF Saved
  <2> QED
    BY <2>5, <2>6, <2>7
<1>3. CASE SaveDone
  <2>1. /\ Len(userBox) > 1 /\ userBox' = Tail(userBox) /\ user' = userBox[2]
        /\ UNCHANGED <<updateBox, screen, shown, unread, form, waiting, profile>>
        /\ updates' = updates
    BY <1>3 DEF SaveDone, updates
  <2>2. userBox' \in Seq(User) /\ userBox' # <<>> /\ userBox'[1] = user' /\ user' \in User
    BY <2>1, FlushOf DEF Types
  <2>3. Types' /\ Saved'
    BY <2>1, <2>2 DEF Types, Saved
  <2>4. Screens' /\ Lists'
    BY <2>1 DEF Screens, Lists
  <2> QED
    BY <2>3, <2>4
<1>4. CASE FlushUpdates
  <2>1. /\ Len(updateBox) > 1 /\ updateBox' = Tail(updateBox)
        /\ UNCHANGED <<user, userBox, screen, shown, unread, form, waiting, profile>>
    BY <1>4 DEF FlushUpdates
  <2>2. updateBox' \in Seq(Seq(GoodUpdate)) /\ updateBox' # <<>> /\ updates' = updates
    <3>1. PICK S : S = Seq(GoodUpdate)
      OBVIOUS
    <3>2. updateBox \in Seq(S)
      BY <3>1 DEF Types
    <3>3. /\ Tail(updateBox) \in Seq(S) /\ Tail(updateBox) # <<>>
          /\ Last(Tail(updateBox)) = Last(updateBox)
      BY <2>1, <3>2, FlushOf
    <3> QED
      BY <2>1, <3>1, <3>3 DEF updates
  <2>3. Types'
    BY <2>1, <2>2 DEF Types
  <2>4. Screens' /\ Lists' /\ Saved'
    BY <2>1, <2>2 DEF Screens, Lists, Saved
  <2> QED
    BY <2>3, <2>4
<1>5. CASE Crash
  <2>1. PICK i \in 1 .. Len(userBox) : user' = userBox[i]
    BY <1>5 DEF Crash
  <2>2. PICK u : u = userBox[i]
    OBVIOUS
  <2>3. PICK j \in 1 .. Len(updateBox) : updateBox' = <<updateBox[j]>>
    BY <1>5 DEF Crash
  <2>4. PICK list : list = updateBox[j]
    OBVIOUS
  <2>5. u \in User /\ list \in Seq(GoodUpdate)
    BY <2>2, <2>4 DEF Types
  <2>6. /\ user' = u /\ userBox' = <<u>> /\ updateBox' = <<list>>
        /\ screen' = "home" /\ shown' = [home |-> list, past |-> <<>>]
        /\ unread' = FALSE /\ form' = NoForm /\ waiting' = FALSE /\ profile' = {}
    BY <1>5, <2>1, <2>2, <2>3, <2>4 DEF Crash
  <2>7. userBox' \in Seq(User) /\ userBox' # <<>> /\ userBox'[1] = u
    BY <2>5, <2>6, OneIn
  <2>8. updateBox' \in Seq(Seq(GoodUpdate)) /\ updateBox' # <<>> /\ updates' = list
    <3>1. PICK S : S = Seq(GoodUpdate)
      OBVIOUS
    <3>2. <<list>> \in Seq(S) /\ <<list>> # <<>> /\ Last(<<list>>) = list
      BY <2>5, <3>1, OneIn
    <3> QED
      BY <2>6, <3>1, <3>2 DEF updates
  <2>9. /\ NoForm \in [past : Cgpa, at : Position, index : Nat, from : {"home", "past", "dashboard"}]
        /\ NoForm.at = Start /\ NoForm.index = 0
    BY GpaAssumption DEF NoForm, Cgpa, Start, Position
  <2>10. Types'
    BY <1>0, <2>5, <2>6, <2>7, <2>8, <2>9 DEF Types
  <2>11. Screens' /\ Saved'
    BY <2>6, <2>7, <2>9 DEF Screens, Saved
  <2>12. Lists'
    BY <2>5, <2>6, <2>8 DEF Lists, SameSemesters
  <2> QED
    BY <2>10, <2>11, <2>12
<1> QED
  BY <1>1, <1>2, <1>3, <1>4, <1>5 DEF ProfileEdit, Storage

LEMMA InvStep == IInv /\ [Next]_vars => IInv'
<1> SUFFICES ASSUME IInv, [Next]_vars PROVE IInv'
  OBVIOUS
<1>1. CASE UNCHANGED vars
  <2>1. UNCHANGED <<user, userBox, updateBox, screen, shown, unread, form, waiting, profile>>
    BY <1>1 DEF vars, boxes
  <2>2. updates' = updates
    BY <2>1 DEF updates
  <2>3. Types' /\ Screens' /\ Lists' /\ Saved'
    BY <2>1, <2>2 DEF IInv, Types, Screens, Lists, Saved
  <2> QED
    BY <2>3 DEF IInv
<1> QED
  BY <1>1, InvRecording, InvEditing, InvRest DEF Next

LEMMA Invariant == Spec => []IInv
<1>1. Init => IInv
  BY InvInit
<1>2. IInv /\ [Next]_vars => IInv'
  BY InvStep
<1> QED
  BY <1>1, <1>2, PTL DEF Spec

-----------------------------------------------------------------------------
(* What the runs check, for every value of the constants.                  *)

\* The variables keep their types, whatever is recorded, changed, typed or lost.
THEOREM TypeCorrect == Spec => []TypeOK
<1>1. IInv => TypeOK
  <2> SUFFICES ASSUME IInv PROVE TypeOK
    OBVIOUS
  <2> USE DEF IInv
  <2>1. user \in User /\ profile \subseteq User
    BY DEF Types, User
  <2>2. userBox # <<>> /\ \A i \in DOMAIN userBox : userBox[i] \in User
    BY DEF Types
  <2>3. ASSUME NEW list \in Seq(GoodUpdate), NEW k \in DOMAIN list
        PROVE  list[k] \in Update
    BY DEF GoodUpdate
  <2>4. \A i \in DOMAIN updateBox : updateBox[i] \in Seq(GoodUpdate)
    BY DEF Types
  <2>5. shown.home \in Seq(GoodUpdate) /\ shown.past \in Seq(GoodUpdate)
    BY DEF Types
  <2> QED
    BY <2>1, <2>2, <2>3, <2>4, <2>5 DEF Types, TypeOK
<1> QED
  BY <1>1, Invariant, PTL

\* Every record follows from its own result and the average it names, whatever was
\* recorded, changed, started over or lost in a kill.
THEOREM RecordsFollow == Spec => []RecordsExact
<1>1. IInv => RecordsExact
  <2> SUFFICES ASSUME IInv PROVE RecordsExact
    OBVIOUS
  <2>1. updates \in Seq(GoodUpdate)
    BY Current DEF IInv
  <2> QED
    BY <2>1 DEF RecordsExact, GoodUpdate
<1> QED
  BY <1>1, Invariant, PTL

-----------------------------------------------------------------------------
(* The averages of a student who has recorded from the first semester on.  *)

FromStart(list) ==
  /\ list # <<>>
  /\ list[1].at = Start /\ list[1].past = Unset
  /\ Linked(list)
  /\ \A k \in DOMAIN list : list[k].gpa # NaN

\* The k-th record is of the k-th semester.
LEMMA SemesterOfRecord ==
  ASSUME NEW list \in Seq(GoodUpdate), FromStart(list), NEW k \in 1 .. Len(list)
  PROVE  getCurrentSemester(list[k].at) = k
<1> DEFINE S == {i \in Nat : i + 1 <= Len(list) => getCurrentSemester(list[i + 1].at) = i + 1}
<1>1. 0 \in S
  <2>1. list[1].at = Start /\ Start \in Position
    BY DEF FromStart, GoodUpdate, Update
  <2> QED
    BY <2>1, SemesterCounts
<1>2. ASSUME NEW i \in Nat, i \in S, i + 2 <= Len(list)
      PROVE  getCurrentSemester(list[i + 2].at) = i + 2
  <2>1. i + 2 \in 2 .. Len(list) /\ i + 2 - 1 = i + 1 /\ i + 1 <= Len(list)
    BY <1>2
  <2>2. getCurrentSemester(list[i + 1].at) = i + 1
    BY <1>2, <2>1
  <2>3. getCurrentSemester(list[i + 2].at) = getCurrentSemester(list[i + 1].at) + 1
    BY <2>1 DEF FromStart, Linked
  <2> QED
    BY <2>2, <2>3
<1>3. \A i \in Nat : i \in S => i + 1 \in S
  BY <1>2
<1> HIDE DEF S
<1>4. Nat \subseteq S
  BY <1>1, <1>3, SetInduction
<1>5. k - 1 \in S
  BY <1>4
<1> QED
  BY <1>5 DEF S

\* One more semester adds at most half of its number to the distance between the
\* average, times the number of semesters, and the total.
LEMMA OneMoreSemester ==
  ASSUME NEW n \in Nat \ {0}, NEW past \in Nat, NEW gpa \in Nat, NEW total \in Nat,
         NEW c \in toStringAsFixed2(past * n + gpa, n + 1),
         4 * (n * past) - 4 * total <= n * (n + 1) - 2,
         4 * total - 4 * (n * past) <= n * (n + 1) - 2
  PROVE  /\ c \in Nat
         /\ 4 * ((n + 1) * c) - 4 * (total + gpa) <= (n + 1) * (n + 2) - 2
         /\ 4 * (total + gpa) - 4 * ((n + 1) * c) <= (n + 1) * (n + 2) - 2
<1>1. PICK x \in Nat : x = n * past /\ past * n = x
  OBVIOUS
<1>2. PICK s \in Nat : s = n * (n + 1)
  OBVIOUS
<1>3. (n + 1) * (n + 2) = s + 2 * (n + 1)
  BY <1>2
<1>4. /\ c \in Nat
      /\ 2 * ((n + 1) * c) <= 2 * (x + gpa) + (n + 1)
      /\ 2 * (x + gpa) <= 2 * ((n + 1) * c) + (n + 1)
  <2>1. x + gpa \in Nat /\ n + 1 \in Nat \ {0} /\ c \in toStringAsFixed2(x + gpa, n + 1)
    BY <1>1
  <2> QED
    BY <2>1, FixedIsNear
<1>5. PICK y \in Nat : y = (n + 1) * c
  BY <1>4
<1>6. 4 * x - 4 * total <= s - 2 /\ 4 * total - 4 * x <= s - 2
  BY <1>1, <1>2
<1>7. 2 * y <= 2 * (x + gpa) + (n + 1) /\ 2 * (x + gpa) <= 2 * y + (n + 1)
  BY <1>4, <1>5
<1>8. 4 * y - 4 * (total + gpa) <= s + 2 * (n + 1) - 2 /\ 4 * (total + gpa) - 4 * y <= s + 2 * (n + 1) - 2
  BY <1>6, <1>7
<1> QED
  BY <1>3, <1>4, <1>5, <1>8

\* The newest average is the mean of the results, but for the rounding.
LEMMA MeanOf ==
  ASSUME NEW list \in Seq(GoodUpdate), FromStart(list)
  PROVE  \E n \in Nat \ {0}, c \in Nat, total \in Nat :
           /\ n = Len(list) /\ c = Last(list).cgpa /\ total = Total(list)
           /\ 4 * (n * c) - 4 * total <= n * (n + 1) - 2
           /\ 4 * total - 4 * (n * c) <= n * (n + 1) - 2
<1>1. PICK n \in Nat \ {0} : n = Len(list)
  BY DEF FromStart
<1>2. PICK sum : /\ Total(list) = sum[n]
                 /\ sum[0] = 0
                 /\ \A k \in 1 .. n : sum[k] = sum[k - 1] + list[k].gpa
  BY <1>1, TotalGrows
<1>3. ASSUME NEW k \in 1 .. n
      PROVE  /\ list[k] \in GoodUpdate /\ list[k].gpa \in Nat
             /\ list[k].gpa # NaN /\ Unset # list[k].gpa
  <2>1. list[k] \in GoodUpdate /\ list[k].gpa # NaN
    BY <1>1 DEF FromStart
  <2>2. list[k].gpa \in Value
    BY <2>1 DEF GoodUpdate, Update, Score
  <2> QED
    BY <2>1, <2>2, GpaAssumption DEF Value, Unset
<1> DEFINE Near(k, c, total) == /\ c \in Nat /\ total \in Nat
                                /\ 4 * (k * c) - 4 * total <= k * (k + 1) - 2
                                /\ 4 * total - 4 * (k * c) <= k * (k + 1) - 2
           S == {i \in Nat : i + 1 <= n => Near(i + 1, list[i + 1].cgpa, sum[i + 1])}
<1>4. 0 \in S
  <2>1. 1 \in 1 .. n /\ list[1] \in GoodUpdate /\ list[1].past = Unset
    BY <1>1, <1>3 DEF FromStart
  <2>2. list[1].cgpa = list[1].gpa
    BY <2>1 DEF GoodUpdate, getCGPA
  <2>3. PICK g \in Nat : g = list[1].gpa
    BY <1>3, <2>1
  <2>4. sum[1] = g
    BY <1>2, <2>1, <2>3
  <2>5. Near(1, g, g)
    OBVIOUS
  <2> QED
    BY <2>2, <2>3, <2>4, <2>5
<1>5. ASSUME NEW i \in Nat, i \in S, i + 2 <= n
      PROVE  Near(i + 2, list[i + 2].cgpa, sum[i + 2])
  <2>1. PICK m \in Nat \ {0} : m = i + 1 /\ m + 1 = i + 2 /\ m \in 1 .. n /\ m + 1 \in 2 .. n
                              /\ m + 1 - 1 = m
    BY <1>5
  <2>2. PICK past, gpa, c, total : /\ past = list[m].cgpa /\ gpa = list[m + 1].gpa
                                   /\ c = list[m + 1].cgpa /\ total = sum[m]
    OBVIOUS
  <2>3. Near(m, past, total)
    BY <1>5, <2>1, <2>2
  <2>4. gpa \in Nat /\ gpa # NaN /\ list[m + 1] \in GoodUpdate
    BY <1>3, <2>1, <2>2
  <2>5. list[m + 1].past = past /\ past # Unset /\ past # NaN
    <3>1. list[m + 1].past = past
      BY <1>1, <2>1, <2>2 DEF FromStart, Linked
    <3> QED
      BY <2>3, <3>1, GpaAssumption DEF Unset
  <2>6. getCurrentSemester(list[m + 1].at) = m + 1
    BY <1>1, <2>1, SemesterOfRecord
  <2>7. c \in toStringAsFixed2(past * m + gpa, m + 1)
    <3>1. c \in getCGPA(past, gpa, list[m + 1].at)
      BY <2>2, <2>4, <2>5 DEF GoodUpdate
    <3>2. c \in toStringAsFixed2(past * (m + 1 - 1) + gpa, m + 1)
      BY <2>4, <2>5, <2>6, <3>1 DEF getCGPA
    <3> QED
      BY <2>1, <3>2
  <2>8. sum[m + 1] = total + gpa
    BY <1>2, <2>1, <2>2
  <2>9. /\ c \in Nat
        /\ 4 * ((m + 1) * c) - 4 * (total + gpa) <= (m + 1) * (m + 2) - 2
        /\ 4 * (total + gpa) - 4 * ((m + 1) * c) <= (m + 1) * (m + 2) - 2
    BY <2>3, <2>4, <2>7, OneMoreSemester
  <2>10. Near(m + 1, c, total + gpa)
    <3>1. m + 1 + 1 = m + 2 /\ total + gpa \in Nat
      BY <2>3, <2>4
    <3> QED
      BY <2>9, <3>1
  <2> HIDE DEF Near
  <2> QED
    BY <2>1, <2>2, <2>8, <2>10
<1> HIDE DEF Near
<1>6. \A i \in Nat : i \in S => i + 1 \in S
  <2> SUFFICES ASSUME NEW i \in Nat, i \in S, i + 1 + 1 <= n
               PROVE  Near(i + 1 + 1, list[i + 1 + 1].cgpa, sum[i + 1 + 1])
    OBVIOUS
  <2>1. i + 1 + 1 = i + 2
    OBVIOUS
  <2> QED
    BY <1>5, <2>1
<1>7. n - 1 \in S
  <2> HIDE DEF S
  <2> QED
    BY <1>4, <1>6, SetInduction
<1>8. Near(n, list[n].cgpa, sum[n])
  <2>1. n - 1 + 1 = n
    OBVIOUS
  <2> QED
    BY <1>7, <2>1
<1>9. Last(list) = list[n]
  BY <1>1 DEF Last
<1> QED
  BY <1>1, <1>2, <1>8, <1>9 DEF Near

\* The cumulative averages getCGPA computes one from another, rounding each, stay
\* within (n(n+1)-2)/4n hundredths of the mean of the n results, for every length of
\* course, result and order of changes.
THEOREM AveragesAreMeans == Spec => []MeanOfResults
<1>1. IInv => MeanOfResults
  <2> SUFFICES ASSUME IInv, FromStart(updates)
               PROVE  LET n == Len(updates)
                          c == Last(updates).cgpa
                      IN  c # NaN /\ 4 * Distance(n * c, Total(updates)) <= n * (n + 1) - 2
    BY DEF MeanOfResults, FromStart
  <2>1. PICK n \in Nat \ {0}, c \in Nat, total \in Nat :
          /\ n = Len(updates) /\ c = Last(updates).cgpa /\ total = Total(updates)
          /\ 4 * (n * c) - 4 * total <= n * (n + 1) - 2
          /\ 4 * total - 4 * (n * c) <= n * (n + 1) - 2
    BY Current, MeanOf DEF IInv
  <2>2. c # NaN
    BY GpaAssumption
  <2>3. PICK x \in Nat, y \in Int : x = n * c /\ y = n * (n + 1) - 2
    OBVIOUS
  <2>4. 4 * x - 4 * total <= y /\ 4 * total - 4 * x <= y
    BY <2>1, <2>3
  <2>5. 4 * Distance(x, total) <= y
    BY <2>4 DEF Distance
  <2> QED
    BY <2>1, <2>2, <2>3, <2>5
<1> QED
  BY <1>1, Invariant, PTL

\* What the dashboard holds possible, compared with what is missing to a goal: y is the
\* rounding there may be, w the best results from now on, z what the goal needs.
LEMMA GoalBounds ==
  ASSUME NEW x \in Nat, NEW total \in Nat, NEW y \in Int, NEW w \in Int, NEW z \in Int,
         4 * x - 4 * total <= y, 4 * total - 4 * x <= y
  PROVE  IF w + x >= z THEN 4 * (z - (total + w)) <= y
         ELSE -4 * (z - (total + w)) <= y
  OBVIOUS

LEMMA RecordAt ==
  ASSUME NEW list \in Seq(GoodUpdate), list # <<>>, NEW n, n = Len(list)
  PROVE  list[n] \in GoodUpdate
OBVIOUS

\* getGoalPossibility (stats_function.dart:19-42) calls a goal possible if and only if it
\* is, but for the rounding of the averages, for every course, grading system, results
\* and goal, also after changes of records, profile edits and kills.
THEOREM DashboardIsHonest == Spec => []GoalHonest
<1>1. IInv => GoalHonest
  <2> SUFFICES ASSUME IInv,
                      updates # <<>>, updates[1].at = Start, updates[1].past = Unset,
                      Chained, user = Last(userBox), ~AllRecorded,
                      \A k \in DOMAIN updates : updates[k].gpa # NaN,
                      NEW goal \in Value
               PROVE  LET n == Len(updates)
                          best == Total(updates) + (2 * Years - n) * 100 * System
                          missing == goal * 2 * Years - best
                      IN  IF getGoalPossibility(user, goal) THEN 4 * missing <= n * (n + 1) - 2
                          ELSE missing > 0 \/ -4 * missing <= n * (n + 1) - 2
    BY DEF GoalHonest
  <2>1. updates \in Seq(GoodUpdate) /\ FromStart(updates)
    BY Current DEF IInv, FromStart, Chained
  <2>2. PICK n \in Nat \ {0}, c \in Nat, total \in Nat :
          /\ n = Len(updates) /\ c = Last(updates).cgpa /\ total = Total(updates)
          /\ 4 * (n * c) - 4 * total <= n * (n + 1) - 2
          /\ 4 * total - 4 * (n * c) <= n * (n + 1) - 2
    BY <2>1, MeanOf
  <2>3. /\ n = Len(updates) /\ c = Last(updates).cgpa
        /\ updates \in Seq(GoodUpdate) /\ FromStart(updates)
    BY <2>1, <2>2, Zenon
  <2>4. /\ user.cgpa = c /\ user.at = increment(updates[n].at)
        /\ ~Final(updates[n].at) /\ updates[n].at \in Position
    <3>1. Last(updates) = updates[n]
      BY <2>3 DEF Last
    <3>2. user.cgpa = c /\ user.at = increment(Last(updates).at)
      BY <2>3 DEF Chained
    <3>3. ~Final(Last(updates).at)
      BY DEF AllRecorded
    <3>4. updates[n] \in GoodUpdate
      BY <2>3, RecordAt
    <3>5. updates[n].at \in Position
      BY <3>4 DEF GoodUpdate, Update
    <3> QED
      BY <3>1, <3>2, <3>3, <3>5
  <2>5. getCurrentSemester(user.at) = n + 1
    <3>1. n \in 1 .. Len(updates)
      BY <2>3
    <3>2. getCurrentSemester(updates[n].at) = n
      BY <2>3, <3>1, SemesterOfRecord
    <3> QED
      BY <2>4, <3>2, IncrementAdvances
  <2>6. c # NaN /\ c # Unset
    BY GpaAssumption DEF Unset
  <2>7. PICK x \in Nat, y \in Int : x = n * c /\ c * n = x /\ y = n * (n + 1) - 2
    OBVIOUS
  <2>8. PICK w \in Int, z \in Int : /\ w = (2 * Years - n) * 100 * System
                                   /\ z = goal * 2 * Years
    BY GpaAssumption DEF Value
  <2>9. highestGpa(user) = w + x
    <3>1. highestGpa(user) = (2 * Years - (n + 1 - 1)) * 100 * System + c * (n + 1 - 1)
      BY <2>4, <2>5 DEF highestGpa
    <3>2. n + 1 - 1 = n
      OBVIOUS
    <3> QED
      BY <2>7, <2>8, <3>1, <3>2
  <2>10. getGoalPossibility(user, goal) <=> w + x >= z
    BY <2>4, <2>6, <2>8, <2>9 DEF getGoalPossibility
  <2>11. 4 * x - 4 * total <= y /\ 4 * total - 4 * x <= y
    BY <2>2, <2>7
  <2>12. IF w + x >= z THEN 4 * (z - (total + w)) <= y ELSE -4 * (z - (total + w)) <= y
    BY <2>11, GoalBounds
  <2> QED
    BY <2>2, <2>7, <2>8, <2>10, <2>12
<1> QED
  BY <1>1, Invariant, PTL

-----------------------------------------------------------------------------
(* What a step may do to list and user.                                    *)

\* The button of the update screen starts loading only by a change of a record.
LEMMA WaitingStarts ==
  ASSUME [Next]_vars, ~waiting, waiting'
  PROVE  \E result \in Corrections : SubmitEdit(result)
<1>1. ~ UNCHANGED waiting /\ waiting' # FALSE
  OBVIOUS
<1>2. Next
  BY <1>1 DEF vars
<1>3. ~ Recording
  BY <1>1 DEF Recording, OpenDashboard, OpenForm, Submit, GoHome, Back
<1>4. ~ (ProfileEdit \/ Storage \/ Crash)
  BY <1>1 DEF ProfileEdit, StartProfileEdit, EndProfileEdit, Storage, SaveDone, FlushUpdates, Crash
<1>5. ~ (SwitchTab \/ OpenPast \/ EditSaved \/ EditNotSaved)
  BY <1>1 DEF SwitchTab, OpenPast, EditSaved, EditNotSaved
<1>6. ~ \E index \in 1 .. MaxUpdates : OpenEditor(index)
  BY <1>1 DEF OpenEditor
<1> QED
  BY <1>2, <1>3, <1>4, <1>5, <1>6 DEF Next, Editing

\* Changing a record (StatFunction.editUpdates) touches no older one, and of the newer
\* ones neither the result nor the semester; and if it replaces the record of another
\* semester, that is the newest one, and the home tab showed an older list.
THEOREM ChangesAreLocal == Spec => EditIsLocal
<1>1. ASSUME IInv, [Next]_vars, ~waiting, waiting'
      PROVE  LET edited == Len(updates) + 1 - form.index
             IN  /\ Len(updates') = Len(updates)
                 /\ \A k \in 1 .. edited - 1 : updates'[k] = updates[k]
                 /\ \A k \in edited + 1 .. Len(updates) :
                      updates'[k].at = updates[k].at /\ updates'[k].gpa = updates[k].gpa
                 /\ \/ updates'[edited].at = updates[edited].at
                    \/ form.from = "home" /\ edited = Len(updates)
                       /\ Last(shown.home).at # Last(updates).at
  <2> USE DEF IInv
  <2>1. PICK result \in Corrections : SubmitEdit(result)
    BY <1>1, WaitingStarts
  <2>2. PICK u \in GoodUpdate, new \in Seq(GoodUpdate), next \in User : Changes(u, new, next)
    BY <1>1, <2>1, Changed
  <2>3. updates' = new
    BY <1>1, <2>2, ListPut DEF Changes
  <2>4. PICK old \in Seq(GoodUpdate) : old = updates
    BY <1>1, Current
  <2>5. PICK index \in 1 .. Len(old) : index = form.index
    BY <2>2, <2>4 DEF Changes
  <2>6. PICK edited \in 1 .. Len(old) : edited = Len(old) + 1 - index
    BY <2>5
  <2>7. /\ Len(new) = Len(old) /\ u.at = form.at
        /\ \A k \in 1 .. Len(old) : /\ EditedAs(old, u, edited, new, k)
                                    /\ k # edited => new[k].at = old[k].at
    BY <2>2, <2>4, <2>5, <2>6 DEF Changes
  <2>8. ASSUME NEW k \in 1 .. edited - 1
        PROVE  new[k] = old[k]
    <3>1. k \in 1 .. Len(old) /\ k < edited
      BY <2>6
    <3>2. EditedAs(old, u, edited, new, k)
      BY <2>7, <3>1
    <3> QED
      BY <3>1, <3>2 DEF EditedAs
  <2>9. ASSUME NEW k \in edited + 1 .. Len(old)
        PROVE  new[k].at = old[k].at /\ new[k].gpa = old[k].gpa
    <3>1. k \in 1 .. Len(old) /\ k - 1 \in 1 .. Len(old) /\ k > edited
      BY <2>6
    <3>2. /\ new[k] \in replaceUpdate(old[k], new[k - 1])
          /\ old[k] \in GoodUpdate /\ new[k - 1] \in GoodUpdate
      <4>1. EditedAs(old, u, edited, new, k)
        BY <2>7, <3>1
      <4> QED
        BY <2>7, <3>1, <4>1 DEF EditedAs
    <3> QED
      BY <2>7, <3>1, <3>2, ReplaceFollows
  <2>10. new[edited].at = form.at
    <3>1. EditedAs(old, u, edited, new, edited)
      BY <2>6, <2>7
    <3> QED
      BY <2>7, <3>1 DEF EditedAs
  <2>11. screen = "editor" /\ form.from \in {"home", "past"}
    BY <1>1, <2>1 DEF SubmitEdit, Screens
  <2>12. CASE form.from = "past"
    <3>1. new[edited].at = old[edited].at
      BY <1>1, <2>4, <2>5, <2>6, <2>10, <2>11, <2>12 DEF Lists
    <3> QED
      BY <2>3, <2>4, <2>5, <2>6, <2>7, <2>8, <2>9, <3>1
  <2>13. CASE form.from = "home"
    <3>1. index = 1 /\ edited = Len(old) /\ form.at = Last(shown.home).at
      BY <1>1, <2>5, <2>6, <2>11, <2>13 DEF Lists
    <3>2. Last(updates) = old[edited]
      BY <2>4, <3>1 DEF Last
    <3>3. \/ new[edited].at = old[edited].at
          \/ edited = Len(old) /\ Last(shown.home).at # Last(updates).at
      BY <2>10, <3>1, <3>2
    <3> QED
      BY <2>3, <2>4, <2>5, <2>6, <2>7, <2>8, <2>9, <2>13, <3>3
  <2> QED
    BY <2>11, <2>12, <2>13
<1>2. IInv /\ [Next]_vars =>
        [~waiting /\ waiting' =>
           LET edited == Len(updates) + 1 - form.index
           IN  /\ Len(updates') = Len(updates)
               /\ \A k \in 1 .. edited - 1 : updates'[k] = updates[k]
               /\ \A k \in edited + 1 .. Len(updates) :
                    updates'[k].at = updates[k].at /\ updates'[k].gpa = updates[k].gpa
               /\ \/ updates'[edited].at = updates[edited].at
                  \/ form.from = "home" /\ edited = Len(updates)
                     /\ Last(shown.home).at # Last(updates).at]_vars
  BY <1>1
<1> QED
  BY <1>2, Invariant, PTL DEF Spec, EditIsLocal

\* List and user agree.
Agree(list, u) ==
  list # <<>> => /\ Linked(list)
                 /\ u.cgpa = Last(list).cgpa
                 /\ u.at = increment(Last(list).at)

LEMMA ChainedAgrees == Chained = Agree(updates, Last(userBox))
  BY DEF Chained, Agree

\* A semester recorded from a form that holds what the user is continues the list.
LEMMA SubmitAgrees ==
  ASSUME NEW list \in Seq(GoodUpdate), NEW u \in User, Agree(list, u),
         list # <<>> => ~Final(Last(list).at),
         NEW r \in GoodUpdate, r.past = u.cgpa, r.at = u.at
  PROVE  Agree(Append(list, r), [cgpa |-> r.cgpa, at |-> increment(r.at)])
<1>1. PICK new \in Seq(GoodUpdate) : new = Append(list, r)
  BY AppendProperties
<1>2. /\ Len(new) = Len(list) + 1 /\ Last(new) = r
      /\ \A k \in 1 .. Len(list) : new[k] = list[k]
  BY <1>1 DEF Last
<1>3. ASSUME NEW k \in 2 .. Len(new)
      PROVE  /\ getCurrentSemester(new[k].at) = getCurrentSemester(new[k - 1].at) + 1
             /\ new[k].past = new[k - 1].cgpa
  <2>1. CASE k <= Len(list)
    <3>1. k \in 2 .. Len(list) /\ new[k] = list[k] /\ new[k - 1] = list[k - 1] /\ list # <<>>
      BY <1>2, <2>1
    <3> QED
      BY <3>1 DEF Agree, Linked
  <2>2. CASE k = Len(list) + 1
    <3>1. /\ list # <<>> /\ new[k] = r /\ k - 1 = Len(list) /\ new[k - 1] = Last(list)
          /\ Last(list) \in GoodUpdate
      BY <1>2, <2>2 DEF Last
    <3>2. PICK p \in Position : p = Last(list).at /\ ~Final(p) /\ r.at = increment(p)
      BY <3>1 DEF Agree, GoodUpdate, Update
    <3>3. getCurrentSemester(r.at) = getCurrentSemester(p) + 1
      BY <3>2, IncrementAdvances
    <3>4. r.past = Last(list).cgpa
      BY <3>1 DEF Agree
    <3> QED
      BY <3>1, <3>2, <3>3, <3>4
  <2> QED
    BY <1>2, <2>1, <2>2
<1>4. Linked(new)
  BY <1>3 DEF Linked
<1> QED
  BY <1>1, <1>2, <1>4 DEF Agree

\* A change of a record that holds the past average of the one it replaces keeps the
\* chain.
LEMMA ChangeAgrees ==
  ASSUME NEW old \in Seq(GoodUpdate), NEW u \in User, Agree(old, u),
         NEW edited \in 1 .. Len(old),
         NEW r \in GoodUpdate, r.past = old[edited].past,
         NEW new \in Seq(GoodUpdate), SameSemesters(new, old),
         \A k \in 1 .. Len(old) : EditedAs(old, r, edited, new, k)
  PROVE  Agree(new, [u EXCEPT !.cgpa = Last(new).cgpa])
<1>1. /\ old # <<>> /\ Len(new) = Len(old) /\ new # <<>>
      /\ \A k \in 1 .. Len(old) : new[k].at = old[k].at
  BY DEF SameSemesters
<1>2. ASSUME NEW k \in 2 .. Len(new)
      PROVE  new[k].past = new[k - 1].cgpa
  <2>1. k \in 1 .. Len(old) /\ k - 1 \in 1 .. Len(old) /\ k \in 2 .. Len(old)
    BY <1>1
  <2>2. old[k].past = old[k - 1].cgpa
    BY <1>1, <2>1 DEF Agree, Linked
  <2>3. EditedAs(old, r, edited, new, k) /\ EditedAs(old, r, edited, new, k - 1)
    BY <2>1
  <2>4. CASE k <= edited
    BY <2>1, <2>2, <2>3, <2>4 DEF EditedAs
  <2>5. CASE k > edited
    <3>1. /\ new[k] \in replaceUpdate(old[k], new[k - 1])
          /\ old[k] \in GoodUpdate /\ new[k - 1] \in GoodUpdate
      BY <1>1, <2>1, <2>3, <2>5 DEF EditedAs
    <3> QED
      BY <3>1, ReplaceFollows
  <2> QED
    BY <2>1, <2>4, <2>5
<1>3. ASSUME NEW k \in 2 .. Len(new)
      PROVE  getCurrentSemester(new[k].at) = getCurrentSemester(new[k - 1].at) + 1
  <2>1. k \in 2 .. Len(old) /\ new[k].at = old[k].at /\ new[k - 1].at = old[k - 1].at
    BY <1>1
  <2> QED
    BY <1>1, <2>1 DEF Agree, Linked
<1>4. Linked(new)
  BY <1>2, <1>3 DEF Linked
<1>5. Last(new).at = Last(old).at
  BY <1>1 DEF Last
<1> QED
  BY <1>1, <1>4, <1>5 DEF Agree, User

ChainCause ==
  \/ screen = "form" /\ (StaleForm \/ AllRecorded)
  \/ screen = "editor" /\ StaleEditor
  \/ profile # {} /\ profile' = {} /\ updates # <<>>
  \/ Crash

LEMMA ChainStep ==
  ASSUME IInv, [Next]_vars, Chained, ~Chained'
  PROVE  ChainCause
<1> USE DEF IInv
<1>a. Len(userBox) \in Nat \ {0}
  BY LastOf DEF Types
<1>1. ~ UNCHANGED boxes
  BY DEF boxes, Chained, updates
<1>2. Next
  BY <1>1 DEF vars
<1>3. PICK list \in Seq(GoodUpdate), u \in User :
        list = updates /\ u = Last(userBox) /\ Agree(list, u)
  BY Current, ChainedAgrees
<1>4. ~ Agree(updates', Last(userBox'))
  BY DEF Chained, Agree
<1>5. ASSUME NEW result \in Results, Submit(result), ~ (StaleForm \/ AllRecorded)
      PROVE  FALSE
  <2>1. PICK c \in getCGPA(form.past, result, form.at) :
          /\ Put(updateBox, Append(updates, [gpa |-> result, cgpa |-> c,
                                             past |-> form.past, at |-> form.at]))
          /\ Put(userBox, [cgpa |-> c, at |-> increment(user.at)])
    BY <1>5 DEF Submit
  <2>2. Len(userBox) = 1 /\ user = u /\ form.past = u.cgpa /\ form.at = u.at
    <3>1. Len(userBox) = 1
      <4>1. ~ (Len(userBox) > 1)
        BY <1>5 DEF StaleForm
      <4>2. PICK n \in Nat \ {0} : n = Len(userBox)
        BY <1>a
      <4> QED
        BY <4>1, <4>2
    <3> QED
      BY <1>3, <1>5, <3>1 DEF StaleForm, Saved, Last
  <2>3. PICK r : r = [gpa |-> result, cgpa |-> c, past |-> form.past, at |-> form.at]
    OBVIOUS
  <2>4. r \in GoodUpdate
    <3>1. /\ form.past \in Cgpa /\ form.at \in Position /\ result \in Score
      BY LedgerAssumption DEF Types
    <3> QED
      BY <2>1, <2>3, <3>1, RecordGood
  <2>5. list # <<>> => ~Final(Last(list).at)
    BY <1>3, <1>5 DEF AllRecorded
  <2>6. Agree(Append(list, r), [cgpa |-> r.cgpa, at |-> increment(r.at)])
    BY <1>3, <2>2, <2>3, <2>4, <2>5, SubmitAgrees
  <2>7. PICK new, next : /\ new \in Seq(GoodUpdate)
                        /\ new = Append(list, r)
                        /\ next = [cgpa |-> r.cgpa, at |-> increment(r.at)]
    BY <2>4, AppendProperties
  <2>8. Put(updateBox, new) /\ Put(userBox, next)
    BY <1>3, <2>1, <2>2, <2>3, <2>7
  <2>9. next \in User
    <3>1. u.at \in Position /\ r.at = u.at /\ r.cgpa \in Score
      BY <2>2, <2>3, <2>4 DEF User, GoodUpdate, Update
    <3> QED
      BY <2>7, <3>1, IncrementAdvances, UnsetIsNoScore DEF User, Cgpa
  <2>10. updates' = new /\ Last(userBox') = next
    BY <2>7, <2>8, <2>9, ListPut, UserPut
  <2> QED
    BY <1>4, <2>6, <2>7, <2>10
<1>6. ASSUME NEW result \in Corrections, SubmitEdit(result), ~ StaleEditor
      PROVE  FALSE
  <2>1. PICK r \in GoodUpdate, new \in Seq(GoodUpdate), next \in User : Changes(r, new, next)
    BY <1>6, Changed
  <2>2. updates' = new /\ Last(userBox') = next
    BY <2>1, ListPut, UserPut DEF Changes
  <2>3. PICK index \in 1 .. Len(list) : index = form.index
    BY <1>3, <2>1 DEF Changes
  <2>4. PICK edited \in 1 .. Len(list) : edited = Len(list) + 1 - index
    BY <2>3
  <2>5. /\ Len(userBox) = 1 /\ user = u
        /\ r.past = list[edited].past /\ r.at = list[edited].at
    <3>1. Len(userBox) = 1
      <4>1. ~ (Len(userBox) > 1)
        BY <1>6 DEF StaleEditor
      <4>2. PICK n \in Nat \ {0} : n = Len(userBox)
        BY <1>a
      <4> QED
        BY <4>1, <4>2
    <3> QED
      <4>1. user = u
        BY <1>3, <3>1 DEF Saved, Last
      <4>2. form.past = list[edited].past /\ form.at = list[edited].at
        BY <1>3, <1>6, <2>3, <2>4 DEF StaleEditor
      <4> QED
        BY <2>1, <3>1, <4>1, <4>2 DEF Changes
  <2>6. /\ SameSemesters(new, list)
        /\ \A k \in 1 .. Len(list) : EditedAs(list, r, edited, new, k)
    <3>1. /\ Len(new) = Len(list)
          /\ \A k \in 1 .. Len(list) : /\ EditedAs(list, r, edited, new, k)
                                       /\ k # edited => new[k].at = list[k].at
      BY <1>3, <2>1, <2>3, <2>4 DEF Changes
    <3>2. new[edited] = r
      BY <2>4, <3>1 DEF EditedAs
    <3> QED
      BY <2>4, <2>5, <3>1, <3>2, ChangedSemesters
  <2>7. Agree(new, [u EXCEPT !.cgpa = Last(new).cgpa])
    BY <1>3, <2>5, <2>6, ChangeAgrees
  <2>8. next = [u EXCEPT !.cgpa = Last(new).cgpa]
    BY <2>1, <2>5 DEF Changes
  <2> QED
    BY <1>4, <2>2, <2>7, <2>8
<1>7. ~ StartProfileEdit
  <2>1. ASSUME StartProfileEdit
        PROVE  FALSE
    <3>1. <<>> \in Seq(GoodUpdate) /\ Put(updateBox, <<>>)
      BY <2>1, EmptySeq DEF StartProfileEdit
    <3>2. updates' = <<>>
      BY <3>1, ListPut
    <3> QED
      BY <1>4, <3>2 DEF Agree
  <2> QED
    BY <2>1
<1>8. ASSUME EndProfileEdit
      PROVE  profile # {} /\ profile' = {} /\ updates # <<>>
  <2>1. updates' = updates /\ profile # {} /\ profile' = {}
    BY <1>8 DEF EndProfileEdit, updates
  <2> QED
    BY <1>4, <2>1 DEF Agree
<1>9. ~ Storage
  <2>1. ASSUME SaveDone
        PROVE  FALSE
    <3>1. updates' = updates /\ Last(userBox') = Last(userBox)
      BY <2>1, FlushOf DEF SaveDone, updates, Types
    <3> QED
      BY <1>3, <1>4, <3>1
  <2>2. ASSUME FlushUpdates
        PROVE  FALSE
    <3>1. PICK S : S = Seq(GoodUpdate)
      OBVIOUS
    <3>2. updateBox \in Seq(S) /\ Len(updateBox) > 1 /\ updateBox' = Tail(updateBox)
      BY <2>2, <3>1 DEF Types, FlushUpdates
    <3>3. updates' = updates /\ userBox' = userBox
      BY <2>2, <3>2, FlushOf DEF updates, FlushUpdates
    <3> QED
      BY <1>3, <1>4, <3>3
  <2> QED
    BY <2>1, <2>2 DEF Storage
<1>10. ~ (OpenDashboard \/ OpenForm \/ GoHome \/ Back)
  BY <1>1 DEF OpenDashboard, OpenForm, GoHome, Back
<1>11. ~ (SwitchTab \/ OpenPast \/ EditSaved \/ EditNotSaved)
  BY <1>1 DEF SwitchTab, OpenPast, EditSaved, EditNotSaved
<1>12. ~ \E index \in 1 .. MaxUpdates : OpenEditor(index)
  BY <1>1 DEF OpenEditor
<1>13. \/ \E result \in Results : Submit(result)
       \/ \E result \in Corrections : SubmitEdit(result)
       \/ EndProfileEdit
       \/ Crash
  BY <1>2, <1>7, <1>9, <1>10, <1>11, <1>12 DEF Next, Recording, Editing, ProfileEdit
<1>14. (\E result \in Results : Submit(result)) => screen = "form"
  BY DEF Submit
<1>15. (\E result \in Corrections : SubmitEdit(result)) => screen = "editor"
  BY DEF SubmitEdit
<1> QED
  BY <1>5, <1>6, <1>8, <1>13, <1>14, <1>15 DEF ChainCause

\* List and user cease to agree only in the ways ChainBreaks names, for every course,
\* result and number of puts under way: no other order of the screens' handlers, of Hive's
\* and of Firestore's answers does it.
THEOREM ChainHasACauseOfBreak == Spec => ChainBreaks
<1>1. IInv /\ [Next]_vars => [Chained /\ ~Chained' => ChainCause]_vars
  BY ChainStep
<1>2. Spec => [][Chained /\ ~Chained' => ChainCause]_vars
  BY <1>1, Invariant, PTL DEF Spec
<1> QED
  BY <1>2 DEF ChainBreaks, ChainCause

-----------------------------------------------------------------------------
(* Where the sentinel gets.                                                *)

\* Users and records that start with the sentinel in a semester of S only.
UsersIn(S) == {u \in User : u.cgpa = Unset => u.at \in S}

RecordsIn(S) == {r \in GoodUpdate : r.past = Unset => r.at \in S}

Within(S) ==
  /\ user \in UsersIn(S)
  /\ userBox \in Seq(UsersIn(S))
  /\ updateBox \in Seq(Seq(RecordsIn(S)))
  /\ shown.home \in Seq(RecordsIn(S)) /\ shown.past \in Seq(RecordsIn(S))
  /\ form.past = Unset => form.at \in S
  /\ profile \subseteq UsersIn(S)

\* A sequence is one of all sets its members are in.
LEMMA SeqOf ==
  ASSUME NEW T, NEW box \in Seq(T), NEW S, \A i \in DOMAIN box : box[i] \in S
  PROVE  box \in Seq(S)
<1>1. PICK n \in Nat : DOMAIN box = 1 .. n /\ n = Len(box)
  OBVIOUS
<1> QED
  BY <1>1

LEMMA WithinOf ==
  ASSUME IInv, NEW S, UnsetAt \subseteq S
  PROVE  Within(S)
<1> USE DEF IInv
<1> DEFINE users == {user} \cup {userBox[i] : i \in DOMAIN userBox} \cup profile
           lists == {updateBox[i] : i \in DOMAIN updateBox} \cup {shown.home, shown.past}
<1>1. \A u \in users : u.cgpa = Unset => u.at \in S
  BY DEF UnsetAt
<1>2. ASSUME NEW list \in lists, NEW k \in DOMAIN list, list[k].past = Unset
      PROVE  list[k].at \in S
  BY <1>2 DEF UnsetAt
<1>3. form.past = Unset => form.at \in S
  BY DEF UnsetAt
<1>4. user \in UsersIn(S) /\ profile \subseteq UsersIn(S)
  BY <1>1 DEF Types, UsersIn
<1>5. userBox \in Seq(UsersIn(S))
  <2>1. \A i \in DOMAIN userBox : userBox[i] \in UsersIn(S)
    BY <1>1 DEF Types, UsersIn
  <2> QED
    BY <2>1, SeqOf DEF Types
<1>6. ASSUME NEW list \in lists, list \in Seq(GoodUpdate)
      PROVE  list \in Seq(RecordsIn(S))
  <2>1. \A k \in DOMAIN list : list[k] \in RecordsIn(S)
    BY <1>2, <1>6 DEF RecordsIn
  <2> QED
    BY <1>6, <2>1, SeqOf
<1>7. updateBox \in Seq(Seq(RecordsIn(S)))
  <2>1. PICK T, R : T = Seq(GoodUpdate) /\ R = Seq(RecordsIn(S))
    OBVIOUS
  <2>2. updateBox \in Seq(T) /\ \A i \in DOMAIN updateBox : updateBox[i] \in T
    BY <2>1 DEF Types
  <2>3. \A i \in DOMAIN updateBox : updateBox[i] \in R
    BY <1>6, <2>1, <2>2
  <2> QED
    BY <2>1, <2>2, <2>3, SeqOf
<1>8. shown.home \in Seq(RecordsIn(S)) /\ shown.past \in Seq(RecordsIn(S))
  BY <1>6 DEF Types
<1> QED
  BY <1>3, <1>4, <1>5, <1>7, <1>8 DEF Within

\* A list of such records is changed into one of such records by one more.
LEMMA ChangedWithin ==
  ASSUME NEW S, NEW old \in Seq(RecordsIn(S)), NEW new \in Seq(GoodUpdate),
         NEW u \in RecordsIn(S), NEW edited \in 1 .. Len(old), Len(new) = Len(old),
         \A k \in 1 .. Len(old) : EditedAs(old, u, edited, new, k)
  PROVE  new \in Seq(RecordsIn(S))
<1>1. ASSUME NEW k \in 1 .. Len(old)
      PROVE  new[k] \in RecordsIn(S)
  <2>1. EditedAs(old, u, edited, new, k) /\ new[k] \in GoodUpdate /\ old[k] \in RecordsIn(S)
    OBVIOUS
  <2>2. CASE k <= edited
    BY <2>1, <2>2 DEF EditedAs
  <2>3. CASE k > edited
    <3>1. /\ new[k] \in replaceUpdate(old[k], new[k - 1])
          /\ old[k] \in GoodUpdate /\ new[k - 1] \in GoodUpdate
      BY <2>1, <2>3 DEF EditedAs, RecordsIn
    <3>2. new[k].past = new[k - 1].cgpa /\ new[k - 1].cgpa \in Score
      BY <3>1, ReplaceFollows DEF GoodUpdate, Update
    <3> QED
      BY <2>1, <3>2, UnsetIsNoScore DEF RecordsIn
  <2> QED
    BY <2>2, <2>3
<1>2. \A k \in DOMAIN new : new[k] \in RecordsIn(S)
  BY <1>1
<1> QED
  BY <1>2, SeqOf

LEMMA WithinStep ==
  ASSUME IInv, [Next]_vars, NEW S, Within(S), Start \in S,
         \A p \in profile' : p.cgpa = Unset => p.at \in S
  PROVE  Within(S)'
<1> USE DEF IInv
<1>1. updates \in Seq(RecordsIn(S))
  <2>1. PICK R : R = Seq(RecordsIn(S))
    OBVIOUS
  <2>2. updateBox \in Seq(R) /\ updateBox # <<>>
    BY <2>1 DEF Within, Types
  <2> QED
    BY <2>1, <2>2, LastOf DEF updates
<1>2. <<>> \in Seq(RecordsIn(S)) /\ NoForm.at \in S
  BY EmptySeq DEF NoForm
<1>3. ASSUME NEW list \in Seq(RecordsIn(S)), Put(updateBox, list)
      PROVE  updateBox' \in Seq(Seq(RecordsIn(S)))
  <2>1. PICK R : R = Seq(RecordsIn(S))
    OBVIOUS
  <2>2. updateBox \in Seq(R) /\ list \in R /\ updateBox' = Append(updateBox, list)
    BY <1>3, <2>1 DEF Within, Put
  <2> QED
    BY <2>1, <2>2
<1>4. ASSUME NEW u \in UsersIn(S), Put(userBox, u)
      PROVE  userBox' \in Seq(UsersIn(S))
  BY <1>4 DEF Within, Put
<1>5. CASE \/ UNCHANGED vars \/ OpenDashboard \/ GoHome \/ Back \/ SwitchTab \/ OpenPast
           \/ EditSaved \/ EditNotSaved
  <2>1. UNCHANGED <<user, userBox, updateBox, profile>>
    BY <1>5 DEF vars, boxes, OpenDashboard, GoHome, Back, SwitchTab, OpenPast, EditSaved, EditNotSaved
  <2>2. form' = form \/ form' = NoForm
    BY <1>5 DEF vars, OpenDashboard, GoHome, Back, SwitchTab, OpenPast, EditSaved, EditNotSaved
  <2>3. /\ shown'.home \in {shown.home, updates, <<>>}
        /\ shown'.past \in {shown.past, updates, <<>>}
    BY <1>5 DEF vars, OpenDashboard, GoHome, Back, SwitchTab, OpenPast, EditSaved, EditNotSaved, Types
  <2>4. form'.past = Unset => form'.at \in S
    BY <1>2, <2>2 DEF Within
  <2>5. shown'.home \in Seq(RecordsIn(S)) /\ shown'.past \in Seq(RecordsIn(S))
    BY <1>1, <1>2, <2>3 DEF Within
  <2> QED
    BY <2>1, <2>4, <2>5 DEF Within
<1>6. CASE OpenForm
  <2>1. /\ UNCHANGED <<user, userBox, updateBox, shown, profile>>
        /\ form'.past = user.cgpa /\ form'.at = user.at
    BY <1>6 DEF OpenForm, boxes
  <2> QED
    BY <2>1 DEF Within, UsersIn
<1>7. ASSUME NEW result \in Results, Submit(result)
      PROVE  Within(S)'
  <2>1. PICK c \in getCGPA(form.past, result, form.at) :
          /\ Put(updateBox, Append(updates, [gpa |-> result, cgpa |-> c,
                                             past |-> form.past, at |-> form.at]))
          /\ Put(userBox, [cgpa |-> c, at |-> increment(user.at)])
    BY <1>7 DEF Submit
  <2>2. PICK r, u : /\ r = [gpa |-> result, cgpa |-> c, past |-> form.past, at |-> form.at]
                    /\ u = [cgpa |-> c, at |-> increment(user.at)]
    OBVIOUS
  <2>3. r \in GoodUpdate /\ c \in Score
    <3>1. form.past \in Cgpa /\ form.at \in Position /\ result \in Score
      BY LedgerAssumption DEF Types
    <3> QED
      BY <2>2, <3>1, RecordGood
  <2>4. r \in RecordsIn(S)
    BY <2>2, <2>3 DEF Within, RecordsIn
  <2>5. u \in UsersIn(S)
    <3>1. user.at \in Position
      BY DEF Types, User
    <3>2. increment(user.at) \in Position
      BY <3>1, IncrementAdvances
    <3> QED
      BY <2>2, <2>3, <3>2, UnsetIsNoScore DEF UsersIn, User, Cgpa
  <2>6. PICK list \in Seq(RecordsIn(S)) : list = Append(updates, r)
    <3>1. PICK R : R = RecordsIn(S)
      OBVIOUS
    <3>2. updates \in Seq(R) /\ r \in R
      BY <1>1, <2>4, <3>1
    <3>3. Append(updates, r) \in Seq(R)
      BY <3>2
    <3> QED
      BY <3>1, <3>3
  <2>7. updateBox' \in Seq(Seq(RecordsIn(S)))
    BY <1>3, <2>1, <2>2, <2>6
  <2>8. userBox' \in Seq(UsersIn(S))
    BY <1>4, <2>1, <2>2, <2>5
  <2>9. UNCHANGED <<user, shown, form, profile>>
    BY <1>7 DEF Submit
  <2> QED
    BY <2>7, <2>8, <2>9 DEF Within
<1>8. ASSUME NEW index \in 1 .. MaxUpdates, OpenEditor(index)
      PROVE  Within(S)'
  <2>1. PICK list : list = shown[screen]
    OBVIOUS
  <2>2. PICK r : r = list[Len(list) + 1 - index]
    OBVIOUS
  <2>3. /\ screen \in {"home", "past"} /\ index \in 1 .. Len(list)
        /\ form'.past = r.past /\ form'.at = r.at
        /\ UNCHANGED <<user, userBox, updateBox, shown, profile>>
    BY <1>8, <2>1, <2>2 DEF OpenEditor, boxes
  <2>4. list \in Seq(RecordsIn(S))
    BY <2>1, <2>3 DEF Within
  <2>5. r \in RecordsIn(S)
    BY <2>2, <2>3, <2>4
  <2> QED
    BY <2>3, <2>5 DEF Within, RecordsIn
<1>9. ASSUME NEW result \in Corrections, SubmitEdit(result)
      PROVE  Within(S)'
  <2>1. PICK r \in GoodUpdate, new \in Seq(GoodUpdate), next \in User : Changes(r, new, next)
    BY <1>9, Changed
  <2>2. r \in RecordsIn(S)
    BY <2>1 DEF Changes, Within, RecordsIn
  <2>3. PICK old \in Seq(RecordsIn(S)) : old = updates
    BY <1>1
  <2>4. PICK edited \in 1 .. Len(old) : edited = Len(old) + 1 - form.index
    BY <2>1, <2>3 DEF Changes
  <2>5. Len(new) = Len(old) /\ \A k \in 1 .. Len(old) : EditedAs(old, r, edited, new, k)
    BY <2>1, <2>3, <2>4 DEF Changes
  <2>6. new \in Seq(RecordsIn(S))
    BY <2>2, <2>5, ChangedWithin
  <2>7. next \in UsersIn(S)
    <3>1. Last(new) \in GoodUpdate
      BY <2>5, LastOf
    <3>2. next.cgpa = Last(new).cgpa /\ Last(new).cgpa \in Score
      BY <2>1, <3>1 DEF Changes, GoodUpdate, Update, Types, User
    <3> QED
      BY <3>2, UnsetIsNoScore DEF UsersIn
  <2>8. updateBox' \in Seq(Seq(RecordsIn(S))) /\ userBox' \in Seq(UsersIn(S)) /\ user' = next
    BY <1>3, <1>4, <2>1, <2>6, <2>7 DEF Changes
  <2>9. UNCHANGED <<shown, form, profile>>
    BY <1>9 DEF SubmitEdit
  <2> QED
    BY <2>7, <2>8, <2>9 DEF Within
<1>10. CASE StartProfileEdit
  <2>1. updateBox' \in Seq(Seq(RecordsIn(S)))
    BY <1>2, <1>3, <1>10 DEF StartProfileEdit
  <2>2. /\ UNCHANGED <<user, userBox, form>>
        /\ shown'.home \in {shown.home, <<>>} /\ shown'.past = shown.past
    BY <1>10 DEF StartProfileEdit, Types
  <2>3. profile' \subseteq UsersIn(S)
    <3>1. PICK p \in Profiles(user) : profile' = {p}
      BY <1>10 DEF StartProfileEdit
    <3>2. p \in User /\ (p.cgpa = Unset => p.at \in S)
      BY <3>1, ProfilesGood DEF Types, User
    <3> QED
      BY <3>1, <3>2 DEF UsersIn
  <2> QED
    BY <1>2, <2>1, <2>2, <2>3 DEF Within
<1>11. CASE EndProfileEdit
  <2>1. PICK p \in profile : user' = p /\ Put(userBox, p) /\ profile' = {}
    BY <1>11 DEF EndProfileEdit
  <2>2. p \in UsersIn(S)
    BY DEF Within
  <2>3. userBox' \in Seq(UsersIn(S))
    BY <1>4, <2>1, <2>2
  <2>4. UNCHANGED <<updateBox, shown, form>>
    BY <1>11 DEF EndProfileEdit
  <2> QED
    BY <2>1, <2>2, <2>3, <2>4 DEF Within
<1>12. CASE SaveDone
  <2>1. /\ Len(userBox) > 1 /\ userBox' = Tail(userBox) /\ user' = userBox[2]
        /\ UNCHANGED <<updateBox, shown, form, profile>>
    BY <1>12 DEF SaveDone
  <2>2. userBox' \in Seq(UsersIn(S)) /\ user' \in UsersIn(S)
    BY <2>1, FlushOf DEF Within
  <2> QED
    BY <2>1, <2>2 DEF Within
<1>13. CASE FlushUpdates
  <2>1. /\ Len(updateBox) > 1 /\ updateBox' = Tail(updateBox)
        /\ UNCHANGED <<user, userBox, shown, form, profile>>
    BY <1>13 DEF FlushUpdates
  <2>2. PICK R : R = Seq(RecordsIn(S))
    OBVIOUS
  <2>3. updateBox' \in Seq(R)
    BY <2>1, <2>2, FlushOf DEF Within
  <2> QED
    BY <2>1, <2>2, <2>3 DEF Within
<1>14. CASE Crash
  <2>1. PICK i \in 1 .. Len(userBox) : user' = userBox[i]
    BY <1>14 DEF Crash
  <2>2. PICK j \in 1 .. Len(updateBox) : updateBox' = <<updateBox[j]>>
    BY <1>14 DEF Crash
  <2>3. PICK u, list : u = userBox[i] /\ list = updateBox[j]
    OBVIOUS
  <2>4. u \in UsersIn(S) /\ list \in Seq(RecordsIn(S))
    BY <2>3 DEF Within
  <2>5. /\ user' = u /\ userBox' = <<u>> /\ updateBox' = <<list>> /\ form' = NoForm
        /\ shown' = [home |-> list, past |-> <<>>] /\ profile' = {}
    BY <1>14, <2>1, <2>2, <2>3 DEF Crash
  <2>6. userBox' \in Seq(UsersIn(S))
    BY <2>4, <2>5, OneIn
  <2>7. updateBox' \in Seq(Seq(RecordsIn(S)))
    <3>1. PICK R : R = Seq(RecordsIn(S))
      OBVIOUS
    <3>2. <<list>> \in Seq(R)
      BY <2>4, <3>1, OneIn
    <3> QED
      BY <2>5, <3>1, <3>2
  <2> QED
    BY <1>2, <2>4, <2>5, <2>6, <2>7 DEF Within
<1> QED
  BY <1>5, <1>6, <1>7, <1>8, <1>9, <1>10, <1>11, <1>12, <1>13, <1>14
  DEF Next, Recording, Editing, ProfileEdit, Storage

\* The sentinel -1.0, which makes getCGPA (stats_function.dart:142) take a result for
\* the average, gets to a semester only by an edit of the profile: recording and
\* changing semesters, puts that come late and kills carry it nowhere.
THEOREM SentinelOnlyTyped == Spec => SentinelIsTyped
<1>1. ASSUME IInv, [Next]_vars
      PROVE  UnsetAt' \subseteq UnsetAt \cup {Start} \cup {p.at : p \in {q \in profile' : q.cgpa = Unset}}
  <2>1. PICK S : S = UnsetAt \cup {Start} \cup {p.at : p \in {q \in profile' : q.cgpa = Unset}}
    OBVIOUS
  <2>2. UnsetAt \subseteq S /\ Start \in S /\ \A p \in profile' : p.cgpa = Unset => p.at \in S
    BY <2>1
  <2>3. Within(S)
    BY <1>1, <2>2, WithinOf
  <2>4. Within(S)'
    BY <1>1, <2>2, <2>3, WithinStep
  <2>5. UnsetAt' \subseteq S
    <3> DEFINE users == {user} \cup {userBox[i] : i \in DOMAIN userBox} \cup profile
               lists == {updateBox[i] : i \in DOMAIN updateBox} \cup {shown.home, shown.past}
    <3>1. \A u \in users' : u.cgpa = Unset => u.at \in S
      BY <2>4 DEF Within, UsersIn
    <3>2. \A list \in lists' : list \in Seq(RecordsIn(S))
      <4>1. PICK R : R = Seq(RecordsIn(S))
        OBVIOUS
      <4>2. updateBox' \in Seq(R) /\ shown'.home \in R /\ shown'.past \in R
        BY <2>4, <4>1 DEF Within
      <4> QED
        BY <4>1, <4>2
    <3>3. ASSUME NEW list \in lists', NEW k \in DOMAIN list, list[k].past = Unset
          PROVE  list[k].at \in S
      <4>1. list \in Seq(RecordsIn(S))
        BY <3>2
      <4>2. list[k] \in RecordsIn(S)
        BY <4>1
      <4> QED
        BY <3>3, <4>2 DEF RecordsIn
    <3>4. form'.past = Unset => form'.at \in S
      BY <2>4 DEF Within
    <3> QED
      BY <3>1, <3>3, <3>4 DEF UnsetAt
  <2> QED
    BY <2>1, <2>5
<1>2. IInv /\ [Next]_vars =>
        [UnsetAt' \subseteq UnsetAt \cup {Start} \cup {p.at : p \in {q \in profile' : q.cgpa = Unset}}]_vars
  BY <1>1
<1> QED
  BY <1>2, Invariant, PTL DEF Spec, SentinelIsTyped

=============================================================================
