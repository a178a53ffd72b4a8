-------------------------- MODULE CalculatorProofs --------------------------
(***************************************************************************)
(* The calculators, for every course catalogue, list of courses and choice *)
(* of grades, with syncs and restarts at any time: types, what a record's  *)
(* result stands for, and what may spoil it.                               *)
(***************************************************************************)
EXTENDS Calculator, SequenceTheorems, WellFoundedInduction, TLAPS

-----------------------------------------------------------------------------
(* Induction and recursion over the natural numbers, without operators as  *)
(* parameters.                                                             *)

\* A set with 0 and the successor of each of its numbers has them all.
LEMMA SetInduction ==
  ASSUME NEW S, 0 \in S, \A n \in Nat : n \in S => n + 1 \in S
  PROVE  Nat \subseteq S
<1> DEFINE T == Nat \ S
           R == {ss \in Nat \X Nat : ss[1] < ss[2]}
<1>1. IsWellFoundedOn(R, Nat)
  BY NatLessThanWellFounded DEF OpToRel
<1>2. ASSUME T # {}
      PROVE  FALSE
  <2>1. \E x \in T : \A y \in T : ~ (<<y, x>> \in R)
    <3>1. T \subseteq Nat
      OBVIOUS
    <3> HIDE DEF T, R
    <3> QED
      BY <1>1, <1>2, <3>1, WFMin
  <2>2. PICK x \in T : \A y \in T : ~ (y < x)
    BY <2>1
  <2>3. x \in Nat \ {0}
    OBVIOUS
  <2>4. x - 1 \in Nat /\ x - 1 \notin T
    BY <2>2, <2>3
  <2>5. (x - 1) + 1 \in S
    BY <2>4
  <2> QED
    BY <2>3, <2>5
<1> QED
  BY <1>2

\* The recursion of convertGradeToScore.
IsKept(scores, n, kept) ==
  kept = [k \in 0 .. n |-> IF k = 0 THEN <<>>
                           ELSE IF scores[k] = None THEN kept[k - 1]
                           ELSE Append(kept[k - 1], scores[k])]

\* It has a solution.
LEMMA KeptExists ==
  ASSUME NEW scores
  PROVE  \A n \in Nat : \E kept : IsKept(scores, n, kept)
<1> DEFINE S == {n \in Nat : \E kept : IsKept(scores, n, kept)}
<1>1. 0 \in S
  <2>1. IsKept(scores, 0, [k \in 0 .. 0 |-> <<>>])
    BY DEF IsKept
  <2> QED
    BY <2>1
<1>2. ASSUME NEW n \in Nat, n \in S
      PROVE  n + 1 \in S
  <2>1. PICK kept : IsKept(scores, n, kept)
    BY <1>2
  <2>2. PICK next : next = [k \in 0 .. n + 1 |->
                              IF k \in 0 .. n THEN kept[k]
                              ELSE IF scores[n + 1] = None THEN kept[n]
                              ELSE Append(kept[n], scores[n + 1])]
    OBVIOUS
  <2>3. ASSUME NEW k \in 0 .. n + 1
        PROVE  next[k] = IF k = 0 THEN <<>>
                         ELSE IF scores[k] = None THEN next[k - 1]
                         ELSE Append(next[k - 1], scores[k])
    <3>1. CASE k \in 0 .. n
      <4>1. next[k] = kept[k] /\ (k # 0 => k - 1 \in 0 .. n /\ next[k - 1] = kept[k - 1])
        BY <2>2, <3>1
      <4>2. kept[k] = IF k = 0 THEN <<>>
                      ELSE IF scores[k] = None THEN kept[k - 1]
                      ELSE Append(kept[k - 1], scores[k])
        BY <2>1, <3>1 DEF IsKept
      <4> QED
        BY <4>1, <4>2
    <3>2. CASE k = n + 1
      <4>1. next[k] = (IF scores[k] = None THEN kept[n] ELSE Append(kept[n], scores[k]))
            /\ k - 1 = n /\ next[n] = kept[n] /\ k # 0
        BY <2>2, <3>2
      <4> QED
        BY <4>1
    <3> QED
      BY <3>1, <3>2
  <2>4. IsKept(scores, n + 1, next)
    BY <2>2, <2>3 DEF IsKept
  <2> QED
    BY <2>4
<1> HIDE DEF S
<1>3. Nat \subseteq S
  BY <1>1, <1>2, SetInduction
<1> QED
  BY <1>3 DEF S

\* convertGradeToScore keeps the grades before the first missing one beside their
\* courses, and nothing else if no grade follows.
LEMMA Converted ==
  ASSUME NEW scores \in Seq(Grade \cup {None}), NEW l \in 0 .. Len(scores),
         \A i \in 1 .. l : scores[i] # None
  PROVE  LET score == convertGradeToScore(scores)
         IN  /\ score \in Seq(Grade)
             /\ l <= Len(score)
             /\ \A i \in 1 .. l : score[i] = scores[i]
             /\ (\A i \in l + 1 .. Len(scores) : scores[i] = None) => Len(score) = l
<1> DEFINE kept[n \in 0 .. Len(scores)] ==
             IF n = 0 THEN <<>>
             ELSE IF scores[n] = None THEN kept[n - 1]
             ELSE Append(kept[n - 1], scores[n])
<1>1. convertGradeToScore(scores) = kept[Len(scores)]
  BY DEF convertGradeToScore
<1>2. IsKept(scores, Len(scores), kept)
  <2>1. Len(scores) \in Nat
    OBVIOUS
  <2>2. \E k : k = [n \in 0 .. Len(scores) |-> IF n = 0 THEN <<>>
                                              ELSE IF scores[n] = None THEN k[n - 1]
                                              ELSE Append(k[n - 1], scores[n])]
    BY <2>1, KeptExists DEF IsKept
  <2> QED
    BY <2>2 DEF IsKept
<1> HIDE DEF kept
<1>3. /\ kept[0] = <<>>
      /\ \A n \in 1 .. Len(scores) :
           kept[n] = IF scores[n] = None THEN kept[n - 1] ELSE Append(kept[n - 1], scores[n])
  <2>1. Len(scores) \in Nat
    OBVIOUS
  <2>2. 0 \in 0 .. Len(scores) /\ \A n \in 1 .. Len(scores) : n \in 0 .. Len(scores) /\ n # 0
    BY <2>1
  <2>3. ASSUME NEW n \in 0 .. Len(scores)
        PROVE  kept[n] = IF n = 0 THEN <<>>
                         ELSE IF scores[n] = None THEN kept[n - 1]
                         ELSE Append(kept[n - 1], scores[n])
    BY <1>2 DEF IsKept
  <2> QED
    BY <2>2, <2>3
<1> DEFINE Good(n) ==
             /\ kept[n] \in Seq(Grade)
             /\ n <= l => Len(kept[n]) = n /\ \A i \in 1 .. n : kept[n][i] = scores[i]
             /\ l <= n => l <= Len(kept[n]) /\ \A i \in 1 .. l : kept[n][i] = scores[i]
             /\ l <= n /\ (\A i \in l + 1 .. Len(scores) : scores[i] = None)
                  => Len(kept[n]) = l
           S == {n \in Nat : n <= Len(scores) => Good(n)}
<1>4. 0 \in S
  <2>1. kept[0] \in Seq(Grade) /\ Len(kept[0]) = 0
    BY <1>3
  <2>2. l \in Nat /\ \A i \in 1 .. 0 : FALSE
    OBVIOUS
  <2>3. Good(0)
    BY <2>1, <2>2
  <2> QED
    BY <2>3
<1>5. ASSUME NEW n \in Nat, n \in S
      PROVE  n + 1 \in S
  <2>1. SUFFICES ASSUME n + 1 <= Len(scores)
                 PROVE  Good(n + 1)
    OBVIOUS
  <2>2. Good(n)
    BY <1>5, <2>1
  <2>3. n + 1 \in 1 .. Len(scores) /\ (n + 1) - 1 = n
    BY <2>1
  <2>4. kept[n + 1] = IF scores[n + 1] = None THEN kept[n] ELSE Append(kept[n], scores[n + 1])
    BY <1>3, <2>3
  <2>5. CASE scores[n + 1] = None
    <3>1. l <= n
      BY <2>3, <2>5
    <3> QED
      BY <2>2, <2>4, <2>5, <3>1
  <2>6. CASE scores[n + 1] # None
    <3>1. scores[n + 1] \in Grade
      BY <2>3, <2>6
    <3>2. PICK grown : grown = Append(kept[n], scores[n + 1])
      OBVIOUS
    <3>3. /\ grown \in Seq(Grade) /\ Len(grown) = Len(kept[n]) + 1
          /\ \A i \in 1 .. Len(kept[n]) : grown[i] = kept[n][i]
          /\ grown[Len(kept[n]) + 1] = scores[n + 1]
      BY <2>2, <3>1, <3>2
    <3>4. kept[n + 1] = grown
      BY <2>4, <2>6, <3>2
    <3>5. Len(kept[n]) \in Nat
      BY <2>2
    <3>6. CASE n + 1 <= l
      <4>1. Len(kept[n]) = n /\ \A i \in 1 .. n : kept[n][i] = scores[i]
        BY <2>2, <3>6
      <4>2. Len(grown) = n + 1 /\ \A i \in 1 .. n + 1 : grown[i] = scores[i]
        BY <3>3, <4>1
      <4> QED
        BY <2>3, <3>3, <3>4, <3>6, <4>2
    <3>7. CASE ~(n + 1 <= l)
      <4>1. l <= n /\ n + 1 \in l + 1 .. Len(scores)
        BY <2>3, <3>7
      <4>2. l <= Len(kept[n]) /\ \A i \in 1 .. l : kept[n][i] = scores[i]
        BY <2>2, <4>1
      <4>3. l <= Len(grown) /\ \A i \in 1 .. l : grown[i] = scores[i]
        BY <3>3, <3>5, <4>2
      <4> QED
        BY <2>6, <3>3, <3>4, <3>7, <4>1, <4>3
    <3> QED
      BY <3>6, <3>7
  <2> QED
    BY <2>5, <2>6
<1> HIDE DEF S
<1>6. Nat \subseteq S
  BY <1>4, <1>5, SetInduction
<1>7. Len(scores) \in Nat /\ Len(scores) \in S
  BY <1>6
<1>8. Good(Len(scores))
  BY <1>7 DEF S
<1> QED
  BY <1>1, <1>8

-----------------------------------------------------------------------------
(* Lists of courses, and what is computed from them.                       *)

Outcome == Seq(Units \X Grade)

SavedRecord == [list : Nat, scores : Seq(Grade), result : Outcome]

WrittenRecord == [courses : List, scores : Seq(Grade), result : Outcome]

LEMMA ListIs ==
  ASSUME NEW s
  PROVE  s \in List <=> s \in Seq(Units) /\ Len(s) <= MaxCourses
<1>1. MaxCourses \in Nat
  BY CalculatorAssumption
<1>2. ASSUME s \in List
      PROVE  s \in Seq(Units) /\ Len(s) <= MaxCourses
  <2>1. PICK n \in 0 .. MaxCourses : s \in [1 .. n -> Units]
    BY <1>2 DEF List
  <2>2. n \in Nat /\ n <= MaxCourses
    BY <1>1
  <2>3. s \in Seq(Units) /\ Len(s) = n
    BY <2>1, <2>2
  <2> QED
    BY <2>2, <2>3
<1>3. ASSUME s \in Seq(Units), Len(s) <= MaxCourses
      PROVE  s \in List
  <2>1. Len(s) \in 0 .. MaxCourses /\ s \in [1 .. Len(s) -> Units]
    BY <1>1, <1>3
  <2> QED
    BY <2>1 DEF List
<1> QED
  BY <1>2, <1>3

\* Deleting from a list that another one is beside.
LEMMA Removed ==
  ASSUME NEW T, NEW s \in Seq(T), NEW i \in 1 .. Len(s)
  PROVE  /\ RemoveAt(s, i) \in Seq(T)
         /\ Len(RemoveAt(s, i)) = Len(s) - 1
         /\ \A n \in 1 .. Len(s) - 1 : RemoveAt(s, i)[n] = IF n < i THEN s[n] ELSE s[n + 1]
<1>1. Len(s) \in Nat /\ Len(s) - 1 \in Nat
  OBVIOUS
<1>2. PICK t : t = RemoveAt(s, i)
  OBVIOUS
<1>3. t = [n \in 1 .. Len(s) - 1 |-> IF n < i THEN s[n] ELSE s[n + 1]]
  BY <1>2 DEF RemoveAt
<1>4. \A n \in 1 .. Len(s) - 1 : (IF n < i THEN s[n] ELSE s[n + 1]) \in T
  BY <1>1
<1>5. t \in [1 .. Len(s) - 1 -> T]
  BY <1>3, <1>4
<1>6. t \in Seq(T) /\ Len(t) = Len(s) - 1
  BY <1>1, <1>5
<1> QED
  BY <1>2, <1>3, <1>6

\* The result of a complete calculation pairs the courses with their grades, and
\* converting the grades once more changes nothing.
LEMMA Computed ==
  ASSUME NEW list \in Seq(Units), NEW scores \in Seq(Grade \cup {None}),
         \A i \in 1 .. Len(list) : i \in 1 .. Len(scores) /\ scores[i] # None
  PROVE  /\ convertGradeToScore(scores) \in Seq(Grade)
         /\ getResult(list, scores) \in Outcome
         /\ getResult(list, convertGradeToScore(scores)) = getResult(list, scores)
         /\ (\A i \in Len(list) + 1 .. Len(scores) : scores[i] = None)
              => Len(convertGradeToScore(scores)) = Len(list)
<1>1. Len(list) \in Nat /\ Len(scores) \in Nat
  OBVIOUS
<1>2. Len(list) \in 0 .. Len(scores)
  <2>1. CASE Len(list) = 0
    BY <1>1, <2>1
  <2>2. CASE Len(list) # 0
    <3>1. Len(list) \in 1 .. Len(list)
      BY <1>1, <2>2
    <3> QED
      BY <1>1, <3>1
  <2> QED
    BY <2>1, <2>2
<1>3. PICK score : score = convertGradeToScore(scores)
  OBVIOUS
<1>4. /\ score \in Seq(Grade)
      /\ Len(list) <= Len(score)
      /\ \A i \in 1 .. Len(list) : score[i] = scores[i]
      /\ (\A i \in Len(list) + 1 .. Len(scores) : scores[i] = None) => Len(score) = Len(list)
  BY <1>2, <1>3, Converted
<1>5. None \notin Grade
  BY CalculatorAssumption
<1>6. score \in Seq(Grade \cup {None})
  BY <1>4
<1>7. Len(score) \in Nat /\ Len(list) \in 0 .. Len(score)
  BY <1>1, <1>4
<1>8. PICK again : again = convertGradeToScore(score)
  OBVIOUS
<1>9. \A i \in 1 .. Len(list) : score[i] \in Grade
  BY <1>4, <1>7
<1>10. \A i \in 1 .. Len(list) : again[i] = score[i]
  BY <1>5, <1>6, <1>7, <1>8, <1>9, Converted
<1>11. getResult(list, scores) = [i \in 1 .. Len(list) |-> <<list[i], score[i]>>]
  BY <1>3 DEF getResult
<1>12. getResult(list, score) = [i \in 1 .. Len(list) |-> <<list[i], again[i]>>]
  BY <1>8 DEF getResult
<1>13. [i \in 1 .. Len(list) |-> <<list[i], score[i]>>] \in [1 .. Len(list) -> Units \X Grade]
  BY <1>9
<1>14. [i \in 1 .. Len(list) |-> <<list[i], score[i]>>] \in Seq(Units \X Grade)
  <2>1. PICK pairs, pair : /\ pairs = [i \in 1 .. Len(list) |-> <<list[i], score[i]>>]
                           /\ pair = Units \X Grade
    OBVIOUS
  <2>2. pairs \in [1 .. Len(list) -> pair]
    BY <1>13, <2>1
  <2>3. pairs \in Seq(pair)
    BY <1>1, <2>2
  <2> QED
    BY <2>1, <2>3
<1> QED
  BY <1>3, <1>4, <1>10, <1>11, <1>12, <1>14 DEF Outcome

-----------------------------------------------------------------------------
(* The invariant.                                                          *)

\* The types, of everything; every list a record or a screen has is there.
Types ==
  /\ courses \in Seq(List)
  /\ Len(School) <= Len(courses)
  /\ at \in Position
  /\ records \in [Kind -> Seq(SavedRecord)]
  /\ \A k \in Kind : \A n \in 1 .. Len(records[k]) : records[k][n].list \in 1 .. Len(courses)
  /\ disk \in [Kind -> Seq(WrittenRecord)]
  /\ screen \in Screen \cup {None}
  /\ screen # None => screen.list \in 1 .. Len(courses)
  /\ {touched, spoilt} \subseteq BOOLEAN

\* A semester that was opened again is there, has the screen's list, and a grade that
\* has neither a course nor a place in the record was never chosen.
Opened ==
  screen # None /\ screen.kind = "update" /\ screen.of > 0 =>
    /\ screen.of \in 1 .. Len(records[screen.kind])
    /\ records[screen.kind][screen.of].list = screen.list
    /\ \A i \in 1 .. Len(screen.scores) :
         /\ i > Len(courses[screen.list])
         /\ i > Len(records[screen.kind][screen.of].scores)
         => screen.scores[i] = None

\* Beyond the courses no grade follows a missing one.
Trailing ==
  screen # None =>
    \A i, j \in 1 .. Len(screen.scores) :
      i > Len(courses[screen.list]) /\ i < j /\ screen.scores[i] = None => screen.scores[j] = None

\* Memory and disk agree, record by record; the grades are beside their courses.
Standing ==
  /\ \A k \in Kind :
       /\ Len(disk[k]) = Len(records[k])
       /\ \A n \in 1 .. Len(records[k]) :
            /\ disk[k][n] = Written(records[k][n], courses)
            /\ Exact(disk[k][n])
  /\ screen # None => Len(screen.scores) = Len(courses[screen.list])

AsInSchool == \A p \in Position : courses[p] = School[p]

IInv ==
  /\ Types
  /\ Opened
  /\ Trailing
  /\ spoilt \/ Standing
  /\ touched \/ AsInSchool

LEMMA InvInit == Init => IInv
<1> SUFFICES ASSUME Init
             PROVE  IInv
  OBVIOUS
<1> USE DEF Init
<1>1. School \in Seq(List) /\ Len(School) \in Nat /\ 1 \in Position
  BY CalculatorAssumption DEF Position
<1>2. \A k \in Kind : records[k] = <<>> /\ disk[k] = <<>>
  OBVIOUS
<1>3. <<>> \in Seq(SavedRecord) /\ <<>> \in Seq(WrittenRecord) /\ Len(<<>>) = 0
  OBVIOUS
<1>4. Types
  <2>1. \A k \in Kind : \A n \in 1 .. Len(records[k]) : FALSE
    BY <1>2
  <2>2. records \in [Kind -> Seq(SavedRecord)] /\ disk \in [Kind -> Seq(WrittenRecord)]
    BY <1>3
  <2>3. courses \in Seq(List) /\ Len(School) <= Len(courses) /\ at \in Position
    BY <1>1
  <2>4. screen = None /\ {touched, spoilt} \subseteq BOOLEAN
    OBVIOUS
  <2> QED
    BY <2>1, <2>2, <2>3, <2>4 DEF Types
<1>5. Standing
  BY <1>2 DEF Standing
<1>6. AsInSchool
  BY DEF AsInSchool
<1> QED
  BY <1>4, <1>5, <1>6 DEF IInv, Opened, Trailing

\* What the invariant says of the records and of the disk.
LEMMA Stands ==
  ASSUME Types
  PROVE  Standing <=> /\ \A k \in Kind :
                           /\ \A n \in DOMAIN records[k] : Exact(Written(records[k][n], courses))
                           /\ disk[k] = [n \in DOMAIN records[k] |-> Written(records[k][n], courses)]
                      /\ screen # None => Len(screen.scores) = Len(courses[screen.list])
<1>1. ASSUME NEW k \in Kind
      PROVE  /\ records[k] \in Seq(SavedRecord) /\ disk[k] \in Seq(WrittenRecord)
             /\ DOMAIN records[k] = 1 .. Len(records[k]) /\ DOMAIN disk[k] = 1 .. Len(disk[k])
             /\ Len(records[k]) \in Nat /\ Len(disk[k]) \in Nat
  <2>1. records[k] \in Seq(SavedRecord) /\ disk[k] \in Seq(WrittenRecord)
    BY DEF Types
  <2> QED
    BY <2>1
<1>2. ASSUME NEW k \in Kind,
             Len(disk[k]) = Len(records[k]),
             \A n \in 1 .. Len(records[k]) : disk[k][n] = Written(records[k][n], courses)
      PROVE  disk[k] = [n \in DOMAIN records[k] |-> Written(records[k][n], courses)]
  <2>1. disk[k] = [n \in 1 .. Len(disk[k]) |-> disk[k][n]]
    BY <1>1
  <2> QED
    BY <1>1, <1>2, <2>1
<1>3. ASSUME NEW k \in Kind,
             disk[k] = [n \in DOMAIN records[k] |-> Written(records[k][n], courses)]
      PROVE  /\ Len(disk[k]) = Len(records[k])
             /\ \A n \in 1 .. Len(records[k]) : disk[k][n] = Written(records[k][n], courses)
  <2>1. DOMAIN disk[k] = 1 .. Len(records[k])
    BY <1>1, <1>3
  <2>2. Len(disk[k]) = Len(records[k])
    BY <1>1, <2>1
  <2> QED
    BY <1>1, <1>3, <2>2
<1>4. ASSUME Standing, NEW k \in Kind
      PROVE  /\ \A n \in DOMAIN records[k] : Exact(Written(records[k][n], courses))
             /\ disk[k] = [n \in DOMAIN records[k] |-> Written(records[k][n], courses)]
  <2>1. /\ Len(disk[k]) = Len(records[k])
        /\ \A n \in 1 .. Len(records[k]) : disk[k][n] = Written(records[k][n], courses)
                                           /\ Exact(disk[k][n])
    BY <1>4 DEF Standing
  <2> QED
    BY <1>1, <1>2, <2>1
<1>5. ASSUME NEW k \in Kind,
             \A n \in DOMAIN records[k] : Exact(Written(records[k][n], courses)),
             disk[k] = [n \in DOMAIN records[k] |-> Written(records[k][n], courses)]
      PROVE  /\ Len(disk[k]) = Len(records[k])
             /\ \A n \in 1 .. Len(records[k]) : disk[k][n] = Written(records[k][n], courses)
                                                /\ Exact(disk[k][n])
  BY <1>1, <1>3, <1>5
<1> QED
  BY <1>4, <1>5 DEF Standing

-----------------------------------------------------------------------------
(* The invariant is kept: screens and courses.                             *)

\* A screen, and the list it shows.
LEMMA Shown ==
  ASSUME Types, screen # None
  PROVE  /\ screen \in Screen
         /\ screen.kind \in Kind /\ screen.of \in Nat
         /\ screen.scores \in Seq(Grade \cup {None}) /\ Len(screen.scores) \in Nat
         /\ screen.list \in 1 .. Len(courses)
         /\ courses[screen.list] \in List
         /\ courses[screen.list] \in Seq(Units)
         /\ Len(courses[screen.list]) \in Nat
         /\ DOMAIN courses[screen.list] = 1 .. Len(courses[screen.list])
         /\ DOMAIN screen.scores = 1 .. Len(screen.scores)
<1>1. screen \in Screen /\ screen.list \in 1 .. Len(courses)
  BY DEF Types
<1>2. /\ screen.kind \in Kind /\ screen.of \in Nat
      /\ screen.scores \in Seq(Grade \cup {None})
  BY <1>1 DEF Screen
<1>3. courses[screen.list] \in List
  BY <1>1 DEF Types
<1>4. courses[screen.list] \in Seq(Units)
  BY <1>3, ListIs
<1> QED
  BY <1>1, <1>2, <1>3, <1>4

\* A record, and its list.
LEMMA Saved ==
  ASSUME Types, NEW k \in Kind, NEW n \in 1 .. Len(records[k])
  PROVE  /\ records[k] \in Seq(SavedRecord)
         /\ records[k][n] \in SavedRecord
         /\ records[k][n].scores \in Seq(Grade)
         /\ Len(records[k][n].scores) \in Nat
         /\ records[k][n].list \in 1 .. Len(courses)
         /\ courses[records[k][n].list] \in List
         /\ Len(courses[records[k][n].list]) \in Nat
<1>1. records[k] \in Seq(SavedRecord) /\ records[k][n].list \in 1 .. Len(courses)
  BY DEF Types
<1>2. records[k][n] \in SavedRecord
  BY <1>1
<1>3. records[k][n].scores \in Seq(Grade)
  BY <1>2 DEF SavedRecord
<1>4. courses[records[k][n].list] \in List
  BY <1>1 DEF Types
<1>5. Len(courses[records[k][n].list]) \in Nat
  BY <1>4, ListIs
<1> QED
  BY <1>1, <1>2, <1>3, <1>4, <1>5

LEMMA InvOpenNew ==
  ASSUME IInv, NEW k \in Enabled, OpenNew(k)
  PROVE  IInv'
<1>1. k \in Kind /\ Len(School) \in Nat /\ School \in Seq(List)
  BY CalculatorAssumption
<1>2. at \in 1 .. Len(courses) /\ at \in Nat /\ courses[at] \in List
  BY <1>1 DEF IInv, Types, Position
<1>3. Len(courses[at]) \in Nat /\ DOMAIN courses[at] = 1 .. Len(courses[at])
  BY <1>2, ListIs
<1>4. PICK blank : blank = [i \in 1 .. Len(courses[at]) |-> None]
  OBVIOUS
<1>5. blank \in Seq(Grade \cup {None}) /\ Len(blank) = Len(courses[at])
  BY <1>3, <1>4
<1>6. screen' = [kind |-> k, list |-> at, of |-> 0, scores |-> blank]
  BY <1>3, <1>4 DEF OpenNew, Blank
<1>7. screen' \in Screen /\ screen'.of = 0 /\ screen'.list = at /\ screen'.scores = blank
  BY <1>1, <1>2, <1>5, <1>6 DEF Screen
<1>8. UNCHANGED <<courses, at, records, disk, changes, touched, spoilt>>
  BY DEF OpenNew
<1>9. Types'
  BY <1>2, <1>7, <1>8 DEF IInv, Types
<1>10. Opened'
  BY <1>7 DEF Opened
<1>a. Trailing'
  BY <1>4, <1>7 DEF Trailing
<1>11. Standing => Standing'
  BY <1>5, <1>7, <1>8 DEF Standing, Written
<1>12. AsInSchool => AsInSchool'
  BY <1>8 DEF AsInSchool
<1> QED
  BY <1>8, <1>9, <1>10, <1>11, <1>12, <1>a DEF IInv

LEMMA InvOpenRecord ==
  ASSUME IInv, NEW k \in Enabled, NEW n \in DOMAIN records[k], OpenRecord(k, n)
  PROVE  IInv'
<1>1. k \in Kind
  BY CalculatorAssumption
<1>2. records[k] \in Seq(SavedRecord)
  BY <1>1 DEF IInv, Types
<1>3. n \in 1 .. Len(records[k]) /\ n \in Nat /\ n > 0
  BY <1>2
<1>4. PICK r : r = records[k][n]
  OBVIOUS
<1>5. r.scores \in Seq(Grade) /\ r.list \in 1 .. Len(courses) /\ Len(r.scores) \in Nat
  BY <1>1, <1>3, <1>4, Saved DEF IInv
<1>6. r.scores \in Seq(Grade \cup {None}) /\ r.list \in Nat
  BY <1>5
<1>7. screen' = [kind |-> k, list |-> r.list, of |-> n, scores |-> r.scores]
  BY <1>4 DEF OpenRecord
<1>8. /\ screen' \in Screen /\ screen'.of = n /\ screen'.list = r.list /\ screen'.kind = k
      /\ screen'.scores = r.scores
  BY <1>1, <1>3, <1>6, <1>7 DEF Screen
<1>9. UNCHANGED <<courses, at, records, disk, changes, touched, spoilt>>
  BY DEF OpenRecord
<1>10. Types'
  BY <1>5, <1>8, <1>9 DEF IInv, Types
<1>11. Opened'
  <2>1. \A i \in 1 .. Len(r.scores) : ~(i > Len(r.scores))
    BY <1>5
  <2> QED
    BY <1>3, <1>4, <1>8, <1>9, <2>1 DEF Opened
<1>a. Trailing'
  <2>1. \A i \in 1 .. Len(r.scores) : r.scores[i] \in Grade
    BY <1>5
  <2> QED
    BY <1>8, <2>1, CalculatorAssumption DEF Trailing
<1>12. Standing => Standing'
  <2>1. ASSUME Standing
        PROVE  Len(r.scores) = Len(courses[r.list])
    <3>1. disk[k][n] = Written(r, courses) /\ Exact(disk[k][n])
      BY <1>1, <1>3, <1>4, <2>1 DEF Standing
    <3> QED
      BY <3>1 DEF Written, Exact
  <2> QED
    BY <1>8, <1>9, <2>1 DEF Standing, Written
<1>13. AsInSchool => AsInSchool'
  BY <1>9 DEF AsInSchool
<1> QED
  BY <1>9, <1>10, <1>11, <1>12, <1>13, <1>a DEF IInv

LEMMA InvClose ==
  ASSUME IInv, Close
  PROVE  IInv'
<1> USE DEF Close
<1>1. Types'
  BY DEF IInv, Types
<1>2. Opened'
  BY DEF Opened
<1>a. Trailing'
  BY DEF Trailing
<1>3. Standing => Standing'
  BY DEF Standing, Written
<1>4. AsInSchool => AsInSchool'
  BY DEF AsInSchool
<1> QED
  BY <1>1, <1>2, <1>3, <1>4, <1>a DEF IInv

\* Whatever a screen does to its list: if it keeps the grades beside it, in their number
\* and after the end, the invariant is kept.
LEMMA InvChange ==
  ASSUME IInv, screen # None, NEW list \in List, Change(list),
         screen' \in Screen,
         screen'.kind = screen.kind, screen'.list = screen.list, screen'.of = screen.of,
         Len(screen.scores) = Len(courses[screen.list]) => Len(screen'.scores) = Len(list),
         \A size \in Nat :
           (\A i \in 1 .. Len(screen.scores) :
              i > Len(courses[screen.list]) /\ i > size => screen.scores[i] = None)
           => (\A i \in 1 .. Len(screen'.scores) :
                 i > Len(list) /\ i > size => screen'.scores[i] = None),
         Trailing => \A i, j \in 1 .. Len(screen'.scores) :
                       i > Len(list) /\ i < j /\ screen'.scores[i] = None => screen'.scores[j] = None
  PROVE  IInv'
<1> DEFINE l == screen.list
<1>1. l \in 1 .. Len(courses) /\ screen.kind \in Kind /\ screen.of \in Nat
  BY Shown DEF IInv
<1>2. courses \in Seq(List) /\ Len(courses) \in Nat
  BY DEF IInv, Types
<1>3. PICK new : new = [courses EXCEPT ![l] = list]
  OBVIOUS
<1>4. new \in Seq(List) /\ Len(new) = Len(courses) /\ new[l] = list
      /\ \A m \in 1 .. Len(courses) : m # l => new[m] = courses[m]
  BY <1>1, <1>2, <1>3
<1>5. courses' = new /\ UNCHANGED <<at, records, disk>>
  BY <1>3 DEF Change
<1>6. screen' # None
  BY CalculatorAssumption
<1>7. Types'
  <2>1. /\ touched' = (touched \/ screen.list \in Position)
        /\ spoilt' = (spoilt \/ \E k \in Kind : \E n \in DOMAIN records[k] :
                                  records[k][n].list = screen.list)
    BY DEF Change
  <2>2. {touched', spoilt'} \subseteq BOOLEAN
    BY <2>1 DEF IInv, Types
  <2> QED
    BY <1>1, <1>4, <1>5, <2>2 DEF IInv, Types
<1>8. Opened'
  <2>1. SUFFICES ASSUME screen.kind = "update", screen.of > 0
                 PROVE  Opened'
    BY <1>1 DEF Opened
  <2>2. PICK r : r = records[screen.kind][screen.of]
    OBVIOUS
  <2>3. /\ screen.of \in 1 .. Len(records[screen.kind]) /\ r.list = l
        /\ \A i \in 1 .. Len(screen.scores) :
             i > Len(courses[l]) /\ i > Len(r.scores) => screen.scores[i] = None
    BY <2>1, <2>2 DEF IInv, Opened
  <2>4. Len(r.scores) \in Nat
    BY <1>1, <2>2, <2>3, Saved DEF IInv
  <2>5. \A i \in 1 .. Len(screen'.scores) :
          i > Len(list) /\ i > Len(r.scores) => screen'.scores[i] = None
    BY <2>3, <2>4
  <2> QED
    BY <1>4, <1>5, <2>2, <2>3, <2>5 DEF Opened
<1>9. spoilt' \/ Standing'
  <2>1. SUFFICES ASSUME ~spoilt'
                 PROVE  Standing'
    OBVIOUS
  <2>2. ~spoilt /\ \A k \in Kind : \A n \in DOMAIN records[k] : records[k][n].list # l
    BY <2>1 DEF Change
  <2>3. Standing
    BY <2>2 DEF IInv
  <2>4. ASSUME NEW k \in Kind, NEW n \in 1 .. Len(records[k])
        PROVE  Written(records[k][n], new) = Written(records[k][n], courses)
    <3>1. records[k] \in Seq(SavedRecord) /\ records[k][n].list \in 1 .. Len(courses)
      BY <2>4, Saved DEF IInv
    <3>2. n \in DOMAIN records[k]
      BY <3>1
    <3>3. new[records[k][n].list] = courses[records[k][n].list]
      BY <1>4, <2>2, <3>1, <3>2
    <3> QED
      BY <3>3 DEF Written
  <2>5. Len(screen'.scores) = Len(new[screen'.list])
    BY <1>4, <2>3 DEF Standing
  <2> QED
    BY <1>5, <2>3, <2>4, <2>5 DEF Standing
<1>10. touched' \/ AsInSchool'
  <2>1. SUFFICES ASSUME ~touched'
                 PROVE  AsInSchool'
    OBVIOUS
  <2>2. ~touched /\ l \notin Position
    BY <2>1 DEF Change
  <2>3. AsInSchool
    BY <2>2 DEF IInv
  <2>4. Position \subseteq 1 .. Len(courses)
    <3>1. School \in Seq(List) /\ Len(School) \in Nat
      BY CalculatorAssumption
    <3>2. Len(School) <= Len(courses)
      BY DEF IInv, Types
    <3> QED
      BY <1>2, <3>1, <3>2 DEF Position
  <2> QED
    BY <1>4, <1>5, <2>2, <2>3, <2>4 DEF AsInSchool
<1>11. Trailing'
  BY <1>1, <1>4, <1>5 DEF IInv, Trailing
<1> QED
  BY <1>7, <1>8, <1>9, <1>10, <1>11 DEF IInv

LEMMA InvRemoveCourse ==
  ASSUME IInv, screen # None, NEW i, RemoveCourse(i)
  PROVE  IInv' /\ screen' # None
<1> DEFINE old == courses[screen.list]
<1>1. /\ screen \in Screen
      /\ screen.scores \in Seq(Grade \cup {None}) /\ Len(screen.scores) \in Nat
      /\ old \in Seq(Units) /\ Len(old) \in Nat /\ old \in List
      /\ DOMAIN old = 1 .. Len(old) /\ DOMAIN screen.scores = 1 .. Len(screen.scores)
  BY Shown DEF IInv
<1>2. i \in 1 .. Len(old) /\ i \in 1 .. Len(screen.scores)
  BY <1>1 DEF RemoveCourse, Row
<1>3. PICK list : list = RemoveAt(old, i)
  OBVIOUS
<1>4. list \in Seq(Units) /\ Len(list) = Len(old) - 1
  BY <1>1, <1>2, <1>3, Removed
<1>5. list \in List
  BY <1>1, <1>4, ListIs, CalculatorAssumption
<1>6. PICK scores : scores = RemoveAt(screen.scores, i)
  OBVIOUS
<1>7. /\ scores \in Seq(Grade \cup {None})
      /\ Len(scores) = Len(screen.scores) - 1
      /\ \A n \in 1 .. Len(screen.scores) - 1 :
           scores[n] = IF n < i THEN screen.scores[n] ELSE screen.scores[n + 1]
  BY <1>1, <1>2, <1>6, Removed
<1>8. Change(list) /\ screen' = [screen EXCEPT !.scores = scores]
  BY <1>3, <1>6 DEF RemoveCourse
<1>9. /\ screen' \in Screen /\ screen'.scores = scores
      /\ screen'.kind = screen.kind /\ screen'.list = screen.list /\ screen'.of = screen.of
  BY <1>1, <1>7, <1>8 DEF Screen
<1>10. ASSUME NEW size \in Nat,
              \A n \in 1 .. Len(screen.scores) :
                n > Len(old) /\ n > size => screen.scores[n] = None,
              NEW n \in 1 .. Len(scores), n > Len(list), n > size
       PROVE  scores[n] = None
  <2>1. /\ n \in 1 .. Len(screen.scores) - 1 /\ ~(n < i)
        /\ n + 1 \in 1 .. Len(screen.scores) /\ n + 1 > Len(old) /\ n + 1 > size
    BY <1>1, <1>2, <1>4, <1>7, <1>10
  <2>2. scores[n] = screen.scores[n + 1]
    BY <1>7, <2>1
  <2> QED
    BY <1>10, <2>1, <2>2
<1>11. Len(screen.scores) = Len(old) => Len(scores) = Len(list)
  BY <1>4, <1>7
<1>12. ASSUME Trailing, NEW n \in 1 .. Len(scores), NEW m \in 1 .. Len(scores),
              n > Len(list), n < m, scores[n] = None
       PROVE  scores[m] = None
  <2> DEFINE beside == Len(screen.scores)
             there == Len(old)
  <2>a. beside \in Nat /\ there \in Nat /\ i \in 1 .. there
    BY <1>1, <1>2
  <2>b. n \in 1 .. beside - 1 /\ m \in 1 .. beside - 1 /\ n > there - 1 /\ n < m
    BY <1>4, <1>7, <1>12
  <2> HIDE DEF beside, there
  <2>c. /\ ~(n < i) /\ ~(m < i) /\ n + 1 > there /\ n + 1 < m + 1
        /\ n + 1 \in 1 .. beside /\ m + 1 \in 1 .. beside
    BY <2>a, <2>b
  <2>1. /\ n \in 1 .. Len(screen.scores) - 1 /\ ~(n < i) /\ m \in 1 .. Len(screen.scores) - 1 /\ ~(m < i)
        /\ n + 1 \in 1 .. Len(screen.scores) /\ n + 1 > Len(old)
        /\ m + 1 \in 1 .. Len(screen.scores) /\ n + 1 < m + 1
    BY <2>b, <2>c DEF beside, there
  <2>2. scores[n] = screen.scores[n + 1] /\ scores[m] = screen.scores[m + 1]
    BY <1>7, <2>1
  <2> QED
    BY <1>12, <2>1, <2>2 DEF Trailing
<1> QED
  BY <1>5, <1>8, <1>9, <1>10, <1>11, <1>12, InvChange, CalculatorAssumption

LEMMA InvEditCourse ==
  ASSUME IInv, screen # None, NEW i, NEW units \in Units, EditCourse(i, units)
  PROVE  IInv' /\ screen' # None
<1> DEFINE old == courses[screen.list]
<1>1. /\ screen \in Screen
      /\ old \in Seq(Units) /\ Len(old) \in Nat /\ old \in List
      /\ DOMAIN old = 1 .. Len(old)
  BY Shown DEF IInv
<1>2. i \in 1 .. Len(old)
  BY <1>1 DEF EditCourse, Row
<1>3. PICK list : list = [old EXCEPT ![i] = units]
  OBVIOUS
<1>4. list \in Seq(Units) /\ Len(list) = Len(old)
  BY <1>1, <1>2, <1>3
<1>5. list \in List
  BY <1>1, <1>4, ListIs
<1>6. Change(list) /\ screen' = screen
  BY <1>3 DEF EditCourse
<1> QED
  BY <1>1, <1>4, <1>5, <1>6, InvChange, CalculatorAssumption DEF Trailing

LEMMA InvAddCourse ==
  ASSUME IInv, screen # None, NEW units \in Units, AddCourse(units)
  PROVE  IInv' /\ screen' # None
<1> DEFINE old == courses[screen.list]
<1>1. /\ screen \in Screen
      /\ screen.scores \in Seq(Grade \cup {None}) /\ Len(screen.scores) \in Nat
      /\ old \in Seq(Units) /\ Len(old) \in Nat /\ old \in List
  BY Shown DEF IInv
<1>2. Len(old) < MaxCourses /\ MaxCourses \in Nat
  BY CalculatorAssumption DEF AddCourse
<1>3. PICK list : list = Append(old, units)
  OBVIOUS
<1>4. list \in Seq(Units) /\ Len(list) = Len(old) + 1
  BY <1>1, <1>3
<1>5. list \in List
  BY <1>1, <1>2, <1>4, ListIs
<1>6. PICK scores : scores = Append(screen.scores, None)
  OBVIOUS
<1>7. /\ scores \in Seq(Grade \cup {None})
      /\ Len(scores) = Len(screen.scores) + 1
      /\ \A n \in 1 .. Len(screen.scores) : scores[n] = screen.scores[n]
      /\ scores[Len(screen.scores) + 1] = None
  BY <1>1, <1>6
<1>8. Change(list) /\ screen' = [screen EXCEPT !.scores = scores]
  BY <1>3, <1>6 DEF AddCourse
<1>9. /\ screen' \in Screen /\ screen'.scores = scores
      /\ screen'.kind = screen.kind /\ screen'.list = screen.list /\ screen'.of = screen.of
  BY <1>1, <1>7, <1>8 DEF Screen
<1>10. ASSUME NEW size \in Nat,
              \A n \in 1 .. Len(screen.scores) :
                n > Len(old) /\ n > size => screen.scores[n] = None,
              NEW n \in 1 .. Len(scores), n > Len(list), n > size
       PROVE  scores[n] = None
  <2>1. CASE n = Len(screen.scores) + 1
    BY <1>7, <2>1
  <2>2. CASE n # Len(screen.scores) + 1
    <3>1. n \in 1 .. Len(screen.scores) /\ n > Len(old)
      BY <1>1, <1>4, <1>7, <1>10, <2>2
    <3> QED
      BY <1>7, <1>10, <3>1
  <2> QED
    BY <2>1, <2>2
<1>11. Len(screen.scores) = Len(old) => Len(scores) = Len(list)
  BY <1>4, <1>7
<1>12. ASSUME Trailing, NEW n \in 1 .. Len(scores), NEW m \in 1 .. Len(scores),
              n > Len(list), n < m, scores[n] = None
       PROVE  scores[m] = None
  <2>1. CASE m = Len(screen.scores) + 1
    BY <1>7, <2>1
  <2>2. CASE m # Len(screen.scores) + 1
    <3>1. n \in 1 .. Len(screen.scores) /\ m \in 1 .. Len(screen.scores) /\ n > Len(old)
      BY <1>1, <1>4, <1>7, <1>12, <2>2
    <3> QED
      BY <1>7, <1>12, <3>1 DEF Trailing
  <2> QED
    BY <2>1, <2>2
<1> QED
  BY <1>5, <1>8, <1>9, <1>10, <1>11, <1>12, InvChange, CalculatorAssumption

LEMMA InvChoose ==
  ASSUME IInv, screen # None, NEW i, NEW g \in Grade, Choose(i, g)
  PROVE  IInv'
<1> DEFINE old == courses[screen.list]
<1>1. /\ screen \in Screen /\ screen.list \in 1 .. Len(courses)
      /\ screen.scores \in Seq(Grade \cup {None}) /\ Len(screen.scores) \in Nat
      /\ old \in Seq(Units) /\ Len(old) \in Nat
      /\ DOMAIN old = 1 .. Len(old) /\ DOMAIN screen.scores = 1 .. Len(screen.scores)
  BY Shown DEF IInv
<1>2. i \in 1 .. Len(old) /\ i \in 1 .. Len(screen.scores)
  BY <1>1 DEF Choose, Row
<1>3. PICK scores : scores = [screen.scores EXCEPT ![i] = g]
  OBVIOUS
<1>4. /\ scores \in Seq(Grade \cup {None}) /\ Len(scores) = Len(screen.scores)
      /\ \A n \in 1 .. Len(scores) : n # i => scores[n] = screen.scores[n]
  BY <1>1, <1>2, <1>3
<1>5. screen' = [screen EXCEPT !.scores = scores]
  BY <1>1, <1>3 DEF Choose, Screen
<1>6. /\ screen' \in Screen /\ screen'.scores = scores
      /\ screen'.kind = screen.kind /\ screen'.list = screen.list /\ screen'.of = screen.of
  BY <1>1, <1>4, <1>5 DEF Screen
<1>7. UNCHANGED <<courses, at, records, disk, changes, touched, spoilt>>
  BY DEF Choose
<1>8. Types'
  BY <1>1, <1>6, <1>7 DEF IInv, Types
<1>9. Opened'
  <2>1. \A n \in 1 .. Len(scores) : n > Len(old) => n # i /\ scores[n] = screen.scores[n]
    BY <1>1, <1>2, <1>4
  <2> QED
    BY <1>4, <1>6, <1>7, <2>1 DEF IInv, Opened
<1>a. Trailing'
  <2>1. \A n \in 1 .. Len(scores) : n > Len(old) => n # i /\ scores[n] = screen.scores[n]
    BY <1>1, <1>2, <1>4
  <2> QED
    BY <1>1, <1>4, <1>6, <1>7, <2>1 DEF IInv, Trailing
<1>10. Standing => Standing'
  BY <1>4, <1>6, <1>7 DEF Standing, Written
<1>11. AsInSchool => AsInSchool'
  BY <1>7 DEF AsInSchool
<1> QED
  BY <1>7, <1>8, <1>9, <1>10, <1>11, <1>a DEF IInv

\* The drop-downs take the quick calculator to a list of courseData.
LEMMA InvSwitch ==
  ASSUME IInv, NEW p \in Position, Switch(p)
  PROVE  IInv'
<1>1. screen # None /\ screen.kind = "quick" /\ screen \in Screen
  BY DEF Switch, IInv, Types
<1>2. p \in 1 .. Len(courses) /\ p \in Nat /\ courses[p] \in List
  <2>1. School \in Seq(List) /\ Len(School) \in Nat
    BY CalculatorAssumption
  <2> QED
    BY <2>1 DEF IInv, Types, Position
<1>3. Len(courses[p]) \in Nat /\ DOMAIN courses[p] = 1 .. Len(courses[p])
  BY <1>2, ListIs
<1>4. PICK blank : blank = [i \in 1 .. Len(courses[p]) |-> None]
  OBVIOUS
<1>5. blank \in Seq(Grade \cup {None}) /\ Len(blank) = Len(courses[p])
  BY <1>3, <1>4
<1>6. screen' = [screen EXCEPT !.list = p, !.scores = blank]
  BY <1>3, <1>4 DEF Switch, Blank
<1>7. screen' \in Screen /\ screen'.kind = "quick" /\ screen'.list = p /\ screen'.scores = blank
  BY <1>1, <1>2, <1>5, <1>6 DEF Screen
<1>8. UNCHANGED <<courses, at, records, disk, changes, touched, spoilt>>
  BY DEF Switch
<1>9. Types'
  BY <1>2, <1>7, <1>8 DEF IInv, Types
<1>10. Opened' /\ Trailing'
  BY <1>4, <1>7 DEF Opened, Trailing
<1>11. Standing => Standing'
  BY <1>5, <1>7, <1>8 DEF Standing, Written
<1>12. AsInSchool => AsInSchool'
  BY <1>8 DEF AsInSchool
<1> QED
  BY <1>8, <1>9, <1>10, <1>11, <1>12 DEF IInv

-----------------------------------------------------------------------------
(* The invariant is kept: records.                                         *)

\* What is saved of a complete calculation.
LEMMA Resulting ==
  ASSUME IInv, Complete
  PROVE  /\ Result \in SavedRecord
         /\ Result.list = screen.list
         /\ Written(Result, courses) \in WrittenRecord
         /\ (\A i \in Len(courses[screen.list]) + 1 .. Len(screen.scores) :
               screen.scores[i] = None) => Exact(Written(Result, courses))
<1> DEFINE list == courses[screen.list]
           scores == screen.scores
<1>1. screen # None
  BY DEF Complete
<1>2. /\ screen.list \in 1 .. Len(courses) /\ screen.list \in Nat
      /\ scores \in Seq(Grade \cup {None}) /\ Len(scores) \in Nat
      /\ list \in Seq(Units) /\ Len(list) \in Nat /\ list \in List
      /\ DOMAIN list = 1 .. Len(list) /\ DOMAIN scores = 1 .. Len(scores)
  BY <1>1, Shown DEF IInv
<1>3. \A i \in 1 .. Len(list) : i \in 1 .. Len(scores) /\ scores[i] # None
  BY <1>2 DEF Complete
<1>4. PICK score, result : score = convertGradeToScore(scores) /\ result = getResult(list, scores)
  OBVIOUS
<1>5. /\ score \in Seq(Grade) /\ result \in Outcome
      /\ getResult(list, score) = result
      /\ (\A i \in Len(list) + 1 .. Len(scores) : scores[i] = None) => Len(score) = Len(list)
  BY <1>2, <1>3, <1>4, Computed
<1>6. PICK r : r = Result
  OBVIOUS
<1>7. r = [list |-> screen.list, scores |-> score, result |-> result]
  BY <1>4, <1>6 DEF Result
<1>8. r \in SavedRecord /\ r.list = screen.list /\ r.scores = score /\ r.result = result
  BY <1>2, <1>5, <1>7 DEF SavedRecord
<1>9. PICK w : w = Written(r, courses)
  OBVIOUS
<1>10. w = [courses |-> list, scores |-> score, result |-> result]
  BY <1>8, <1>9 DEF Written
<1>11. w \in WrittenRecord
  BY <1>2, <1>5, <1>10 DEF WrittenRecord
<1>12. Len(score) = Len(list) => Exact(w)
  BY <1>5, <1>10 DEF Exact
<1> QED
  BY <1>5, <1>6, <1>8, <1>9, <1>11, <1>12

\* A grade that has neither a course nor a place in what is saved was never chosen.
LEMMA Unchosen ==
  ASSUME IInv, Complete, NEW i \in 1 .. Len(screen.scores),
         i > Len(courses[screen.list]), i > Len(Result.scores)
  PROVE  screen.scores[i] = None
<1> DEFINE list == courses[screen.list]
           scores == screen.scores
<1>1. screen # None
  BY DEF Complete
<1>2. /\ scores \in Seq(Grade \cup {None}) /\ Len(scores) \in Nat /\ Len(list) \in Nat
      /\ DOMAIN list = 1 .. Len(list) /\ DOMAIN scores = 1 .. Len(scores)
  BY <1>1, Shown DEF IInv
<1>3. SUFFICES ASSUME scores[i] # None
               PROVE  FALSE
  OBVIOUS
<1>4. ASSUME NEW n \in 1 .. i
      PROVE  scores[n] # None
  <2>1. CASE n \in 1 .. Len(list)
    BY <1>2, <2>1 DEF Complete
  <2>2. CASE n = i
    BY <1>3, <2>2
  <2>3. CASE n > Len(list) /\ n < i
    BY <1>1, <1>2, <1>3, <2>3 DEF IInv, Trailing
  <2> QED
    BY <1>2, <2>1, <2>2, <2>3
<1>5. i \in 0 .. Len(scores)
  BY <1>2
<1>6. PICK score : score = convertGradeToScore(scores)
  OBVIOUS
<1>7. score \in Seq(Grade) /\ i <= Len(score)
  BY <1>2, <1>4, <1>5, <1>6, Converted
<1>8. Result.scores = score
  BY <1>6 DEF Result
<1>9. Len(score) \in Nat
  BY <1>7
<1> QED
  BY <1>7, <1>8, <1>9

\* A put of a list of records writes each of them.
LEMMA Putting ==
  ASSUME Types, NEW k \in Kind, NEW list \in Seq(SavedRecord), Put(k, list),
         \A n \in 1 .. Len(list) : Written(list[n], courses) \in WrittenRecord
  PROVE  /\ records' \in [Kind -> Seq(SavedRecord)] /\ records'[k] = list
         /\ disk' \in [Kind -> Seq(WrittenRecord)]
         /\ Len(disk'[k]) = Len(list)
         /\ \A n \in 1 .. Len(list) : disk'[k][n] = Written(list[n], courses)
         /\ \A e \in Kind \ {k} : records'[e] = records[e] /\ disk'[e] = disk[e]
<1>1. records \in [Kind -> Seq(SavedRecord)] /\ disk \in [Kind -> Seq(WrittenRecord)]
  BY DEF Types
<1>2. DOMAIN list = 1 .. Len(list) /\ Len(list) \in Nat
  OBVIOUS
<1>3. PICK ws : ws = [n \in 1 .. Len(list) |-> Written(list[n], courses)]
  OBVIOUS
<1>4. ws \in [1 .. Len(list) -> WrittenRecord]
  BY <1>3
<1>5. ws \in Seq(WrittenRecord) /\ Len(ws) = Len(list)
  <2>1. PICK W : W = WrittenRecord
    OBVIOUS
  <2>2. ws \in [1 .. Len(list) -> W]
    BY <1>4, <2>1
  <2>3. ws \in Seq(W) /\ Len(ws) = Len(list)
    BY <1>2, <2>2
  <2> QED
    BY <2>1, <2>3
<1>6. records' = [records EXCEPT ![k] = list] /\ disk' = [disk EXCEPT ![k] = ws]
  BY <1>2, <1>3 DEF Put
<1> QED
  BY <1>1, <1>3, <1>5, <1>6

LEMMA Writing ==
  ASSUME Types, NEW k \in Kind, NEW n \in 1 .. Len(records[k])
  PROVE  Written(records[k][n], courses) \in WrittenRecord
<1>1. records[k][n] \in SavedRecord /\ courses[records[k][n].list] \in List
  BY Saved
<1> QED
  BY <1>1 DEF Written, SavedRecord, WrittenRecord

LEMMA InvCalculate ==
  ASSUME IInv, Calculate
  PROVE  IInv'
<1> DEFINE k == screen.kind
<1>1. screen # None
  BY DEF Calculate, Complete
<1>2. k \in Kind /\ screen.list \in 1 .. Len(courses) /\ screen.of \in Nat
  BY <1>1, Shown DEF IInv
<1>3. PICK r : r = Result
  OBVIOUS
<1>4. /\ r \in SavedRecord /\ r.list = screen.list
      /\ Written(r, courses) \in WrittenRecord
      /\ (\A i \in Len(courses[screen.list]) + 1 .. Len(screen.scores) :
            screen.scores[i] = None) => Exact(Written(r, courses))
  BY <1>3, Resulting DEF Calculate
<1>5. records[k] \in Seq(SavedRecord) /\ Len(records[k]) \in Nat
  BY <1>2 DEF IInv, Types
<1>6. PICK list : list = Append(records[k], r)
  OBVIOUS
<1>7. /\ list \in Seq(SavedRecord) /\ Len(list) = Len(records[k]) + 1
      /\ \A n \in 1 .. Len(records[k]) : list[n] = records[k][n]
      /\ list[Len(records[k]) + 1] = r
  BY <1>4, <1>5, <1>6
<1>8. \A n \in 1 .. Len(list) : n \in 1 .. Len(records[k]) \/ n = Len(records[k]) + 1
  BY <1>5, <1>7
<1>9. \A n \in 1 .. Len(list) : /\ Written(list[n], courses) \in WrittenRecord
                                /\ list[n].list \in 1 .. Len(courses)
  <2>1. ASSUME NEW n \in 1 .. Len(records[k])
        PROVE  /\ Written(list[n], courses) \in WrittenRecord
               /\ list[n].list \in 1 .. Len(courses)
    <3>1. list[n] = records[k][n]
      BY <1>7
    <3> QED
      BY <1>2, <3>1, Writing, Saved DEF IInv
  <2> QED
    BY <1>2, <1>4, <1>7, <1>8, <2>1
<1>10. Put(k, list) /\ UNCHANGED <<courses, screen, changes, touched, spoilt>>
  BY <1>3, <1>6 DEF Calculate
<1>11. /\ records' \in [Kind -> Seq(SavedRecord)] /\ records'[k] = list
       /\ disk' \in [Kind -> Seq(WrittenRecord)]
       /\ Len(disk'[k]) = Len(list)
       /\ \A n \in 1 .. Len(list) : disk'[k][n] = Written(list[n], courses)
       /\ \A e \in Kind \ {k} : records'[e] = records[e] /\ disk'[e] = disk[e]
  BY <1>2, <1>7, <1>9, <1>10, Putting DEF IInv
<1>12. Types'
  <2>1. ASSUME NEW e \in Kind, NEW n \in 1 .. Len(records'[e])
        PROVE  records'[e][n].list \in 1 .. Len(courses)
    <3>1. CASE e = k
      BY <1>9, <1>11, <3>1
    <3>2. CASE e # k
      BY <1>11, <3>2 DEF IInv, Types
    <3> QED
      BY <3>1, <3>2
  <2>2. at' \in Position
    <3>1. at' = at \/ at' \in Position
      BY DEF Calculate
    <3> QED
      BY <3>1 DEF IInv, Types
  <2> QED
    BY <1>10, <1>11, <2>1, <2>2 DEF IInv, Types
<1>13. Opened'
  <2>1. SUFFICES ASSUME screen.kind = "update", screen.of > 0
                 PROVE  Opened'
    BY <1>10 DEF Opened
  <2>2. screen.of \in 1 .. Len(records[k])
    BY <1>1, <2>1 DEF IInv, Opened
  <2>3. screen.of \in 1 .. Len(list) /\ list[screen.of] = records[k][screen.of]
    BY <1>5, <1>7, <2>2
  <2> QED
    BY <1>1, <1>10, <1>11, <2>1, <2>3 DEF IInv, Opened
<1>a. Trailing'
  BY <1>10 DEF IInv, Trailing
<1>14. Standing => Standing'
  <2>1. SUFFICES ASSUME Standing
                 PROVE  Standing'
    OBVIOUS
  <2>2. Len(screen.scores) = Len(courses[screen.list]) /\ Len(screen.scores) \in Nat
    BY <1>1, <2>1, Shown DEF Standing, IInv
  <2>3. Exact(Written(r, courses))
    BY <1>4, <2>2
  <2>4. ASSUME NEW n \in 1 .. Len(list)
        PROVE  Exact(disk'[k][n])
    <3>1. CASE n \in 1 .. Len(records[k])
      <4>1. disk[k][n] = Written(records[k][n], courses) /\ Exact(disk[k][n])
        BY <1>2, <2>1, <3>1 DEF Standing
      <4>2. disk'[k][n] = Written(list[n], courses) /\ list[n] = records[k][n]
        BY <1>7, <1>11, <3>1
      <4> QED
        BY <4>1, <4>2
    <3>2. CASE n = Len(records[k]) + 1
      BY <1>7, <1>11, <2>3, <3>2
    <3> QED
      BY <1>8, <3>1, <3>2
  <2>5. ASSUME NEW e \in Kind
        PROVE  /\ Len(disk'[e]) = Len(records'[e])
               /\ \A n \in 1 .. Len(records'[e]) : /\ disk'[e][n] = Written(records'[e][n], courses)
                                                   /\ Exact(disk'[e][n])
    <3>1. CASE e = k
      BY <1>11, <2>4, <3>1
    <3>2. CASE e # k
      BY <1>11, <2>1, <3>2 DEF Standing
    <3> QED
      BY <3>1, <3>2
  <2> QED
    BY <1>10, <2>1, <2>5 DEF Standing, Written
<1>15. AsInSchool => AsInSchool'
  BY <1>10 DEF AsInSchool
<1> QED
  BY <1>10, <1>12, <1>13, <1>14, <1>15, <1>a DEF IInv

LEMMA InvReplace ==
  ASSUME IInv, Replace
  PROVE  IInv'
<1> DEFINE k == "update"
<1>1. screen # None /\ screen.kind = k /\ screen.of > 0
  BY DEF Replace, Complete
<1>2. k \in Kind /\ screen.list \in 1 .. Len(courses)
  BY <1>1, Shown DEF IInv, Kind
<1>3. PICK r : r = Result
  OBVIOUS
<1>4. /\ r \in SavedRecord /\ r.list = screen.list
      /\ Written(r, courses) \in WrittenRecord
      /\ (\A i \in Len(courses[screen.list]) + 1 .. Len(screen.scores) :
            screen.scores[i] = None) => Exact(Written(r, courses))
  BY <1>3, Resulting DEF Replace
<1>5. records[k] \in Seq(SavedRecord) /\ Len(records[k]) \in Nat
  BY <1>2 DEF IInv, Types
<1>6. screen.of \in 1 .. Len(records[k])
  BY <1>1 DEF IInv, Opened
<1>7. PICK list : list = [records[k] EXCEPT ![screen.of] = r]
  OBVIOUS
<1>8. /\ list \in Seq(SavedRecord) /\ Len(list) = Len(records[k])
      /\ list[screen.of] = r
      /\ \A n \in 1 .. Len(records[k]) : n # screen.of => list[n] = records[k][n]
  BY <1>4, <1>5, <1>6, <1>7
<1>9. \A n \in 1 .. Len(list) : /\ Written(list[n], courses) \in WrittenRecord
                                /\ list[n].list \in 1 .. Len(courses)
  <2>1. ASSUME NEW n \in 1 .. Len(records[k]), n # screen.of
        PROVE  /\ Written(list[n], courses) \in WrittenRecord
               /\ list[n].list \in 1 .. Len(courses)
    <3>1. list[n] = records[k][n]
      BY <1>8, <2>1
    <3> QED
      BY <1>2, <3>1, Writing, Saved DEF IInv
  <2> QED
    BY <1>2, <1>4, <1>8, <2>1
<1>10. Put(k, list) /\ UNCHANGED <<courses, at, screen, changes, touched, spoilt>>
  BY <1>3, <1>7 DEF Replace
<1>11. /\ records' \in [Kind -> Seq(SavedRecord)] /\ records'[k] = list
       /\ disk' \in [Kind -> Seq(WrittenRecord)]
       /\ Len(disk'[k]) = Len(list)
       /\ \A n \in 1 .. Len(list) : disk'[k][n] = Written(list[n], courses)
       /\ \A e \in Kind \ {k} : records'[e] = records[e] /\ disk'[e] = disk[e]
  BY <1>2, <1>8, <1>9, <1>10, Putting DEF IInv
<1>12. Types'
  <2>1. ASSUME NEW e \in Kind, NEW n \in 1 .. Len(records'[e])
        PROVE  records'[e][n].list \in 1 .. Len(courses)
    <3>1. CASE e = k
      BY <1>9, <1>11, <3>1
    <3>2. CASE e # k
      BY <1>11, <3>2 DEF IInv, Types
    <3> QED
      BY <3>1, <3>2
  <2> QED
    BY <1>10, <1>11, <2>1 DEF IInv, Types
<1>13. Opened'
  <2>1. \A i \in 1 .. Len(screen.scores) :
          i > Len(courses[screen.list]) /\ i > Len(r.scores) => screen.scores[i] = None
    BY <1>1, <1>3, Unchosen DEF Replace
  <2> QED
    BY <1>1, <1>4, <1>6, <1>8, <1>10, <1>11, <2>1 DEF Opened
<1>a. Trailing'
  BY <1>10 DEF IInv, Trailing
<1>14. Standing => Standing'
  <2>1. SUFFICES ASSUME Standing
                 PROVE  Standing'
    OBVIOUS
  <2>2. Len(screen.scores) = Len(courses[screen.list]) /\ Len(screen.scores) \in Nat
    BY <1>1, <2>1, Shown DEF Standing, IInv
  <2>3. Exact(Written(r, courses))
    BY <1>4, <2>2
  <2>4. ASSUME NEW n \in 1 .. Len(list)
        PROVE  Exact(disk'[k][n])
    <3>1. CASE n # screen.of
      BY <1>2, <1>8, <1>11, <2>1, <3>1 DEF Standing
    <3>2. CASE n = screen.of
      BY <1>8, <1>11, <2>3, <3>2
    <3> QED
      BY <3>1, <3>2
  <2>5. ASSUME NEW e \in Kind
        PROVE  /\ Len(disk'[e]) = Len(records'[e])
               /\ \A n \in 1 .. Len(records'[e]) : /\ disk'[e][n] = Written(records'[e][n], courses)
                                                   /\ Exact(disk'[e][n])
    <3>1. CASE e = k
      BY <1>11, <2>4, <3>1
    <3>2. CASE e # k
      BY <1>11, <2>1, <3>2 DEF Standing
    <3> QED
      BY <3>1, <3>2
  <2> QED
    BY <1>10, <2>1, <2>5 DEF Standing, Written
<1>15. AsInSchool => AsInSchool'
  BY <1>10 DEF AsInSchool
<1> QED
  BY <1>10, <1>12, <1>13, <1>14, <1>15, <1>a DEF IInv

\* What is read back has the courses, grades and results that were written, and lists
\* of its own.
LEMMA Reading ==
  ASSUME NEW written \in Seq(WrittenRecord), NEW m \in Nat
  PROVE  /\ Lists(written) \in Seq(List) /\ Len(Lists(written)) = Len(written)
         /\ \A n \in 1 .. Len(written) : Lists(written)[n] = written[n].courses
         /\ Read(written, m) \in Seq(SavedRecord) /\ Len(Read(written, m)) = Len(written)
         /\ \A n \in 1 .. Len(written) :
              /\ Read(written, m)[n].list = m + n
              /\ Read(written, m)[n].scores = written[n].scores
              /\ Read(written, m)[n].result = written[n].result
<1>1. Len(written) \in Nat /\ DOMAIN written = 1 .. Len(written)
  OBVIOUS
<1>2. \A n \in 1 .. Len(written) :
        /\ written[n].courses \in List /\ written[n].scores \in Seq(Grade)
        /\ written[n].result \in Outcome
  <2>1. \A n \in 1 .. Len(written) : written[n] \in WrittenRecord
    OBVIOUS
  <2> QED
    BY <2>1 DEF WrittenRecord
<1>3. PICK ls : ls = [n \in 1 .. Len(written) |-> written[n].courses]
  OBVIOUS
<1>4. ls \in [1 .. Len(written) -> List]
  BY <1>2, <1>3
<1>5. ls \in Seq(List) /\ Len(ls) = Len(written)
  BY <1>1, <1>4
<1>6. Lists(written) = ls
  BY <1>1, <1>3 DEF Lists
<1>7. PICK rs : rs = [n \in 1 .. Len(written) |->
                        [list |-> m + n, scores |-> written[n].scores,
                         result |-> written[n].result]]
  OBVIOUS
<1>8. PICK R : R = SavedRecord
  OBVIOUS
<1>9. rs \in [1 .. Len(written) -> R]
  <2>1. ASSUME NEW n \in 1 .. Len(written)
        PROVE  [list |-> m + n, scores |-> written[n].scores,
                result |-> written[n].result] \in SavedRecord
    BY <1>2 DEF SavedRecord
  <2> QED
    BY <1>7, <1>8, <2>1
<1>10. rs \in Seq(R) /\ Len(rs) = Len(written)
  BY <1>1, <1>9
<1>11. Read(written, m) = rs
  BY <1>1, <1>7 DEF Read
<1>12. \A n \in 1 .. Len(written) :
         /\ rs[n].list = m + n
         /\ rs[n].scores = written[n].scores
         /\ rs[n].result = written[n].result
  BY <1>7
<1> QED
  BY <1>3, <1>5, <1>6, <1>8, <1>10, <1>11, <1>12

\* If the lists that were read stand where the records have them, writing the records
\* once more writes the same.
LEMMA ReadBack ==
  ASSUME NEW written \in Seq(WrittenRecord), NEW m \in Nat, NEW lists,
         \A n \in 1 .. Len(written) : lists[m + n] = written[n].courses
  PROVE  \A n \in 1 .. Len(written) : Written(Read(written, m)[n], lists) = written[n]
<1> SUFFICES ASSUME NEW n \in 1 .. Len(written)
             PROVE  Written(Read(written, m)[n], lists) = written[n]
  OBVIOUS
<1>1. PICK r : r = Read(written, m)[n]
  OBVIOUS
<1>2. r.list = m + n /\ r.scores = written[n].scores /\ r.result = written[n].result
  BY <1>1, Reading
<1>3. Written(r, lists) = [courses |-> written[n].courses, scores |-> written[n].scores,
                           result |-> written[n].result]
  BY <1>2 DEF Written
<1>4. written[n] \in WrittenRecord
  OBVIOUS
<1>5. written[n] = [courses |-> written[n].courses, scores |-> written[n].scores,
                    result |-> written[n].result]
  BY <1>4 DEF WrittenRecord
<1> QED
  BY <1>1, <1>3, <1>5

\* Where the lists of a concatenation are.
LEMMA Concatenated ==
  ASSUME NEW T, NEW s \in Seq(T), NEW t \in Seq(T)
  PROVE  /\ s \o t \in Seq(T)
         /\ Len(s \o t) = Len(s) + Len(t)
         /\ \A n \in 1 .. Len(s) : (s \o t)[n] = s[n]
         /\ \A n \in 1 .. Len(t) : (s \o t)[Len(s) + n] = t[n]
<1>1. Len(s) \in Nat /\ Len(t) \in Nat
  OBVIOUS
<1>2. s \o t \in Seq(T) /\ Len(s \o t) = Len(s) + Len(t)
  OBVIOUS
<1>3. \A n \in 1 .. Len(s) : (s \o t)[n] = s[n]
  OBVIOUS
<1>4. \A n \in 1 .. Len(t) : (s \o t)[Len(s) + n] = t[n]
  OBVIOUS
<1> QED
  BY <1>2, <1>3, <1>4

\* A sync of one kind, as far as lists and records are concerned.
LEMMA Synced ==
  ASSUME Types, NEW k \in Kind, Sync(k)
  PROVE  /\ courses' \in Seq(List)
         /\ Len(courses) \in Nat /\ Len(courses') \in Nat /\ Len(courses) <= Len(courses')
         /\ \A n \in 1 .. Len(courses) : courses'[n] = courses[n]
         /\ records' \in [Kind -> Seq(SavedRecord)] /\ disk' \in [Kind -> Seq(WrittenRecord)]
         /\ Len(records'[k]) = Len(records[k]) /\ Len(disk'[k]) = Len(records[k])
         /\ \A n \in 1 .. Len(records[k]) :
              /\ disk'[k][n] = Written(records[k][n], courses)
              /\ Written(records'[k][n], courses') = Written(records[k][n], courses)
              /\ records'[k][n].list \in 1 .. Len(courses')
         /\ \A e \in Kind \ {k} : records'[e] = records[e] /\ disk'[e] = disk[e]
<1>1. /\ courses \in Seq(List) /\ Len(courses) \in Nat
      /\ records[k] \in Seq(SavedRecord) /\ Len(records[k]) \in Nat
      /\ DOMAIN records[k] = 1 .. Len(records[k])
      /\ records \in [Kind -> Seq(SavedRecord)] /\ disk \in [Kind -> Seq(WrittenRecord)]
  <2>1. courses \in Seq(List) /\ records[k] \in Seq(SavedRecord)
    BY DEF Types
  <2> QED
    BY <2>1 DEF Types
<1>2. PICK written : written = [n \in 1 .. Len(records[k]) |-> Written(records[k][n], courses)]
  OBVIOUS
<1>3. PICK W : W = WrittenRecord
  OBVIOUS
<1>4. written \in [1 .. Len(records[k]) -> W]
  BY <1>2, <1>3, Writing
<1>5. written \in Seq(W) /\ Len(written) = Len(records[k])
  <2>1. PICK size : size = Len(records[k])
    OBVIOUS
  <2>2. size \in Nat /\ written \in [1 .. size -> W]
    BY <1>1, <1>4, <2>1
  <2>3. written \in Seq(W) /\ Len(written) = size
    BY <2>2
  <2> QED
    BY <2>1, <2>3
<1>6. written \in Seq(WrittenRecord)
  BY <1>3, <1>5
<1>7. PICK ls, rs : ls = Lists(written) /\ rs = Read(written, Len(courses))
  OBVIOUS
<1>8. /\ courses' = courses \o ls
      /\ records' = [records EXCEPT ![k] = rs]
      /\ disk' = [disk EXCEPT ![k] = written]
  BY <1>1, <1>2, <1>7 DEF Sync
<1>9. /\ ls \in Seq(List) /\ Len(ls) = Len(written)
      /\ \A n \in 1 .. Len(written) : ls[n] = written[n].courses
      /\ rs \in Seq(SavedRecord) /\ Len(rs) = Len(written)
      /\ \A n \in 1 .. Len(written) : rs[n].list = Len(courses) + n
  BY <1>1, <1>6, <1>7, Reading
<1>10. /\ courses' \in Seq(List) /\ Len(courses') = Len(courses) + Len(ls)
       /\ \A n \in 1 .. Len(courses) : courses'[n] = courses[n]
       /\ \A n \in 1 .. Len(ls) : courses'[Len(courses) + n] = ls[n]
  <2>1. PICK s, all : s = courses /\ all = s \o ls
    OBVIOUS
  <2>2. s \in Seq(List) /\ ls \in Seq(List)
    BY <1>1, <1>9, <2>1
  <2>3. /\ all \in Seq(List) /\ Len(all) = Len(s) + Len(ls)
        /\ \A n \in 1 .. Len(s) : all[n] = s[n]
        /\ \A n \in 1 .. Len(ls) : all[Len(s) + n] = ls[n]
    BY <2>1, <2>2, Concatenated
  <2>4. courses' = all
    BY <1>8, <2>1
  <2> QED
    BY <2>1, <2>3, <2>4
<1>11. \A n \in 1 .. Len(written) : courses'[Len(courses) + n] = written[n].courses
  BY <1>9, <1>10
<1>12. \A n \in 1 .. Len(written) : Written(rs[n], courses') = written[n]
  BY <1>1, <1>6, <1>7, <1>11, ReadBack
<1>13. \A n \in 1 .. Len(written) : rs[n].list \in 1 .. Len(courses')
  BY <1>1, <1>5, <1>9, <1>10
<1>14. /\ records' \in [Kind -> Seq(SavedRecord)] /\ disk' \in [Kind -> Seq(WrittenRecord)]
       /\ records'[k] = rs /\ disk'[k] = written
       /\ \A e \in Kind \ {k} : records'[e] = records[e] /\ disk'[e] = disk[e]
  BY <1>1, <1>6, <1>8, <1>9
<1>15. Len(courses') \in Nat /\ Len(courses) <= Len(courses')
  BY <1>1, <1>5, <1>9, <1>10
<1> QED
  BY <1>1, <1>2, <1>5, <1>9, <1>10, <1>12, <1>13, <1>14, <1>15

LEMMA InvSync ==
  ASSUME IInv, NEW k \in Enabled, Sync(k)
  PROVE  IInv'
<1>1. k \in Kind
  BY CalculatorAssumption
<1>2. /\ courses' \in Seq(List)
      /\ Len(courses) \in Nat /\ Len(courses') \in Nat /\ Len(courses) <= Len(courses')
      /\ \A n \in 1 .. Len(courses) : courses'[n] = courses[n]
      /\ records' \in [Kind -> Seq(SavedRecord)] /\ disk' \in [Kind -> Seq(WrittenRecord)]
      /\ Len(records'[k]) = Len(records[k]) /\ Len(disk'[k]) = Len(records[k])
      /\ \A n \in 1 .. Len(records[k]) :
           /\ disk'[k][n] = Written(records[k][n], courses)
           /\ Written(records'[k][n], courses') = Written(records[k][n], courses)
           /\ records'[k][n].list \in 1 .. Len(courses')
      /\ \A e \in Kind \ {k} : records'[e] = records[e] /\ disk'[e] = disk[e]
  BY <1>1, Synced DEF IInv
<1>3. screen = None /\ UNCHANGED <<at, screen, changes, touched, spoilt>>
  BY DEF Sync
<1>4. School \in Seq(List) /\ Len(School) \in Nat
  BY CalculatorAssumption
<1>5. Types'
  <2>1. ASSUME NEW e \in Kind, NEW n \in 1 .. Len(records'[e])
        PROVE  records'[e][n].list \in 1 .. Len(courses')
    <3>1. CASE e = k
      BY <1>2, <3>1
    <3>2. CASE e # k
      <4>1. records[e][n].list \in 1 .. Len(courses)
        BY <1>2, <3>2 DEF IInv, Types
      <4> QED
        BY <1>2, <3>2, <4>1
    <3> QED
      BY <3>1, <3>2
  <2>2. Len(School) <= Len(courses')
    BY <1>2, <1>4 DEF IInv, Types
  <2> QED
    BY <1>2, <1>3, <2>1, <2>2 DEF IInv, Types
<1>6. Opened'
  BY <1>3 DEF Opened
<1>a. Trailing'
  BY <1>3 DEF Trailing
<1>7. Standing => Standing'
  <2>1. SUFFICES ASSUME Standing
                 PROVE  Standing'
    OBVIOUS
  <2>2. ASSUME NEW e \in Kind, NEW n \in 1 .. Len(records'[e])
        PROVE  disk'[e][n] = Written(records'[e][n], courses') /\ Exact(disk'[e][n])
    <3>1. CASE e = k
      BY <1>2, <2>1, <3>1 DEF Standing
    <3>2. CASE e # k
      <4>1. disk[e][n] = Written(records[e][n], courses) /\ Exact(disk[e][n])
        BY <1>2, <2>1, <3>2 DEF Standing
      <4>2. courses'[records[e][n].list] = courses[records[e][n].list]
        BY <1>2, <3>2 DEF IInv, Types
      <4>3. Written(records[e][n], courses') = Written(records[e][n], courses)
        BY <4>2 DEF Written
      <4> QED
        BY <1>2, <3>2, <4>1, <4>3
    <3> QED
      BY <3>1, <3>2
  <2>3. \A e \in Kind : Len(disk'[e]) = Len(records'[e])
    BY <1>2, <2>1 DEF Standing
  <2> QED
    BY <1>3, <2>2, <2>3 DEF Standing
<1>8. AsInSchool => AsInSchool'
  <2>1. Position \subseteq 1 .. Len(courses)
    BY <1>2, <1>4 DEF IInv, Types, Position
  <2> QED
    BY <1>2, <2>1 DEF AsInSchool
<1> QED
  BY <1>3, <1>5, <1>6, <1>7, <1>8, <1>a DEF IInv

LEMMA Joined ==
  ASSUME NEW s, s \in Seq(List), NEW t, t \in Seq(List), NEW all, all = s \o t
  PROVE  /\ all \in Seq(List) /\ Len(all) = Len(s) + Len(t)
         /\ \A n \in 1 .. Len(s) : all[n] = s[n]
         /\ \A n \in 1 .. Len(t) : all[Len(s) + n] = t[n]
<1>1. PICK T : T = List
  OBVIOUS
<1>2. /\ s \o t \in Seq(T) /\ Len(s \o t) = Len(s) + Len(t)
      /\ \A n \in 1 .. Len(s) : (s \o t)[n] = s[n]
      /\ \A n \in 1 .. Len(t) : (s \o t)[Len(s) + n] = t[n]
  <2>1. s \in Seq(T) /\ t \in Seq(T)
    BY <1>1
  <2> QED
    BY <2>1, Concatenated
<1> QED
  BY <1>1, <1>2

LEMMA ListsOf ==
  ASSUME NEW written \in Seq(WrittenRecord), NEW ls, ls = Lists(written)
  PROVE  /\ ls \in Seq(List) /\ Len(ls) = Len(written) /\ Len(written) \in Nat
         /\ \A n \in 1 .. Len(written) : ls[n] = written[n].courses
<1>1. /\ Lists(written) \in Seq(List) /\ Len(Lists(written)) = Len(written)
      /\ \A n \in 1 .. Len(written) : Lists(written)[n] = written[n].courses
  BY Reading, 0 \in Nat
<1> QED
  BY <1>1

LEMMA ReadFrom ==
  ASSUME NEW written \in Seq(WrittenRecord), NEW m \in Nat, NEW lists, NEW size \in Nat,
         \A n \in 1 .. Len(written) : lists[m + n] = written[n].courses,
         m + Len(written) <= size,
         NEW rs, rs = Read(written, m)
  PROVE  /\ rs \in Seq(SavedRecord) /\ Len(rs) = Len(written)
         /\ \A n \in 1 .. Len(written) : /\ Written(rs[n], lists) = written[n]
                                         /\ rs[n].list \in 1 .. size
<1>1. /\ Read(written, m) \in Seq(SavedRecord) /\ Len(Read(written, m)) = Len(written)
      /\ \A n \in 1 .. Len(written) : Read(written, m)[n].list = m + n
  BY Reading
<1>2. \A n \in 1 .. Len(written) : Written(Read(written, m)[n], lists) = written[n]
  BY ReadBack
<1>3. Len(written) \in Nat
  OBVIOUS
<1>4. \A n \in 1 .. Len(written) : m + n \in 1 .. size
  BY <1>3
<1> QED
  BY <1>1, <1>2, <1>4

\* After a start of the app the records are what the disk had.
LEMMA Restarted ==
  ASSUME Types, Restart
  PROVE  /\ courses' \in Seq(List)
         /\ Len(School) \in Nat /\ Len(courses') \in Nat /\ Len(School) <= Len(courses')
         /\ \A n \in 1 .. Len(School) : courses'[n] = School[n]
         /\ records' \in [Kind -> Seq(SavedRecord)]
         /\ \A k \in Kind :
              /\ Len(records'[k]) = Len(disk[k])
              /\ \A n \in 1 .. Len(disk[k]) :
                   /\ Written(records'[k][n], courses') = disk[k][n]
                   /\ records'[k][n].list \in 1 .. Len(courses')
<1>1. PICK q, s, u, n : q = disk["quick"] /\ s = disk["simulate"] /\ u = disk["update"]
                        /\ n = Len(School)
  OBVIOUS
<1>2. q \in Seq(WrittenRecord) /\ s \in Seq(WrittenRecord) /\ u \in Seq(WrittenRecord)
  BY <1>1 DEF Types, Kind
<1>3. School \in Seq(List) /\ n \in Nat
  BY <1>1, CalculatorAssumption
<1>4. PICK lq, ls, lu : lq = Lists(q) /\ ls = Lists(s) /\ lu = Lists(u)
  OBVIOUS
<1>5. /\ lq \in Seq(List) /\ Len(lq) = Len(q) /\ Len(q) \in Nat
      /\ \A i \in 1 .. Len(q) : lq[i] = q[i].courses
  BY <1>2, <1>4, ListsOf
<1>6. /\ ls \in Seq(List) /\ Len(ls) = Len(s) /\ Len(s) \in Nat
      /\ \A i \in 1 .. Len(s) : ls[i] = s[i].courses
  BY <1>2, <1>4, ListsOf
<1>7. /\ lu \in Seq(List) /\ Len(lu) = Len(u) /\ Len(u) \in Nat
      /\ \A i \in 1 .. Len(u) : lu[i] = u[i].courses
  BY <1>2, <1>4, ListsOf
<1>8. PICK l1, l2, l3 : l1 = School \o lq /\ l2 = l1 \o ls /\ l3 = l2 \o lu
  OBVIOUS
<1>10. /\ l1 \in Seq(List) /\ Len(l1) = n + Len(q)
       /\ \A i \in 1 .. n : l1[i] = School[i]
       /\ \A i \in 1 .. Len(q) : l1[n + i] = q[i].courses
  <2>1. /\ l1 \in Seq(List) /\ Len(l1) = Len(School) + Len(lq)
        /\ \A i \in 1 .. Len(School) : l1[i] = School[i]
        /\ \A i \in 1 .. Len(lq) : l1[Len(School) + i] = lq[i]
    <3>1. School \in Seq(List) /\ lq \in Seq(List) /\ l1 = School \o lq
      BY <1>3, <1>5, <1>8
    <3> QED
      BY <3>1, Joined
  <2> QED
    BY <1>1, <1>5, <2>1
<1>11. /\ l2 \in Seq(List) /\ Len(l2) = Len(l1) + Len(ls)
       /\ \A i \in 1 .. Len(l1) : l2[i] = l1[i]
       /\ \A i \in 1 .. Len(ls) : l2[Len(l1) + i] = ls[i]
  <2>1. l1 \in Seq(List) /\ ls \in Seq(List) /\ l2 = l1 \o ls
    BY <1>6, <1>8, <1>10
  <2> QED
    BY <2>1, Joined
<1>12. /\ l3 \in Seq(List) /\ Len(l3) = Len(l2) + Len(lu)
       /\ \A i \in 1 .. Len(l2) : l3[i] = l2[i]
       /\ \A i \in 1 .. Len(lu) : l3[Len(l2) + i] = lu[i]
  <2>1. l2 \in Seq(List) /\ lu \in Seq(List) /\ l3 = l2 \o lu
    BY <1>7, <1>8, <1>11
  <2> QED
    BY <2>1, Joined
<1>13. /\ Len(l1) = n + Len(q) /\ Len(l2) = n + Len(q) + Len(s)
       /\ Len(l3) = n + Len(q) + Len(s) + Len(u)
  BY <1>3, <1>5, <1>6, <1>7, <1>10, <1>11, <1>12
<1>14. \A i \in 1 .. n : l3[i] = School[i]
  <2>1. \A i \in 1 .. n : i \in 1 .. Len(l1) /\ i \in 1 .. Len(l2)
    BY <1>3, <1>5, <1>6, <1>13
  <2> QED
    BY <1>10, <1>11, <1>12, <2>1
<1>15. \A i \in 1 .. Len(q) : l3[n + i] = q[i].courses
  <2>1. \A i \in 1 .. Len(q) : n + i \in 1 .. Len(l1) /\ n + i \in 1 .. Len(l2)
    BY <1>3, <1>5, <1>6, <1>13
  <2> QED
    BY <1>10, <1>11, <1>12, <2>1
<1>16. \A i \in 1 .. Len(s) : l3[n + Len(q) + i] = s[i].courses
  <2>1. \A i \in 1 .. Len(s) : n + Len(q) + i \in 1 .. Len(l2)
    BY <1>3, <1>5, <1>6, <1>13
  <2>2. \A i \in 1 .. Len(s) : l2[n + Len(q) + i] = s[i].courses
    BY <1>6, <1>11, <1>13
  <2> QED
    BY <1>12, <2>1, <2>2
<1>17. \A i \in 1 .. Len(u) : l3[n + Len(q) + Len(s) + i] = u[i].courses
  BY <1>7, <1>12, <1>13
<1>18. PICK rq, rs, ru : /\ rq = Read(q, n)
                         /\ rs = Read(s, n + Len(q))
                         /\ ru = Read(u, n + Len(q) + Len(s))
  OBVIOUS
<1>19. /\ courses' = l3
       /\ records' = [quick |-> rq, simulate |-> rs, update |-> ru]
  BY <1>1, <1>4, <1>8, <1>18 DEF Restart
<1>20. n + Len(q) \in Nat /\ n + Len(q) + Len(s) \in Nat
  BY <1>3, <1>5, <1>6
<1>21. /\ Len(l3) \in Nat /\ n <= Len(l3) /\ n + Len(q) <= Len(l3)
       /\ n + Len(q) + Len(s) <= Len(l3) /\ n + Len(q) + Len(s) + Len(u) <= Len(l3)
  BY <1>3, <1>5, <1>6, <1>7, <1>13
<1>22. /\ rq \in Seq(SavedRecord) /\ Len(rq) = Len(q)
       /\ \A i \in 1 .. Len(q) : Written(rq[i], l3) = q[i] /\ rq[i].list \in 1 .. Len(l3)
  <2>1. PICK m : m = n
    OBVIOUS
  <2>2. /\ q \in Seq(WrittenRecord) /\ m \in Nat /\ Len(l3) \in Nat
        /\ m + Len(q) <= Len(l3) /\ rq = Read(q, m)
    BY <1>2, <1>3, <1>18, <1>21, <1>20, <2>1
  <2>3. \A i \in 1 .. Len(q) : l3[m + i] = q[i].courses
    BY <1>15, <2>1
  <2> QED
    BY <2>2, <2>3, ReadFrom
<1>23. /\ rs \in Seq(SavedRecord) /\ Len(rs) = Len(s)
       /\ \A i \in 1 .. Len(s) : Written(rs[i], l3) = s[i] /\ rs[i].list \in 1 .. Len(l3)
  <2>1. PICK m : m = n + Len(q)
    OBVIOUS
  <2>2. /\ s \in Seq(WrittenRecord) /\ m \in Nat /\ Len(l3) \in Nat
        /\ m + Len(s) <= Len(l3) /\ rs = Read(s, m)
    BY <1>2, <1>18, <1>20, <1>21, <2>1
  <2>3. \A i \in 1 .. Len(s) : l3[m + i] = s[i].courses
    BY <1>16, <2>1
  <2> QED
    BY <2>2, <2>3, ReadFrom
<1>24. /\ ru \in Seq(SavedRecord) /\ Len(ru) = Len(u)
       /\ \A i \in 1 .. Len(u) : Written(ru[i], l3) = u[i] /\ ru[i].list \in 1 .. Len(l3)
  <2>1. PICK m : m = n + Len(q) + Len(s)
    OBVIOUS
  <2>2. /\ u \in Seq(WrittenRecord) /\ m \in Nat /\ Len(l3) \in Nat
        /\ m + Len(u) <= Len(l3) /\ ru = Read(u, m)
    BY <1>2, <1>18, <1>20, <1>21, <2>1
  <2>3. \A i \in 1 .. Len(u) : l3[m + i] = u[i].courses
    BY <1>17, <2>1
  <2> QED
    BY <2>2, <2>3, ReadFrom
<1>25. /\ records'["quick"] = rq /\ records'["simulate"] = rs /\ records'["update"] = ru
       /\ records' \in [Kind -> Seq(SavedRecord)]
  BY <1>19, <1>22, <1>23, <1>24 DEF Kind
<1>26. ASSUME NEW k \in Kind
       PROVE  /\ Len(records'[k]) = Len(disk[k])
              /\ \A i \in 1 .. Len(disk[k]) : /\ Written(records'[k][i], l3) = disk[k][i]
                                              /\ records'[k][i].list \in 1 .. Len(l3)
  <2>1. CASE k = "quick"
    BY <1>1, <1>22, <1>25, <2>1
  <2>2. CASE k = "simulate"
    BY <1>1, <1>23, <1>25, <2>2
  <2>3. CASE k = "update"
    BY <1>1, <1>24, <1>25, <2>3
  <2> QED
    BY <2>1, <2>2, <2>3 DEF Kind
<1> QED
  BY <1>1, <1>3, <1>12, <1>14, <1>19, <1>21, <1>25, <1>26

LEMMA InvRestart ==
  ASSUME IInv, Restart
  PROVE  IInv'
<1>1. /\ courses' \in Seq(List)
      /\ Len(School) \in Nat /\ Len(courses') \in Nat /\ Len(School) <= Len(courses')
      /\ \A n \in 1 .. Len(School) : courses'[n] = School[n]
      /\ records' \in [Kind -> Seq(SavedRecord)]
      /\ \A k \in Kind :
           /\ Len(records'[k]) = Len(disk[k])
           /\ \A n \in 1 .. Len(disk[k]) :
                /\ Written(records'[k][n], courses') = disk[k][n]
                /\ records'[k][n].list \in 1 .. Len(courses')
  BY Restarted DEF IInv
<1>2. screen' = None /\ touched' = FALSE /\ UNCHANGED <<at, disk, changes, spoilt>>
  BY DEF Restart
<1>3. Types'
  BY <1>1, <1>2 DEF IInv, Types
<1>4. Opened'
  BY <1>2 DEF Opened
<1>a. Trailing'
  BY <1>2 DEF Trailing
<1>5. Standing => Standing'
  <2>1. ASSUME Standing, NEW k \in Kind, NEW n \in 1 .. Len(records'[k])
        PROVE  disk'[k][n] = Written(records'[k][n], courses') /\ Exact(disk'[k][n])
    <3>1. n \in 1 .. Len(disk[k]) /\ Len(disk[k]) = Len(records[k])
      BY <1>1, <2>1 DEF Standing
    <3>2. Exact(disk[k][n])
      BY <2>1, <3>1 DEF Standing
    <3> QED
      BY <1>1, <1>2, <3>1, <3>2
  <2> QED
    BY <1>1, <1>2, <2>1 DEF Standing
<1>6. AsInSchool'
  <2>1. Position = 1 .. Len(School)
    BY CalculatorAssumption DEF Position
  <2> QED
    BY <1>1, <2>1 DEF AsInSchool
<1> QED
  BY <1>2, <1>3, <1>4, <1>5, <1>6, <1>a DEF IInv

LEMMA InvStep == IInv /\ [Next]_vars => IInv'
<1> SUFFICES ASSUME IInv, [Next]_vars
             PROVE  IInv'
  OBVIOUS
<1>1. CASE UNCHANGED vars
  <2>1. UNCHANGED <<courses, at, records, disk, screen, changes, touched, spoilt>>
    BY <1>1 DEF vars
  <2>2. Types'
    BY <2>1 DEF IInv, Types
  <2>3. Opened'
    BY <2>1 DEF IInv, Opened
  <2>a. Trailing'
    BY <2>1 DEF IInv, Trailing
  <2>4. Standing => Standing'
    BY <2>1 DEF Standing, Written
  <2>5. AsInSchool => AsInSchool'
    BY <2>1 DEF AsInSchool
  <2> QED
    BY <2>1, <2>2, <2>3, <2>4, <2>5, <2>a DEF IInv
<1>2. CASE \E k \in Enabled : OpenNew(k) \/ Sync(k)
  BY <1>2, InvOpenNew, InvSync
<1>3. CASE \E k \in Enabled : \E n \in DOMAIN records[k] : OpenRecord(k, n)
  BY <1>3, InvOpenRecord
<1>4. CASE screen # None /\ Editing
  <2>1. ASSUME NEW i, RemoveCourse(i)
        PROVE  IInv'
    BY <1>4, <2>1, InvRemoveCourse
  <2>2. ASSUME NEW i, NEW units \in Units, EditCourse(i, units)
        PROVE  IInv'
    BY <1>4, <2>2, InvEditCourse
  <2>3. ASSUME NEW i, NEW g \in Grade, Choose(i, g)
        PROVE  IInv'
    BY <1>4, <2>3, InvChoose
  <2>4. ASSUME NEW units \in Units, AddCourse(units)
        PROVE  IInv'
    BY <1>4, <2>4, InvAddCourse
  <2> QED
    BY <1>4, <2>1, <2>2, <2>3, <2>4 DEF Editing
<1>5. CASE Calculate
  BY <1>5, InvCalculate
<1>6. CASE Replace
  BY <1>6, InvReplace
<1>7. CASE Close
  BY <1>7, InvClose
<1>8. CASE Restart
  BY <1>8, InvRestart
<1>9. CASE \E p \in Position : Switch(p)
  BY <1>9, InvSwitch
<1> QED
  BY <1>1, <1>2, <1>3, <1>4, <1>5, <1>6, <1>7, <1>8, <1>9 DEF Next

LEMMA Invariant == Spec => []IInv
<1> QED
  BY InvInit, InvStep, PTL DEF Spec

-----------------------------------------------------------------------------
(* What follows of it.                                                     *)

\* The variables have their types: every record and every screen has a list that is
\* there, and a record has grades only (stats_function.dart:56).
THEOREM TypeCorrect == Spec => []TypeOK
<1>1. IInv => TypeOK
  <2> SUFFICES ASSUME IInv
               PROVE  TypeOK
    OBVIOUS
  <2>1. /\ courses \in Seq(List) /\ Len(courses) \in Nat /\ at \in Position
        /\ DOMAIN courses = 1 .. Len(courses)
    <3>1. courses \in Seq(List)
      BY DEF IInv, Types
    <3> QED
      BY <3>1 DEF IInv, Types
  <2>2. \A l \in DOMAIN courses : courses[l] \in List
    BY <2>1
  <2>3. ASSUME NEW k \in Kind, NEW n \in DOMAIN records[k]
        PROVE  /\ records[k][n].list \in DOMAIN courses
               /\ \A i \in DOMAIN records[k][n].scores : records[k][n].scores[i] \in Grade
    <3>1. records[k] \in Seq(SavedRecord)
      BY DEF IInv, Types
    <3>2. n \in 1 .. Len(records[k])
      BY <3>1
    <3>3. records[k][n].scores \in Seq(Grade) /\ records[k][n].list \in 1 .. Len(courses)
      BY <3>2, Saved DEF IInv
    <3> QED
      BY <2>1, <3>3
  <2>4. ASSUME screen # None
        PROVE  /\ screen.list \in DOMAIN courses
               /\ \A i \in DOMAIN screen.scores : screen.scores[i] \in Grade \cup {None}
    <3>1. screen.scores \in Seq(Grade \cup {None}) /\ screen.list \in 1 .. Len(courses)
      BY <2>4, Shown DEF IInv
    <3> QED
      BY <2>1, <3>1
  <2> QED
    BY <2>1, <2>2, <2>3, <2>4 DEF TypeOK
<1> QED
  BY <1>1, Invariant, PTL

\* As long as no list was changed that a saved record has, the result of every record
\* is that of its courses and grades, in memory and on the disk (stats_function.dart:173,
\* update_screen.dart:339).
THEOREM ResultsAreExact == Spec => []ResultsStand
<1>1. IInv => ResultsStand
  BY Stands DEF IInv, ResultsStand
<1> QED
  BY <1>1, Invariant, PTL

\* A new calculator shows the courses of the school until one of these lists is
\* changed (quick_calculate.dart:240): what a sync or a start reads shares none.
THEOREM SchoolIsShown == Spec => []CoursesOfSchool
<1>1. IInv => CoursesOfSchool
  BY DEF IInv, CoursesOfSchool, AsInSchool
<1> QED
  BY <1>1, Invariant, PTL

-----------------------------------------------------------------------------
(* What may spoil a record.                                                *)

\* A record is written as before when its list is as it was.
LEMMA WrittenSame ==
  ASSUME NEW r, NEW lists, NEW new, new[r.list] = lists[r.list]
  PROVE  Written(r, new) = Written(r, lists)
BY DEF Written

\* Which list a change of courses may part from which records.
LEMMA ChangeSpoils ==
  ASSUME IInv, screen # None, screen' # None, NEW list, Change(list),
         NEW k \in Kind, NEW n \in 1 .. Len(records[k]),
         Exact(Written(records[k][n], courses))
  PROVE  \/ Exact(Written(records'[k][n], courses'))
         \/ /\ None \notin {screen, screen'}
            /\ screen.list = records[k][n].list
            /\ courses'[screen.list] # courses[screen.list]
<1>1. records[k][n].list \in 1 .. Len(courses)
  BY Saved DEF IInv
<1>2. courses \in Seq(List)
  BY DEF IInv, Types
<1>3. courses' = [courses EXCEPT ![screen.list] = list] /\ records' = records
  BY DEF Change
<1>4. PICK l : l = records[k][n].list
  OBVIOUS
<1>5. CASE courses'[l] = courses[l]
  <2>1. Written(records[k][n], courses') = Written(records[k][n], courses)
    BY <1>4, <1>5, WrittenSame
  <2> QED
    BY <1>3, <2>1
<1>6. CASE courses'[l] # courses[l]
  <2>1. l = screen.list
    BY <1>1, <1>2, <1>3, <1>4, <1>6
  <2> QED
    BY <1>4, <1>6, <2>1
<1> QED
  BY <1>5, <1>6

\* A semester that was opened again is replaced by an exact record, if it was one: the
\* grades beyond its courses were never chosen.
LEMMA ReplaceSpoilsNone ==
  ASSUME IInv, Replace, NEW k \in Kind, NEW n \in 1 .. Len(records[k]),
         Exact(Written(records[k][n], courses))
  PROVE  Exact(Written(records'[k][n], courses'))
<1>1. /\ screen # None /\ screen.kind = "update" /\ screen.of > 0 /\ Complete
      /\ Put("update", [records["update"] EXCEPT ![screen.of] = Result])
      /\ courses' = courses
  BY DEF Replace, Complete
<1>2. records \in [Kind -> Seq(SavedRecord)]
  BY DEF IInv, Types
<1>3. PICK list : list = [records["update"] EXCEPT ![screen.of] = Result]
  OBVIOUS
<1>4. records' = [records EXCEPT !["update"] = list]
  BY <1>1, <1>3 DEF Put
<1>5. CASE k = "update" /\ n = screen.of
  <2>1. records["update"] \in Seq(SavedRecord)
    BY <1>2 DEF Kind
  <2>2. n \in DOMAIN records["update"]
    BY <1>5, <2>1
  <2>3. list[n] = Result
    BY <1>3, <1>5, <2>2
  <2>4. records'[k][n] = Result
    BY <1>2, <1>4, <1>5, <2>3
  <2>5. PICK r : r = records[k][n]
    OBVIOUS
  <2>6. /\ r.list = screen.list
        /\ \A i \in 1 .. Len(screen.scores) :
             i > Len(courses[screen.list]) /\ i > Len(r.scores) => screen.scores[i] = None
    BY <1>1, <1>5, <2>5 DEF IInv, Opened
  <2>7. Len(r.scores) = Len(courses[screen.list])
    <3>1. Exact(Written(r, courses))
      BY <2>5
    <3> QED
      BY <2>6, <3>1 DEF Exact, Written
  <2>8. Len(courses[screen.list]) \in Nat /\ Len(screen.scores) \in Nat
    BY <1>1, Shown DEF IInv
  <2>9. \A i \in Len(courses[screen.list]) + 1 .. Len(screen.scores) : screen.scores[i] = None
    BY <2>6, <2>7, <2>8
  <2>10. Exact(Written(Result, courses))
    BY <1>1, <2>9, Resulting
  <2> QED
    BY <1>1, <2>4, <2>10
<1>6. CASE ~(k = "update" /\ n = screen.of)
  <2>1. records'[k][n] = records[k][n]
    <3>1. CASE k # "update"
      BY <1>2, <1>4, <3>1
    <3>2. CASE k = "update"
      <4>1. records["update"] \in Seq(SavedRecord)
        BY <1>2 DEF Kind
      <4>2. n \in DOMAIN records["update"] /\ n # screen.of
        BY <1>6, <3>2, <4>1
      <4>3. list[n] = records["update"][n]
        BY <1>3, <4>2
      <4> QED
        BY <1>2, <1>4, <3>2, <4>3
    <3> QED
      BY <3>1, <3>2
  <2> QED
    BY <1>1, <2>1
<1> QED
  BY <1>5, <1>6

\* Saving appends: the records there are stay as they are.
LEMMA CalculateSpoilsNone ==
  ASSUME IInv, Calculate, NEW k \in Kind, NEW n \in 1 .. Len(records[k])
  PROVE  courses' = courses /\ records'[k][n] = records[k][n]
<1>1. records \in [Kind -> Seq(SavedRecord)]
  BY DEF IInv, Types
<1>2. screen # None
  BY DEF Calculate, Complete
<1>3. screen.kind \in Kind
  BY <1>2, Shown DEF IInv
<1>4. PICK e, r : e = screen.kind /\ r = Result
  OBVIOUS
<1>5. r \in SavedRecord
  BY <1>4, Resulting DEF Calculate
<1>6. records' = [records EXCEPT ![e] = Append(records[e], r)] /\ courses' = courses
  BY <1>4 DEF Calculate, Put
<1>7. CASE k = e
  <2>1. records[k] \in Seq(SavedRecord)
    BY <1>1
  <2>2. Append(records[k], r)[n] = records[k][n]
    BY <1>5, <2>1
  <2> QED
    BY <1>1, <1>6, <1>7, <2>2
<1>8. CASE k # e
  BY <1>1, <1>6, <1>8
<1> QED
  BY <1>7, <1>8

\* The same for every step.
LEMMA SpoilStep ==
  ASSUME IInv, [Next]_vars, NEW k \in Kind, NEW n \in DOMAIN records[k],
         Exact(Written(records[k][n], courses)), n \in DOMAIN records'[k]
  PROVE  \/ Exact(Written(records'[k][n], courses'))
         \/ /\ None \notin {screen, screen'}
            /\ screen.list = records[k][n].list
            /\ courses'[screen.list] # courses[screen.list]
         \/ ~Exact(disk[k][n])
<1>1. records[k] \in Seq(SavedRecord) /\ n \in 1 .. Len(records[k])
  <2>1. records[k] \in Seq(SavedRecord)
    BY DEF IInv, Types
  <2> QED
    BY <2>1
<1>2. ASSUME courses' = courses, records' = records
      PROVE  Exact(Written(records'[k][n], courses'))
  BY <1>2
<1>3. CASE UNCHANGED vars
  BY <1>2, <1>3 DEF vars
<1>4. CASE \E e \in Enabled : OpenNew(e)
  BY <1>2, <1>4 DEF OpenNew
<1>5. ASSUME NEW e \in Enabled, Sync(e)
      PROVE  Exact(Written(records'[k][n], courses'))
  <2>1. e \in Kind
    BY CalculatorAssumption
  <2>2. /\ \A m \in 1 .. Len(courses) : courses'[m] = courses[m]
        /\ \A m \in 1 .. Len(records[e]) :
             Written(records'[e][m], courses') = Written(records[e][m], courses)
        /\ \A f \in Kind \ {e} : records'[f] = records[f]
    BY <1>5, <2>1, Synced DEF IInv
  <2>3. CASE k = e
    BY <1>1, <2>2, <2>3
  <2>4. CASE k # e
    <3>1. courses'[records[k][n].list] = courses[records[k][n].list]
      BY <1>1, <2>2, Saved DEF IInv
    <3>2. Written(records[k][n], courses') = Written(records[k][n], courses)
      BY <3>1, WrittenSame
    <3> QED
      BY <2>2, <2>4, <3>2
  <2> QED
    BY <2>3, <2>4
<1>6. CASE \E e \in Enabled : \E m \in DOMAIN records[e] : OpenRecord(e, m)
  BY <1>2, <1>6 DEF OpenRecord
<1>7. CASE screen # None /\ Editing
  <2>1. ASSUME NEW i, RemoveCourse(i)
        PROVE  screen' # None /\ \E list : Change(list)
    BY <1>7, <2>1, InvRemoveCourse DEF RemoveCourse
  <2>2. ASSUME NEW i, NEW units \in Units, EditCourse(i, units)
        PROVE  screen' # None /\ \E list : Change(list)
    BY <1>7, <2>2, InvEditCourse DEF EditCourse
  <2>3. ASSUME NEW units \in Units, AddCourse(units)
        PROVE  screen' # None /\ \E list : Change(list)
    BY <1>7, <2>3, InvAddCourse DEF AddCourse
  <2>4. ASSUME NEW i, NEW g, Choose(i, g)
        PROVE  Exact(Written(records'[k][n], courses'))
    BY <1>2, <2>4 DEF Choose
  <2>5. ASSUME screen' # None, NEW list, Change(list)
        PROVE  \/ Exact(Written(records'[k][n], courses'))
               \/ /\ None \notin {screen, screen'}
                  /\ screen.list = records[k][n].list
                  /\ courses'[screen.list] # courses[screen.list]
    BY <1>1, <1>7, <2>5, ChangeSpoils
  <2>6. \/ screen' # None /\ \E list : Change(list)
        \/ Exact(Written(records'[k][n], courses'))
    BY <1>7, <2>1, <2>2, <2>3, <2>4 DEF Editing
  <2> QED
    BY <2>5, <2>6
<1>8. CASE Calculate
  <2>1. courses' = courses /\ records'[k][n] = records[k][n]
    BY <1>1, <1>8, CalculateSpoilsNone
  <2> QED
    BY <2>1
<1>9. CASE Replace
  BY <1>1, <1>9, ReplaceSpoilsNone
<1>10. CASE Close
  BY <1>2, <1>10 DEF Close
<1>11. CASE Restart
  <2>1. records' \in [Kind -> Seq(SavedRecord)]
        /\ Len(records'[k]) = Len(disk[k])
        /\ \A m \in 1 .. Len(disk[k]) : Written(records'[k][m], courses') = disk[k][m]
    BY <1>11, Restarted DEF IInv
  <2>2. records'[k] \in Seq(SavedRecord)
    BY <2>1
  <2>3. n \in 1 .. Len(disk[k])
    BY <2>1, <2>2
  <2> QED
    BY <2>1, <2>3
<1>12. CASE \E p \in Position : Switch(p)
  BY <1>2, <1>12 DEF Switch
<1> QED
  BY <1>3, <1>4, <1>5, <1>6, <1>7, <1>8, <1>9, <1>10, <1>11, <1>12 DEF Next

\* A record that is exact stops being so only when a calculator with its own list
\* changes a course, or when it is read from a disk that has it inexact: saving,
\* replacing, syncing and starting again spoil no record (stats_function.dart:111,
\* update_screen.dart:339).
THEOREM RecordsHaveACauseOfSpoiling == Spec => SpoiltBySharing
<1>1. IInv /\ [Next]_vars =>
        [\A k \in Kind : \A n \in DOMAIN records[k] :
           Exact(Written(records[k][n], courses)) /\ n \in DOMAIN records'[k]
             => \/ Exact(Written(records'[k][n], courses'))
                \/ /\ None \notin {screen, screen'}
                   /\ screen.list = records[k][n].list
                   /\ courses'[screen.list] # courses[screen.list]
                \/ ~Exact(disk[k][n])]_vars
  BY SpoilStep
<1> QED
  BY <1>1, Invariant, PTL DEF Spec, SpoiltBySharing

=============================================================================
