----------------------------- MODULE Calculator -----------------------------
(***************************************************************************)
(* The calculators: quick calculation, simulation and the form for a       *)
(* semester.  Each screen works on a list of courses and a list of grades  *)
(* beside it.                                                              *)
(*                                                                         *)
(* The screens change the list of courses itself, whoever else has it:     *)
(* the list of a new calculation is the one inside AuthProvider.courseData,*)
(* a saved record keeps the list of its screen, and a record that is       *)
(* opened again shows its own.  Lists are told apart by their number.      *)
(* Hive writes the whole list of records on every put and reads it only    *)
(* when the app starts, so that the lists part there.                      *)
(*                                                                         *)
(* A course is its units; a result is what it was computed from (Gpa has   *)
(* the arithmetic).  A record on the disk is a record whose list is spelt  *)
(* out.                                                                    *)
(***************************************************************************)
EXTENDS Naturals, Sequences

CONSTANTS
  Enabled,      \* kinds of calculation in use
  School,       \* School[p]: the courses of semester p in the assets
  Units,        \* units a course may be given
  Grade,        \* grades
  MaxRecords,   \* bound: records of a kind
  MaxLists,     \* bound: lists of courses in memory
  MaxCourses,   \* bound: courses of a list
  MaxChanges,   \* bound: changes of courses
  None          \* no grade chosen yet, no screen open

Kind == {"quick", "simulate", "update"}

List == UNION {[1 .. n -> Units] : n \in 0 .. MaxCourses}

Screen == [kind : Kind, list : Nat, of : Nat, scores : Seq(Grade \cup {None})]

\* The courses of every semester are within the bound; null is no grade and no screen.
ASSUME CalculatorAssumption ==
  /\ Enabled \subseteq Kind
  /\ School \in Seq(List) /\ School # <<>>
  /\ {MaxRecords, MaxLists, MaxCourses, MaxChanges} \subseteq Nat
  /\ None \notin Grade \cup Screen

Position == DOMAIN School

VARIABLES
  courses,    \* courses[l]: list l; the first ones are those of courseData
  at,         \* the semester the student is in
  records,    \* records[k]: the saved calculations of kind k
  disk,       \* disk[k]: as Hive has them on the disk
  screen,     \* the calculator that is open
  changes,    \* auxiliary: how often a list was changed
  touched,    \* auxiliary: a list of courseData was changed since the app started
  spoilt      \* auxiliary: a list was changed that a saved record has

vars == <<courses, at, records, disk, screen, changes, touched, spoilt>>

-----------------------------------------------------------------------------

RemoveAt(s, i) == [n \in 1 .. Len(s) - 1 |-> IF n < i THEN s[n] ELSE s[n + 1]]

\* mutant: what is not a grade stays
convertGradeToScoreAll(scores) == scores

\* convertGradeToScore drops what is not a grade.
convertGradeToScore(scores) ==
  LET kept[n \in 0 .. Len(scores)] ==
        IF n = 0 THEN <<>>
        ELSE IF scores[n] = None THEN kept[n - 1]
        ELSE Append(kept[n - 1], scores[n])
  IN  kept[Len(scores)]

\* What getResult reads: the units of every course and the grade beside it.
getResult(list, scores) ==
  LET score == convertGradeToScore(scores) IN [i \in DOMAIN list |-> <<list[i], score[i]>>]

\* What Hive and toJson write of a record.
Written(r, lists) == [courses |-> lists[r.list], scores |-> r.scores, result |-> r.result]

\* The records as they are read back: each with a list of its own, numbered from n + 1.
Read(written, n) ==
  [i \in DOMAIN written |->
     [list |-> n + i, scores |-> written[i].scores, result |-> written[i].result]]

Lists(written) == [i \in DOMAIN written |-> written[i].courses]

\* add...Data, replaceUpdateList: the whole list is put.
Put(k, list) ==
  /\ records' = [records EXCEPT ![k] = list]
  /\ disk' = [disk EXCEPT ![k] = [i \in DOMAIN list |-> Written(list[i], courses)]]

Init ==
  /\ courses = School
  /\ at = 1
  /\ records = [k \in Kind |-> <<>>]
  /\ disk = [k \in Kind |-> <<>>]
  /\ screen = None
  /\ changes = 0
  /\ touched = FALSE
  /\ spoilt = FALSE

\* No grade chosen beside the courses of semester p.
Blank(p) == [i \in DOMAIN courses[p] |-> None]

\* init: the list of the student's semester in courseData.
OpenNew(k) ==
  /\ screen = None
  /\ screen' = [kind |-> k, list |-> at, of |-> 0, scores |-> Blank(at)]
  /\ UNCHANGED <<courses, at, records, disk, changes, touched, spoilt>>

\* Historyinit: the record's list, and its grades.
OpenRecord(k, n) ==
  /\ screen = None
  /\ screen' = [kind |-> k, list |-> records[k][n].list, of |-> n, scores |-> records[k][n].scores]
  /\ UNCHANGED <<courses, at, records, disk, changes, touched, spoilt>>

\* The drop-downs of the quick calculator: the courses of another semester, also on a
\* screen that shows a saved record.
Switch(p) ==
  /\ screen # None
  /\ screen.kind = "quick"
  /\ screen' = [screen EXCEPT !.list = p, !.scores = Blank(p)]
  /\ UNCHANGED <<courses, at, records, disk, changes, touched, spoilt>>

\* The student leaves the screen, or editUpdates does once the average is stored.
Close ==
  /\ screen # None
  /\ screen' = None
  /\ UNCHANGED <<courses, at, records, disk, changes, touched, spoilt>>

\* The row of course i can be shown: there is a grade, or -1, beside the course.
Row(i) == screen # None /\ i \in DOMAIN courses[screen.list] \cap DOMAIN screen.scores

Change(list) ==
  /\ changes < MaxChanges
  /\ changes' = changes + 1
  /\ courses' = [courses EXCEPT ![screen.list] = list]
  /\ touched' = (touched \/ screen.list \in Position)
  /\ spoilt' = (spoilt \/ \E k \in Kind : \E n \in DOMAIN records[k] : records[k][n].list = screen.list)
  /\ UNCHANGED <<at, records, disk>>

\* mutant: the grade stays
RemoveCourseOnly(i) ==
  /\ Row(i)
  /\ Change(RemoveAt(courses[screen.list], i))
  /\ UNCHANGED screen

\* Delete: the course and the grade at the index.
RemoveCourse(i) ==
  /\ Row(i)
  /\ Change(RemoveAt(courses[screen.list], i))
  /\ screen' = [screen EXCEPT !.scores = RemoveAt(@, i)]

\* Edit: the course is replaced, its grade stays.
EditCourse(i, units) ==
  /\ Row(i)
  /\ courses[screen.list][i] # units
  /\ Change([courses[screen.list] EXCEPT ![i] = units])
  /\ UNCHANGED screen

AddCourse(units) ==
  /\ screen # None
  /\ Len(courses[screen.list]) < MaxCourses
  /\ Change(Append(courses[screen.list], units))
  /\ screen' = [screen EXCEPT !.scores = Append(@, None)]

Choose(i, g) ==
  /\ Row(i)
  /\ screen' = [screen EXCEPT !.scores[i] = g]
  /\ UNCHANGED <<courses, at, records, disk, changes, touched, spoilt>>

\* Every course has its grade; a missing one (RangeError) ends the handler.
Complete ==
  /\ screen # None
  /\ \A i \in DOMAIN courses[screen.list] : i \in DOMAIN screen.scores /\ screen.scores[i] # None

Result ==
  [list |-> screen.list, scores |-> convertGradeToScore(screen.scores),
   result |-> getResult(courses[screen.list], screen.scores)]

\* A calculation is saved, from a new screen or from a record's: except that a
\* semester that was opened again is replaced.  The screen stays below the result.
\* A new semester takes the student to the next one.
Calculate ==
  /\ Complete
  /\ ~(screen.kind = "update" /\ screen.of > 0)
  /\ Len(records[screen.kind]) < MaxRecords
  /\ Put(screen.kind, Append(records[screen.kind], Result))
  /\ at' = IF screen.kind = "update" /\ at + 1 \in Position THEN at + 1 ELSE at
  /\ UNCHANGED <<courses, screen, changes, touched, spoilt>>

\* mutant: only the grades are replaced
ReplaceKeepsList ==
  /\ Complete
  /\ screen.kind = "update" /\ screen.of > 0
  /\ Put("update", [records["update"] EXCEPT ![screen.of].scores = Result.scores])
  /\ UNCHANGED <<courses, at, screen, changes, touched, spoilt>>

\* editUpdates.  The screen is open until updateUserCGPA was answered (Close), and
\* stays open if that fails.
Replace ==
  /\ Complete
  /\ screen.kind = "update" /\ screen.of > 0
  /\ Put("update", [records["update"] EXCEPT ![screen.of] = Result])
  /\ UNCHANGED <<courses, at, screen, changes, touched, spoilt>>

\* A sync reads back what it stored of a kind (RecordSync).
Sync(k) ==
  LET written == [n \in DOMAIN records[k] |-> Written(records[k][n], courses)]
  IN  /\ screen = None
      /\ records[k] # <<>>
      /\ Len(courses) + Len(written) <= MaxLists
      /\ courses' = courses \o Lists(written)
      /\ records' = [records EXCEPT ![k] = Read(written, Len(courses))]
      /\ disk' = [disk EXCEPT ![k] = written]
      /\ UNCHANGED <<at, screen, changes, touched, spoilt>>

\* mutant: the courses stay as they were
RestartKeepsCourses ==
  LET q == disk["quick"]
      s == disk["simulate"]
      u == disk["update"]
      here == SubSeq(courses, 1, Len(School))
      n == Len(School)
  IN  /\ courses' = here \o Lists(q) \o Lists(s) \o Lists(u)
      /\ records' = [quick |-> Read(q, n), simulate |-> Read(s, n + Len(q)),
                     update |-> Read(u, n + Len(q) + Len(s))]
      /\ screen' = None
      /\ touched' = FALSE
      /\ UNCHANGED <<at, disk, changes, spoilt>>

\* The app is started again: everything is read from the disk, the courses as they
\* were when the profile was saved.
Restart ==
  LET q == disk["quick"]
      s == disk["simulate"]
      u == disk["update"]
      n == Len(School)
  IN  /\ courses' = School \o Lists(q) \o Lists(s) \o Lists(u)
      /\ records' = [quick |-> Read(q, n), simulate |-> Read(s, n + Len(q)),
                     update |-> Read(u, n + Len(q) + Len(s))]
      /\ screen' = None
      /\ touched' = FALSE
      /\ UNCHANGED <<at, disk, changes, spoilt>>

Editing ==
  \/ \E i \in DOMAIN courses[screen.list] :
       \/ RemoveCourse(i)
       \/ \E units \in Units : EditCourse(i, units)
       \/ \E g \in Grade : Choose(i, g)
  \/ \E units \in Units : AddCourse(units)

Next ==
  \/ \E k \in Enabled : OpenNew(k) \/ Sync(k)
  \/ \E k \in Enabled : \E n \in DOMAIN records[k] : OpenRecord(k, n)
  \/ screen # None /\ Editing
  \/ \E p \in Position : Switch(p)
  \/ Calculate
  \/ Replace
  \/ Close
  \/ Restart

Spec == Init /\ [][Next]_vars

-----------------------------------------------------------------------------
(* Properties.                                                             *)

\* The variables have their types; every list a record or a screen has is there.
TypeOK ==
  /\ \A l \in DOMAIN courses : courses[l] \in List
  /\ at \in Position
  /\ \A k \in Kind : \A n \in DOMAIN records[k] :
       /\ records[k][n].list \in DOMAIN courses
       /\ \A i \in DOMAIN records[k][n].scores : records[k][n].scores[i] \in Grade
  /\ screen # None =>
       /\ screen.list \in DOMAIN courses
       /\ \A i \in DOMAIN screen.scores : screen.scores[i] \in Grade \cup {None}

\* The record's result is that of its courses and its grades, one for each course.
Exact(r) == Len(r.scores) = Len(r.courses) /\ r.result = getResult(r.courses, r.scores)

\* As long as no list was changed that a saved record has, every record is exact, in
\* memory and on the disk alike, and the grades on the screen are beside their courses:
\* adding, deleting and editing courses in new calculations, replacing semesters,
\* syncs and restarts never part them.
ResultsStand ==
  spoilt \/ /\ \A k \in Kind :
                 /\ \A n \in DOMAIN records[k] : Exact(Written(records[k][n], courses))
                 /\ disk[k] = [n \in DOMAIN records[k] |-> Written(records[k][n], courses)]
            /\ screen # None => Len(screen.scores) = Len(courses[screen.list])

\* A new calculator shows the courses of the school, unless a calculator changed a list
\* of courseData since the app was started (quick_calculate.dart:240): records that
\* were read back, by a restart or a sync, share no list with it.
CoursesOfSchool ==
  touched \/ \A p \in Position : courses[p] = School[p]

\* A record that is exact stops being so only when a calculator with its own list
\* changes a course, or it is read from a disk that has it inexact already: saving,
\* replacing, syncing and restarting spoil no other record.
SpoiltBySharing ==
  [][\A k \in Kind : \A n \in DOMAIN records[k] :
       Exact(Written(records[k][n], courses)) /\ n \in DOMAIN records'[k]
         => \/ Exact(Written(records'[k][n], courses'))
            \/ /\ None \notin {screen, screen'}
               /\ screen.list = records[k][n].list
               /\ courses'[screen.list] # courses[screen.list]
            \/ ~Exact(disk[k][n])]_vars

=============================================================================
