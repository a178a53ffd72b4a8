------------------------------- MODULE Ledger -------------------------------
(***************************************************************************)
(* The student's record of semesters: the cumulative average and position  *)
(* (level and semester) in the user object, and the list of updates, one   *)
(* for each semester recorded, oldest first.  Recording a semester writes  *)
(* both, in two Hive boxes; changing a recorded semester recomputes the    *)
(* newer ones; a profile edit starts over.                                 *)
(*                                                                         *)
(* What makes this hard: a screen keeps what it read when it was opened,   *)
(* and stays below the screens pushed on it; the user object is assigned   *)
(* only after it was put in its box; a call to Firestore may be answered   *)
(* late or never (offline), and meanwhile the student goes on; the app may *)
(* be killed while one box is written and the other is not.                *)
(*                                                                         *)
(* Left out: names, courses, scores and timestamps of records; changing to *)
(* a course of another length; a dashboard opened over another one by      *)
(* setting a goal anew; typed averages that are NaN, or negative and not   *)
(* the sentinel; and the syncs, which replace the list by the documents    *)
(* (module RecordSync): the properties are those of a student between two  *)
(* syncs.                                                                  *)
(***************************************************************************)
EXTENDS Gpa, Sequences

CONSTANTS
  Results,      \* results of a semester when it is recorded
  Corrections,  \* ... and when it is changed
  Typed,        \* averages a student types in the profile, of '-1' the sentinel
  MaxUpdates,   \* bound: length of the list
  MaxUnsaved    \* bound: puts of one box that are under way together

ASSUME LedgerAssumption ==
  /\ Results \subseteq Score
  /\ Corrections \subseteq Score
  /\ Typed \subseteq Value \cup {Unset}
  /\ MaxUpdates \in Nat
  /\ MaxUnsaved \in Nat

VARIABLES
  user,       \* AuthProvider.user: its average and position
  userBox,    \* the values of 'userKey': the one on disk, then those being put
  updateBox,  \* the same for 'update_list'
  screen,     \* the screen on top
  shown,      \* the lists the home tab and the past-semesters screen hold
  unread,     \* the dashboard was opened on an empty list and holds that
  form,       \* what the update screen captured when it was opened
  waiting,    \* the update screen waits for Firestore (its button is loading)
  profile     \* profile edits waiting for Firestore: at most one

boxes == <<userBox, updateBox>>

vars == <<user, boxes, screen, shown, unread, form, waiting, profile>>

-----------------------------------------------------------------------------

Last(s) == s[Len(s)]

\* Box.get returns what was put last.
updates == Last(updateBox)

\* Box.put takes effect at once in memory and later on disk.
Put(box, value) ==
  /\ Len(box) <= MaxUnsaved
  /\ box' = Append(box, value)

NoForm == [past |-> Unset, at |-> Start, index |-> 0, from |-> "home"]

\* mutant: the past average is kept
replaceUpdateKeepsPast(this, past) ==
  {[this EXCEPT !.cgpa = c] : c \in getCGPA(this.past, this.gpa, this.at)}

\* mutant: the average is kept
replaceUpdateKeepsCgpa(this, past) == {[this EXCEPT !.past = past.cgpa]}

\* A newer semester after a change of the one before it.
replaceUpdate(this, past) ==
  {[this EXCEPT !.cgpa = c, !.past = past.cgpa] : c \in getCGPA(past.cgpa, this.gpa, this.at)}

\* mutant: the index is taken in the list as stored
editUpdatesUnreversed(old, update, index) ==
  LET upTo[k \in 0 .. Len(old)] ==
        IF k = 0 THEN {<<>>}
        ELSE UNION {{Append(new, u) : u \in IF k < index THEN {old[k]}
                                            ELSE IF k = index THEN {update}
                                            ELSE replaceUpdate(old[k], new[k - 1])} :
                    new \in upTo[k - 1]}
  IN  upTo[Len(old)]

\* The list with update in place of the index-th newest, and the newer ones
\* recomputed, each from the one before it.
editUpdates(old, update, index) ==
  LET edited == Len(old) + 1 - index
      upTo[k \in 0 .. Len(old)] ==
        IF k = 0 THEN {<<>>}
        ELSE UNION {{Append(new, u) : u \in IF k < edited THEN {old[k]}
                                            ELSE IF k = edited THEN {update}
                                            ELSE replaceUpdate(old[k], new[k - 1])} :
                    new \in upTo[k - 1]}
  IN  upTo[Len(old)]

\* What the profile screens accept: '-1.0' is put for the first semester; for
\* another one the average is typed, or the user's.  Of the sentinel the text
\* '-1.0', which is the user's, is refused, and '-1' is not.
Profiles(u) ==
  {[cgpa |-> Unset, at |-> Start]}
  \cup [cgpa : Typed \cup ({u.cgpa} \ {Unset}), at : Position \ {Start}]

-----------------------------------------------------------------------------

\* A student who has filled in the profile.
Init ==
  /\ user \in Profiles([cgpa |-> Unset])
  /\ userBox = <<user>>
  /\ updateBox = << <<>> >>
  /\ screen = "home"
  /\ shown = [home |-> <<>>, past |-> <<>>]
  /\ unread = FALSE
  /\ form = NoForm
  /\ waiting = FALSE
  /\ profile = {}

-----------------------------------------------------------------------------
(* Recording a semester.                                                   *)

\* On the home tab, which stays below as it is, or on the statistics tab, where
\* the home tab is gone.  The dashboard's list is Hive's own, unless Hive has none.
OpenDashboard ==
  /\ screen = "home"
  /\ screen' = "dashboard"
  /\ shown' \in {shown, [shown EXCEPT !.home = <<>>]}
  /\ unread' = (updates = <<>>)
  /\ UNCHANGED <<user, boxes, form, waiting, profile>>

\* "Upload Result": refused with "You are done with your ... degree" if the
\* list's first record is of the last semester.
OpenForm ==
  /\ screen = "dashboard"
  /\ ~unread => ~Final(updates[1].at)
  /\ screen' = "form"
  /\ form' = [past |-> user.cgpa, at |-> user.at, index |-> 0, from |-> "dashboard"]
  /\ UNCHANGED <<user, boxes, shown, unread, waiting, profile>>

\* mutant: the user put is not the next one
SubmitStays(result) ==
  /\ screen = "form"
  /\ Len(updates) < MaxUpdates
  /\ \E c \in getCGPA(form.past, result, form.at) :
       /\ Put(updateBox, Append(updates, [gpa |-> result, cgpa |-> c,
                                          past |-> form.past, at |-> form.at]))
       /\ Put(userBox, [user EXCEPT !.cgpa = c])
  /\ screen' = "result"
  /\ UNCHANGED <<user, shown, unread, form, waiting, profile>>

\* mutant: the next user has no new average
SubmitKeepsCgpa(result) ==
  /\ screen = "form"
  /\ Len(updates) < MaxUpdates
  /\ \E c \in getCGPA(form.past, result, form.at) :
       Put(updateBox, Append(updates, [gpa |-> result, cgpa |-> c,
                                       past |-> form.past, at |-> form.at]))
  /\ Put(userBox, [user EXCEPT !.at = increment(user.at)])
  /\ screen' = "result"
  /\ UNCHANGED <<user, shown, unread, form, waiting, profile>>

\* "Update": the record is made of what the screen captured, the next user of
\* the user there is now.  The result screen is pushed on the form.
Submit(result) ==
  /\ screen = "form"
  /\ Len(updates) < MaxUpdates
  /\ \E c \in getCGPA(form.past, result, form.at) :
       /\ Put(updateBox, Append(updates, [gpa |-> result, cgpa |-> c,
                                          past |-> form.past, at |-> form.at]))
       /\ Put(userBox, [cgpa |-> c, at |-> increment(user.at)])
  /\ screen' = "result"
  /\ UNCHANGED <<user, shown, unread, form, waiting, profile>>

\* "Go Back Home": a new main screen.
GoHome ==
  /\ screen = "result"
  /\ screen' = "home"
  /\ shown' = [home |-> updates, past |-> <<>>]
  /\ form' = NoForm
  /\ unread' = FALSE
  /\ UNCHANGED <<user, boxes, waiting, profile>>

\* The screen on top is popped; the one below is as it was left, a home tab with
\* the list it had.
Back ==
  \/ /\ screen = "result"
     /\ screen' = "form"
     /\ UNCHANGED <<user, boxes, shown, unread, form, waiting, profile>>
  \/ /\ screen \in {"form", "editor"}
     /\ screen' = form.from
     /\ form' = NoForm
     /\ waiting' = FALSE
     /\ UNCHANGED <<user, boxes, shown, unread, profile>>
  \/ /\ screen \in {"dashboard", "past"}
     /\ screen' = "home"
     /\ shown' = [shown EXCEPT !.past = <<>>]
     /\ unread' = FALSE
     /\ UNCHANGED <<user, boxes, form, waiting, profile>>

-----------------------------------------------------------------------------
(* Changing a recorded semester.                                           *)

\* Another tab is chosen, and the home tab again: it is built anew.
SwitchTab ==
  /\ screen = "home"
  /\ shown' = [shown EXCEPT !.home = updates]
  /\ UNCHANGED <<user, boxes, screen, unread, form, waiting, profile>>

\* "View all", where the home tab shows a record.
OpenPast ==
  /\ screen = "home"
  /\ shown.home # <<>>
  /\ screen' = "past"
  /\ shown' = [shown EXCEPT !.past = updates]
  /\ UNCHANGED <<user, boxes, unread, form, waiting, profile>>

\* The record shown as the index-th newest is opened; home shows the newest only.
OpenEditor(index) ==
  /\ screen \in {"home", "past"}
  /\ index \in 1 .. Len(shown[screen])
  /\ screen = "home" => index = 1
  /\ LET update == shown[screen][Len(shown[screen]) + 1 - index]
     IN  form' = [past |-> update.past, at |-> update.at, index |-> index, from |-> screen]
  /\ screen' = "editor"
  /\ UNCHANGED <<user, boxes, shown, unread, waiting, profile>>

\* "Update": the list is replaced, and updateUserCGPA makes the newest average
\* the user's.  Then Firestore is awaited.  If the list has no such record any
\* more, nothing happens.
SubmitEdit(result) ==
  /\ screen = "editor"
  /\ ~waiting
  /\ form.index <= Len(updates)
  /\ \E c \in getCGPA(form.past, result, form.at) :
       LET update == [gpa |-> result, cgpa |-> c, past |-> form.past, at |-> form.at]
       IN  \E new \in editUpdates(updates, update, form.index) :
             /\ Put(updateBox, new)
             /\ user' = [user EXCEPT !.cgpa = Last(new).cgpa]
             /\ Put(userBox, user')
  /\ waiting' = TRUE
  /\ UNCHANGED <<screen, shown, unread, form, profile>>

\* Firestore stored the user: a new main screen.
EditSaved ==
  /\ waiting
  /\ waiting' = FALSE
  /\ screen' = "home"
  /\ shown' = [home |-> updates, past |-> <<>>]
  /\ form' = NoForm
  /\ UNCHANGED <<user, boxes, unread, profile>>

\* Firestore refused: "Error Calculating new Update", on the same screen.
EditNotSaved ==
  /\ waiting
  /\ waiting' = FALSE
  /\ UNCHANGED <<user, boxes, screen, shown, unread, form, profile>>

-----------------------------------------------------------------------------
(* The profile edit, the boxes, and the end of the process.                *)

\* On the home tab, which keeps its list, or on the profile tab, where the home
\* tab is gone.
StartProfileEdit ==
  /\ screen = "home"
  /\ profile = {}
  /\ \E p \in Profiles(user) : profile' = {p}
  /\ Put(updateBox, <<>>)
  /\ shown' \in {shown, [shown EXCEPT !.home = <<>>]}
  /\ UNCHANGED <<user, userBox, screen, unread, form, waiting>>

\* The deletion in Firestore ended, well or not: UpdateUser.
EndProfileEdit ==
  \E p \in profile :
    /\ user' = p
    /\ Put(userBox, p)
    /\ profile' = {}
    /\ UNCHANGED <<updateBox, screen, shown, unread, form, waiting>>

\* A put of the user completes, and saveUser assigns the user.
SaveDone ==
  /\ Len(userBox) > 1
  /\ userBox' = Tail(userBox)
  /\ user' = userBox[2]
  /\ UNCHANGED <<updateBox, screen, shown, unread, form, waiting, profile>>

FlushUpdates ==
  /\ Len(updateBox) > 1
  /\ updateBox' = Tail(updateBox)
  /\ UNCHANGED <<user, userBox, screen, shown, unread, form, waiting, profile>>

\* The process is killed with some of the puts done; splash restores the user.
Crash ==
  /\ \E i \in 1 .. Len(userBox) : user' = userBox[i]
  /\ userBox' = <<user'>>
  /\ \E i \in 1 .. Len(updateBox) : updateBox' = <<updateBox[i]>>
  /\ screen' = "home"
  /\ shown' = [home |-> updateBox'[1], past |-> <<>>]
  /\ unread' = FALSE
  /\ form' = NoForm
  /\ waiting' = FALSE
  /\ profile' = {}

-----------------------------------------------------------------------------

Recording ==
  \/ OpenDashboard
  \/ OpenForm
  \/ \E result \in Results : Submit(result)
  \/ GoHome
  \/ Back

Editing ==
  \/ SwitchTab
  \/ OpenPast
  \/ \E index \in 1 .. MaxUpdates : OpenEditor(index)
  \/ \E result \in Corrections : SubmitEdit(result)
  \/ EditSaved
  \/ EditNotSaved

ProfileEdit == StartProfileEdit \/ EndProfileEdit

Storage == SaveDone \/ FlushUpdates

Next == Recording \/ Editing \/ ProfileEdit \/ Storage \/ Crash

Spec == Init /\ [][Next]_vars

-----------------------------------------------------------------------------
(* Properties                                                              *)

Cgpa == Score \cup {Unset}

Update == [gpa : Score, cgpa : Score, past : Cgpa, at : Position]

User == [cgpa : Cgpa, at : Position]

\* Types.
TypeOK ==
  /\ user \in User
  /\ userBox # <<>> /\ \A i \in DOMAIN userBox : userBox[i] \in User
  /\ updateBox # <<>>
  /\ \A i \in DOMAIN updateBox : \A k \in DOMAIN updateBox[i] : updateBox[i][k] \in Update
  /\ screen \in {"home", "dashboard", "form", "result", "past", "editor"}
  /\ \A s \in {"home", "past"} : \A k \in DOMAIN shown[s] : shown[s][k] \in Update
  /\ unread \in BOOLEAN
  /\ form.past \in Cgpa /\ form.at \in Position /\ form.index \in Nat
  /\ waiting \in BOOLEAN
  /\ profile \subseteq User

\* The semesters that a user or a record starts, or may start, with the sentinel
\* -1.0 for an average: getCGPA takes their result for the average.
UnsetAt ==
  LET users == {user} \cup {userBox[i] : i \in DOMAIN userBox} \cup profile
      lists == {updateBox[i] : i \in DOMAIN updateBox} \cup {shown.home, shown.past}
      records == {form} \cup UNION {{list[k] : k \in DOMAIN list} : list \in lists}
  IN  {u.at : u \in {v \in users : v.cgpa = Unset}}
      \cup {r.at : r \in {v \in records : v.past = Unset}}

\* The sentinel gets to a semester only by an edit of the profile: it is never
\* carried on by recording or changing semesters, nor by a kill.
SentinelIsTyped ==
  [][UnsetAt' \subseteq UnsetAt \cup {Start} \cup {p.at : p \in {q \in profile' : q.cgpa = Unset}}]_vars

\* "Invalid CGpa" (edit_profile.dart:377-383): a profile past the first semester
\* does not get the sentinel.
SentinelRefused ==
  [][profile = {} => \A p \in profile' : p.cgpa = Unset => p.at = Start]_vars

\* Every record follows from its own result and the average it names.
RecordsExact ==
  \A k \in DOMAIN updates :
    updates[k].cgpa \in getCGPA(updates[k].past, updates[k].gpa, updates[k].at)

\* Each record of list is of the semester after the one before it, and starts
\* from its average.
Linked(list) ==
  \A k \in 2 .. Len(list) :
    /\ getCurrentSemester(list[k].at) = getCurrentSemester(list[k - 1].at) + 1
    /\ list[k].past = list[k - 1].cgpa

Total(list) ==
  LET sum[k \in 0 .. Len(list)] == IF k = 0 THEN 0 ELSE sum[k - 1] + list[k].gpa
  IN  sum[Len(list)]

Distance(x, y) == IF x < y THEN y - x ELSE x - y

\* The averages of a student recorded from the first semester on are the means of
\* the results, but for what rounding each semester can add up to: with n
\* semesters at most (n(n+1)-2)/4n hundredths, if no result is missing.
MeanOfResults ==
  /\ updates # <<>>
  /\ updates[1].at = Start /\ updates[1].past = Unset
  /\ Linked(updates)
  /\ \A k \in DOMAIN updates : updates[k].gpa # NaN
  => LET n == Len(updates)
         c == Last(updates).cgpa
     IN  c # NaN /\ 4 * Distance(n * c, Total(updates)) <= n * (n + 1) - 2

\* The list and the user, as it will be when all puts are done, agree: the newest
\* record's average is the user's, and the user is in the semester after it.
Chained ==
  updates # <<>> =>
    /\ Linked(updates)
    /\ Last(userBox).cgpa = Last(updates).cgpa
    /\ Last(userBox).at = increment(Last(updates).at)

\* The form holds something else than the user, or the user is about to change.
StaleForm ==
  \/ Len(userBox) > 1
  \/ form.past # user.cgpa
  \/ form.at # user.at

\* The editor was opened on another record than the one it replaces, or one with
\* another past average; or the user is about to change.
StaleEditor ==
  \/ Len(userBox) > 1
  \/ form.index > Len(updates)
  \/ LET replaced == updates[Len(updates) + 1 - form.index]
     IN  replaced.past # form.past \/ replaced.at # form.at

\* The last semester is recorded already.
AllRecorded == updates # <<>> /\ Final(Last(updates).at)

\* What the dashboard says of a goal (stats_function.dart:19-42) is right, but for what
\* the rounding adds up to, of a student who has recorded from the first semester on
\* and has a semester left: the goal can be reached, with the results recorded so far
\* and the best ones from now on, if and only if it is called possible.
GoalHonest ==
  /\ updates # <<>> /\ updates[1].at = Start /\ updates[1].past = Unset
  /\ Chained /\ user = Last(userBox) /\ ~AllRecorded
  /\ \A k \in DOMAIN updates : updates[k].gpa # NaN
  => LET n == Len(updates)
         best == Total(updates) + (2 * Years - n) * 100 * System
     IN  \A goal \in Value :
           LET missing == goal * 2 * Years - best
           IN  IF getGoalPossibility(user, goal) THEN 4 * missing <= n * (n + 1) - 2
               ELSE missing > 0 \/ -4 * missing <= n * (n + 1) - 2

\* List and user cease to agree only by a semester recorded from a form opened
\* before the last change of the user, or recorded again after the last one; a
\* record changed from a screen opened before the last change of the list; a
\* profile edit that ends after a semester was recorded; or a kill.
ChainBreaks ==
  [][Chained /\ ~Chained' =>
       \/ screen = "form" /\ (StaleForm \/ AllRecorded)
       \/ screen = "editor" /\ StaleEditor
       \/ profile # {} /\ profile' = {} /\ updates # <<>>
       \/ Crash]_vars

\* Changing a record touches no older one, and of the newer ones neither the
\* result nor the semester.  That it replaces the record of another semester
\* happens only to the newest one, from a home tab that showed an older list.
EditIsLocal ==
  [][~waiting /\ waiting' =>
       LET edited == Len(updates) + 1 - form.index
       IN  /\ Len(updates') = Len(updates)
           /\ \A k \in 1 .. edited - 1 : updates'[k] = updates[k]
           /\ \A k \in edited + 1 .. Len(updates) :
                updates'[k].at = updates[k].at /\ updates'[k].gpa = updates[k].gpa
           /\ \/ updates'[edited].at = updates[edited].at
              \/ form.from = "home" /\ edited = Len(updates)
                 /\ Last(shown.home).at # Last(updates).at]_vars

\* "You are done with your ... degree" (dashboard_screen.dart:350): with the last
\* semester recorded, the form for another one is not opened.
DoneIsDone ==
  [][screen = "dashboard" /\ screen' = "form" =>
       \A k \in DOMAIN updates : ~Final(updates[k].at)]_vars

=============================================================================
