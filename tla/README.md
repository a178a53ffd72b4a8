# TLA+ models of study_stats

study_stats is a Flutter app with which students of Nigerian universities keep
their grade point averages: quick calculations, simulations, and the record of
semesters ("updates"). The state is kept in Hive boxes on the device, the
account in Cloud Firestore, and premium accounts can synchronise the three lists
with Firestore. The program's own code is `src/lib`, about 11 000 lines of Dart; this
directory models the part of it that keeps and moves state. Nearly all of the
repository's other code is C and C++ under `src/ios/Pods`: the Firestore SDK, gRPC,
BoringSSL and other libraries that the iOS build vendors. They are third-party code
and are modelled only by what the Dart code sees of them.

Everything runs in one isolate. There are no threads: code between two awaits
is atomic, and at every await anything else may happen, such as other handlers,
other screens, another login, or the end of the process. The models have one
action for each such stretch of code.

## Inventory

Paths are below `src/lib`.

| Component | State | Operations | Talks to |
| --- | --- | --- | --- |
| Record synchronisation: `main_screen/profile_screen/upload_screen` | none of its own but `loading` of a screen | `syncQuick`, `syncSimulate`, `syncUpdate`, `syncGoal`, `deleteUserUpdates` | lists in Hive, `UserData/{id}/...` in Firestore, `AuthProvider.user` |
| Lists: `settings/hive_*.dart`, `models/*.dart` | boxes of quicks, simulations, updates, goal | add, get, replace, clear | called by all screens and by the syncs |
| Session state: `providers/authProvider.dart` | `user`, `courseData`; keys of `userBox` | `saveUser`, `UpdateUser`, `incrementUser`, `updateUserCGPA`, `saveCourseData`, `clearData` | Firestore `users/{id}`, `userBox` |
| Record of semesters: `stats_function.dart`, the update, result, home, past-semesters and dashboard screens | the list of updates; what each screen captured | record a semester, change one, cascade to the newer ones | session state, lists |
| Profile edit: `edit_profile.dart` | form fields | clear updates locally and remotely, `UpdateUser` | both of the above |
| Start and end of sessions: splash, sign-up, profile filling, sign-in, log-out, deletion, change of password | form fields | | session state, Firestore |
| Calculators: quick, simulate, update | course lists shared with `courseData` | remove and add courses, grades | session state, lists |
| Goal: `set_goal.dart`, `hive_goal.dart` | one string | save, sync | Firestore |
| Quotes, notifications: `settings` | quote of the day; scheduled reminders | | plug-ins |

What is hard in it:

* A sync reads a list, awaits one call for each record, then awaits a query, then
  replaces the list. What happens to records, sessions, and other syncs in
  between is never looked at again.
* Screens keep the list, the average, the semester or the index they read when
  they were opened, and stay below the screens pushed on them.
* Two boxes are written without awaiting either, and the user object is assigned
  only after its box is written.
* Firestore's calls are answered late, refused, or (offline) not at all; most
  failures are swallowed, and the handler goes on.
* The average is rounded after every semester, -1.0 stands for "none", and a
  semester without units is 0/0.

`PROJECT.json` lists the components with what is modelled of each, and every
hazard at its line with the properties that cover it.

## Modules

| Module | What it is |
| --- | --- |
| `RecordSync` | The lists of a device, the collections of the cloud, syncs, sessions, profile edits, kills |
| `RecordLife` | The abstract life of a record: pending, stored, erased, lost |
| `GoalSync` | The last step of a sync, the goal, with the write queue of each device |
| `Session` | An account from sign-up to deletion over memory, box and document |
| `Gpa` | Averages in hundredths, positions, `getCGPA`, `increment`, the possibility of a goal |
| `Ledger` | The record of semesters: user, list, boxes, screens, cascade, profile edit, kills |
| `Calculator` | The calculators and the lists of courses they share with records and `courseData` |
| `RecordSyncProofs` | Type correctness and five properties of `RecordSync`, proved |
| `RecordLifeProofs` | That `RecordSync` implements `RecordLife`, proved |
| `RecordOnceProofs` | That undisturbed syncs store a record once, proved |
| `GoalSyncProofs` | Type correctness and three properties of `GoalSync`, proved |
| `LedgerProofs` | What the functions of `Gpa` return, and type correctness and six properties of `Ledger`, proved |
| `SessionProofs` | Type correctness and four properties of `Session`, proved |
| `SessionAgreeProofs` | That the three places of an account agree and that sign-in works, proved |
| `CalculatorProofs` | Type correctness and three properties of `Calculator`, proved |
| `MCRecordSync`, `MCGoalSync`, `MCSession`, `MCLedger`, `MCCalculator` | Instances for TLC: symmetry, constraints, values of constants |

`RecordSync` is shown to implement `RecordLife`. `Ledger` extends `Gpa`. The other modules
are about one device or account each, and meet in what one abstracts of the other:
a sync is one action of `Calculator`, `syncGoal` one step of `RecordSync`, a session
in `RecordSync` and `GoalSync` is a login and a logout, and the user object, which
`Session` follows from place to place, has its average and position in `Ledger`.

### RecordSync

A record is its timestamp; a list is the set of its entries, each with the
`uploaded` flag; a collection is a set of documents. An entry keeps the identity
of the document it was read from, which the program does not: it tells two
copies of one record apart.

`run[d][s]` is a sync of device `d`: its program counter, the account it read,
what is left to add (`todo`), the download (`got`), and two auxiliary fields,
what it set out to upload (`snap`) and what it dropped (`lost`). The switches of
the upload screen are the parameter `left` of `StartSync`. A sync function is

    reading the list -> (adding -> added)* -> reading -> read -> the next function

where `Deliver` and `ReadCollection` are Firestore's side of a call and `Added`
and `Replace` the continuation after the await. `Replace` replaces the list and runs
on into the next function (`NextSync`), which reads the id of whoever is
logged in by then. `CallFails` is the handler's `catch`.

`shown[d]` is the sync whose upload screen is still on display. Everything else the
student does is on other screens, so `LeaveUpload` comes first. At the end
`SyncGoal` says "Syncing Successful" only with the screen there (`success`): on a
context that is gone, `showSnackBar` throws, again in the handler's `catch`, and
the sync ends without a word.

`StartEdit` to `EndEdit` are the profile edit as far as it concerns records. It
clears the list at once, queries, deletes by a batch, and sets the user it read
at the beginning. `EditFails` is its swallowed failure.

`Crash` ends the process: syncs and edits are gone, and any of the writes sent
and not answered may be kept by Firestore's client (`orphan`) and be applied
or refused later.

Auxiliary variables only record history: `author` (who made a record), `gone`
(deleted documents), `tidy` and `intact`.

### RecordLife

The stage of each record, and that a stored record leaves the cloud only by
deletion, and a lost one never comes back. `RecordSync` implements it under the
mapping `life`: a record is *stored* while a copy is in any collection, *erased*
when copies were deleted and none is left, *pending* while a list, a sync or an
orphaned write has it, and *lost* when nothing has it any more.

### GoalSync

`run[d][s]` is one call of `syncGoal`. What the box holds when it starts (`StartSync`)
decides between *pulling*, one stored goal is taken over (`Pulled`), and *pushing*:
`Pushed` queues the deletion of the documents of the query, which nobody awaits, and
right behind it the addition of the goal that the box has *by then*; the call then
waits for the addition (*adding*). `queue[d]` is the order in which Firestore's client
applies the writes of a device; `Applied` and `Refused` take its front, `Kill` keeps a
prefix of it whose answers go to no one (`slot` is `None`). `tidy`, `whole` and `late`
record whether pushes of an account overlapped or were refused, whether an addition
was refused or lost, and whether a session ended during a call.

### Session

An account is in the document `stored[id]`, in the user of the box and in the user in
memory. `userBox` and `lists` are images: before and after each put of the handler
that put last; a kill leaves any one of them. `calls` are the handlers that wait for a
query and `sent` the queue of writes; both know whether their screen is still
there (`here`), because that decides whether the code after the await can navigate.
A password is a word and how often it was hashed, so that hashing twice is another
password.

The three record lists are represented together by whose records they hold. `syncs`
are the syncs waiting for an answer: `SyncAnswered` replaces one of the lists by
what the account of the sync has in the cloud, whoever is signed in by then, and
goes on to the next for the user there is. `mixed` notes that this happened in a
session that was not the sync's. The upload screen counts as one of the main screens.

| Actions | Code |
| --- | --- |
| `Restore` | splash: `saveUser`, `saveCourseData(null)` throws |
| `StartSignUp`, `LookedUp`, `SubmitProfile`, `ProfileStored` | `signup.dart`, `fill_profile.dart`, `fill_profile_function.dart` |
| `StartLogin`, `UserRead`, `CoursesRead` | `sign_in_function.dart` |
| `Open`, `Leave`, `Record`, `Logout` | main screens, recording as far as it writes the user, `clearData` |
| `StartChange`, `PasswordStored`, `PasswordRead` | `change_function.dart` |
| `StartEdit`, `Cleared`, `EditStored` | `edit_profile.dart`, `UpdateUser` |
| `StartDelete`, `AccountDeleted` | `delete_function.dart` |
| `StartSync`, `SyncAnswered`, `SyncFails` | `upload_screen.dart`, `upload_function.dart`, as far as they write the lists |
| `QueryFails`, `Refused`, `Kill`, `OrphanApplied` | what the network and the system do |
| `OtherSession` to `OtherDelete` | another device: its user object, and what that writes |

`history` notes the things that excuse a property: *left* (a handler overlapped
another one or outlived its screen), *cut* (a kill in a handler or between the puts of
one that saves), *out* (the same of a log-out), *failed* (a handler ended
half-way), *again* (a profile submitted twice), *shared* (the other device wrote the
account), *deleted*, *ghost* (deleted from a screen that was left).

### Gpa and Ledger

An average is a number of hundredths. `getCGPA` yields a set because the
direction in which `toStringAsFixed(2)` rounds a tie depends on the binary
fraction. `getGoalPossibility` compares the highest average still possible with the goal
without dividing. The result of one semester is taken to the hundredth, too (the program
keeps all its digits). `NaN` is a value outside the integers.

`userBox` and `updateBox` hold what is on disk followed by the values being put; the
last one is what `Box.get` returns. `user` is the object in memory, assigned by
`SaveDone` when a put is done (`saveUser`) and at once by `UpdateUser`.

`screen` is the screen on top, `form` what the update screen captured, and `shown` the
lists that the home and past-semesters screens hold. `Back` pops a screen and leaves
the one below as it was. The dashboard and the profile edit are opened from the home
tab, which stays below with the list it read (`shown.home`), or from another tab,
where the home tab is gone and is built anew later (`SwitchTab`). So a tile of the
home tab may open the editor on a record that is no longer the newest, or no longer
there. `unread` says that the dashboard was opened on an empty list: then its
`updates` is a list of its own; otherwise it is Hive's.

`Submit` records a semester: average and semester from the form, the next
position from the user there is now. `SubmitEdit` changes one: `editUpdates` is the whole
cascade over the reversed list, then `updateUserCGPA`; the handler then waits for
Firestore (`EditSaved`, `EditNotSaved`), and the student may go back first.
`StartProfileEdit` and `EndProfileEdit` are the profile edit as far as it
concerns the average and the list. `Profiles` is what the profile screens accept: the
sentinel is refused as the text `-1.0` only, so that a student who types `-1` has it in any
semester.

### Calculator

The screens change the list of courses they were given in place, and so whoever else
has it. A list is a number, `courses[l]` its content; the first ones are those inside
`courseData`. `OpenNew` shows the list of the student's semester, `OpenRecord` that of a saved
record, and `Switch` the courses of another semester (the drop-downs of the quick
calculator). `Calculate` saves a record *with the screen's list*; `Replace` puts it into
a semester's record and leaves the screen open until the navigation after the await
(`Close`). `Sync` and `Restart` read
records back with lists of their own. `getResult` pairs the units of every course
with the grade at the same place after `convertGradeToScore` dropped what is no grade.
`disk` is what Hive has written: a put writes the whole list of records of one kind
as its lists of courses are at that moment.

## Runs

| Run | Instance | Shows |
| --- | --- | --- |
| `sync_students` | 1 device, 2 students, 2 kinds, 2 records, 2 documents, profile edits, kills | `TypeOK`; records stay with their owner across logins during syncs |
| `sync_overlap` | 1 device, 1 student, 2 syncs at once, profile edits, kills | stored means stored, downloads cover uploads, undisturbed syncs store once, no sync that dropped a record reports success, the causes of loss, `RecordLife` |
| `sync_devices` | 2 devices, 1 student, fair | undisturbed syncs of several devices store once; every sync ends |
| `edit_clears` | 1 device, 1 student | violation: the semesters said to be cleared are still stored |
| `goal` | 2 devices, 2 students, 2 goals, 3 documents | one stored goal, the student's own, never none where there was one |
| `session_one` | 1 account, 2 passwords, 2 courses, another device | the three places agree, sign-in works, no hang, log-out and deletion last |
| `session_two` | 2 accounts of one address, 2 handlers or a handler and a sync at once | a second account of an address does not keep a student out; nobody gets another's lists, but by the causes named |
| `ledger_course` | 2 years, 3 records, results 3.51 changed to 2.00 | averages are means but for rounding, records exact, changes local, the goal judged rightly, the causes of divergence |
| `ledger_interrupted` | 1 year, 2 records, results NaN corrected to 3.51, profile edits with -1 typed, kills, changes from the home tab | `TypeOK`, the sentinel -1.0 comes only from typing it, changes local, the causes of divergence |
| `ledger_sentinel` | 1 year, -1 typed | violation: the profile edit accepts the sentinel in a later semester |
| `ledger_done` | 1 year | violation: the form opens after the last semester |
| `calculator` | quick and update, 2 semesters, 1 record of each, 4 lists, 2 changes | records stay exact unless their own list is changed; new calculators show the school's courses |

The properties, in short:

* `OnlyOwnRecords`: a collection holds only records of its account and kind. The
  code reads the id anew before each function, and this is what keeps a sync that
  outlives a session from mixing two students. The exception is `EndEdit`, which can
  put one student's user in another's session (`intact`).
* `UploadedIsStored`, `SnapshotStored`: no flag without a stored copy, no
  replacement by a download that lacks what was uploaded, except for deletions.
* `OnceEach`: no record is stored twice while no sync failed, died or overlapped
  another of the same device (`tidy`). Each of those can store copies: retries add
  again what was added before.
* `LossCauses`, `LifeOfRecords`: the only ways in which a record ceases to exist.
* `SuccessKeepsRecords`: a sync that dropped a record does not say "Syncing Successful",
  unless a profile edit deleted a copy of the record. What a sync drops was recorded after
  its screen was left, and then there is no message. The loss itself is silent, and it is
  one of the `LossCauses`.
* `SyncEnds`: every sync under way ends.
* `OneGoal`: one stored goal at most, although the deletion is not awaited and the app
  may die between it and the addition, while no two pushes overlap and no write is
  refused. It rests on the order of the client's queue.
* `OwnGoals`: the goal is read again after the query and a stored one is saved for
  whoever is logged in by then; so it needs that no session ended during a call.
* `GoalStays`: no order of pushes on any devices leaves an account without the goal
  it had, overlapping ones and refused deletions included.
* `PlacesAgree`: at rest, the user in memory, the box, the course data and the
  document agree, but for the excuses above.
* `CanSignIn`: the stored hash is that of the password chosen last, and sign-in, which
  takes the first document it finds, cannot find an older account of the address,
  unless the address was typed with capitals: it is looked up as typed and
  stored in lower case.
* `NeverStuck`: the splash screen hangs (a user, no course data) only after a
  handler that was cut by a kill or went on after a log-out. A log-out that is cut
  never does it, because it deletes the user first.
* `LogoutLasts`, `OwnLists`, `DeletedStaysDeleted`: after a log-out the next start opens no
  session; a session's lists are its user's, but after a log-out that did not reach
  the disk (*out*), a handler that outlived its screen (*left*), or the answer to a sync of
  another session (*mixed*); a write still under way does not bring a
  deleted account back, since records and edits use `update`.
* `MeanOfResults`: with `n` semesters recorded from the first on, the average differs
  from the mean of the results by at most (n(n+1)-2)/4n hundredths.
* `GoalHonest`: a goal is called possible if and only if it can be reached, up to that
  rounding, by a student with a semester left. After the last one the position stays,
  and `getGoalPossibility` still counts one semester to come.
* `ChainBreaks`: list and user agree (each record starts from the average before it,
  is of the next semester, and the user is one after the newest) until one of five
  things happens: a form is used that was opened before the last change of the
  user (Update pressed again after going back), a semester is recorded after the
  last one, a record is changed from a stale screen (one that was opened on another
  record than it replaces, or with another past average: after a change that Firestore
  has not answered, or from a home tab that stayed below the dashboard or the profile
  edit), a profile edit ends after a semester was recorded meanwhile, or a
  kill between two puts. Dropping any of the five makes TLC find it.
* `EditIsLocal`: a change touches no older record, and of the newer ones neither result
  nor semester. It replaces the record of another semester only if that is the newest one
  and the editor came from a home tab that showed an older list.
* `RecordsExact`: every record follows from its own data, whatever the cascade did.
* `SentinelIsTyped`: a user or record gets -1.0 in a semester other than the first only by
  a profile edit (or has it from sign-up); recording, changes and kills do not carry it on.
* `ResultsStand`, `SpoiltBySharing`: deleting, adding and editing courses keeps the grades
  beside their courses, and a record's result is that of its courses and grades; only a
  calculator that has a record's own list changes this, or a disk written before.
* `CoursesOfSchool`: until a list of `courseData` is changed, a new calculator offers the
  courses of the school; records read back share nothing with it.

### Findings

1. A profile edit whose remote deletion fails goes on as if it had succeeded; the
   next sync brings back what the dialog said would be cleared (`EditClears`).
2. The dashboard's check for the end of the degree looks at the oldest record
   (`DoneIsDone`).
3. The profile edit refuses the sentinel in a later semester by comparing text, and parses
   afterwards: `-1` passes (`SentinelRefused`). The first profile is not checked at all.

### Bounds and why they are enough

`RecordSync`: `MaxStamp`, `MaxDoc` = 2 records and documents. Every hazard relates one or
two records (the one uploaded and the one added meanwhile; the two copies of one).
`MaxOrphan` = 1: one write that survives. `Slot`: two overlapping syncs. `Enabled`:
two kinds are needed for a sync to go on into a second function with another
student logged in; the three functions are the same code. Accounts, devices and
slots are symmetric and are used so where no liveness and no refinement is
checked.

`GoalSync`: `MaxGoal` = 2 and `MaxDoc` = 3: a goal replaced by another, with a copy.
`MaxQueue` = 2: the deletion and the addition of one push on each of two devices; so
overlapping pushes are of two devices. The proofs have no such bound.

`Session`: `MaxId`: one account for everything an account goes through, two where one
comes after another. `MaxHash` = 2: hashed once, and once too often. `MaxSent` = 2,
`MaxCall` = 1 or 2: two handlers under way. `MaxSync`: one sync in `session_two`,
which may outlive two sessions; none in `session_one`, to whose properties the lists
do not matter. `TwoAtOnce` follows two handlers, or a handler and a sync, that wait
together. `MaxTurn` bounds kills, changes of password or profile and other sessions
together: 2 lets one handler be cut, or overtaken by the other device. `OneMishap` (in
`session_two`, where `mixed` counts too, and `goal`) stops a behaviour when a second
excuse of a property has happened: what matters is that each excuse alone is needed
and that without one the properties hold.

`Ledger`: `MaxUpdates` = 3: a changed record with an older and a newer one, or with
two newer ones. `MaxUnsaved` = 1: one put of each box under way. `Years`, `System`: 2 or 1
years, 5 points. `Results`, `Corrections`, `Typed`: averages a student enters. `Typed` are
averages from 0 to the grading system and the sentinel; other negative ones, which the screens
do not refuse, are left out. `SpecUninterrupted` (in `MCLedger`) leaves out kills and profile
edits so that three records can be explored; `ledger_interrupted` has them with two records
and, by `SpecFromHome`, without the past-semesters screen, whose lists `ledger_course`
explores.

`Calculator`: `TwoSemesters`: a semester of two courses, so that grades can be beside the
wrong course, and one to go on to. `MaxLists` = 4: the two of `courseData` and one of
their own for a record of each kind. `MaxChanges` = 2: a change before and one after a
record is saved. `Units` and `Grade`: two of each tell any two apart; nothing orders the
grades, so they are symmetric. Simulations work
like quick calculations here.

The runs of `RecordSync`, `GoalSync`, `Session` and `Calculator` switch the deadlock
check off: with documents, accounts or lists used up, a call that would make one
cannot go on, so the bound may stop the system. The `Ledger` runs check deadlock.

### Fairness

Only `SyncEnds` needs it, in `sync_devices`: weak fairness of "the call is answered or
fails, and its continuation runs", for each sync. The event loop runs every completed future. That
Firestore answers is an assumption about the network: offline, `add` waits, and then
the upload screen does keep loading, which is why failing counts as an answer. The
handlers of `Session` are not assumed to end: offline they do not.

## Proofs

Every property that a passing run checks is also proved, for every value of the
constants, but for the liveness property `SyncEnds`.

### RecordSync

`RecordSyncProofs`, `RecordLifeProofs` and `RecordOnceProofs` prove, for any sets of
devices, accounts, slots, kinds and any bounds, from `SyncAssumption` (bounds are
naturals, kinds are kinds, `None` is no account):

| Theorem | Statement |
| --- | --- |
| `TypeCorrect` | `Spec => []TypeOK` |
| `RecordsStayWithTheirOwner` | `Spec => []OnlyOwnRecords` |
| `FlagMeansStored` | `Spec => []UploadedIsStored` |
| `DownloadCoversSnapshot` | `Spec => []SnapshotStored` |
| `SuccessMeansKept` | `Spec => []SuccessKeepsRecords` |
| `RecordsHaveACauseOfLoss` | `Spec => LossCauses` |
| `SyncsImplementLife` | `Spec => LifeOfRecords`, the specification of `RecordLife` under `life` |
| `RecordsAreStoredOnce` | `Spec => []OnceEach` |

None of the invariants is inductive. What is proved inductive has three layers:

* `Typed` strengthens the types by what the code relies on: a sync or an edit under
  way has a real account, a sync that adds has something to add.
* `Owned` follows a record on its way to the cloud. What a list holds unmarked was
  made by whoever is logged in, what a sync still has to add was made by the account
  the sync read, what a dead process left was made by the account it is sent to.
  `OnlyOwnRecords` says nothing of records under way and so cannot be inductive.
* `Secured` says where the copies are: what a list holds as uploaded is stored, what a
  sync has added is stored, what it downloaded is stored or was deleted since, and
  what it set out to upload is in `todo`, in the cloud, or deleted.

Each layer is shown to hold initially and to be kept by every action, one step per
action. `LossCauses` is an action property and follows from `Typed` and `Secured` by
cases on the step.

The refinement needs one layer more: `Accounted` says that whatever is going to be deleted,
by a profile edit or by a write that outlived its process, was in a collection
once, and that an orphaned addition is of one record. With it every step is of one of
four kinds (`StepKinds`): a record is made; a copy of a pending record is stored; known
documents are deleted; or the cloud stays and nothing becomes pending. Each kind is a
step of `RecordLife` or a stutter.

`OnceEach` is the last layer, `Orderly`, which holds while `tidy` does. A record waits for
its upload in one list or one sync at most; what a sync has yet to send is not stored; a
record that is stored and still unmarked in a list is in the list that a sync of that
kind is about to replace.

### GoalSync

`GoalSyncProofs` proves, for any sets of devices, accounts and slots and any bounds, from
`GoalAssumption` (bounds are naturals, `None` is no account and no slot):

| Theorem | Statement |
| --- | --- |
| `TypeCorrect` | `Spec => []TypeOK` |
| `GoalsStayWithTheirStudent` | `Spec => []OwnGoals` |
| `GoalIsReplaced` | `Spec => GoalStays` |
| `OneGoalIsStored` | `Spec => []OneGoal` |

Its invariant has layers as well. `Types` is `TypeOK` with the remaining variables;
that a call in *adding* has its addition in the queue is kept because each call ends when
its addition leaves the queue. `Owned` follows a goal: every goal in a box, a queue or a
collection was set by the student whose it is, goals not yet set have no author, and a
call that is pulling or pushing belongs to whoever is logged in (until `late`).
`Paired` is what `GoalStays` needs: a queued deletion has the addition of the same account
right behind it, or an addition of that account was refused or lost. So the step
that deletes the last document leaves an addition in the queue. `Tidy` is what `OneGoal`
needs: while pushes of an account do not overlap and none is refused, all its queued
writes are those of one push, in one queue; the deletion deletes everything there is;
and so the addition behind it finds nothing.

### Gpa and Ledger

`LedgerProofs` proves, for every course, grading system, set of results and length of the
list, from `GpaAssumption` (at least one year and one point, `NaN` is no number) and
`LedgerAssumption` (entered results are scores, bounds are naturals):

| Theorem | Statement |
| --- | --- |
| `IncrementAdvances` | `increment` moves by exactly one semester and stays only in the last one |
| `AverageStaysOnScale` | `getCGPA` returns an average on the scale, NaN only from NaN, never the sentinel |
| `HopeOnlyFalls` | recording a semester never raises the highest average possible, but for one rounding |
| `TypeCorrect` | `Spec => []TypeOK` |
| `SentinelOnlyTyped` | `Spec => SentinelIsTyped` |
| `RecordsFollow` | `Spec => []RecordsExact` |
| `AveragesAreMeans` | `Spec => []MeanOfResults` |
| `DashboardIsHonest` | `Spec => []GoalHonest` |
| `ChangesAreLocal` | `Spec => EditIsLocal` |
| `ChainHasACauseOfBreak` | `Spec => ChainBreaks` |

The invariant `IInv` has four parts. `Types` has users and records as the program
makes them, in every image of the boxes, in every list a screen holds, and in the user
a profile edit has read: an average of a record is one that follows from its own data.
`Screens` and `Lists` say what the screens hold: the list of the past-semesters screen
may have old averages, but it is of the same semesters as the list there is, and an
editor opened from it is open on one of them. That is why its index still names the
record it is about. An editor opened from the home tab is open on the newest record of
the tab's list, of whatever semester that is; hence the exception in `EditIsLocal`.
`Saved` says that a user without a put under way is on disk.

The cascade of `editUpdates` and the mean of the results are recursive functions on
`0 .. n`. That such a function exists, which TLA+ does not give for free, is a lemma
(`EditExists` and its siblings), proved by induction from the well-foundedness of `<` on
the naturals (`SetInduction`, stated for sets so that no operator needs to be
instantiated). From it follow, along the list: the cascade leaves older records alone
and keeps result and semester of the newer ones; a linked list stays linked; and the
error of the average grows by one rounding with each semester, which adds up to the
(n(n+1)-2)/4n hundredths of `MeanOfResults`.

### Session

`SessionProofs` and `SessionAgreeProofs` prove, for any numbers of accounts, addresses,
passwords, handlers and writes under way, kills and changes, from `SessionAssumption`
(bounds are naturals, `None` is no course) and `NoneAssumption` (`None` is neither a user
nor a document):

| Theorem | Statement |
| --- | --- |
| `TypeCorrect` | `Spec => []TypeOK` |
| `LogoutIsLasting` | `Spec => []LogoutLasts` |
| `ListsAreOwn` | `Spec => []OwnLists` |
| `DeletionIsLasting` | `Spec => []DeletedStaysDeleted` |
| `StartIsNeverStuck` | `Spec => []NeverStuck` |
| `ThePlacesAgree` | `Spec => []PlacesAgree` |
| `WhoeverHasAnAccountSignsIn` | `Spec => []CanSignIn` |

* `IInv` is the base. `Types` is stronger than `TypeOK`: a user who is in a box, a
  document, or a handler has a course and a password that was hashed. `Mounted`,
  `Single` and `Sessions` say which handlers a screen can have: those that were started on
  it, one at a time but for a deletion, and none on the splash screen. `Syncing` are the types
  of the syncs.
* `Entered` (for `LogoutLasts`): on the sign-in and profile screens no handler of a screen
  that was left is under way, and the box has no user.
* `Own` (for `OwnLists`): a handler is of the account whose session it is in, so is the
  box, and (until *out* or *mixed*, together `Foreign`) lists are those of the user in each
  image of the box that a kill can leave.
* `AllBrief` (for `DeletedStaysDeleted`): `Known(i)` collects everything that can only have
  an account once its profile was stored, a deletion under way among it; a profile on its
  way is the only one, and its account is not `Known`. So no `set` comes after a
  deletion. No account is known before its identifier is given out.
* `Whole` (for `NeverStuck`): the box has course data with its user, but while a sign-in
  waits for them, and what a log-out leaves on disk has them too.
* `Calm` (for `PlacesAgree`) holds while none of the mishaps *left*, *cut* and *failed* has
  happened. `Control`: one handler at a time, on its screen. `Carried`: what the handler
  read is still so. `Boxed`: the box has the session's user. `Ordered`: no record is
  queued behind a change or an edit that is under way. `Steady`: a queued record
  stores what is stored already. `BoxAgrees`: box and document agree but for what the
  handler is writing. `ImagesAgree`: so does what a log-out leaves on disk. Each action
  has a lemma that keeps all seven; the syncs have one together (`SyncCalm`).
* `Found` (for `CanSignIn`) adds the password chosen last and the addresses. `Chosen`: the
  document, the other device's user and a profile on its way have the hash of that
  password, and a student who is signing up has the password itself. `Newest`: if two
  accounts have one address, not typed with capitals, the older has no document, no
  profile on its way, and is not on the profile screen. `Accounts`, `Ghosts` and
  `Rehashed` hold without condition.

### Calculator

`CalculatorProofs` proves, for every catalogue of courses, grades, units and number of
records and lists, from `CalculatorAssumption` (the catalogue has a semester, bounds
are naturals, `None` is neither a grade nor a screen):

| Theorem | Statement |
| --- | --- |
| `TypeCorrect` | `Spec => []TypeOK` |
| `ResultsAreExact` | `Spec => []ResultsStand` |
| `SchoolIsShown` | `Spec => []CoursesOfSchool` |
| `RecordsHaveACauseOfSpoiling` | `Spec => SpoiltBySharing` |

`Types` includes that every list a record or the screen refers to is in memory. `Opened`
says that a semester opened again is the one the screen saves to, with the list the screen
changes, and that a grade without a course was never chosen. `Trailing` says that
beyond the courses no grade follows a missing one, so that `getResult` pairs none with the
wrong course. `Standing` holds until a
list was changed that a saved record has: memory and disk agree, results are those of
courses and grades, and the grades on the screen are beside their courses.
`convertGradeToScore` is a recursive function, treated like the cascade of `Ledger`.

### Only model-checked

`SyncEnds`: liveness under fairness and `ENABLED` are out of the prover's reach. The three
violations (`EditClears`, `DoneIsDone`, `SentinelRefused`) are counterexamples and
have nothing to prove.

## Not modelled, and assumptions

* Firestore answers queries from the server; its offline cache of query results is
  left out. An `add` completes when the server has stored the document.
* In `RecordSync` a Hive write of a list is durable when made; in `Ledger` it is not.
* The writes of a device are applied in the order they were made, as Firestore's client
  promises; a kill keeps a prefix of them. (`RecordSync` allows more: any of them.)
* `syncGoal` is one step of `RecordSync`; `GoalSync` has it in full.
* In `RecordSync`, login makes a session without its network calls, and with the main
  screens reachable at once (a premium account first sees the upload screen); `Session`
  has the network calls.
* One profile edit per device at a time in `RecordSync` and `Ledger`.
* `Session` follows one device; of another it has the user object, so that an account is signed
  up on this device only. The matriculation number,
  names and images are left out, and so is the upload of an image before sign-up.
* `Calculator` keeps one catalogue: new course data by a profile edit or another sign-in,
  and the search for a course, are left out. So is a course of another length in `Ledger`.
* A goal set anew opens a second dashboard over the first; `Ledger` has one at a time. An
  average typed in the profile is a number on the scale or the sentinel.
* A changed semester gets a new timestamp and no `uploaded` flag (`stats_function.dart:285`), so
  that a sync uploads it beside its older version: it is listed as a hazard, but no
  module has the cascade and the collections in one state.
* Deletion of an account leaves `UserData/{id}`: nothing in the code deletes there, and a model
  would only restate it.
* `deleteUserQuicks` and `deleteUserSimulations` have no caller.
* Quotes, notifications, the bands of the result screens, layout, theme, on-boarding,
  contact, generated adapters, platform projects and their vendored libraries, assets.

## Plan

Done: `RecordSync`, `RecordLife`, `GoalSync`, `Session`, `Gpa`, `Ledger`, `Calculator`, and
proofs of all their properties but `SyncEnds`. Left, in this order:

1. `LedgerSync`: changed records with new timestamps, the updates collection and two
   devices, with the cascade abstracted to "newer records change". Property: after a
   change and a sync, one record for each semester (expected to fail).
2. New course data in `Calculator`.
3. The safety half of `SyncEnds`: a sync under way always has a step that answers it, and
   each of its steps brings it closer to its end.
