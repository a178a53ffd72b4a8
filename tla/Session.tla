------------------------------ MODULE Session ------------------------------
(***************************************************************************)
(* From the first start of the app to the deletion of the account: splash, *)
(* sign-up, profile filling, sign-in, log-out, change of password, profile *)
(* edit and deletion.                                                      *)
(*                                                                         *)
(* An account is in three places: the document users/{id}, the box         *)
(* 'userBox' of the device, and AuthProvider.user.  Every handler writes   *)
(* two or three of them, one after the other, and goes on after its await  *)
(* whatever happened meanwhile: the student may have left the screen or    *)
(* logged out, the app may have been killed, another device may have       *)
(* written.  Firestore's client sends the writes of a device in their      *)
(* order, and keeps them when the app is killed.                           *)
(*                                                                         *)
(* The module follows one device.  Of another device of the same student   *)
(* it has what matters to this one: the user its session holds.            *)
(*                                                                         *)
(* The record lists are represented by whose records they hold, all three  *)
(* together; what the syncs upload is in RecordSync, where a collection    *)
(* gets no other account's records.                                        *)
(*                                                                         *)
(* Left out: the average and position in the user object (Ledger), names   *)
(* and images, and courseData in memory, which follows the box.            *)
(***************************************************************************)
EXTENDS Naturals, Sequences, FiniteSets

CONSTANTS
  Address,     \* e-mail addresses
  Word,        \* passwords
  Course,      \* courses of study, each with its course data
  MaxId,       \* bound: accounts ever made
  MaxHash,     \* bound: how often a password is hashed
  MaxSent,     \* bound: writes that are under way together
  MaxCall,     \* bound: handlers that wait for an answer together
  MaxSync,     \* bound: syncs that are under way together (0: not a premium account)
  MaxTurn,     \* bound: kills, changes of password or profile, and other sessions
  None         \* null

ASSUME SessionAssumption ==
  /\ MaxId \in Nat
  /\ {MaxHash, MaxSent, MaxCall, MaxSync, MaxTurn} \subseteq Nat
  /\ None \notin Course

Id == 1 .. MaxId

Password == Word \X (0 .. MaxHash)

VARIABLES
  screen,    \* the screen on top
  user,      \* AuthProvider.user
  userBox,   \* the box before and after each put of the last handler that put
  lists,     \* the same for the record lists: whose records they hold
  calls,     \* handlers that wait for an answer
  sent,      \* writes to Firestore that were sent and not yet applied
  stored,    \* stored[id]: the document users/{id}
  other,     \* AuthProvider.user of another device of the student
  account,   \* auxiliary: how and when each account was made, and its password
  ids,       \* identifiers given out
  turns,     \* kills, changes of password or profile, and other sessions so far
  history,   \* auxiliary: what went wrong so far
  syncs,     \* syncs of the record lists that wait for an answer
  mixed      \* auxiliary: one was answered in a session that was not its own

syncing == <<syncs, mixed>>
local == <<screen, user, userBox, lists, calls, syncing>>
cloud == <<sent, stored, other>>
made  == <<account, ids>>

vars == <<local, cloud, made, turns, history>>

-----------------------------------------------------------------------------

\* Constants.hashPassword; what is hashed again is another password.
hashPassword(pw) == <<pw[1], pw[2] + 1>>

Last(s) == s[Len(s)]

\* The puts of one handler, in their order; images is the box before and after each.
Put(images, key, value) ==
  LET new == [Last(images) EXCEPT ![key] = value]
  IN  IF new = Last(images) THEN images ELSE Append(images, new)

saveUser(images, u) == Put(images, "user", u)
saveCourseData(images, data) == Put(images, "data", data)

\* mutant: the course data first
deleteKeysSwapped(images) == Put(Put(images, "data", None), "user", None)

\* The keys of userBox that clearData deletes, in its order.
deleteKeys(images) == Put(Put(images, "user", None), "data", None)

\* When a handler puts, the puts before it are on disk.
Box == <<Last(userBox)>>

SetLists(owners) == lists' = IF Last(lists) = owners THEN <<owners>> ELSE <<Last(lists), owners>>

\* The button of a handler is loading on the screen that is shown.
Loading(kind) ==
  \/ \E c \in calls : c.here /\ c.kind = kind
  \/ \E n \in 1 .. Len(sent) : sent[n].here /\ sent[n].kind = kind

\* The student leaves a screen: the handlers it started go on without it.
Unmounted(cs) == {[c EXCEPT !.here = FALSE] : c \in {e \in cs : e.at # "threw"}}
UnmountedWrites(ws) == [n \in DOMAIN ws |-> [ws[n] EXCEPT !.here = FALSE]]

Call(c) == Cardinality(calls) < MaxCall /\ calls' = calls \cup {c}
Answered(c) == calls' = calls \ {c}

\* A write goes to the end of the client's queue.
Send(w) == Len(sent) < MaxSent /\ sent' = Append(sent, w)

Turn == turns < MaxTurn /\ turns' = turns + 1

Document(u) == [pw |-> u.pw, course |-> u.course]
UserOf(i, doc) == [id |-> i, pw |-> doc.pw, course |-> doc.course]

\* The screens of a session.
InSession == screen \in {"main", "change", "edit"}

Show(s, here) == screen' = IF here THEN s ELSE screen

\* What happened that a property names, with the account (0: the device).
Note(notes) == history' = history \cup notes
NoteIf(condition, what, i) == Note(IF condition THEN {<<what, i>>} ELSE {})

\* A session, a box, a write or a handler of this device has the account's user.
KnownHere(i) ==
  \/ user # None /\ user.id = i
  \/ \E n \in 1 .. Len(userBox) : userBox[n].user # None /\ userBox[n].user.id = i
  \/ \E n \in 1 .. Len(sent) : sent[n].id = i
  \/ \E c \in calls : c.at = "clear" /\ c.user.id = i

KnownThere(i) == other # None /\ other.id = i

\* A handler is under way that has yet to save something.
Handlers ==
  \/ \E c \in calls : c.at # "threw"
  \/ \E n \in 1 .. Len(sent) : sent[n].kind \notin {"orphan", "record"}

\* What the student starts while another handler is under way.
NoteOverlap == NoteIf(Handlers, "left", 0)

-----------------------------------------------------------------------------

Init ==
  /\ screen = "splash"
  /\ user = None
  /\ userBox = <<[user |-> None, data |-> None]>>
  /\ lists = <<{}>>
  /\ calls = {}
  /\ sent = <<>>
  /\ stored = [i \in Id |-> None]
  /\ other = None
  /\ account = [i \in Id |-> None]
  /\ ids = 0
  /\ turns = 0
  /\ history = {}
  /\ syncs = {}
  /\ mixed = FALSE

\* Splash.  The user found in the box and the course data are saved again.  With no
\* course data saveCourseData(null) throws, and splash is never left.
Restore ==
  LET found == Last(userBox)
  IN  /\ screen = "splash"
      /\ user' = found.user
      /\ screen' = IF found.user = None THEN "auth"
                   ELSE IF found.data = None THEN "stuck"
                   ELSE "main"
      /\ UNCHANGED <<userBox, lists, calls, cloud, made, turns, history, syncing>>

-----------------------------------------------------------------------------
(* Sign-up and the filling of the profile.                                 *)

Having(address) == {i \in Id : stored[i] # None /\ account[i].address = address}

\* The address is looked up as it was typed, perhaps with capitals.
StartSignUp(address, capitals, word) ==
  /\ screen = "auth"
  /\ ~Loading("signup") /\ ~Loading("login")
  /\ ids < MaxId
  /\ Call([kind |-> "signup", at |-> "lookup", address |-> address,
           capitals |-> capitals, word |-> word, here |-> TRUE])
  /\ UNCHANGED <<screen, user, userBox, lists, cloud, made, turns, history, syncing>>

\* mutant: the address is not looked up
LookedUpNot(c) ==
  /\ c.at = "lookup" /\ c.here
  /\ Answered(c)
  /\ ids < MaxId
  /\ ids' = ids + 1
  /\ account' = [account EXCEPT ![ids + 1] =
       [address |-> c.address, capitals |-> c.capitals, word |-> c.word]]
  /\ user' = [id |-> ids + 1, pw |-> <<c.word, 0>>, course |-> None]
  /\ screen' = "fill"
  /\ UNCHANGED <<userBox, lists, cloud, turns, history, syncing>>

\* The look-up is answered.  Stored addresses are in lower case.  If there is none,
\* and the sign-up screen is still there, initUser sets the user in memory and the
\* profile screen opens.
LookedUp(c) ==
  /\ c.at = "lookup"
  /\ Answered(c)
  /\ IF ~c.here \/ (Having(c.address) # {} /\ ~c.capitals)
     THEN UNCHANGED <<screen, user, made>>
     ELSE /\ ids < MaxId
          /\ ids' = ids + 1
          /\ account' = [account EXCEPT ![ids + 1] =
               [address |-> c.address, capitals |-> c.capitals, word |-> c.word]]
          /\ user' = [id |-> ids + 1, pw |-> <<c.word, 0>>, course |-> None]
          /\ screen' = "fill"
  /\ UNCHANGED <<userBox, lists, cloud, turns, history, syncing>>

\* mutant: fillData keeps the old course
SubmitProfileOldCourse(course) ==
  LET filled == [user EXCEPT !.pw = hashPassword(@)]
  IN  /\ screen = "fill"
      /\ ~Loading("fill")
      /\ user.pw[2] < MaxHash
      /\ user' = filled
      /\ Send([op |-> "set", id |-> filled.id, doc |-> Document(filled),
               kind |-> "fill", here |-> TRUE])
      /\ NoteIf(user.pw[2] > 0, "again", filled.id)
      /\ UNCHANGED <<screen, userBox, lists, calls, stored, other, made, turns, syncing>>

\* fillData hashes the password of the user there is, and fillProfile sends the
\* document.
SubmitProfile(course) ==
  LET filled == [user EXCEPT !.pw = hashPassword(@), !.course = course]
  IN  /\ screen = "fill"
      /\ ~Loading("fill")
      /\ user.pw[2] < MaxHash
      /\ user' = filled
      /\ Send([op |-> "set", id |-> filled.id, doc |-> Document(filled),
               kind |-> "fill", here |-> TRUE])
      /\ NoteIf(user.pw[2] > 0, "again", filled.id)
      /\ UNCHANGED <<screen, userBox, lists, calls, stored, other, made, turns, syncing>>

\* The document is stored; then the user and the course data are saved, and the
\* main screens replace the profile screen.
ProfileStored ==
  LET w == Head(sent)
      u == UserOf(w.id, w.doc)
  IN  /\ sent # <<>> /\ w.kind = "fill"
      /\ stored' = [stored EXCEPT ![w.id] = w.doc]
      /\ sent' = Tail(sent)
      /\ userBox' = saveCourseData(saveUser(Box, u), u.course)
      /\ user' = u
      /\ Show("main", w.here)
      /\ UNCHANGED <<lists, calls, other, made, turns, history, syncing>>

-----------------------------------------------------------------------------
(* Sign-in.                                                                *)

StartLogin(address, word) ==
  /\ screen = "auth"
  /\ ~Loading("signup") /\ ~Loading("login")
  /\ Call([kind |-> "login", at |-> "user", address |-> address, word |-> word, here |-> TRUE])
  /\ UNCHANGED <<screen, user, userBox, lists, cloud, made, turns, history, syncing>>

\* The query for the address, limit(1), is answered.  If the hashes agree, the user
\* is saved and the course data is read.
UserRead(c) ==
  /\ c.at = "user"
  /\ \/ /\ \/ Having(c.address) = {}
           \/ \E i \in Having(c.address) : stored[i].pw # hashPassword(<<c.word, 0>>)
        /\ Answered(c)
        /\ UNCHANGED <<user, userBox>>
     \/ \E i \in Having(c.address) :
          /\ stored[i].pw = hashPassword(<<c.word, 0>>)
          /\ userBox' = saveUser(Box, UserOf(i, stored[i]))
          /\ user' = UserOf(i, stored[i])
          /\ calls' = (calls \ {c}) \cup
               {[kind |-> "login", at |-> "courses", course |-> stored[i].course, here |-> c.here]}
  /\ UNCHANGED <<screen, lists, cloud, made, turns, history, syncing>>

\* getCourseData has read the asset: the data is saved, and the main screens (after a
\* profile edit: the screen below) are shown.  A deletion started on the screen of the
\* edit goes on without it.
CoursesRead(c) ==
  /\ c.at = "courses"
  /\ userBox' = saveCourseData(Box, c.course)
  /\ Answered(c)
  /\ Show("main", c.here)
  /\ sent' = IF c.here THEN UnmountedWrites(sent) ELSE sent
  /\ UNCHANGED <<user, lists, stored, other, made, turns, history, syncing>>

\* A query fails: a snack bar, and nothing was saved yet.
QueryFails(c) ==
  /\ c.at \in {"lookup", "user", "read"}
  /\ Answered(c)
  /\ NoteIf(c.at = "read", "failed", 0)
  /\ UNCHANGED <<screen, user, userBox, lists, cloud, made, turns, syncing>>

-----------------------------------------------------------------------------
(* Screens, records and the end of a session.                              *)

\* The screens over the main screens: change of password, profile edit.
Open(s) ==
  /\ screen = "main" /\ user # None
  /\ screen' = s
  /\ UNCHANGED <<user, userBox, lists, calls, cloud, made, turns, history, syncing>>

\* Back to the screen below, or from sign-in to sign-up and vice versa.
Leave ==
  /\ \/ screen \in {"fill", "change", "edit"}
     \/ screen = "auth" /\ \E c \in calls : c.here
  /\ screen' = IF screen \in {"auth", "fill"} THEN "auth" ELSE "main"
  /\ calls' = Unmounted(calls)
  /\ sent' = UnmountedWrites(sent)
  /\ NoteIf(Handlers /\ screen \in {"auth", "fill"}, "left", 0)
  /\ UNCHANGED <<user, userBox, lists, stored, other, made, turns, syncing>>

\* A semester or a calculation is recorded: the list, the user, and the whole
\* document of the user there is.
Record ==
  /\ screen = "main" /\ user # None
  /\ SetLists(Last(lists) \cup {user.id})
  /\ userBox' = saveUser(Box, user)
  /\ Send([op |-> "update", id |-> user.id, doc |-> Document(user),
           kind |-> "record", here |-> FALSE])
  /\ NoteOverlap
  /\ UNCHANGED <<screen, user, calls, stored, other, made, turns, syncing>>

\* mutant: the user stays in the box
clearDataUserKept ==
  /\ userBox' = Put(Box, "data", None)
  /\ SetLists({})
  /\ user' = None
  /\ screen' = "auth"

\* mutant: the lists stay
clearDataListsKept ==
  /\ userBox' = deleteKeys(Box)
  /\ lists' = lists
  /\ user' = None
  /\ screen' = "auth"

\* clearData: seven deletions that are not awaited, and the user is forgotten.
clearData ==
  /\ userBox' = deleteKeys(Box)
  /\ SetLists({})
  /\ user' = None
  /\ screen' = "auth"

Logout ==
  /\ screen = "main"
  /\ clearData
  /\ NoteOverlap
  /\ UNCHANGED <<calls, cloud, made, turns, syncing>>

-----------------------------------------------------------------------------
(* The syncs of the record lists.                                          *)

\* The sync button: the account of the session, and how many lists follow the first.
StartSync(n, following) ==
  /\ screen = "main" /\ user # None
  /\ \A s \in syncs : s.nr # n
  /\ syncs' = syncs \cup {[nr |-> n, id |-> user.id, left |-> following]}
  /\ UNCHANGED <<screen, user, userBox, lists, calls, cloud, made, turns, history, mixed>>

\* The query for one of the three lists is answered: the list is replaced by what the
\* account of the sync has in the cloud, whoever is signed in; the other two stay.  The
\* next list is synced for the user there is now; with none, user! throws.
SyncAnswered(s) ==
  /\ \E others \in SUBSET Last(lists), found \in SUBSET {s.id} : SetLists(others \cup found)
  /\ userBox' = Box
  /\ syncs' = (syncs \ {s}) \cup
       {[s EXCEPT !.id = u.id, !.left = @ - 1] : u \in {v \in {user} \ {None} : s.left > 0}}
  /\ mixed' = (mixed \/ ~InSession \/ user.id # s.id)
  /\ UNCHANGED <<screen, user, calls, cloud, made, turns, history>>

\* A call of the sync fails: "Unable to sync".
SyncFails(s) ==
  /\ syncs' = syncs \ {s}
  /\ UNCHANGED <<screen, user, userBox, lists, calls, cloud, made, turns, history, mixed>>

Sync ==
  \/ \E n \in 1 .. MaxSync, following \in 0 .. 2 : StartSync(n, following)
  \/ \E s \in syncs : SyncAnswered(s) \/ SyncFails(s)

-----------------------------------------------------------------------------
(* Change of password, profile edit, deletion.                             *)

\* mutant: the new password is not hashed
StartChangePlain(old, new) ==
  /\ Turn
  /\ screen = "change" /\ user # None
  /\ ~Loading("change")
  /\ hashPassword(<<old, 0>>) = user.pw
  /\ Send([op |-> "password", id |-> user.id,
           doc |-> [pw |-> <<new, 0>>, course |-> user.course],
           kind |-> "change", here |-> TRUE])
  /\ NoteOverlap
  /\ UNCHANGED <<screen, user, userBox, lists, calls, stored, other, made, syncing>>

\* The old password is compared with the session's; the hash of the new one is sent.
StartChange(old, new) ==
  /\ Turn
  /\ screen = "change" /\ user # None
  /\ ~Loading("change")
  /\ hashPassword(<<old, 0>>) = user.pw
  /\ Send([op |-> "password", id |-> user.id,
           doc |-> [pw |-> hashPassword(<<new, 0>>), course |-> user.course],
           kind |-> "change", here |-> TRUE])
  /\ NoteOverlap
  /\ UNCHANGED <<screen, user, userBox, lists, calls, stored, other, made, syncing>>

\* mutant: set() with the fields of the session's user
AppliedUnconditionally(w) ==
  /\ stored' = [stored EXCEPT ![w.id] = IF w.op = "delete" THEN None ELSE w.doc]
  /\ account' = IF w.op = "password"
                THEN [account EXCEPT ![w.id].word = w.doc.pw[1]] ELSE account

\* What Firestore does with a write: update() fails if there is no document, and
\* takes the fields it is given.
Applied(w) ==
  /\ w.op \in {"update", "password"} => stored[w.id] # None
  /\ stored' = [stored EXCEPT ![w.id] =
                  IF w.op = "delete" THEN None
                  ELSE IF w.op = "password" THEN [@ EXCEPT !.pw = w.doc.pw]
                  ELSE w.doc]
  /\ account' = IF w.op = "password"
                THEN [account EXCEPT ![w.id].word = w.doc.pw[1]] ELSE account

Front(kind) == sent # <<>> /\ Head(sent).kind = kind

RecordStored ==
  /\ Front("record")
  /\ Applied(Head(sent))
  /\ sent' = Tail(sent)
  /\ UNCHANGED <<local, other, ids, turns, history>>

\* The password is stored; the document is read back.
PasswordStored ==
  LET w == Head(sent)
  IN  /\ Front("change")
      /\ Applied(w)
      /\ sent' = Tail(sent)
      /\ Call([kind |-> "change", at |-> "read", id |-> w.id, here |-> w.here])
      /\ NoteIf(KnownThere(w.id), "shared", w.id)
      /\ UNCHANGED <<screen, user, userBox, lists, other, ids, turns, syncing>>

\* The document read back becomes the session's user.
PasswordRead(c) ==
  /\ c.at = "read"
  /\ stored[c.id] # None
  /\ userBox' = saveUser(Box, UserOf(c.id, stored[c.id]))
  /\ user' = UserOf(c.id, stored[c.id])
  /\ Answered(c)
  /\ Show("main", c.here)
  /\ UNCHANGED <<lists, cloud, made, turns, history, syncing>>

\* The user is read, and the semesters stored for the account are being deleted.
StartEdit(course) ==
  /\ Turn
  /\ screen = "edit" /\ user # None
  /\ ~Loading("edit")
  /\ Call([kind |-> "edit", at |-> "clear", user |-> [user EXCEPT !.course = course],
           here |-> TRUE])
  /\ NoteOverlap
  /\ UNCHANGED <<screen, user, userBox, lists, cloud, made, syncing>>

\* mutant: the box keeps the user of before
ClearedUnsaved(c) ==
  /\ c.at = "clear"
  /\ user' = c.user
  /\ userBox' = Box
  /\ Answered(c)
  /\ Send([op |-> "update", id |-> c.user.id, doc |-> Document(c.user),
           kind |-> "edit", here |-> c.here])
  /\ UNCHANGED <<screen, lists, stored, other, made, turns, history, syncing>>

\* They are deleted, or not: UpdateUser with the user read at the beginning.
Cleared(c) ==
  /\ c.at = "clear"
  /\ user' = c.user
  /\ userBox' = saveUser(Box, c.user)
  /\ Answered(c)
  /\ Send([op |-> "update", id |-> c.user.id, doc |-> Document(c.user),
           kind |-> "edit", here |-> c.here])
  /\ UNCHANGED <<screen, lists, stored, other, made, turns, history, syncing>>

EditStored ==
  LET w == Head(sent)
  IN  /\ Front("edit")
      /\ Applied(w)
      /\ sent' = Tail(sent)
      /\ Call([kind |-> "edit", at |-> "courses", course |-> w.doc.course, here |-> w.here])
      /\ UNCHANGED <<screen, user, userBox, lists, other, ids, turns, history, syncing>>

StartDelete ==
  /\ screen = "edit" /\ user # None
  /\ ~Loading("delete")
  /\ Send([op |-> "delete", id |-> user.id, doc |-> Document(user),
           kind |-> "delete", here |-> TRUE])
  /\ UNCHANGED <<screen, user, userBox, lists, calls, stored, other, made, turns, history, syncing>>

\* The document is deleted.  If the screen was left meanwhile, its navigator is not
\* found any more, the handler ends there, and the session goes on.
AccountDeleted ==
  LET w == Head(sent)
  IN  /\ Front("delete")
      /\ Applied(w)
      /\ IF w.here
         THEN /\ clearData
              /\ calls' = Unmounted(calls)
              /\ sent' = UnmountedWrites(Tail(sent))
              /\ Note({<<"deleted", w.id>>} \cup
                      IF calls # {} \/ Len(sent) > 1 THEN {<<"left", 0>>} ELSE {})
         ELSE /\ sent' = Tail(sent)
              /\ Note({<<"deleted", w.id>>, <<"ghost", w.id>>})
              /\ UNCHANGED <<screen, user, userBox, lists, calls>>
      /\ UNCHANGED <<other, ids, turns, syncing>>

-----------------------------------------------------------------------------
(* Refused writes, kills, and another device of the student.               *)

\* Firestore refuses a write.  The handlers tell the student so, except that of the
\* profile edit, which ends with its button loading.
Refused ==
  LET w == Head(sent)
  IN  /\ sent # <<>>
      /\ sent' = Tail(sent)
      /\ calls' = IF w.kind = "edit" /\ w.here
                  THEN calls \cup {[kind |-> "edit", at |-> "threw", here |-> TRUE]} ELSE calls
      /\ NoteIf(w.kind = "edit", "failed", 0)
      /\ UNCHANGED <<screen, user, userBox, lists, stored, other, made, turns, syncing>>

\* The app is killed: of each box some of the last puts are on disk, and of the
\* writes some are in the queue of Firestore's client.
Kill ==
  /\ Turn
  /\ \E n \in 1 .. Len(userBox), m \in 1 .. Len(lists) :
       /\ userBox' = <<userBox[n]>>
       /\ lists' = <<lists[m]>>
       /\ Note({<<what, 0>> : what \in
            (IF Handlers \/ (n < Len(userBox) /\ Last(userBox).user # None)
             THEN {"cut"} ELSE {})
            \cup (IF m < Len(lists) \/ (n < Len(userBox) /\ Last(userBox).user = None)
                  THEN {"out"} ELSE {})})
  /\ \E n \in 0 .. Len(sent) :
       sent' = [m \in 1 .. n |-> [sent[m] EXCEPT !.kind = "orphan", !.here = FALSE]]
  /\ calls' = {}
  /\ user' = None
  /\ screen' = "splash"
  /\ syncs' = {}
  /\ UNCHANGED <<stored, other, made, mixed>>

\* A write of the process before is applied.
OrphanApplied ==
  LET w == Head(sent)
  IN  /\ Front("orphan")
      /\ Applied(w)
      /\ sent' = Tail(sent)
      /\ Note((IF w.op # "delete" /\ KnownThere(w.id) /\ stored'[w.id] # stored[w.id]
               THEN {<<"shared", w.id>>} ELSE {})
              \cup (IF w.op = "delete" THEN {<<"deleted", w.id>>} ELSE {}))
      /\ UNCHANGED <<local, other, ids, turns>>

\* It writes another document than there was, of an account that is known here.
NoteShared(i) == NoteIf(KnownHere(i) /\ stored'[i] # stored[i], "shared", i)

\* Another device signs in to account i, or out.
OtherSession(i) ==
  /\ Turn
  /\ other' \in {None} \cup {UserOf(i, doc) : doc \in {stored[i]} \ {None}}
  /\ UNCHANGED <<local, sent, stored, made, history>>

\* The document of its account is there: update() succeeds.
OtherFinds == other # None /\ stored[other.id] # None

\* It records a semester: Record and RecordStored.
OtherRecord ==
  /\ OtherFinds
  /\ stored' = [stored EXCEPT ![other.id] = Document(other)]
  /\ NoteShared(other.id)
  /\ UNCHANGED <<local, sent, other, made, turns>>

\* It changes the password: StartChange to PasswordRead.
OtherChange(new) ==
  /\ Turn
  /\ OtherFinds
  /\ stored' = [stored EXCEPT ![other.id].pw = hashPassword(<<new, 0>>)]
  /\ other' = UserOf(other.id, stored'[other.id])
  /\ account' = [account EXCEPT ![other.id].word = new]
  /\ NoteShared(other.id)
  /\ UNCHANGED <<local, sent, ids>>

\* It edits the profile: StartEdit to CoursesRead.
OtherEdit(course) ==
  /\ Turn
  /\ OtherFinds
  /\ other' = [other EXCEPT !.course = course]
  /\ stored' = [stored EXCEPT ![other.id] = Document(other')]
  /\ NoteShared(other.id)
  /\ UNCHANGED <<local, sent, made>>

\* It deletes the account: StartDelete and AccountDeleted.
OtherDelete ==
  /\ other # None
  /\ stored' = [stored EXCEPT ![other.id] = None]
  /\ other' = None
  /\ Note({<<"deleted", other.id>>} \cup
          IF KnownHere(other.id) THEN {<<"shared", other.id>>} ELSE {})
  /\ UNCHANGED <<local, sent, made, turns>>

-----------------------------------------------------------------------------

Answer ==
  \E c \in calls :
    \/ LookedUp(c)
    \/ UserRead(c)
    \/ CoursesRead(c)
    \/ QueryFails(c)
    \/ PasswordRead(c)
    \/ Cleared(c)

Acknowledgement ==
  \/ ProfileStored
  \/ RecordStored
  \/ PasswordStored
  \/ EditStored
  \/ AccountDeleted
  \/ Refused
  \/ OrphanApplied

Student ==
  \/ \E a \in Address, capitals \in BOOLEAN, w \in Word : StartSignUp(a, capitals, w)
  \/ \E course \in Course : SubmitProfile(course)
  \/ \E a \in Address, w \in Word : StartLogin(a, w)
  \/ \E s \in {"change", "edit"} : Open(s)
  \/ Leave
  \/ Record
  \/ Logout
  \/ \E old, new \in Word : StartChange(old, new)
  \/ \E course \in Course : StartEdit(course)
  \/ StartDelete

OtherDevice ==
  \/ \E i \in Id : OtherSession(i)
  \/ OtherRecord
  \/ \E w \in Word : OtherChange(w)
  \/ \E course \in Course : OtherEdit(course)
  \/ OtherDelete

Next ==
  \/ Restore
  \/ Student
  \/ Answer
  \/ Acknowledgement
  \/ Kill
  \/ Sync
  \/ OtherDevice

Spec == Init /\ [][Next]_vars

-----------------------------------------------------------------------------
(* Properties.                                                             *)

User == [id : Id, pw : Password, course : Course \cup {None}]

\* A stored profile, unlike a user that is signing up, has a course.
Profile == [pw : Password, course : Course]

\* null is neither a user nor a document.
ASSUME NoneAssumption == None \notin User \cup Profile

\* The variables have their types; fill_profile.dart and edit_profile.dart never
\* store a profile without a course of study.
TypeOK ==
  /\ screen \in {"splash", "stuck", "auth", "fill", "main", "change", "edit"}
  /\ user \in User \cup {None}
  /\ \A n \in 1 .. Len(userBox) :
       userBox[n] \in [user : User \cup {None}, data : Course \cup {None}]
  /\ \A n \in 1 .. Len(lists) : lists[n] \subseteq Id
  /\ \A n \in 1 .. Len(sent) :
       sent[n] \in [op : {"set", "update", "password", "delete"}, id : Id, doc : Profile,
                    kind : {"fill", "record", "change", "edit", "delete", "orphan"},
                    here : BOOLEAN]
  /\ stored \in [Id -> Profile \cup {None}]
  /\ other \in [id : Id, pw : Password, course : Course] \cup {None}
  /\ syncs \subseteq [nr : 1 .. MaxSync, id : Id, left : 0 .. 2]

Happened(what, i) == <<what, i>> \in history

\* No handler and no write is under way in a session.
AtRest == screen = "main" /\ ~Handlers /\ sent = <<>>

\* In a session at rest the user in memory, the box, the course data and the
\* document users/{id} agree, unless a handler overlapped another one, was cut by a
\* kill or failed half-way (change_function.dart:19 after :16, edit_profile.dart:411),
\* another device wrote the account, or the account was deleted from a screen that
\* was left (delete_function.dart:16) or in a log-out that did not reach the disk.
PlacesAgree ==
  AtRest =>
    \/ /\ Last(userBox) = [user |-> user, data |-> user.course]
       /\ stored[user.id] = Document(user)
    \/ \E what \in {"left", "cut", "failed"} : Happened(what, 0)
    \/ \E what \in {"shared", "ghost"} : Happened(what, user.id)
    \/ Happened("deleted", user.id) /\ Happened("out", 0)

\* Whoever has an account can sign in with the password chosen last: the document
\* has its hash, and no later account has the same address (sign-in takes the first
\* document it finds), unless the address was typed with capitals (signup.dart:541),
\* a profile was submitted twice (fill_profile.dart:370), or an old user was stored
\* over the new password: by a handler that overlapped, was cut or failed half-way,
\* or with a second device (authProvider.dart:91).
CanSignIn ==
  \A i \in Id :
    stored[i] # None =>
      \/ /\ stored[i].pw = hashPassword(<<account[i].word, 0>>)
         /\ \A j \in Having(account[i].address) : j > i => account[j].capitals
      \/ \E what \in {"left", "cut", "failed"} : Happened(what, 0)
      \/ \E what \in {"again", "shared"} : Happened(what, i)

\* The app only hangs on its splash screen, with a user and no course data
\* (splash_screen.dart:36), after a handler was cut by a kill or ended after the
\* log-out; a log-out that is cut never does it (authProvider.dart:126-127).
NeverStuck ==
  screen = "stuck" => Happened("cut", 0) \/ Happened("left", 0)

\* On the sign-in screen the box has no user, so that the next start does not open a
\* session, unless a handler went on after its screen was left.
LogoutLasts ==
  screen = "auth" /\ ~Handlers => Last(userBox).user = None \/ Happened("left", 0)

\* The lists in a session are those of its user, unless a log-out did not reach the
\* disk (authProvider.dart:124), a sign-in went on after its screen was left, or a sync
\* of an earlier session was answered (upload_function.dart:40).  The lists that a sync
\* begins later are those of the user who is there then.
OwnLists ==
  screen = "main" =>
    \/ Last(lists) \subseteq {user.id}
    \/ Happened("out", 0) \/ Happened("left", 0)
    \/ mixed

\* No write that is still under way, late or from another device brings a deleted
\* account back, unless a profile is submitted for an account there was already.
DeletedStaysDeleted ==
  \A i \in Id : Happened("deleted", i) => stored[i] = None \/ Happened("again", i)

=============================================================================
