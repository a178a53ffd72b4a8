----------------------------- MODULE RecordSync -----------------------------
(***************************************************************************)
(* The synchronisation of the three record lists of a premium account      *)
(* (quick calculations, simulations, updates) between the Hive boxes of a  *)
(* device and the collections UserData/{id}/... of Cloud Firestore.        *)
(*                                                                         *)
(* Every `await` of UploadFunction is a point where other events of the    *)
(* same isolate run: the student leaves the upload screen and adds         *)
(* records, starts another sync, edits the profile, logs out, another      *)
(* student logs in; the app may be killed.  Code between two awaits is one *)
(* action.                                                                 *)
(*                                                                         *)
(* Abstractions.  A record is its timestamp.  A list is the set of its     *)
(* entries: every list is in timestamp order (add appends the newest,      *)
(* replace stores the result of orderBy('timestamp')) and no property      *)
(* depends on the order of equal timestamps.  An entry of a list carries   *)
(* the identity of the document it was read from (0: created here), which  *)
(* only serves to keep copies of one record apart.  Hive writes are        *)
(* durable when made.                                                      *)
(***************************************************************************)
EXTENDS Naturals, FiniteSets

CONSTANTS
  Device,     \* installations of the app
  Account,    \* premium accounts
  Slot,       \* syncs of one device that may be under way together
  Enabled,    \* kinds of record in use
  MaxStamp,   \* bound: records ever created
  MaxDoc,     \* bound: documents ever created
  MaxOrphan,  \* bound: unanswered writes that survive crashes, per device
  None        \* nobody is logged in

Kind == {"quick", "simulate", "update"}

ASSUME SyncAssumption ==
  /\ MaxStamp \in Nat
  /\ MaxDoc \in Nat
  /\ MaxOrphan \in Nat
  /\ Enabled \subseteq Kind
  /\ None \notin Account

Stamp == 1 .. MaxStamp

Entry == [ts : Stamp, up : BOOLEAN, doc : 0 .. MaxDoc]

VARIABLES
  user,     \* user[d]: the account AuthProvider.user of device d holds
  inside,   \* inside[d]: the main screens are shown, not sign-in
  shown,    \* shown[d]: the sync whose upload screen the student has not left
  list,     \* list[d][k]: the Hive list of kind k
  remote,   \* remote[a][k]: the documents of UserData/{a}/{collection of k}
  run,      \* run[d][s]: a sync under way
  orphan,   \* orphan[d]: writes of syncs that died, which may still be applied
  edit,     \* edit[d]: deleteUserUpdates of a profile edit under way
  author,   \* auxiliary: who created a record, and of which kind
  clock,    \* the newest timestamp given out
  docs,     \* documents created so far
  gone,     \* auxiliary: documents deleted so far
  tidy,     \* auxiliary: no sync died, failed, or overlapped another one
  intact    \* auxiliary: no profile edit ended in another account's session

session == <<user, inside, shown>>
cloud   == <<remote, docs, gone>>
made    == <<author, clock>>
flags   == <<tidy, intact>>

vars == <<session, list, cloud, run, orphan, edit, made, flags>>

-----------------------------------------------------------------------------
(* The model classes' conversions and the steps of the sync button.        *)

NewRecord(t) == [ts |-> t, up |-> FALSE, doc |-> 0]

\* toJson of every model class writes 'uploaded': true, whatever the flag was.
ToJsonKeepsFlag(e) == e   \* mutant
ToJson(e) == [e EXCEPT !.up = TRUE]

\* fromJson keeps the document's uploaded flag and timestamp.
FromJsonForgetsFlag(doc) == [doc EXCEPT !.up = FALSE]   \* mutant
FromJson(doc) == doc

Stamps(entries) == {e.ts : e \in entries}

\* quicks.where((element) => element.uploaded == false)
NotUploaded(entries) == {e \in entries : ~e.up}

\* The for loop goes through the list in its order.
FirstOf(todo) == CHOOSE e \in todo : \A o \in todo : e.ts <= o.ts

\* The button syncs quick, then simulate, then update.
FirstKind(left) ==
  IF "quick" \in left THEN "quick"
  ELSE IF "simulate" \in left THEN "simulate"
  ELSE "update"

NoRun == [pc |-> "idle", acct |-> None, kind |-> "quick", left |-> {},
          todo |-> {}, snap |-> {}, got |-> {}, lost |-> {}]

\* mutant: user?.id instead of user!.id
NextSyncAnyUser(u, lists, left, lost) ==
  LET k     == FirstKind(left)
      fresh == NotUploaded(lists[k])
  IN  IF left = {} THEN [NoRun EXCEPT !.pc = "goal", !.acct = u, !.lost = lost]
      ELSE [pc   |-> IF fresh = {} THEN "reading" ELSE "adding",
            acct |-> u, kind |-> k, left |-> left \ {k}, todo |-> fresh,
            snap |-> Stamps(fresh), got |-> {}, lost |-> lost]

\* The stretch from one sync function to the first await of the next: the
\* account and the list are read now.  With no user, user! throws and the
\* handler's catch ends the sync.
NextSync(u, lists, left, lost) ==
  LET k     == FirstKind(left)
      fresh == NotUploaded(lists[k])
  IN  IF u = None THEN NoRun
      ELSE IF left = {} THEN [NoRun EXCEPT !.pc = "goal", !.acct = u, !.lost = lost]
      ELSE [pc   |-> IF fresh = {} THEN "reading" ELSE "adding",
            acct |-> u, kind |-> k, left |-> left \ {k}, todo |-> fresh,
            snap |-> Stamps(fresh), got |-> {}, lost |-> lost]

NoEdit == [pc |-> "idle", acct |-> None, docs |-> {}, old |-> {}]

Busy(d) == \E s \in Slot : run[d][s].pc # "idle"

\* mutant: set() of one document instead of add()
StoreOver(a, k, e) ==
  /\ docs < MaxDoc
  /\ docs' = docs + 1
  /\ remote' = [remote EXCEPT ![a][k] = {[ToJson(e) EXCEPT !.doc = docs + 1]}]

Store(a, k, e) ==
  /\ docs < MaxDoc
  /\ docs' = docs + 1
  /\ remote' = [remote EXCEPT ![a][k] = @ \cup {[ToJson(e) EXCEPT !.doc = docs + 1]}]

Erase(a, deleted) ==
  /\ remote' = [remote EXCEPT ![a]["update"] = @ \ deleted]
  /\ gone' = gone \cup deleted

-----------------------------------------------------------------------------

Init ==
  /\ user = [d \in Device |-> None]
  /\ inside = [d \in Device |-> FALSE]
  /\ shown = [d \in Device |-> {}]
  /\ list = [d \in Device |-> [k \in Kind |-> {}]]
  /\ remote = [a \in Account |-> [k \in Kind |-> {}]]
  /\ run = [d \in Device |-> [s \in Slot |-> NoRun]]
  /\ orphan = [d \in Device |-> {}]
  /\ edit = [d \in Device |-> NoEdit]
  /\ author = [t \in Stamp |-> <<None, "quick">>]
  /\ clock = 0
  /\ docs = 0
  /\ gone = {}
  /\ tidy = TRUE
  /\ intact = TRUE

\* Login stores the user; the record lists are left as they are.
Login(d, a) ==
  /\ ~inside[d]
  /\ user' = [user EXCEPT ![d] = a]
  /\ inside' = [inside EXCEPT ![d] = TRUE]
  /\ UNCHANGED <<shown, list, cloud, run, orphan, edit, made, flags>>

\* mutant: the lists stay
LogoutKeepsLists(d) ==
  /\ inside[d] /\ shown[d] = {}
  /\ user' = [user EXCEPT ![d] = None]
  /\ inside' = [inside EXCEPT ![d] = FALSE]
  /\ UNCHANGED <<shown, list, cloud, run, orphan, edit, made, flags>>

\* AuthProvider.clearData: every list is cleared and the user forgotten.  The
\* futures under way go on.
Logout(d) ==
  /\ inside[d] /\ shown[d] = {}
  /\ user' = [user EXCEPT ![d] = None]
  /\ inside' = [inside EXCEPT ![d] = FALSE]
  /\ list' = [list EXCEPT ![d] = [k \in Kind |-> {}]]
  /\ UNCHANGED <<shown, cloud, run, orphan, edit, made, flags>>

\* saveQuickGrade, saveSimulateGrade, saveUpdateGrade: from other screens.
AddRecord(d, k) ==
  /\ inside[d] /\ shown[d] = {}
  /\ clock < MaxStamp
  /\ clock' = clock + 1
  /\ list' = [list EXCEPT ![d][k] = @ \cup {NewRecord(clock + 1)}]
  /\ author' = [author EXCEPT ![clock + 1] = <<user[d], k>>]
  /\ UNCHANGED <<session, cloud, run, orphan, edit, flags>>

\* The button's handler up to its first await; left: the switches that are on.
\* The button is disabled during a sync, but not on the screen opened anew.
StartSync(d, s, left) ==
  /\ inside[d] /\ shown[d] = {}
  /\ run[d][s].pc = "idle"
  /\ shown' = [shown EXCEPT ![d] = {s}]
  /\ run' = [run EXCEPT ![d][s] = NextSync(user[d], list[d], left, {})]
  /\ tidy' = (tidy /\ ~Busy(d))
  /\ UNCHANGED <<user, inside, list, cloud, orphan, edit, made, intact>>

\* The student goes back from the upload screen; the sync goes on without it.
LeaveUpload(d) ==
  /\ shown[d] # {}
  /\ shown' = [shown EXCEPT ![d] = {}]
  /\ UNCHANGED <<user, inside, list, cloud, run, orphan, edit, made, flags>>

\* Firestore stores the document of the add that is awaited.
Deliver(d, s) ==
  LET r == run[d][s]
  IN  /\ r.pc = "adding"
      /\ Store(r.acct, r.kind, FirstOf(r.todo))
      /\ run' = [run EXCEPT ![d][s] = [r EXCEPT !.pc = "added"]]
      /\ UNCHANGED <<session, list, gone, orphan, edit, made, flags>>

\* mutant: the query does not wait for all the adds
AddedOnce(d, s) ==
  LET r == run[d][s]
  IN  /\ r.pc = "added"
      /\ run' = [run EXCEPT ![d][s] = [r EXCEPT !.todo = {}, !.pc = "reading"]]
      /\ UNCHANGED <<session, list, cloud, orphan, edit, made, flags>>

\* The add completes: the loop sends the next record, or the query.
Added(d, s) ==
  LET r    == run[d][s]
      rest == r.todo \ {FirstOf(r.todo)}
  IN  /\ r.pc = "added"
      /\ run' = [run EXCEPT ![d][s] =
                   [r EXCEPT !.todo = rest,
                             !.pc = IF rest = {} THEN "reading" ELSE "adding"]]
      /\ UNCHANGED <<session, list, cloud, orphan, edit, made, flags>>

\* Firestore evaluates the query that is awaited.
ReadCollection(d, s) ==
  LET r == run[d][s]
  IN  /\ r.pc = "reading"
      /\ run' = [run EXCEPT ![d][s] =
                   [r EXCEPT !.pc = "read", !.got = remote[r.acct][r.kind]]]
      /\ UNCHANGED <<session, list, cloud, orphan, edit, made, flags>>

\* mutant: the local entries are kept and taken for uploaded
ReplaceMarks(d, s) ==
  LET r     == run[d][s]
      lists == [list[d] EXCEPT ![r.kind] = {ToJson(e) : e \in @} \cup r.got]
  IN  /\ r.pc = "read"
      /\ list' = [list EXCEPT ![d] = lists]
      /\ run' = [run EXCEPT ![d][s] = NextSync(user[d], lists, r.left, r.lost)]
      /\ UNCHANGED <<session, cloud, orphan, edit, made, flags>>

\* The query completes: the list is replaced, whoever is logged in now and
\* whatever was added since, and the next sync function begins.
Replace(d, s) ==
  LET r        == run[d][s]
      new      == {FromJson(doc) : doc \in r.got}
      lists    == [list[d] EXCEPT ![r.kind] = new]
      dropped  == Stamps(NotUploaded(list[d][r.kind])) \ Stamps(new)
  IN  /\ r.pc = "read"
      /\ list' = [list EXCEPT ![d] = lists]
      /\ run' = [run EXCEPT ![d][s] = NextSync(user[d], lists, r.left, r.lost \cup dropped)]
      /\ tidy' = (tidy /\ user[d] # None)
      /\ UNCHANGED <<session, cloud, orphan, edit, made, intact>>

\* mutant: the list is replaced even then
CallFailsReplaces(d, s) ==
  /\ run[d][s].pc \in {"adding", "reading", "goal"}
  /\ list' = [list EXCEPT ![d][run[d][s].kind] = run[d][s].got]
  /\ run' = [run EXCEPT ![d][s] = NoRun]
  /\ shown' = [shown EXCEPT ![d] = @ \ {s}]
  /\ tidy' = FALSE
  /\ UNCHANGED <<user, inside, cloud, orphan, edit, made, intact>>

\* A call of the sync throws: snack bar "Unable to sync", nothing is undone.
CallFails(d, s) ==
  /\ run[d][s].pc \in {"adding", "reading", "goal"}
  /\ run' = [run EXCEPT ![d][s] = NoRun]
  /\ shown' = [shown EXCEPT ![d] = @ \ {s}]
  /\ tidy' = FALSE
  /\ UNCHANGED <<user, inside, list, cloud, orphan, edit, made, intact>>

\* mutant: the message does not need the screen
SyncGoalAnyScreen(d, s) ==
  /\ run[d][s].pc = "goal"
  /\ run' = [run EXCEPT ![d][s] = [run[d][s] EXCEPT !.pc = "success"]]
  /\ UNCHANGED <<session, list, cloud, orphan, edit, made, flags>>

\* syncGoal completes: snack bar "Syncing Successful".  If the screen was left, its
\* context has no overlay: showSnackBar throws, and again in the handler's catch.
SyncGoal(d, s) ==
  /\ run[d][s].pc = "goal"
  /\ run' = [run EXCEPT ![d][s] =
                IF s \in shown[d] THEN [run[d][s] EXCEPT !.pc = "success"] ELSE NoRun]
  /\ UNCHANGED <<session, list, cloud, orphan, edit, made, flags>>

\* mutant: loading stays true
EndSyncLoading(d, s) ==
  /\ run[d][s].pc = "success"
  /\ UNCHANGED vars

\* The screen is popped and loading set to false.
EndSync(d, s) ==
  /\ run[d][s].pc = "success"
  /\ run' = [run EXCEPT ![d][s] = NoRun]
  /\ shown' = [shown EXCEPT ![d] = @ \ {s}]
  /\ UNCHANGED <<user, inside, list, cloud, orphan, edit, made, flags>>

-----------------------------------------------------------------------------
(* The profile edit: clearUpdateList, then deleteUserData.                 *)

StartEdit(d) ==
  /\ inside[d] /\ shown[d] = {}
  /\ edit[d].pc = "idle"
  /\ list' = [list EXCEPT ![d]["update"] = {}]
  /\ edit' = [edit EXCEPT ![d] = [pc |-> "reading", acct |-> user[d], docs |-> {},
                                   old |-> remote[user[d]]["update"]]]
  /\ UNCHANGED <<session, cloud, run, orphan, made, flags>>

\* The query of deleteUserUpdates is answered and the batch is sent.
EditRead(d) ==
  /\ edit[d].pc = "reading"
  /\ edit' = [edit EXCEPT ![d] =
       [edit[d] EXCEPT !.pc = "commit", !.docs = remote[edit[d].acct]["update"]]]
  /\ UNCHANGED <<session, list, cloud, run, orphan, made, flags>>

\* Firestore deletes the documents of the batch.
EditCommit(d) ==
  /\ edit[d].pc = "commit"
  /\ Erase(edit[d].acct, edit[d].docs)
  /\ edit' = [edit EXCEPT ![d] = [edit[d] EXCEPT !.pc = "done", !.docs = {}]]
  /\ UNCHANGED <<session, list, docs, run, orphan, made, flags>>

\* The query or the batch fails: catchError and the catch of deleteUserData
\* swallow it, and the edit goes on as if the documents were deleted.
EditFails(d) ==
  /\ edit[d].pc \in {"reading", "commit"}
  /\ edit' = [edit EXCEPT ![d] = [edit[d] EXCEPT !.pc = "done", !.docs = {}]]
  /\ UNCHANGED <<session, list, cloud, run, orphan, made, flags>>

\* UpdateUser(User(id: user.id, ...)): the user read when the edit began becomes
\* the app's user again, whoever has logged in or out since.
EndEdit(d) ==
  /\ edit[d].pc = "done"
  /\ user' = [user EXCEPT ![d] = edit[d].acct]
  /\ intact' = (intact /\ (inside[d] => user[d] = edit[d].acct))
  /\ edit' = [edit EXCEPT ![d] = NoEdit]
  /\ UNCHANGED <<inside, shown, list, cloud, run, orphan, made, tidy>>

-----------------------------------------------------------------------------
(* The process is killed.                                                  *)

\* The writes of device d that were sent and not yet answered: the adds of its
\* syncs and the batch of its profile edit.
Unanswered(d) ==
  {[op |-> "add", acct |-> run[d][s].acct, kind |-> run[d][s].kind,
    recs |-> {FirstOf(run[d][s].todo)}] : s \in {t \in Slot : run[d][t].pc = "adding"}}
  \cup
  {[op |-> "delete", acct |-> e.acct, kind |-> "update", recs |-> e.docs] :
    e \in {f \in {edit[d]} : f.pc = "commit" /\ f.docs # {}}}

\* Firestore's client may have kept any of the unanswered writes.  Splash
\* restores the user and the lists.
Crash(d) ==
  /\ inside' = [inside EXCEPT ![d] = user[d] # None]
  /\ shown' = [shown EXCEPT ![d] = {}]
  /\ \E kept \in SUBSET Unanswered(d) :
       /\ Cardinality(orphan[d] \cup kept) <= MaxOrphan
       /\ orphan' = [orphan EXCEPT ![d] = @ \cup kept]
  /\ run' = [run EXCEPT ![d] = [s \in Slot |-> NoRun]]
  /\ edit' = [edit EXCEPT ![d] = NoEdit]
  /\ tidy' = (tidy /\ ~Busy(d))
  /\ UNCHANGED <<user, list, cloud, made, intact>>

\* A write the dead process left is applied after all.
DeliverOrphan(d) ==
  \E w \in orphan[d] :
    /\ orphan' = [orphan EXCEPT ![d] = @ \ {w}]
    /\ IF w.op = "add"
       THEN Store(w.acct, w.kind, FirstOf(w.recs)) /\ UNCHANGED gone
       ELSE Erase(w.acct, w.recs) /\ UNCHANGED docs
    /\ UNCHANGED <<session, list, run, edit, made, flags>>

\* ... or refused.
DropOrphan(d) ==
  \E w \in orphan[d] :
    /\ orphan' = [orphan EXCEPT ![d] = @ \ {w}]
    /\ UNCHANGED <<session, list, cloud, run, edit, made, flags>>

-----------------------------------------------------------------------------

SyncStep(d, s) ==
  \/ Deliver(d, s)
  \/ Added(d, s)
  \/ ReadCollection(d, s)
  \/ Replace(d, s)
  \/ SyncGoal(d, s)
  \/ EndSync(d, s)

Next ==
  \E d \in Device :
    \/ \E a \in Account : Login(d, a)
    \/ Logout(d)
    \/ \E k \in Enabled : AddRecord(d, k)
    \/ \E s \in Slot, left \in SUBSET Enabled : StartSync(d, s, left)
    \/ LeaveUpload(d)
    \/ \E s \in Slot : SyncStep(d, s)
    \/ \E s \in Slot : CallFails(d, s)
    \/ "update" \in Enabled /\ StartEdit(d)
    \/ EditRead(d)
    \/ EditCommit(d)
    \/ EditFails(d)
    \/ EndEdit(d)
    \/ Crash(d)
    \/ DeliverOrphan(d)
    \/ DropOrphan(d)

Spec == Init /\ [][Next]_vars

\* Firestore answers every call, and the event loop runs what was answered.
Fairness ==
  \A d \in Device, s \in Slot : WF_vars(SyncStep(d, s) \/ CallFails(d, s))

FairSpec == Spec /\ Fairness

-----------------------------------------------------------------------------
(* Properties                                                              *)

Run == [pc : {"idle", "adding", "added", "reading", "read", "goal", "success"},
        acct : Account \cup {None}, kind : Kind, left : SUBSET Kind,
        todo : SUBSET Entry, snap : SUBSET Stamp, got : SUBSET Entry,
        lost : SUBSET Stamp]

Edit == [pc : {"idle", "reading", "commit", "done"}, acct : Account \cup {None},
         docs : SUBSET Entry, old : SUBSET Entry]

Write == [op : {"add", "delete"}, acct : Account, kind : Kind, recs : SUBSET Entry]

\* The variables have their types; a sync under way knows its account.
TypeOK ==
  /\ user \in [Device -> Account \cup {None}]
  /\ inside \in [Device -> BOOLEAN]
  /\ shown \in [Device -> SUBSET Slot]
  /\ list \in [Device -> [Kind -> SUBSET Entry]]
  /\ remote \in [Account -> [Kind -> SUBSET Entry]]
  /\ run \in [Device -> [Slot -> Run]]
  /\ \A d \in Device, s \in Slot : run[d][s].pc # "idle" => run[d][s].acct # None
  /\ orphan \in [Device -> SUBSET Write]
  /\ edit \in [Device -> Edit]
  /\ author \in [Stamp -> (Account \cup {None}) \X Kind]
  /\ clock \in 0 .. MaxStamp
  /\ docs \in 0 .. MaxDoc
  /\ gone \subseteq Entry
  /\ tidy \in BOOLEAN
  /\ intact \in BOOLEAN

\* A collection of an account holds only records that account made, and of its
\* kind: a sync that outlives its session never mixes two students' records,
\* unless a profile edit ends in another student's session (EndEdit).
OnlyOwnRecords ==
  intact => \A a \in Account, k \in Kind : \A e \in remote[a][k] : author[e.ts] = <<a, k>>

\* A record the device takes for uploaded is in a collection, or was deleted
\* there: the flag is never set on a record that was only sent.
UploadedIsStored ==
  \A d \in Device, k \in Kind : \A e \in list[d][k] :
    e.up => \/ e.ts \in Stamps(gone)
            \/ \E a \in Account : e.ts \in Stamps(remote[a][k])

\* When a sync replaces a list, what it downloaded covers every record that was
\* waiting for upload when it began, or the record's copy was deleted.
SnapshotStored ==
  \A d \in Device, s \in Slot :
    run[d][s].pc = "read" => run[d][s].snap \subseteq Stamps(run[d][s].got) \cup Stamps(gone)

\* As long as no sync failed, died or overlapped another one of its device, no
\* record is in the collections twice.
OnceEach ==
  tidy => \A a \in Account, k \in Kind : \A e, f \in remote[a][k] : e.ts = f.ts => e = f

\* Where a record exists: on a device, or in a collection.
Somewhere(t) ==
  \/ \E d \in Device, k \in Kind : t \in Stamps(list[d][k])
  \/ \E a \in Account, k \in Kind : t \in Stamps(remote[a][k])

\* A record ceases to exist only by a logout, by the start of a profile edit,
\* because a profile edit deleted a copy of it, or because a sync replaces the
\* list to which it was added after the sync read that list.
LossCauses ==
  [][\A t \in Stamp :
       Somewhere(t) /\ ~Somewhere(t)' =>
         \/ t \in Stamps(gone')
         \/ \E d \in Device :
              \/ inside[d] /\ ~inside'[d]
              \/ edit[d].pc = "idle" /\ edit'[d].pc = "reading"
              \/ \E s \in Slot : /\ run[d][s].pc = "read"
                                /\ run'[d][s].pc # "read"
                                /\ t \notin run[d][s].snap]_vars

\* Every sync ends: the upload screen does not keep loading.
SyncEnds ==
  \A d \in Device, s \in Slot : run[d][s].pc # "idle" ~> run[d][s].pc = "idle"

\* A record waits in a list, or in a sync or an orphaned write that has its copy.
Pending(t) ==
  \E d \in Device :
    \/ \E k \in Kind : t \in Stamps(NotUploaded(list[d][k]))
    \/ \E s \in Slot : t \in Stamps(run[d][s].todo)
    \/ \E w \in orphan[d] : w.op = "add" /\ t \in Stamps(w.recs)

\* The stage of each record in the sense of RecordLife.
life ==
  [t \in Stamp |->
    IF t > clock THEN "none"
    ELSE IF \E a \in Account, k \in Kind : t \in Stamps(remote[a][k]) THEN "stored"
    ELSE IF t \in Stamps(gone) THEN "erased"
    ELSE IF Pending(t) THEN "pending"
    ELSE "lost"]

Life == INSTANCE RecordLife WITH life <- life, MaxStamp <- MaxStamp

\* The syncs implement the life of records: a stored record leaves the cloud only
\* when a profile edit deletes it, and a lost one never reappears.
LifeOfRecords == Life!Spec

\* "Syncing Successful" (upload_screen.dart:220) is never said by a sync that dropped
\* a record, unless a profile edit deleted a copy of it: what a sync drops was added
\* after its screen was left, and without the screen there is no message.
SuccessKeepsRecords ==
  \A d \in Device, s \in Slot :
    run[d][s].pc = "success" => run[d][s].lost \subseteq Stamps(gone)

\* "This action would clear ... past semesters" (edit_profile.dart:394): when
\* the edit goes on to save the profile, the semesters stored when it began are
\* gone from the account.
EditClears ==
  \A d \in Device :
    edit[d].pc = "done" => remote[edit[d].acct]["update"] \cap edit[d].old = {}

=============================================================================
