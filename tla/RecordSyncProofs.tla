-------------------------- MODULE RecordSyncProofs --------------------------
(***************************************************************************)
(* Proofs about RecordSync: type correctness, who owns the stored records, *)
(* and that nothing is taken for uploaded that was not stored.             *)
(*                                                                         *)
(* The inductive invariant has three layers: Typed (types, and that what   *)
(* is under way knows its account), Owned (the author of every record that *)
(* is on its way to the cloud) and Secured (what the cloud already holds   *)
(* of every sync); the last two are each proved with the first.  Watched,  *)
(* at the end, adds what a sync may have dropped whose screen is shown.    *)
(***************************************************************************)
EXTENDS RecordSync, WellFoundedInduction, TLAPS

-----------------------------------------------------------------------------
(* Layer 1.                                                                *)

\* A sync under way has an account, and a record to add when it is adding one.
GoodRun == {r \in Run : /\ r.pc # "idle" => r.acct \in Account
                        /\ r.pc \in {"adding", "added"} => r.todo # {}}

GoodEdit == {e \in Edit : e.pc # "idle" => e.acct \in Account}

GoodWrite == {w \in Write : w.op = "add" => w.recs # {}}

Typed ==
  /\ user \in [Device -> Account \cup {None}]
  /\ inside \in [Device -> BOOLEAN]
  /\ shown \in [Device -> SUBSET Slot]
  /\ \A d \in Device : inside[d] => user[d] \in Account
  /\ list \in [Device -> [Kind -> SUBSET Entry]]
  /\ remote \in [Account -> [Kind -> SUBSET Entry]]
  /\ run \in [Device -> [Slot -> GoodRun]]
  /\ orphan \in [Device -> SUBSET GoodWrite]
  /\ edit \in [Device -> GoodEdit]
  /\ author \in [Stamp -> (Account \cup {None}) \X Kind]
  /\ clock \in 0 .. MaxStamp
  /\ docs \in 0 .. MaxDoc
  /\ gone \in SUBSET Entry
  /\ tidy \in BOOLEAN
  /\ intact \in BOOLEAN

\* The record the loop sends next is one of those that are left.
LEMMA FirstOfIn ==
  ASSUME NEW todo \in SUBSET Entry, todo # {}
  PROVE  FirstOf(todo) \in todo
<1> DEFINE T == {e.ts : e \in todo}
           R == {ss \in Nat \X Nat : ss[1] < ss[2]}
<1>1. T \subseteq Nat /\ T # {}
  BY SyncAssumption DEF Entry, Stamp
<1>2. IsWellFoundedOn(R, Nat)
  BY NatLessThanWellFounded DEF OpToRel
<1>3. \E x \in T : \A y \in T : ~ (<<y, x>> \in R)
  <2> HIDE DEF T, R
  <2> QED BY <1>1, <1>2, WFMin
<1>4. PICK x \in T : \A y \in T : ~ (y < x)
  BY <1>3, <1>1
<1>5. PICK e \in todo : e.ts = x
  OBVIOUS
<1>6. ASSUME NEW o \in todo
      PROVE  e.ts <= o.ts
  <2>1. o.ts \in Nat /\ e.ts \in Nat
    BY SyncAssumption DEF Entry, Stamp
  <2>2. ~ (o.ts < x)
    BY <1>4
  <2> QED BY <2>1, <2>2, <1>5
<1> QED BY <1>5, <1>6 DEF FirstOf

\* The operators on entries and lists return entries and stamps.
LEMMA EntryOps ==
  /\ \A t \in Stamp : NewRecord(t) \in Entry
  /\ \A e \in Entry, n \in 0 .. MaxDoc : [ToJson(e) EXCEPT !.doc = n] \in Entry
  /\ \A S \in SUBSET Entry : NotUploaded(S) \in SUBSET Entry
  /\ \A S \in SUBSET Entry : Stamps(S) \in SUBSET Stamp
  /\ \A S \in SUBSET Entry : {FromJson(doc) : doc \in S} = S
<1>1. \A t \in Stamp : NewRecord(t) \in Entry
  BY SyncAssumption DEF NewRecord, Entry
<1>2. \A e \in Entry, n \in 0 .. MaxDoc : [ToJson(e) EXCEPT !.doc = n] \in Entry
  BY DEF ToJson, Entry
<1>3. \A S \in SUBSET Entry : NotUploaded(S) \in SUBSET Entry
  BY DEF NotUploaded
<1>4. \A S \in SUBSET Entry : Stamps(S) \in SUBSET Stamp
  BY DEF Stamps, Entry
<1>5. \A S \in SUBSET Entry : {FromJson(doc) : doc \in S} = S
  BY DEF FromJson
<1> QED BY <1>1, <1>2, <1>3, <1>4, <1>5

LEMMA FirstKindIn == \A left : FirstKind(left) \in Kind
BY DEF FirstKind, Kind

LEMMA NoRunGood == NoRun \in GoodRun
BY DEF NoRun, GoodRun, Run, Kind

\* The next sync function starts with an account, or the sync is over.
LEMMA NextSyncGood ==
  ASSUME NEW u \in Account \cup {None}, NEW lists \in [Kind -> SUBSET Entry],
         NEW left \in SUBSET Kind, NEW lost \in SUBSET Stamp
  PROVE  NextSync(u, lists, left, lost) \in GoodRun
<1> DEFINE k     == FirstKind(left)
           fresh == NotUploaded(lists[k])
<1>1. k \in Kind /\ fresh \in SUBSET Entry /\ Stamps(fresh) \in SUBSET Stamp
  BY FirstKindIn, EntryOps
<1>2. CASE u = None
  BY <1>2, NoRunGood DEF NextSync
<1>3. CASE u # None /\ left = {}
  <2>1. NextSync(u, lists, left, lost)
          = [NoRun EXCEPT !.pc = "goal", !.acct = u, !.lost = lost]
    BY <1>3 DEF NextSync
  <2> QED BY <1>3, <2>1 DEF NoRun, GoodRun, Run, Kind
<1>4. CASE u # None /\ left # {}
  <2>1. NextSync(u, lists, left, lost)
          = [pc |-> IF fresh = {} THEN "reading" ELSE "adding",
             acct |-> u, kind |-> k, left |-> left \ {k}, todo |-> fresh,
             snap |-> Stamps(fresh), got |-> {}, lost |-> lost]
    BY <1>4 DEF NextSync
  <2> HIDE DEF k, fresh
  <2> QED BY <1>1, <1>4, <2>1 DEF GoodRun, Run
<1> QED BY <1>2, <1>3, <1>4

\* A run that moves on by an EXCEPT stays good.
LEMMA RunStepGood ==
  ASSUME NEW r \in GoodRun, r.pc # "idle"
  PROVE  /\ [r EXCEPT !.pc = "success"] \in GoodRun
         /\ r.pc = "adding" => [r EXCEPT !.pc = "added"] \in GoodRun
         /\ \A rest \in SUBSET r.todo :
              [r EXCEPT !.todo = rest,
                        !.pc = IF rest = {} THEN "reading" ELSE "adding"] \in GoodRun
         /\ \A S \in SUBSET Entry : [r EXCEPT !.pc = "read", !.got = S] \in GoodRun
BY DEF GoodRun, Run

LEMMA StoreTyped ==
  ASSUME Typed, NEW a \in Account, NEW k \in Kind, NEW e \in Entry, Store(a, k, e)
  PROVE  /\ remote' \in [Account -> [Kind -> SUBSET Entry]]
         /\ docs' \in 0 .. MaxDoc
<1>1. docs + 1 \in 0 .. MaxDoc
  BY SyncAssumption DEF Typed, Store
<1>2. [ToJson(e) EXCEPT !.doc = docs + 1] \in Entry
  BY <1>1, EntryOps
<1> QED BY <1>1, <1>2 DEF Typed, Store

LEMMA EraseTyped ==
  ASSUME Typed, NEW a \in Account, NEW S \in SUBSET Entry, Erase(a, S)
  PROVE  /\ remote' \in [Account -> [Kind -> SUBSET Entry]]
         /\ gone' \in SUBSET Entry
BY DEF Typed, Erase, Kind

LEMMA UnansweredGood ==
  ASSUME Typed, NEW d \in Device
  PROVE  Unanswered(d) \in SUBSET GoodWrite
<1>1. ASSUME NEW s \in Slot, run[d][s].pc = "adding"
      PROVE  [op |-> "add", acct |-> run[d][s].acct, kind |-> run[d][s].kind,
              recs |-> {FirstOf(run[d][s].todo)}] \in GoodWrite
  <2>1. run[d][s] \in GoodRun
    BY DEF Typed
  <2>2. FirstOf(run[d][s].todo) \in Entry
    BY <1>1, <2>1, FirstOfIn DEF GoodRun, Run
  <2> QED BY <1>1, <2>1, <2>2 DEF GoodRun, Run, GoodWrite, Write
<1>2. ASSUME edit[d].pc = "commit"
      PROVE  [op |-> "delete", acct |-> edit[d].acct, kind |-> "update",
              recs |-> edit[d].docs] \in GoodWrite
  <2>1. edit[d] \in GoodEdit
    BY DEF Typed
  <2> QED BY <1>2, <2>1 DEF GoodEdit, Edit, GoodWrite, Write, Kind
<1> QED BY <1>1, <1>2 DEF Unanswered

LEMMA TypedInit == Init => Typed
<1> SUFFICES ASSUME Init PROVE Typed
  OBVIOUS
<1>1. run \in [Device -> [Slot -> GoodRun]]
  BY NoRunGood DEF Init
<1>2. edit \in [Device -> GoodEdit]
  BY DEF Init, NoEdit, GoodEdit, Edit
<1>3. author \in [Stamp -> (Account \cup {None}) \X Kind]
  BY DEF Init, Kind
<1>4. orphan \in [Device -> SUBSET GoodWrite]
  BY DEF Init
<1>5. clock \in 0 .. MaxStamp /\ docs \in 0 .. MaxDoc
  BY SyncAssumption DEF Init
<1> QED BY <1>1, <1>2, <1>3, <1>4, <1>5 DEF Init, Typed

LEMMA TypedStep == Typed /\ [Next]_vars => Typed'
<1> SUFFICES ASSUME Typed, [Next]_vars PROVE Typed'
  OBVIOUS
<1> USE DEF session, cloud, made, flags
<1>1. ASSUME NEW d \in Device, NEW a \in Account, Login(d, a) PROVE Typed'
  BY <1>1 DEF Typed, Login
<1>2. ASSUME NEW d \in Device, Logout(d) PROVE Typed'
  BY <1>2 DEF Typed, Logout
<1>3. ASSUME NEW d \in Device, NEW k \in Enabled, AddRecord(d, k) PROVE Typed'
  <2>1. k \in Kind /\ clock + 1 \in Stamp /\ clock + 1 \in 0 .. MaxStamp
    BY <1>3, SyncAssumption DEF Typed, AddRecord, Stamp
  <2>2. NewRecord(clock + 1) \in Entry
    BY <2>1, EntryOps
  <2>3. list' \in [Device -> [Kind -> SUBSET Entry]]
    BY <1>3, <2>1, <2>2 DEF Typed, AddRecord
  <2>4. author' \in [Stamp -> (Account \cup {None}) \X Kind]
    BY <1>3, <2>1 DEF Typed, AddRecord
  <2> QED BY <1>3, <2>1, <2>3, <2>4 DEF Typed, AddRecord
<1>4. ASSUME NEW d \in Device, NEW s \in Slot, NEW left \in SUBSET Enabled,
             StartSync(d, s, left)
      PROVE  Typed'
  <2>1. NextSync(user[d], list[d], left, {}) \in GoodRun
    <3>1. left \in SUBSET Kind
      BY SyncAssumption
    <3> QED BY <3>1, NextSyncGood DEF Typed
  <2> QED BY <1>4, <2>1 DEF Typed, StartSync
<1>5. ASSUME NEW d \in Device, NEW s \in Slot, Deliver(d, s) PROVE Typed'
  <2> DEFINE r == run[d][s]
  <2>1. r \in GoodRun /\ r.pc = "adding"
    BY <1>5 DEF Typed, Deliver
  <2>2. r.acct \in Account /\ r.kind \in Kind /\ FirstOf(r.todo) \in Entry
    BY <2>1, FirstOfIn DEF GoodRun, Run
  <2>3. [r EXCEPT !.pc = "added"] \in GoodRun
    BY <2>1, RunStepGood
  <2>4. Store(r.acct, r.kind, FirstOf(r.todo))
    BY <1>5 DEF Deliver
  <2>5. remote' \in [Account -> [Kind -> SUBSET Entry]] /\ docs' \in 0 .. MaxDoc
    BY <2>2, <2>4, StoreTyped
  <2>6. run' \in [Device -> [Slot -> GoodRun]]
    BY <1>5, <2>3 DEF Typed, Deliver
  <2> QED BY <1>5, <2>5, <2>6 DEF Typed, Deliver
<1>6. ASSUME NEW d \in Device, NEW s \in Slot, Added(d, s) PROVE Typed'
  <2> DEFINE r    == run[d][s]
             rest == r.todo \ {FirstOf(r.todo)}
  <2>1. r \in GoodRun /\ r.pc = "added"
    BY <1>6 DEF Typed, Added
  <2>2. [r EXCEPT !.todo = rest,
                  !.pc = IF rest = {} THEN "reading" ELSE "adding"] \in GoodRun
    BY <2>1, RunStepGood
  <2> QED BY <1>6, <2>2 DEF Typed, Added
<1>7. ASSUME NEW d \in Device, NEW s \in Slot, ReadCollection(d, s) PROVE Typed'
  <2> DEFINE r == run[d][s]
  <2>1. r \in GoodRun /\ r.pc = "reading"
    BY <1>7 DEF Typed, ReadCollection
  <2>2. remote[r.acct][r.kind] \in SUBSET Entry
    BY <2>1 DEF GoodRun, Run, Typed
  <2>3. [r EXCEPT !.pc = "read", !.got = remote[r.acct][r.kind]] \in GoodRun
    BY <2>1, <2>2, RunStepGood
  <2> QED BY <1>7, <2>3 DEF Typed, ReadCollection
<1>8. ASSUME NEW d \in Device, NEW s \in Slot, Replace(d, s) PROVE Typed'
  <2> DEFINE r       == run[d][s]
             new     == {FromJson(doc) : doc \in r.got}
             lists   == [list[d] EXCEPT ![r.kind] = new]
             dropped == Stamps(NotUploaded(list[d][r.kind])) \ Stamps(new)
  <2>1. r \in GoodRun /\ r \in Run
    BY <1>8 DEF Typed, GoodRun
  <2>2. new \in SUBSET Entry
    BY <2>1, EntryOps DEF Run
  <2>3. lists \in [Kind -> SUBSET Entry]
    BY <2>1, <2>2 DEF Typed
  <2>4. r.lost \cup dropped \in SUBSET Stamp
    <3>1. list[d][r.kind] \in SUBSET Entry
      BY <2>1 DEF Typed, Run
    <3>2. dropped \in SUBSET Stamp
      BY <3>1, EntryOps
    <3> QED BY <2>1, <3>2 DEF Run
  <2>5. NextSync(user[d], lists, r.left, r.lost \cup dropped) \in GoodRun
    <3>1. user[d] \in Account \cup {None} /\ r.left \in SUBSET Kind
      BY <2>1 DEF Typed, Run
    <3> HIDE DEF lists, dropped, r
    <3> QED BY <3>1, <2>3, <2>4, NextSyncGood
  <2>6. list' = [list EXCEPT ![d] = lists]
        /\ run' = [run EXCEPT ![d][s] = NextSync(user[d], lists, r.left, r.lost \cup dropped)]
    BY <1>8 DEF Replace
  <2>7. list' \in [Device -> [Kind -> SUBSET Entry]]
        /\ run' \in [Device -> [Slot -> GoodRun]]
    <3> HIDE DEF lists, dropped, r
    <3> QED BY <2>3, <2>5, <2>6 DEF Typed
  <2> QED BY <1>8, <2>7 DEF Typed, Replace
<1>9. ASSUME NEW d \in Device, NEW s \in Slot,
             CallFails(d, s) \/ EndSync(d, s)
      PROVE  Typed'
  <2>1. run' = [run EXCEPT ![d][s] = NoRun] /\ tidy' \in BOOLEAN
    BY <1>9 DEF Typed, CallFails, EndSync
  <2>2. run' \in [Device -> [Slot -> GoodRun]]
    BY <2>1, NoRunGood DEF Typed
  <2> QED BY <1>9, <2>1, <2>2 DEF Typed, CallFails, EndSync
<1>10. ASSUME NEW d \in Device, NEW s \in Slot, SyncGoal(d, s) PROVE Typed'
  <2>1. run[d][s] \in GoodRun
    BY DEF Typed
  <2>2. [run[d][s] EXCEPT !.pc = "success"] \in GoodRun
    BY <1>10, <2>1, RunStepGood DEF SyncGoal
  <2>3. run' \in [Device -> [Slot -> GoodRun]]
    BY <1>10, <2>2, NoRunGood DEF Typed, SyncGoal
  <2> QED BY <1>10, <2>3 DEF Typed, SyncGoal
<1>11. ASSUME NEW d \in Device, StartEdit(d) PROVE Typed'
  <2>1. user[d] \in Account /\ "update" \in Kind
    BY <1>11 DEF Typed, StartEdit, Kind
  <2>2. [pc |-> "reading", acct |-> user[d], docs |-> {},
         old |-> remote[user[d]]["update"]] \in GoodEdit
    BY <2>1 DEF Typed, GoodEdit, Edit
  <2>3. list' \in [Device -> [Kind -> SUBSET Entry]]
    BY <1>11, <2>1 DEF Typed, StartEdit
  <2> QED BY <1>11, <2>2, <2>3 DEF Typed, StartEdit
<1>12. ASSUME NEW d \in Device, EditRead(d) PROVE Typed'
  <2>1. edit[d] \in GoodEdit /\ edit[d].acct \in Account
    BY <1>12 DEF Typed, EditRead, GoodEdit
  <2>2. remote[edit[d].acct]["update"] \in SUBSET Entry
    BY <2>1 DEF Typed, Kind
  <2>3. [edit[d] EXCEPT !.pc = "commit", !.docs = remote[edit[d].acct]["update"]] \in GoodEdit
    BY <2>1, <2>2 DEF GoodEdit, Edit
  <2> QED BY <1>12, <2>3 DEF Typed, EditRead
<1>13. ASSUME NEW d \in Device, EditCommit(d) \/ EditFails(d) PROVE Typed'
  <2>1. edit[d] \in GoodEdit /\ edit[d].acct \in Account /\ edit[d].docs \in SUBSET Entry
    BY <1>13 DEF Typed, EditCommit, EditFails, GoodEdit, Edit
  <2>2. [edit[d] EXCEPT !.pc = "done", !.docs = {}] \in GoodEdit
    BY <2>1 DEF GoodEdit, Edit
  <2>3. edit' \in [Device -> GoodEdit]
    BY <1>13, <2>2 DEF Typed, EditCommit, EditFails
  <2>4. CASE EditCommit(d)
    BY <2>1, <2>3, <2>4, EraseTyped DEF Typed, EditCommit
  <2>5. CASE EditFails(d)
    BY <2>3, <2>5 DEF Typed, EditFails
  <2> QED BY <1>13, <2>4, <2>5
<1>14. ASSUME NEW d \in Device, EndEdit(d) PROVE Typed'
  <2>1. edit[d] \in GoodEdit /\ edit[d].acct \in Account
    BY <1>14 DEF Typed, EndEdit, GoodEdit
  <2>2. NoEdit \in GoodEdit
    BY DEF NoEdit, GoodEdit, Edit
  <2> QED BY <1>14, <2>1, <2>2 DEF Typed, EndEdit
<1>15. ASSUME NEW d \in Device, Crash(d) PROVE Typed'
  <2>1. NoEdit \in GoodEdit /\ [s \in Slot |-> NoRun] \in [Slot -> GoodRun]
    BY NoRunGood DEF NoEdit, GoodEdit, Edit
  <2>2. orphan' \in [Device -> SUBSET GoodWrite]
    BY <1>15, UnansweredGood DEF Typed, Crash
  <2> QED BY <1>15, <2>1, <2>2 DEF Typed, Crash
<1>16. ASSUME NEW d \in Device, DeliverOrphan(d) PROVE Typed'
  <2>1. PICK w \in orphan[d] :
          /\ orphan' = [orphan EXCEPT ![d] = @ \ {w}]
          /\ IF w.op = "add"
             THEN Store(w.acct, w.kind, FirstOf(w.recs)) /\ UNCHANGED gone
             ELSE Erase(w.acct, w.recs) /\ UNCHANGED docs
          /\ UNCHANGED <<session, list, run, edit, made, flags>>
    BY <1>16 DEF DeliverOrphan
  <2>2. w \in GoodWrite /\ w \in Write
    BY DEF Typed, GoodWrite
  <2>3. orphan' \in [Device -> SUBSET GoodWrite]
    BY <2>1 DEF Typed
  <2>4. CASE w.op = "add"
    <3>1. FirstOf(w.recs) \in Entry
      BY <2>2, <2>4, FirstOfIn DEF GoodWrite, Write
    <3> QED BY <2>1, <2>2, <2>3, <2>4, <3>1, StoreTyped DEF Typed, Write
  <2>5. CASE w.op # "add"
    BY <2>1, <2>2, <2>3, <2>5, EraseTyped DEF Typed, Write
  <2> QED BY <2>4, <2>5
<1>17. ASSUME NEW d \in Device, DropOrphan(d) PROVE Typed'
  BY <1>17 DEF Typed, DropOrphan
<1>18. CASE UNCHANGED vars
  BY <1>18 DEF Typed, vars
<1>19. ASSUME NEW d \in Device, LeaveUpload(d) PROVE Typed'
  BY <1>19 DEF Typed, LeaveUpload
<1> QED
  BY <1>1, <1>2, <1>3, <1>4, <1>5, <1>6, <1>7, <1>8, <1>9, <1>10, <1>11, <1>12,
     <1>13, <1>14, <1>15, <1>16, <1>17, <1>18, <1>19 DEF Next, SyncStep

\* TypeOK: every variable of RecordSync keeps its type, and a sync under way
\* knows the account it works for (the user! of upload_screen.dart).
THEOREM TypeCorrect == Spec => []TypeOK
<1>1. Typed => TypeOK
  <2> SUFFICES ASSUME Typed PROVE TypeOK
    OBVIOUS
  <2>1. \A d \in Device, s \in Slot : run[d][s].pc # "idle" => run[d][s].acct # None
    BY SyncAssumption DEF Typed, GoodRun
  <2>2. run \in [Device -> [Slot -> Run]] /\ orphan \in [Device -> SUBSET Write]
        /\ edit \in [Device -> Edit]
    BY DEF Typed, GoodRun, GoodWrite, GoodEdit
  <2> QED BY <2>1, <2>2 DEF Typed, TypeOK
<1> QED BY <1>1, TypedInit, TypedStep, PTL DEF Spec

-----------------------------------------------------------------------------
(* Layer 2.  OnlyOwnRecords is not inductive: it needs the author of every *)
(* record on its way to the cloud, in a list, a loop or an orphaned write. *)

\* Record t exists and, unless an edit mixed sessions, a created it as a k.
Made(t, a, k) == t \in 1 .. clock /\ (intact => author[t] = <<a, k>>)

FreshOwned ==
  \A d \in Device, k \in Kind : \A e \in NotUploaded(list[d][k]) :
    inside[d] /\ Made(e.ts, user[d], k)

TodoOwned ==
  \A d \in Device, s \in Slot : \A e \in run[d][s].todo :
    Made(e.ts, run[d][s].acct, run[d][s].kind)

OrphanOwned ==
  \A d \in Device : \A w \in orphan[d] :
    w.op = "add" => \A e \in w.recs : Made(e.ts, w.acct, w.kind)

RemoteOwned ==
  \A a \in Account, k \in Kind : \A e \in remote[a][k] : e.up /\ Made(e.ts, a, k)

GotUp == \A d \in Device, s \in Slot : \A e \in run[d][s].got : e.up

Owned == FreshOwned /\ TodoOwned /\ OrphanOwned /\ RemoteOwned /\ GotUp

-----------------------------------------------------------------------------
(* Layer 3.                                                                *)

\* A copy of record t is in the collection, or a copy was deleted.
Kept(t, a, k) == t \in Stamps(gone) \/ t \in Stamps(remote[a][k])

ListKept ==
  \A d \in Device, k \in Kind : \A e \in list[d][k] :
    e.up => \E a \in Account : Kept(e.ts, a, k)

\* Where the downloaded entries, and the records of the snapshot, of a sync are.
RunKept(r) ==
  /\ \A e \in r.got : r.acct \in Account /\ Kept(e.ts, r.acct, r.kind)
  /\ \A t \in r.snap :
       /\ r.pc = "adding"  => t \in Stamps(r.todo) \/ Kept(t, r.acct, r.kind)
       /\ r.pc = "added"   => \/ t \in Stamps(r.todo \ {FirstOf(r.todo)})
                              \/ Kept(t, r.acct, r.kind)
       /\ r.pc = "reading" => Kept(t, r.acct, r.kind)
       /\ r.pc = "read"    => t \in Stamps(r.got) \/ t \in Stamps(gone)

RunsKept == \A d \in Device, s \in Slot : RunKept(run[d][s])

Secured == ListKept /\ RunsKept

-----------------------------------------------------------------------------
(* Layer 2 is inductive.                                                   *)

LEMMA MadeStays ==
  ASSUME clock' = clock, author' = author, intact' => intact
  PROVE  \A t, a, k : Made(t, a, k) => Made(t, a, k)'
BY DEF Made

\* A new record does not change the author of another one.
LEMMA MadeStaysAdd ==
  ASSUME Typed, NEW d \in Device, NEW j \in Kind, AddRecord(d, j)
  PROVE  \A t, a, k : Made(t, a, k) => Made(t, a, k)'
BY SyncAssumption DEF Typed, AddRecord, Made, Stamp, flags

\* What NextSync gives a sync to upload belongs to the account it names.
LEMMA NextSyncOwned ==
  ASSUME NEW u \in Account \cup {None}, NEW lists \in [Kind -> SUBSET Entry],
         NEW left \in SUBSET Kind, NEW lost \in SUBSET Stamp,
         \A k \in Kind : \A e \in NotUploaded(lists[k]) : Made(e.ts, u, k),
         NEW r, r = NextSync(u, lists, left, lost)
  PROVE  /\ r.got = {}
         /\ \A e \in r.todo : Made(e.ts, r.acct, r.kind)
<1> DEFINE k == FirstKind(left)
<1>1. CASE u = None \/ left = {}
  BY <1>1 DEF NextSync, NoRun
<1>2. CASE u # None /\ left # {}
  <2>1. r.got = {} /\ r.acct = u /\ r.kind = k /\ r.todo = NotUploaded(lists[k])
    BY <1>2 DEF NextSync
  <2>2. k \in Kind
    BY FirstKindIn
  <2> HIDE DEF k
  <2> QED BY <2>1, <2>2
<1> QED BY <1>1, <1>2

\* Storing a record its account made keeps the collections' owners.
LEMMA StoreOwned ==
  ASSUME Typed, RemoteOwned, NEW a \in Account, NEW k \in Kind, NEW e \in Entry,
         Store(a, k, e), Made(e.ts, a, k),
         \A t, b, j : Made(t, b, j) => Made(t, b, j)'
  PROVE  RemoteOwned'
<1> DEFINE new == [ToJson(e) EXCEPT !.doc = docs + 1]
<1>1. new.up = TRUE /\ new.ts = e.ts
  BY DEF ToJson, Entry
<1>2. SUFFICES ASSUME NEW b \in Account, NEW j \in Kind, NEW f \in remote'[b][j]
               PROVE  f.up /\ Made(f.ts, b, j)'
  BY DEF RemoteOwned
<1>3. f \in remote[b][j] \/ (b = a /\ j = k /\ f = new)
  <2> HIDE DEF new
  <2>1. remote' = [remote EXCEPT ![a][k] = @ \cup {new}]
    BY DEF Store, new
  <2> QED BY <1>2, <2>1 DEF Typed
<1> QED BY <1>1, <1>3 DEF RemoteOwned

LEMMA EraseOwned ==
  ASSUME Typed, RemoteOwned, NEW a \in Account, NEW S, Erase(a, S),
         \A t, b, j : Made(t, b, j) => Made(t, b, j)'
  PROVE  RemoteOwned'
<1> SUFFICES ASSUME NEW b \in Account, NEW j \in Kind, NEW f \in remote'[b][j]
             PROVE  f.up /\ Made(f.ts, b, j)'
  BY DEF RemoteOwned
<1>1. f \in remote[b][j]
  BY DEF Typed, Erase, Kind
<1> QED BY <1>1 DEF RemoteOwned

LEMMA OwnedInit == Init => Owned
BY DEF Init, Owned, FreshOwned, TodoOwned, OrphanOwned, RemoteOwned, GotUp,
       NotUploaded, NoRun

\* intact never becomes TRUE again, and only AddRecord gives out authors.
LEMMA OthersKeepMade ==
  ASSUME Typed, [Next]_vars,
         ~ \E d \in Device, k \in Kind : AddRecord(d, k)
  PROVE  /\ \A t, a, k : Made(t, a, k) => Made(t, a, k)'
         /\ intact' => intact
<1> USE DEF made, flags
<1> DEFINE Quiet == clock' = clock /\ author' = author /\ (intact' => intact)
<1>1. ASSUME NEW d \in Device, NEW a \in Account, Login(d, a) PROVE Quiet
  BY <1>1 DEF Login
<1>2. ASSUME NEW d \in Device, Logout(d) \/ StartEdit(d) \/ EditRead(d) \/ EditCommit(d)
                                \/ EditFails(d) \/ LeaveUpload(d)
      PROVE  Quiet
  BY <1>2 DEF Logout, StartEdit, EditRead, EditCommit, EditFails, LeaveUpload
<1>3. ASSUME NEW d \in Device, EndEdit(d) PROVE Quiet
  BY <1>3 DEF Typed, EndEdit
<1>4. ASSUME NEW d \in Device, Crash(d) \/ DropOrphan(d) PROVE Quiet
  BY <1>4 DEF Crash, DropOrphan
<1>5. ASSUME NEW d \in Device, DeliverOrphan(d) PROVE Quiet
  BY <1>5 DEF DeliverOrphan
<1>6. ASSUME NEW d \in Device, NEW s \in Slot, NEW left \in SUBSET Enabled,
             StartSync(d, s, left)
      PROVE  Quiet
  BY <1>6 DEF StartSync
<1>7. ASSUME NEW d \in Device, NEW s \in Slot, SyncStep(d, s) \/ CallFails(d, s)
      PROVE  Quiet
  <2>1. CASE Deliver(d, s) \/ Added(d, s) \/ ReadCollection(d, s)
    BY <2>1 DEF Deliver, Added, ReadCollection
  <2>2. CASE Replace(d, s)
    BY <2>2 DEF Replace
  <2>3. CASE CallFails(d, s) \/ SyncGoal(d, s) \/ EndSync(d, s)
    BY <2>3 DEF CallFails, SyncGoal, EndSync
  <2> QED BY <1>7, <2>1, <2>2, <2>3 DEF SyncStep
<1>8. ASSUME UNCHANGED vars PROVE Quiet
  BY <1>8 DEF vars
<1>9. ASSUME Next PROVE Quiet
  <2>1. PICK d \in Device :
          \/ \E a \in Account : Login(d, a)
          \/ Logout(d) \/ LeaveUpload(d)
          \/ \E k \in Enabled : AddRecord(d, k)
          \/ \E s \in Slot, left \in SUBSET Enabled : StartSync(d, s, left)
          \/ \E s \in Slot : SyncStep(d, s) \/ CallFails(d, s)
          \/ StartEdit(d) \/ EditRead(d) \/ EditCommit(d) \/ EditFails(d)
          \/ EndEdit(d) \/ Crash(d) \/ DeliverOrphan(d) \/ DropOrphan(d)
    BY <1>9 DEF Next
  <2>2. \A k \in Enabled : ~ AddRecord(d, k)
    BY SyncAssumption
  <2> HIDE DEF Quiet
  <2> QED BY <2>1, <2>2, <1>1, <1>2, <1>3, <1>4, <1>5, <1>6, <1>7
<1>10. Quiet
  BY <1>8, <1>9
<1>11. \A t, a, k : Made(t, a, k) => Made(t, a, k)'
  BY <1>10 DEF Made
<1> QED BY <1>10, <1>11

\* A run that changes to r keeps the runs' part of the invariant if r does.
LEMMA RunOwned ==
  ASSUME Typed, Owned, NEW d \in Device, NEW s \in Slot, NEW r,
         run' = [run EXCEPT ![d][s] = r],
         \A t, a, k : Made(t, a, k) => Made(t, a, k)',
         \A e \in r.todo : Made(e.ts, r.acct, r.kind),
         \A e \in r.got : e.up
  PROVE  TodoOwned' /\ GotUp'
<1>1. ASSUME NEW c \in Device, NEW t \in Slot
      PROVE  run'[c][t] = r \/ run'[c][t] = run[c][t]
  BY DEF Typed
<1>2. ASSUME NEW c \in Device, NEW t \in Slot, NEW e \in run'[c][t].todo
      PROVE  Made(e.ts, run[c][t].acct, run[c][t].kind)'
  <2>1. Made(e.ts, run'[c][t].acct, run'[c][t].kind)
    BY <1>1, <1>2 DEF Owned, TodoOwned
  <2>2. \A a, k : Made(e.ts, a, k) => Made(e.ts, a, k)'
    OBVIOUS
  <2> QED BY ONLY <2>1, <2>2 DEF Made
<1>3. ASSUME NEW c \in Device, NEW t \in Slot, NEW e \in run'[c][t].got
      PROVE  e.up
  BY <1>1, <1>3 DEF Owned, GotUp
<1>4. TodoOwned'
  BY <1>2 DEF TodoOwned
<1>5. GotUp'
  BY <1>3 DEF GotUp
<1> QED BY <1>4, <1>5

\* Lists whose entries not yet uploaded were there before, in the same session.
LEMMA FreshStays ==
  ASSUME Owned,
         \A t, a, k : Made(t, a, k) => Made(t, a, k)',
         \A d \in Device, k \in Kind :
           /\ NotUploaded(list'[d][k]) \subseteq NotUploaded(list[d][k])
           /\ NotUploaded(list'[d][k]) # {} => user'[d] = user[d] /\ inside'[d] = inside[d]
  PROVE  FreshOwned'
<1> SUFFICES ASSUME NEW d \in Device, NEW k \in Kind, NEW e \in NotUploaded(list'[d][k])
             PROVE  inside'[d] /\ Made(e.ts, user[d], k)'
  BY DEF FreshOwned, NotUploaded
<1>1. inside[d] /\ Made(e.ts, user[d], k) /\ user'[d] = user[d] /\ inside'[d] = inside[d]
  BY DEF Owned, FreshOwned
<1> QED BY <1>1 DEF Made

LEMMA OtherPartsStay ==
  ASSUME Owned, \A t, a, k : Made(t, a, k) => Made(t, a, k)'
  PROVE  /\ UNCHANGED run => TodoOwned' /\ GotUp'
         /\ UNCHANGED remote => RemoteOwned'
         /\ UNCHANGED orphan => OrphanOwned'
         /\ UNCHANGED <<list, user, inside>> => FreshOwned'
<1>1. UNCHANGED run => TodoOwned' /\ GotUp'
  BY DEF Owned, TodoOwned, GotUp
<1>2. UNCHANGED remote => RemoteOwned'
  BY DEF Owned, RemoteOwned
<1>3. UNCHANGED orphan => OrphanOwned'
  BY DEF Owned, OrphanOwned
<1>4. UNCHANGED <<list, user, inside>> => FreshOwned'
  BY FreshStays
<1> QED BY <1>1, <1>2, <1>3, <1>4

LEMMA OwnedAdd ==
  ASSUME Typed, Owned, NEW d \in Device, NEW k \in Kind, AddRecord(d, k)
  PROVE  Owned'
<1> USE DEF session, cloud, made, flags
<1>1. \A t, a, j : Made(t, a, j) => Made(t, a, j)'
  BY MadeStaysAdd
<1>2. UNCHANGED <<run, remote, orphan, user, inside>>
  BY DEF AddRecord
<1>3. TodoOwned' /\ GotUp' /\ RemoteOwned' /\ OrphanOwned'
  BY <1>1, <1>2, OtherPartsStay
<1>4. ASSUME NEW c \in Device, NEW j \in Kind, NEW e \in NotUploaded(list'[c][j])
      PROVE  inside'[c] /\ Made(e.ts, user[c], j)'
  <2>1. CASE e \in NotUploaded(list[c][j])
    <3>1. inside[c] /\ Made(e.ts, user[c], j)
      BY <2>1 DEF Owned, FreshOwned
    <3> QED BY <1>1, <1>2, <3>1 DEF Made
  <2>2. CASE e \notin NotUploaded(list[c][j])
    <3>1. c = d /\ j = k /\ e = NewRecord(clock + 1)
      BY <1>4, <2>2 DEF AddRecord, NotUploaded, Typed
    <3>2. e.ts = clock + 1 /\ clock + 1 \in Stamp /\ clock' = clock + 1
      BY <3>1, SyncAssumption DEF NewRecord, AddRecord, Typed, Stamp
    <3>3. author'[clock + 1] = <<user[d], k>> /\ inside'[d] /\ user' = user
      BY <3>2 DEF AddRecord, Typed
    <3>4. e.ts \in 1 .. clock'
      BY <3>2, SyncAssumption DEF Typed, Stamp
    <3> QED BY <3>1, <3>2, <3>3, <3>4 DEF Made
  <2> QED BY <2>1, <2>2
<1>5. FreshOwned'
  BY <1>4 DEF FreshOwned, NotUploaded
<1> QED BY <1>3, <1>5 DEF Owned

LEMMA OwnedStep == Typed /\ Owned /\ [Next]_vars => Owned'
<1> SUFFICES ASSUME Typed, Owned, [Next]_vars PROVE Owned'
  OBVIOUS
<1> USE DEF session, cloud, made, flags
<1>1. CASE \E d \in Device, k \in Kind : AddRecord(d, k)
  BY <1>1, OwnedAdd
<1>2. CASE ~ \E d \in Device, k \in Kind : AddRecord(d, k)
  <2>0. /\ \A t, a, k : Made(t, a, k) => Made(t, a, k)'
        /\ intact' => intact
    BY <1>2, OthersKeepMade
  <2> USE <2>0
  <2>1. ASSUME NEW d \in Device, NEW a \in Account, Login(d, a) PROVE Owned'
    <3>1. \A c \in Device, k \in Kind :
            /\ NotUploaded(list'[c][k]) \subseteq NotUploaded(list[c][k])
            /\ NotUploaded(list'[c][k]) # {} => user'[c] = user[c] /\ inside'[c] = inside[c]
      BY <2>1 DEF Login, Typed, Owned, FreshOwned
    <3> QED BY <2>1, <3>1, FreshStays, OtherPartsStay DEF Login, Owned
  <2>2. ASSUME NEW d \in Device, Logout(d) PROVE Owned'
    <3>1. \A c \in Device, k \in Kind :
            /\ NotUploaded(list'[c][k]) \subseteq NotUploaded(list[c][k])
            /\ NotUploaded(list'[c][k]) # {} => user'[c] = user[c] /\ inside'[c] = inside[c]
      BY <2>2 DEF Logout, Typed, NotUploaded
    <3> QED BY <2>2, <3>1, FreshStays, OtherPartsStay DEF Logout, Owned
  <2>3. ASSUME NEW d \in Device, StartEdit(d) PROVE Owned'
    <3>1. \A c \in Device, k \in Kind :
            /\ NotUploaded(list'[c][k]) \subseteq NotUploaded(list[c][k])
            /\ NotUploaded(list'[c][k]) # {} => user'[c] = user[c] /\ inside'[c] = inside[c]
      BY <2>3 DEF StartEdit, Typed, NotUploaded
    <3> QED BY <2>3, <3>1, FreshStays, OtherPartsStay DEF StartEdit, Owned
  <2>4. ASSUME NEW d \in Device, EditRead(d) \/ EditFails(d) PROVE Owned'
    BY <2>4, OtherPartsStay DEF EditRead, EditFails, Owned
  <2>5. ASSUME NEW d \in Device, EditCommit(d) PROVE Owned'
    <3>1. Erase(edit[d].acct, edit[d].docs) /\ edit[d].acct \in Account
      BY <2>5 DEF EditCommit, Typed, GoodEdit
    <3>2. RemoteOwned'
      BY <3>1, EraseOwned DEF Owned
    <3> QED BY <2>5, <3>2, OtherPartsStay DEF EditCommit, Owned
  <2>6. ASSUME NEW d \in Device, EndEdit(d) PROVE Owned'
    <3>1. FreshOwned'
      <4> SUFFICES ASSUME NEW c \in Device, NEW k \in Kind, NEW e \in NotUploaded(list'[c][k])
                   PROVE  inside'[c] /\ Made(e.ts, user[c], k)'
        BY DEF FreshOwned, NotUploaded
      <4>1. inside[c] /\ Made(e.ts, user[c], k)
        BY <2>6 DEF Owned, FreshOwned, EndEdit
      <4>2. inside'[c] /\ (intact' => user'[c] = user[c])
        BY <2>6, <4>1 DEF EndEdit, Typed
      <4> QED BY <2>6, <4>1, <4>2 DEF Made, EndEdit
    <3> QED BY <2>6, <3>1, OtherPartsStay DEF EndEdit, Owned
  <2>7. ASSUME NEW d \in Device, NEW s \in Slot, NEW left \in SUBSET Enabled,
               StartSync(d, s, left)
        PROVE  Owned'
    <3> DEFINE r == NextSync(user[d], list[d], left, {})
    <3>1. r.got = {} /\ \A e \in r.todo : Made(e.ts, r.acct, r.kind)
      <4>1. \A k \in Kind : \A e \in NotUploaded(list[d][k]) : Made(e.ts, user[d], k)
        BY DEF Owned, FreshOwned
      <4>2. left \in SUBSET Kind /\ {} \in SUBSET Stamp
            /\ user[d] \in Account \cup {None} /\ list[d] \in [Kind -> SUBSET Entry]
        BY SyncAssumption DEF Typed
      <4> QED BY <4>1, <4>2, NextSyncOwned
    <3>2. run' = [run EXCEPT ![d][s] = r]
      BY <2>7 DEF StartSync
    <3>3. TodoOwned' /\ GotUp'
      <4> HIDE DEF r
      <4> QED BY <3>1, <3>2, RunOwned
    <3> QED BY <2>7, <3>3, OtherPartsStay DEF StartSync, Owned
  <2>8. ASSUME NEW d \in Device, NEW s \in Slot, Deliver(d, s) PROVE Owned'
    <3> DEFINE r == run[d][s]
               e == FirstOf(r.todo)
    <3>1. r \in GoodRun /\ r.pc = "adding"
      BY <2>8 DEF Typed, Deliver
    <3>2. r.acct \in Account /\ r.kind \in Kind /\ e \in r.todo /\ e \in Entry
      BY <3>1, FirstOfIn DEF GoodRun, Run
    <3>3. Store(r.acct, r.kind, e) /\ Made(e.ts, r.acct, r.kind)
      BY <2>8, <3>2 DEF Deliver, Owned, TodoOwned
    <3>4. RemoteOwned'
      <4> HIDE DEF e, r
      <4> QED BY <3>2, <3>3, StoreOwned DEF Owned
    <3>5. TodoOwned' /\ GotUp'
      <4>1. run' = [run EXCEPT ![d][s] = [r EXCEPT !.pc = "added"]]
        BY <2>8 DEF Deliver
      <4>2. \A f \in r.todo : Made(f.ts, r.acct, r.kind)
        BY DEF Owned, TodoOwned
      <4>3. \A f \in r.got : f.up
        BY DEF Owned, GotUp
      <4> DEFINE q == [r EXCEPT !.pc = "added"]
      <4>4. q.todo = r.todo /\ q.acct = r.acct /\ q.kind = r.kind /\ q.got = r.got
        BY <3>1 DEF GoodRun, Run
      <4> HIDE DEF r, q
      <4>5. run' = [run EXCEPT ![d][s] = q]
        BY <4>1 DEF q
      <4> QED BY <4>2, <4>3, <4>4, <4>5, RunOwned
    <3> QED BY <2>8, <3>4, <3>5, OtherPartsStay DEF Deliver, Owned
  <2>9. ASSUME NEW d \in Device, NEW s \in Slot, Added(d, s) PROVE Owned'
    <3> DEFINE r    == run[d][s]
               rest == r.todo \ {FirstOf(r.todo)}
               q    == [r EXCEPT !.todo = rest,
                                 !.pc = IF rest = {} THEN "reading" ELSE "adding"]
    <3>1. r \in GoodRun
      BY DEF Typed
    <3>2. q.todo \subseteq r.todo /\ q.acct = r.acct /\ q.kind = r.kind /\ q.got = r.got
      BY <3>1 DEF GoodRun, Run
    <3>3. /\ \A f \in r.todo : Made(f.ts, r.acct, r.kind)
          /\ \A f \in r.got : f.up
      BY DEF Owned, TodoOwned, GotUp
    <3>4. run' = [run EXCEPT ![d][s] = q]
      BY <2>9 DEF Added
    <3>5. TodoOwned' /\ GotUp'
      <4> HIDE DEF q
      <4>1. \A f \in q.todo : Made(f.ts, q.acct, q.kind)
        BY <3>2, <3>3
      <4> QED BY <3>2, <3>3, <3>4, <4>1, RunOwned
    <3> QED BY <2>9, <3>5, OtherPartsStay DEF Added, Owned
  <2>10. ASSUME NEW d \in Device, NEW s \in Slot, ReadCollection(d, s) PROVE Owned'
    <3> DEFINE r == run[d][s]
               q == [r EXCEPT !.pc = "read", !.got = remote[r.acct][r.kind]]
    <3>1. r \in GoodRun /\ r.acct \in Account /\ r.kind \in Kind
      BY <2>10 DEF Typed, ReadCollection, GoodRun, Run
    <3>2. q.todo = r.todo /\ q.acct = r.acct /\ q.kind = r.kind
          /\ q.got = remote[r.acct][r.kind]
      BY <3>1 DEF GoodRun, Run
    <3>3. /\ \A f \in r.todo : Made(f.ts, r.acct, r.kind)
          /\ \A f \in remote[r.acct][r.kind] : f.up
      BY <3>1 DEF Owned, TodoOwned, RemoteOwned
    <3>4. run' = [run EXCEPT ![d][s] = q]
      BY <2>10 DEF ReadCollection
    <3>5. TodoOwned' /\ GotUp'
      <4> HIDE DEF q
      <4>1. /\ \A f \in q.todo : Made(f.ts, q.acct, q.kind)
            /\ \A f \in q.got : f.up
        BY <3>2, <3>3
      <4> QED BY <3>4, <4>1, RunOwned
    <3> QED BY <2>10, <3>5, OtherPartsStay DEF ReadCollection, Owned
  <2>11. ASSUME NEW d \in Device, NEW s \in Slot, Replace(d, s) PROVE Owned'
    <3> DEFINE r       == run[d][s]
               new     == {FromJson(doc) : doc \in r.got}
               lists   == [list[d] EXCEPT ![r.kind] = new]
               dropped == Stamps(NotUploaded(list[d][r.kind])) \ Stamps(new)
               q       == NextSync(user[d], lists, r.left, r.lost \cup dropped)
    <3>1. r \in Run
      BY DEF Typed, GoodRun
    <3>2. new \in SUBSET Entry /\ \A e \in new : e.up
      BY <3>1, EntryOps DEF Run, Owned, GotUp
    <3>3. lists \in [Kind -> SUBSET Entry]
      BY <3>1, <3>2 DEF Typed
    <3>4. r.lost \cup dropped \in SUBSET Stamp
      <4>1. list[d][r.kind] \in SUBSET Entry
        BY <3>1 DEF Typed, Run
      <4>2. dropped \in SUBSET Stamp
        BY <4>1, EntryOps
      <4> QED BY <3>1, <4>2 DEF Run
    <3>5. \A k \in Kind : NotUploaded(lists[k]) \subseteq NotUploaded(list[d][k])
      <4> HIDE DEF new
      <4> QED BY <3>1, <3>2 DEF NotUploaded, Typed
    <3>6. \A k \in Kind : \A e \in NotUploaded(lists[k]) : Made(e.ts, user[d], k)
      <4> HIDE DEF lists
      <4> QED BY <3>5 DEF Owned, FreshOwned
    <3>7. /\ \A e \in q.todo : Made(e.ts, q.acct, q.kind)
          /\ q.got = {}
      <4>1. user[d] \in Account \cup {None} /\ r.left \in SUBSET Kind
        BY <3>1 DEF Typed, Run
      <4> HIDE DEF lists, dropped, r
      <4> QED BY <3>3, <3>4, <3>6, <4>1, NextSyncOwned
    <3>8. run' = [run EXCEPT ![d][s] = q] /\ list' = [list EXCEPT ![d] = lists]
      BY <2>11 DEF Replace
    <3>9. TodoOwned' /\ GotUp'
      <4> HIDE DEF q
      <4> QED BY <3>7, <3>8, RunOwned
    <3>10. FreshOwned'
      <4> HIDE DEF lists, q
      <4>1. \A c \in Device, k \in Kind :
              NotUploaded(list'[c][k]) \subseteq NotUploaded(list[c][k])
        BY <3>5, <3>8 DEF Typed
      <4> QED BY <2>11, <4>1, FreshStays DEF Replace
    <3> QED BY <2>11, <3>9, <3>10, OtherPartsStay DEF Replace, Owned
  <2>12. ASSUME NEW d \in Device, NEW s \in Slot, CallFails(d, s) \/ EndSync(d, s)
         PROVE  Owned'
    <3>1. run' = [run EXCEPT ![d][s] = NoRun] /\ NoRun.todo = {} /\ NoRun.got = {}
      BY <2>12 DEF CallFails, EndSync, NoRun
    <3>2. TodoOwned' /\ GotUp'
      BY <3>1, RunOwned
    <3> QED BY <2>12, <3>2, OtherPartsStay DEF CallFails, EndSync, Owned
  <2>13. ASSUME NEW d \in Device, NEW s \in Slot, SyncGoal(d, s) PROVE Owned'
    <3> DEFINE r == run[d][s]
               q == IF s \in shown[d] THEN [r EXCEPT !.pc = "success"] ELSE NoRun
    <3>1. r \in GoodRun
      BY DEF Typed
    <3>2. \/ q.todo = r.todo /\ q.acct = r.acct /\ q.kind = r.kind /\ q.got = r.got
          \/ q.todo = {} /\ q.got = {}
      BY <3>1 DEF GoodRun, Run, NoRun
    <3>3. /\ \A f \in r.todo : Made(f.ts, r.acct, r.kind)
          /\ \A f \in r.got : f.up
      BY DEF Owned, TodoOwned, GotUp
    <3>4. run' = [run EXCEPT ![d][s] = q]
      BY <2>13 DEF SyncGoal
    <3>5. TodoOwned' /\ GotUp'
      <4> HIDE DEF q
      <4> QED BY <3>2, <3>3, <3>4, RunOwned
    <3> QED BY <2>13, <3>5, OtherPartsStay DEF SyncGoal, Owned
  <2>14. ASSUME NEW d \in Device, Crash(d) PROVE Owned'
    <3>1. \A c \in Device, k \in Kind :
            /\ NotUploaded(list'[c][k]) \subseteq NotUploaded(list[c][k])
            /\ NotUploaded(list'[c][k]) # {} => user'[c] = user[c] /\ inside'[c] = inside[c]
      BY <2>14, SyncAssumption DEF Crash, Typed, Owned, FreshOwned
    <3>2. TodoOwned' /\ GotUp'
      <4>1. ASSUME NEW c \in Device, NEW s \in Slot
            PROVE  run'[c][s] = run[c][s] \/ (run'[c][s].todo = {} /\ run'[c][s].got = {})
        BY <2>14 DEF Crash, Typed, NoRun
      <4>2. TodoOwned'
        <5> SUFFICES ASSUME NEW c \in Device, NEW s \in Slot, NEW e \in run'[c][s].todo
                     PROVE  Made(e.ts, run[c][s].acct, run[c][s].kind)'
          BY DEF TodoOwned
        <5>1. run'[c][s] = run[c][s] /\ Made(e.ts, run[c][s].acct, run[c][s].kind)
          BY <4>1 DEF Owned, TodoOwned
        <5> QED BY <5>1 DEF Made
      <4>3. GotUp'
        BY <4>1 DEF Owned, GotUp
      <4> QED BY <4>2, <4>3
    <3>3. OrphanOwned'
      <4> SUFFICES ASSUME NEW c \in Device, NEW w \in orphan'[c], w.op = "add", NEW e \in w.recs
                   PROVE  Made(e.ts, w.acct, w.kind)'
        BY DEF OrphanOwned
      <4>1. CASE w \in orphan[c]
        BY <4>1 DEF Owned, OrphanOwned
      <4>2. CASE w \notin orphan[c]
        <5>1. c = d /\ w \in Unanswered(d)
          BY <2>14, <4>2 DEF Crash, Typed
        <5>2. PICK s \in Slot :
                run[d][s].pc = "adding" /\
                w = [op |-> "add", acct |-> run[d][s].acct, kind |-> run[d][s].kind,
                     recs |-> {FirstOf(run[d][s].todo)}]
          BY <5>1 DEF Unanswered
        <5>3. FirstOf(run[d][s].todo) \in run[d][s].todo
          <6>1. run[d][s] \in GoodRun
            BY DEF Typed
          <6> QED BY <5>2, <6>1, FirstOfIn DEF GoodRun, Run
        <5>4. Made(e.ts, w.acct, w.kind)
          BY <5>2, <5>3 DEF Owned, TodoOwned
        <5> QED BY <5>4
      <4> QED BY <4>1, <4>2
    <3> QED BY <2>14, <3>1, <3>2, <3>3, FreshStays, OtherPartsStay DEF Crash, Owned
  <2>15. ASSUME NEW d \in Device, DeliverOrphan(d) PROVE Owned'
    <3>1. PICK w \in orphan[d] :
            /\ orphan' = [orphan EXCEPT ![d] = @ \ {w}]
            /\ IF w.op = "add"
               THEN Store(w.acct, w.kind, FirstOf(w.recs)) /\ UNCHANGED gone
               ELSE Erase(w.acct, w.recs) /\ UNCHANGED docs
            /\ UNCHANGED <<session, list, run, edit, made, flags>>
      BY <2>15 DEF DeliverOrphan
    <3>2. w \in GoodWrite /\ w.acct \in Account /\ w.kind \in Kind /\ w.recs \in SUBSET Entry
      BY DEF Typed, GoodWrite, Write
    <3>3. RemoteOwned'
      <4>1. CASE w.op = "add"
        <5>1. FirstOf(w.recs) \in w.recs /\ FirstOf(w.recs) \in Entry
          BY <3>2, <4>1, FirstOfIn DEF GoodWrite
        <5>2. Made(FirstOf(w.recs).ts, w.acct, w.kind)
          BY <4>1, <5>1 DEF Owned, OrphanOwned
        <5> QED BY <3>1, <3>2, <4>1, <5>1, <5>2, StoreOwned DEF Owned
      <4>2. CASE w.op # "add"
        BY <3>1, <3>2, <4>2, EraseOwned DEF Owned
      <4> QED BY <4>1, <4>2
    <3>4. OrphanOwned'
      <4>1. \A c \in Device : orphan'[c] \subseteq orphan[c]
        BY <3>1 DEF Typed
      <4> QED BY <4>1 DEF Owned, OrphanOwned
    <3> QED BY <3>1, <3>3, <3>4, OtherPartsStay DEF Owned
  <2>16. ASSUME NEW d \in Device, DropOrphan(d) PROVE Owned'
    <3>1. \A c \in Device : orphan'[c] \subseteq orphan[c]
      BY <2>16 DEF DropOrphan, Typed
    <3>2. OrphanOwned'
      BY <3>1 DEF Owned, OrphanOwned
    <3> QED BY <2>16, <3>2, OtherPartsStay DEF DropOrphan, Owned
  <2>17. ASSUME UNCHANGED vars PROVE Owned'
    BY <2>17, OtherPartsStay DEF vars, Owned
  <2>19. ASSUME NEW d \in Device, LeaveUpload(d) PROVE Owned'
    BY <2>19, OtherPartsStay DEF LeaveUpload, Owned
  <2>18. \A d \in Device, k \in Enabled : ~ AddRecord(d, k)
    BY <1>2, SyncAssumption
  <2> QED
    BY <2>1, <2>2, <2>3, <2>4, <2>5, <2>6, <2>7, <2>8, <2>9, <2>10, <2>11, <2>12,
       <2>13, <2>14, <2>15, <2>16, <2>17, <2>18, <2>19 DEF Next, SyncStep
<1> QED BY <1>1, <1>2

\* OnlyOwnRecords: whatever sessions, crashes and orphaned writes interleave
\* with the syncs, no collection gets a record another account made.
THEOREM RecordsStayWithTheirOwner == Spec => []OnlyOwnRecords
<1>1. Owned => OnlyOwnRecords
  BY DEF Owned, RemoteOwned, Made, OnlyOwnRecords
<1> QED BY <1>1, TypedInit, TypedStep, OwnedInit, OwnedStep, PTL DEF Spec

-----------------------------------------------------------------------------
(* Layer 3 is inductive.                                                   *)

\* No step takes away a copy without noting that it was deleted.
NothingVanishes ==
  /\ gone \subseteq gone'
  /\ \A a \in Account, k \in Kind : \A e \in remote[a][k] :
       e \in remote'[a][k] \/ e \in gone'

LEMMA KeptStays ==
  ASSUME NothingVanishes, NEW t, NEW a \in Account, NEW k \in Kind, Kept(t, a, k)
  PROVE  Kept(t, a, k)'
BY DEF Kept, Stamps, NothingVanishes

LEMMA RunKeptStays ==
  ASSUME NothingVanishes, NEW r \in GoodRun, RunKept(r)
  PROVE  RunKept(r)'
<1>1. r.kind \in Kind /\ (r.pc # "idle" => r.acct \in Account)
  BY DEF GoodRun, Run
<1>2. r.acct \in Account => \A t : Kept(t, r.acct, r.kind) => Kept(t, r.acct, r.kind)'
  BY <1>1, KeptStays
<1>3. \A t : t \in Stamps(gone) => t \in Stamps(gone')
  BY DEF NothingVanishes, Stamps
<1>4. \A e \in r.got : r.acct \in Account /\ Kept(e.ts, r.acct, r.kind)'
  BY <1>2 DEF RunKept
<1>5. ASSUME NEW t \in r.snap
      PROVE  /\ r.pc = "adding"  => t \in Stamps(r.todo) \/ Kept(t, r.acct, r.kind)'
             /\ r.pc = "added"   => \/ t \in Stamps(r.todo \ {FirstOf(r.todo)})
                                    \/ Kept(t, r.acct, r.kind)'
             /\ r.pc = "reading" => Kept(t, r.acct, r.kind)'
             /\ r.pc = "read"    => t \in Stamps(r.got) \/ t \in Stamps(gone')
  BY <1>1, <1>2, <1>3, <1>5 DEF RunKept
<1> QED BY <1>4, <1>5 DEF RunKept

\* A sync function begins with a snapshot of exactly what it will upload.
LEMMA NextSyncKept ==
  ASSUME NEW u, NEW lists, NEW left, NEW lost, NEW r, r = NextSync(u, lists, left, lost)
  PROVE  /\ RunKept(r)
         /\ r.pc \in {"idle", "goal", "adding", "reading"}
<1>1. CASE u = None \/ left = {}
  BY <1>1 DEF NextSync, NoRun, RunKept
<1>2. CASE u # None /\ left # {}
  <2> DEFINE fresh == NotUploaded(lists[FirstKind(left)])
  <2>1. /\ r.got = {} /\ r.todo = fresh /\ r.snap = Stamps(fresh)
        /\ r.pc = IF fresh = {} THEN "reading" ELSE "adding"
    BY <1>2 DEF NextSync
  <2>2. fresh = {} => r.snap = {}
    BY <2>1 DEF Stamps
  <2> HIDE DEF fresh
  <2> QED BY <2>1, <2>2 DEF RunKept
<1> QED BY <1>1, <1>2

LEMMA StoreKeeps ==
  ASSUME Typed, NEW a \in Account, NEW k \in Kind, NEW e \in Entry, Store(a, k, e),
         UNCHANGED gone
  PROVE  NothingVanishes /\ Kept(e.ts, a, k)'
<1> DEFINE new == [ToJson(e) EXCEPT !.doc = docs + 1]
<1>1. new.ts = e.ts
  BY DEF ToJson, Entry
<1>2. remote' = [remote EXCEPT ![a][k] = @ \cup {new}]
  BY DEF Store
<1> HIDE DEF new
<1>3. NothingVanishes /\ new \in remote'[a][k]
  BY <1>2 DEF Typed, NothingVanishes
<1> QED BY <1>1, <1>3 DEF Kept, Stamps

LEMMA EraseKeeps ==
  ASSUME Typed, NEW a \in Account, NEW S, Erase(a, S)
  PROVE  NothingVanishes
BY DEF Typed, Erase, NothingVanishes, Kind

\* A run that changes to r.
LEMMA RunSecured ==
  ASSUME Typed, RunsKept, NothingVanishes, NEW d \in Device, NEW s \in Slot, NEW r,
         run' = [run EXCEPT ![d][s] = r], RunKept(r)'
  PROVE  RunsKept'
<1> SUFFICES ASSUME NEW c \in Device, NEW t \in Slot PROVE RunKept(run[c][t])'
  BY DEF RunsKept
<1>1. CASE c = d /\ t = s
  <2>1. run'[c][t] = r
    BY <1>1 DEF Typed
  <2> QED BY <2>1 DEF RunKept, Kept
<1>2. CASE ~ (c = d /\ t = s)
  <2>1. run'[c][t] = run[c][t] /\ run[c][t] \in GoodRun
    BY <1>2 DEF Typed
  <2>2. RunKept(run[c][t])
    BY DEF RunsKept
  <2> QED BY <2>1, <2>2, RunKeptStays DEF RunKept, Kept
<1> QED BY <1>1, <1>2

\* Lists whose uploaded entries were there before.
LEMMA ListSecured ==
  ASSUME ListKept, NothingVanishes,
         \A d \in Device, k \in Kind : \A e \in list'[d][k] : e.up => e \in list[d][k]
  PROVE  ListKept'
<1> SUFFICES ASSUME NEW d \in Device, NEW k \in Kind, NEW e \in list'[d][k], e.up
             PROVE  \E a \in Account : Kept(e.ts, a, k)'
  BY DEF ListKept
<1>1. PICK a \in Account : Kept(e.ts, a, k)
  BY DEF ListKept
<1> QED BY <1>1, KeptStays

LEMMA RunsSecured ==
  ASSUME Typed, RunsKept, NothingVanishes, UNCHANGED run
  PROVE  RunsKept'
<1> SUFFICES ASSUME NEW d \in Device, NEW s \in Slot PROVE RunKept(run[d][s])'
  BY DEF RunsKept
<1>1. run[d][s] \in GoodRun /\ RunKept(run[d][s]) /\ run'[d][s] = run[d][s]
  BY DEF Typed, RunsKept
<1> QED BY <1>1, RunKeptStays DEF RunKept, Kept

LEMMA SecuredInit == Init => Secured
BY DEF Init, Secured, ListKept, RunsKept, RunKept, NoRun

LEMMA SecuredStep == Typed /\ Secured /\ [Next]_vars => Secured'
<1> SUFFICES ASSUME Typed, ListKept, RunsKept, [Next]_vars PROVE ListKept' /\ RunsKept'
  BY DEF Secured
<1> USE DEF session, cloud, made, flags
<1>0. UNCHANGED <<remote, gone>> => NothingVanishes
  BY DEF NothingVanishes
<1>1. ASSUME NEW d \in Device, NEW a \in Account, Login(d, a) PROVE ListKept' /\ RunsKept'
  <2>1. NothingVanishes /\ UNCHANGED <<run, list>>
    BY <1>0, <1>1 DEF Login
  <2> QED BY <2>1, ListSecured, RunsSecured
<1>2. ASSUME NEW d \in Device, Logout(d) \/ StartEdit(d) PROVE ListKept' /\ RunsKept'
  <2>1. NothingVanishes /\ UNCHANGED run
    BY <1>0, <1>2 DEF Logout, StartEdit
  <2>2. \A c \in Device, k \in Kind : list'[c][k] \subseteq list[c][k]
    <3>1. CASE Logout(d)
      BY <3>1 DEF Logout, Typed
    <3>2. CASE StartEdit(d)
      BY <3>2 DEF StartEdit, Typed
    <3> QED BY <1>2, <3>1, <3>2
  <2> QED BY <2>1, <2>2, ListSecured, RunsSecured
<1>3. ASSUME NEW d \in Device, NEW k \in Enabled, AddRecord(d, k)
      PROVE  ListKept' /\ RunsKept'
  <2>1. NothingVanishes /\ UNCHANGED run
    BY <1>0, <1>3 DEF AddRecord
  <2>2. \A c \in Device, j \in Kind : \A e \in list'[c][j] : e.up => e \in list[c][j]
    <3>1. ~ NewRecord(clock + 1).up
      BY DEF NewRecord
    <3> QED BY <1>3, <3>1 DEF AddRecord, Typed
  <2> QED BY <2>1, <2>2, ListSecured, RunsSecured
<1>4. ASSUME NEW d \in Device, NEW s \in Slot, NEW left \in SUBSET Enabled,
             StartSync(d, s, left)
      PROVE  ListKept' /\ RunsKept'
  <2>1. PICK q : q = NextSync(user[d], list[d], left, {})
    OBVIOUS
  <2>2. NothingVanishes /\ UNCHANGED <<list, remote, gone>> /\ run' = [run EXCEPT ![d][s] = q]
    BY <1>0, <1>4, <2>1 DEF StartSync
  <2>3. RunKept(q)
    BY <2>1, NextSyncKept
  <2>4. RunKept(q)'
    BY <2>2, <2>3 DEF RunKept, Kept
  <2> QED BY <2>2, <2>4, ListSecured, RunSecured
<1>5. ASSUME NEW d \in Device, NEW s \in Slot, Deliver(d, s) PROVE ListKept' /\ RunsKept'
  <2>1. PICK r : r = run[d][s]
    OBVIOUS
  <2>2. PICK e : e = FirstOf(r.todo)
    OBVIOUS
  <2>3. PICK q : q = [r EXCEPT !.pc = "added"]
    OBVIOUS
  <2>4. r \in GoodRun /\ r.pc = "adding" /\ RunKept(r)
    BY <1>5, <2>1 DEF Typed, Deliver, RunsKept
  <2>5. r.acct \in Account /\ r.kind \in Kind /\ e \in r.todo /\ e \in Entry
    BY <2>2, <2>4, FirstOfIn DEF GoodRun, Run
  <2>6. /\ Store(r.acct, r.kind, e) /\ UNCHANGED <<gone, list>>
        /\ run' = [run EXCEPT ![d][s] = q]
    BY <1>5, <2>1, <2>2, <2>3 DEF Deliver
  <2>7. NothingVanishes /\ Kept(e.ts, r.acct, r.kind)'
    BY <2>5, <2>6, StoreKeeps
  <2>8. RunKept(q)'
    <3>1. /\ q.pc = "added" /\ q.acct = r.acct /\ q.kind = r.kind /\ q.got = r.got
          /\ q.todo = r.todo /\ q.snap = r.snap
      BY <2>3, <2>4 DEF GoodRun, Run
    <3>2. \A f \in q.got : q.acct \in Account /\ Kept(f.ts, q.acct, q.kind)'
      BY <2>4, <2>5, <2>7, <3>1, KeptStays DEF RunKept
    <3>3. ASSUME NEW t \in q.snap
          PROVE  t \in Stamps(q.todo \ {FirstOf(q.todo)}) \/ Kept(t, q.acct, q.kind)'
      <4>1. CASE Kept(t, r.acct, r.kind)
        BY <2>5, <2>7, <3>1, <4>1, KeptStays
      <4>2. CASE t \in Stamps(r.todo)
        BY <2>2, <2>7, <3>1, <4>2 DEF Stamps
      <4> QED BY <2>4, <3>1, <4>1, <4>2 DEF RunKept
    <3> QED BY <3>1, <3>2, <3>3 DEF RunKept
  <2> QED BY <2>6, <2>7, <2>8, ListSecured, RunSecured
<1>6. ASSUME NEW d \in Device, NEW s \in Slot, Added(d, s) PROVE ListKept' /\ RunsKept'
  <2>1. PICK r : r = run[d][s]
    OBVIOUS
  <2>2. PICK rest : rest = r.todo \ {FirstOf(r.todo)}
    OBVIOUS
  <2>3. PICK q : q = [r EXCEPT !.todo = rest,
                               !.pc = IF rest = {} THEN "reading" ELSE "adding"]
    OBVIOUS
  <2>4. r \in GoodRun /\ r.pc = "added" /\ RunKept(r)
    BY <1>6, <2>1 DEF Typed, Added, RunsKept
  <2>5. UNCHANGED <<remote, gone, list>> /\ run' = [run EXCEPT ![d][s] = q]
    BY <1>6, <2>1, <2>2, <2>3 DEF Added
  <2>6. RunKept(q)
    <3>1. /\ q.pc = IF rest = {} THEN "reading" ELSE "adding"
          /\ q.acct = r.acct /\ q.kind = r.kind /\ q.got = r.got
          /\ q.todo = rest /\ q.snap = r.snap
      BY <2>3, <2>4 DEF GoodRun, Run
    <3>2. \A t \in q.snap : t \in Stamps(rest) \/ Kept(t, q.acct, q.kind)
      BY <2>2, <2>4, <3>1 DEF RunKept
    <3>3. rest = {} => \A t : t \notin Stamps(rest)
      BY DEF Stamps
    <3> QED BY <2>4, <3>1, <3>2, <3>3 DEF RunKept
  <2>7. RunKept(q)'
    BY <2>5, <2>6 DEF RunKept, Kept
  <2> QED BY <1>0, <2>5, <2>7, ListSecured, RunSecured
<1>7. ASSUME NEW d \in Device, NEW s \in Slot, ReadCollection(d, s)
      PROVE  ListKept' /\ RunsKept'
  <2>1. PICK r : r = run[d][s]
    OBVIOUS
  <2>2. PICK q : q = [r EXCEPT !.pc = "read", !.got = remote[r.acct][r.kind]]
    OBVIOUS
  <2>3. r \in GoodRun /\ r.pc = "reading" /\ RunKept(r)
    BY <1>7, <2>1 DEF Typed, ReadCollection, RunsKept
  <2>4. UNCHANGED <<remote, gone, list>> /\ run' = [run EXCEPT ![d][s] = q]
    BY <1>7, <2>1, <2>2 DEF ReadCollection
  <2>5. RunKept(q)
    <3>1. /\ q.pc = "read" /\ q.acct = r.acct /\ q.kind = r.kind
          /\ q.got = remote[r.acct][r.kind] /\ q.snap = r.snap /\ r.acct \in Account
      BY <2>2, <2>3 DEF GoodRun, Run
    <3>2. \A e \in q.got : Kept(e.ts, q.acct, q.kind)
      BY <3>1 DEF Kept, Stamps
    <3>3. \A t \in q.snap : t \in Stamps(q.got) \/ t \in Stamps(gone)
      BY <2>3, <3>1 DEF RunKept, Kept
    <3> QED BY <3>1, <3>2, <3>3 DEF RunKept
  <2>6. RunKept(q)'
    BY <2>4, <2>5 DEF RunKept, Kept
  <2> QED BY <1>0, <2>4, <2>6, ListSecured, RunSecured
<1>8. ASSUME NEW d \in Device, NEW s \in Slot, Replace(d, s) PROVE ListKept' /\ RunsKept'
  <2>1. PICK r : r = run[d][s]
    OBVIOUS
  <2>2. PICK lists : lists = [list[d] EXCEPT ![r.kind] = {FromJson(doc) : doc \in r.got}]
    OBVIOUS
  <2>3. PICK lost : run' = [run EXCEPT ![d][s] = NextSync(user[d], lists, r.left, lost)]
    BY <1>8, <2>1, <2>2 DEF Replace
  <2>4. PICK q : q = NextSync(user[d], lists, r.left, lost)
    OBVIOUS
  <2>5. r \in GoodRun /\ RunKept(r) /\ r.got \in SUBSET Entry /\ r.kind \in Kind
    BY <1>8, <2>1 DEF Typed, RunsKept, GoodRun, Run
  <2>6. list' = [list EXCEPT ![d] = lists] /\ UNCHANGED <<remote, gone>>
    BY <1>8, <2>1, <2>2 DEF Replace
  <2>7. RunKept(q)
    BY <2>4, NextSyncKept
  <2>8. RunKept(q)'
    BY <2>6, <2>7 DEF RunKept, Kept
  <2>9. ListKept'
    <3> SUFFICES ASSUME NEW c \in Device, NEW k \in Kind, NEW e \in list'[c][k], e.up
                 PROVE  \E a \in Account : Kept(e.ts, a, k)'
      BY DEF ListKept
    <3>1. CASE c = d /\ k = r.kind
      <4>1. e \in {FromJson(doc) : doc \in r.got}
        BY <2>2, <2>5, <2>6, <3>1 DEF Typed
      <4>2. e \in r.got
        BY <4>1 DEF FromJson
      <4>3. r.acct \in Account /\ Kept(e.ts, r.acct, r.kind)
        BY <2>5, <4>2 DEF RunKept
      <4> QED BY <2>6, <3>1, <4>3 DEF Kept
    <3>2. CASE ~ (c = d /\ k = r.kind)
      <4>1. e \in list[c][k]
        BY <2>2, <2>6, <3>2 DEF Typed
      <4>2. PICK a \in Account : Kept(e.ts, a, k)
        BY <4>1 DEF ListKept
      <4> QED BY <2>6, <4>2 DEF Kept
    <3> QED BY <3>1, <3>2
  <2>10. RunsKept'
    BY <1>0, <2>3, <2>4, <2>6, <2>8, RunSecured
  <2> QED BY <2>9, <2>10
<1>9. ASSUME NEW d \in Device, NEW s \in Slot, CallFails(d, s) \/ EndSync(d, s)
      PROVE  ListKept' /\ RunsKept'
  <2>1. run' = [run EXCEPT ![d][s] = NoRun] /\ UNCHANGED <<list, remote, gone>>
    BY <1>9 DEF CallFails, EndSync
  <2>2. RunKept(NoRun)'
    BY DEF RunKept, NoRun
  <2>3. PICK q : q = NoRun
    OBVIOUS
  <2>4. RunKept(q)'
    BY <2>2, <2>3
  <2> QED BY <1>0, <2>1, <2>3, <2>4, ListSecured, RunSecured
<1>10. ASSUME NEW d \in Device, NEW s \in Slot, SyncGoal(d, s) PROVE ListKept' /\ RunsKept'
  <2>1. PICK q : q = IF s \in shown[d] THEN [run[d][s] EXCEPT !.pc = "success"] ELSE NoRun
    OBVIOUS
  <2>2. run' = [run EXCEPT ![d][s] = q] /\ UNCHANGED <<list, remote, gone>>
    BY <1>10, <2>1 DEF SyncGoal
  <2>3. RunKept(q)
    <3>1. run[d][s] \in GoodRun /\ RunKept(run[d][s])
      BY DEF Typed, RunsKept
    <3> QED BY <2>1, <3>1 DEF RunKept, GoodRun, Run, NoRun
  <2>4. RunKept(q)'
    BY <2>2, <2>3 DEF RunKept, Kept
  <2> QED BY <1>0, <2>2, <2>4, ListSecured, RunSecured
<1>11. ASSUME NEW d \in Device,
              \/ EditRead(d) \/ EditFails(d) \/ EndEdit(d) \/ DropOrphan(d)
              \/ LeaveUpload(d)
       PROVE  ListKept' /\ RunsKept'
  <2>1. UNCHANGED <<list, run, remote, gone>>
    BY <1>11 DEF EditRead, EditFails, EndEdit, DropOrphan, LeaveUpload
  <2> QED BY <1>0, <2>1, ListSecured, RunsSecured
<1>12. ASSUME NEW d \in Device, EditCommit(d) PROVE ListKept' /\ RunsKept'
  <2>1. Erase(edit[d].acct, edit[d].docs) /\ edit[d].acct \in Account /\ UNCHANGED <<list, run>>
    BY <1>12 DEF EditCommit, Typed, GoodEdit
  <2> QED BY <2>1, EraseKeeps, ListSecured, RunsSecured
<1>13. ASSUME NEW d \in Device, Crash(d) PROVE ListKept' /\ RunsKept'
  <2>1. UNCHANGED <<list, remote, gone>>
    BY <1>13 DEF Crash
  <2>2. ASSUME NEW c \in Device, NEW t \in Slot
        PROVE  RunKept(run[c][t])'
    <3>1. RunKept(run[c][t]) /\ (run'[c][t] = run[c][t] \/ run'[c][t] = NoRun)
      BY <1>13 DEF RunsKept, Crash, Typed
    <3> QED BY <2>1, <3>1 DEF RunKept, Kept, NoRun
  <2>3. RunsKept'
    BY <2>2 DEF RunsKept
  <2> QED BY <1>0, <2>1, <2>3, ListSecured
<1>14. ASSUME NEW d \in Device, DeliverOrphan(d) PROVE ListKept' /\ RunsKept'
  <2>1. PICK w \in orphan[d] :
          /\ IF w.op = "add"
             THEN Store(w.acct, w.kind, FirstOf(w.recs)) /\ UNCHANGED gone
             ELSE Erase(w.acct, w.recs) /\ UNCHANGED docs
          /\ UNCHANGED <<session, list, run, edit, made, flags>>
    BY <1>14 DEF DeliverOrphan
  <2>2. w \in GoodWrite /\ w.acct \in Account /\ w.kind \in Kind /\ w.recs \in SUBSET Entry
    BY DEF Typed, GoodWrite, Write
  <2>3. NothingVanishes
    <3>1. CASE w.op = "add"
      <4>1. FirstOf(w.recs) \in Entry
        BY <2>2, <3>1, FirstOfIn DEF GoodWrite
      <4> QED BY <2>1, <2>2, <3>1, <4>1, StoreKeeps
    <3>2. CASE w.op # "add"
      BY <2>1, <2>2, <3>2, EraseKeeps
    <3> QED BY <3>1, <3>2
  <2> QED BY <2>1, <2>3, ListSecured, RunsSecured
<1>15. ASSUME UNCHANGED vars PROVE ListKept' /\ RunsKept'
  BY <1>0, <1>15, ListSecured, RunsSecured DEF vars
<1> QED
  BY <1>1, <1>2, <1>3, <1>4, <1>5, <1>6, <1>7, <1>8, <1>9, <1>10, <1>11, <1>12,
     <1>13, <1>14, <1>15 DEF Next, SyncStep

\* UploadedIsStored: under every interleaving a record carries the uploaded flag
\* only when a copy of it reached a collection (and was perhaps deleted there).
THEOREM FlagMeansStored == Spec => []UploadedIsStored
<1>1. Secured => UploadedIsStored
  BY DEF Secured, ListKept, Kept, UploadedIsStored
<1> QED BY <1>1, TypedInit, TypedStep, SecuredInit, SecuredStep, PTL DEF Spec

\* SnapshotStored: what a sync downloaded covers what was waiting for upload when
\* it began, however many adds, failures and other syncs came in between.
THEOREM DownloadCoversSnapshot == Spec => []SnapshotStored
<1>1. Secured => SnapshotStored
  BY DEF Secured, RunsKept, RunKept, SnapshotStored
<1> QED BY <1>1, TypedInit, TypedStep, SecuredInit, SecuredStep, PTL DEF Spec

-----------------------------------------------------------------------------
(* How records cease to exist.                                             *)

\* The causes LossCauses admits for the loss of record t.
LossCause(t) ==
  \/ t \in Stamps(gone')
  \/ \E d \in Device :
       \/ inside[d] /\ ~inside'[d]
       \/ edit[d].pc = "idle" /\ edit'[d].pc = "reading"
       \/ \E s \in Slot : /\ run[d][s].pc = "read"
                         /\ run'[d][s].pc # "read"
                         /\ t \notin run[d][s].snap

\* A step that takes nothing from lists loses at most what it deletes.
LEMMA KeepsLists ==
  ASSUME NothingVanishes, NEW t, Somewhere(t), ~Somewhere(t)',
         \A d \in Device, k \in Kind : list[d][k] \subseteq list'[d][k]
  PROVE  t \in Stamps(gone')
BY DEF NothingVanishes, Somewhere, Stamps

LEMMA LossStep ==
  ASSUME Typed, RunsKept, [Next]_vars, NEW t \in Stamp, Somewhere(t), ~Somewhere(t)'
  PROVE  LossCause(t)
<1> USE DEF session, cloud, made, flags
<1>0. UNCHANGED <<remote, gone>> => NothingVanishes
  BY DEF NothingVanishes
<1>1. ASSUME NEW d \in Device, Logout(d) PROVE LossCause(t)
  <2>1. inside[d] /\ ~inside'[d]
    BY <1>1 DEF Logout, Typed
  <2> QED BY <2>1 DEF LossCause
<1>2. ASSUME NEW d \in Device, StartEdit(d) PROVE LossCause(t)
  <2>1. edit[d].pc = "idle" /\ edit'[d].pc = "reading"
    BY <1>2 DEF StartEdit, Typed
  <2> QED BY <2>1 DEF LossCause
<1>3. ASSUME NEW d \in Device, NEW s \in Slot, Replace(d, s) PROVE LossCause(t)
  <2>1. PICK r : r = run[d][s]
    OBVIOUS
  <2>2. PICK lists : lists = [list[d] EXCEPT ![r.kind] = {FromJson(doc) : doc \in r.got}]
    OBVIOUS
  <2>3. PICK lost : run' = [run EXCEPT ![d][s] = NextSync(user[d], lists, r.left, lost)]
    BY <1>3, <2>1, <2>2 DEF Replace
  <2>4. /\ list' = [list EXCEPT ![d] = lists] /\ UNCHANGED <<remote, gone>>
        /\ r.pc = "read" /\ RunKept(r) /\ r.kind \in Kind
    BY <1>3, <2>1, <2>2 DEF Replace, RunsKept, Typed, GoodRun, Run
  <2>5. run'[d][s].pc # "read"
    <3>1. run'[d][s] = NextSync(user[d], lists, r.left, lost)
      BY <2>3 DEF Typed
    <3> QED BY <3>1, NextSyncKept
  <2>6. CASE t \notin r.snap
    BY <2>1, <2>4, <2>5, <2>6 DEF LossCause
  <2>7. CASE t \in r.snap
    <3>1. CASE t \in Stamps(gone)
      BY <2>4, <3>1 DEF LossCause
    <3>2. CASE t \in Stamps(r.got)
      <4>1. list'[d][r.kind] = r.got
        BY <2>2, <2>4 DEF Typed, FromJson
      <4> QED BY <2>4, <3>2, <4>1 DEF Somewhere
    <3> QED BY <2>4, <2>7, <3>1, <3>2 DEF RunKept
  <2> QED BY <2>6, <2>7
<1>4. ASSUME NEW d \in Device, NEW k \in Enabled, AddRecord(d, k) PROVE LossCause(t)
  <2>1. NothingVanishes /\ \A c \in Device, j \in Kind : list[c][j] \subseteq list'[c][j]
    BY <1>0, <1>4 DEF AddRecord, Typed
  <2> QED BY <2>1, KeepsLists DEF LossCause
<1>5. ASSUME NEW d \in Device, NEW s \in Slot, Deliver(d, s) PROVE LossCause(t)
  <2>1. run[d][s] \in GoodRun /\ run[d][s].pc = "adding"
    BY <1>5 DEF Typed, Deliver
  <2>2. run[d][s].acct \in Account /\ run[d][s].kind \in Kind
        /\ FirstOf(run[d][s].todo) \in Entry
    BY <2>1, FirstOfIn DEF GoodRun, Run
  <2>3. NothingVanishes /\ UNCHANGED list
    BY <1>5, <2>2, StoreKeeps DEF Deliver
  <2> QED BY <2>3, KeepsLists DEF LossCause
<1>6. ASSUME NEW d \in Device, EditCommit(d) PROVE LossCause(t)
  <2>1. Erase(edit[d].acct, edit[d].docs) /\ edit[d].acct \in Account /\ UNCHANGED list
    BY <1>6 DEF EditCommit, Typed, GoodEdit
  <2> QED BY <2>1, EraseKeeps, KeepsLists DEF LossCause
<1>7. ASSUME NEW d \in Device, DeliverOrphan(d) PROVE LossCause(t)
  <2>1. PICK w \in orphan[d] :
          /\ IF w.op = "add"
             THEN Store(w.acct, w.kind, FirstOf(w.recs)) /\ UNCHANGED gone
             ELSE Erase(w.acct, w.recs) /\ UNCHANGED docs
          /\ UNCHANGED <<session, list, run, edit, made, flags>>
    BY <1>7 DEF DeliverOrphan
  <2>2. w \in GoodWrite /\ w.acct \in Account /\ w.kind \in Kind /\ w.recs \in SUBSET Entry
    BY DEF Typed, GoodWrite, Write
  <2>3. NothingVanishes
    <3>1. CASE w.op = "add"
      <4>1. FirstOf(w.recs) \in Entry
        BY <2>2, <3>1, FirstOfIn DEF GoodWrite
      <4> QED BY <2>1, <2>2, <3>1, <4>1, StoreKeeps
    <3>2. CASE w.op # "add"
      BY <2>1, <2>2, <3>2, EraseKeeps
    <3> QED BY <3>1, <3>2
  <2> QED BY <2>1, <2>3, KeepsLists DEF LossCause
<1>8. ASSUME UNCHANGED <<list, remote, gone>> PROVE LossCause(t)
  BY <1>0, <1>8, KeepsLists DEF LossCause
<1>9. ASSUME NEW d \in Device,
             \/ \E a \in Account : Login(d, a)
             \/ \E s \in Slot, left \in SUBSET Enabled : StartSync(d, s, left)
             \/ EditRead(d) \/ EditFails(d) \/ EndEdit(d) \/ Crash(d) \/ DropOrphan(d)
             \/ LeaveUpload(d)
      PROVE  UNCHANGED <<list, remote, gone>>
  BY <1>9 DEF Login, StartSync, EditRead, EditFails, EndEdit, Crash, DropOrphan, LeaveUpload
<1>10. ASSUME NEW d \in Device, NEW s \in Slot,
              \/ Added(d, s) \/ ReadCollection(d, s) \/ CallFails(d, s)
              \/ SyncGoal(d, s) \/ EndSync(d, s)
       PROVE  UNCHANGED <<list, remote, gone>>
  BY <1>10 DEF Added, ReadCollection, CallFails, SyncGoal, EndSync
<1>11. ASSUME UNCHANGED vars PROVE UNCHANGED <<list, remote, gone>>
  BY <1>11 DEF vars
<1> QED
  BY <1>1, <1>2, <1>3, <1>4, <1>5, <1>6, <1>7, <1>8, <1>9, <1>10, <1>11 DEF Next, SyncStep

\* LossCauses: a record ceases to exist only for one of the four causes, whatever
\* else fails, crashes or overlaps.
THEOREM RecordsHaveACauseOfLoss == Spec => LossCauses
<1>1. Typed /\ Secured /\ [Next]_vars
        => [\A t \in Stamp : Somewhere(t) /\ ~Somewhere(t)' => LossCause(t)]_vars
  BY LossStep DEF Secured
<1>2. Spec => [][\A t \in Stamp : Somewhere(t) /\ ~Somewhere(t)' => LossCause(t)]_vars
  BY <1>1, TypedInit, TypedStep, SecuredInit, SecuredStep, PTL DEF Spec
<1> QED BY <1>2 DEF LossCauses, LossCause

-----------------------------------------------------------------------------
(* What a sync that reports success has dropped.                           *)

Watching(r) == r.pc \in {"adding", "added", "reading", "read"}

\* While the student has not left the screen of a sync, its list has no record to
\* upload that the sync did not set out with, and it dropped none that was kept.
Watched ==
  \A d \in Device, s \in Slot :
    /\ s \in shown[d] /\ Watching(run[d][s]) =>
         Stamps(NotUploaded(list[d][run[d][s].kind])) \subseteq run[d][s].snap
    /\ s \in shown[d] \/ run[d][s].pc = "success" => run[d][s].lost \subseteq Stamps(gone)

LEMMA WatchedInit == Init => Watched
BY DEF Init, Watched, Watching, NoRun

\* A run that goes on with the same snapshot, or ends.
SameWatch(d, s) ==
  \/ /\ run'[d][s].kind = run[d][s].kind
     /\ run'[d][s].snap = run[d][s].snap
     /\ run'[d][s].lost = run[d][s].lost
     /\ Watching(run[d][s])' => Watching(run[d][s])
     /\ run'[d][s].pc = "success" => s \in shown[d] \/ run[d][s].pc = "success"
  \/ run'[d][s] = NoRun

LEMMA WatchedStays ==
  ASSUME Typed, Watched, NothingVanishes,
         \A d \in Device, k \in Kind : NotUploaded(list'[d][k]) \subseteq NotUploaded(list[d][k]),
         \A d \in Device : shown'[d] \subseteq shown[d],
         \A d \in Device, s \in Slot : SameWatch(d, s)
  PROVE  Watched'
<1> SUFFICES ASSUME NEW d \in Device, NEW s \in Slot
             PROVE  /\ s \in shown'[d] /\ Watching(run[d][s])' =>
                         Stamps(NotUploaded(list'[d][run'[d][s].kind])) \subseteq run'[d][s].snap
                    /\ s \in shown'[d] \/ run'[d][s].pc = "success" =>
                         run'[d][s].lost \subseteq Stamps(gone')
  BY DEF Watched, Stamps, NotUploaded
<1>1. Stamps(gone) \subseteq Stamps(gone')
  BY DEF NothingVanishes, Stamps
<1>2. CASE run'[d][s] = NoRun
  BY <1>2 DEF NoRun, Watching
<1>3. CASE run'[d][s] # NoRun
  <2>1. /\ run'[d][s].kind = run[d][s].kind
        /\ run'[d][s].snap = run[d][s].snap
        /\ run'[d][s].lost = run[d][s].lost
        /\ Watching(run[d][s])' => Watching(run[d][s])
        /\ run'[d][s].pc = "success" => s \in shown[d] \/ run[d][s].pc = "success"
    BY <1>3 DEF SameWatch
  <2>2. run[d][s].kind \in Kind
    BY DEF Typed, GoodRun, Run
  <2>3. Stamps(NotUploaded(list'[d][run[d][s].kind]))
          \subseteq Stamps(NotUploaded(list[d][run[d][s].kind]))
    BY <2>2 DEF Stamps
  <2> QED BY <1>1, <2>1, <2>3 DEF Watched
<1> QED BY <1>2, <1>3

\* What the next sync function sets out with is what it finds, and it drops nothing.
LEMMA NextSyncWatched ==
  ASSUME NEW u, NEW lists, NEW left, NEW lost, NEW q, q = NextSync(u, lists, left, lost)
  PROVE  /\ Watching(q) => Stamps(NotUploaded(lists[q.kind])) \subseteq q.snap
         /\ q.lost = lost \/ q.lost = {}
         /\ q.pc # "success"
<1>1. CASE u = None
  BY <1>1 DEF NextSync, NoRun, Watching
<1>2. CASE u # None /\ left = {}
  BY <1>2 DEF NextSync, NoRun, Watching
<1>3. CASE u # None /\ left # {}
  <2> DEFINE fresh == NotUploaded(lists[FirstKind(left)])
  <2>1. /\ q.kind = FirstKind(left) /\ q.snap = Stamps(fresh) /\ q.lost = lost
        /\ q.pc = IF fresh = {} THEN "reading" ELSE "adding"
    BY <1>3 DEF NextSync
  <2> QED BY <2>1
<1> QED BY <1>1, <1>2, <1>3

LEMMA WatchedStep == Typed /\ Owned /\ Secured /\ Watched /\ [Next]_vars => Watched'
<1> SUFFICES ASSUME Typed, Owned, RunsKept, Watched, [Next]_vars PROVE Watched'
  BY DEF Secured
<1> USE DEF session, cloud, made, flags
<1>0. UNCHANGED <<remote, gone>> => NothingVanishes
  BY DEF NothingVanishes
<1>1. ASSUME NothingVanishes, UNCHANGED run,
             \A d \in Device, k \in Kind : list'[d][k] \subseteq list[d][k],
             \A d \in Device : shown'[d] \subseteq shown[d]
      PROVE  Watched'
  <2>1. \A d \in Device, k \in Kind : NotUploaded(list'[d][k]) \subseteq NotUploaded(list[d][k])
    BY <1>1 DEF NotUploaded
  <2>2. \A d \in Device, s \in Slot : SameWatch(d, s)
    BY <1>1 DEF SameWatch, Watching
  <2> QED BY <1>1, <2>1, <2>2, WatchedStays
<1>2. ASSUME NEW d \in Device, NEW s \in Slot, NEW q, NothingVanishes, UNCHANGED list,
             run' = [run EXCEPT ![d][s] = q],
             \A c \in Device : shown'[c] \subseteq shown[c],
             \/ /\ q.kind = run[d][s].kind /\ q.snap = run[d][s].snap /\ q.lost = run[d][s].lost
                /\ Watching(q) => Watching(run[d][s])
                /\ q.pc = "success" => s \in shown[d]
             \/ q = NoRun
      PROVE  Watched'
  <2>1. ASSUME NEW c \in Device, NEW t \in Slot PROVE SameWatch(c, t)
    <3>1. CASE c = d /\ t = s
      <4>1. run'[c][t] = q
        BY <1>2, <3>1 DEF Typed
      <4> QED BY <1>2, <3>1, <4>1 DEF SameWatch, Watching
    <3>2. CASE ~ (c = d /\ t = s)
      <4>1. run'[c][t] = run[c][t]
        BY <1>2, <3>2 DEF Typed
      <4> QED BY <4>1 DEF SameWatch, Watching
    <3> QED BY <3>1, <3>2
  <2> QED BY <1>2, <2>1, WatchedStays
<1>3. ASSUME NEW d \in Device,
             \/ \E a \in Account : Login(d, a)
             \/ Logout(d) \/ LeaveUpload(d) \/ StartEdit(d) \/ EditRead(d) \/ EditFails(d)
             \/ EndEdit(d) \/ DropOrphan(d)
      PROVE  Watched'
  <2>1. UNCHANGED <<run, remote, gone>>
    BY <1>3 DEF Login, Logout, LeaveUpload, StartEdit, EditRead, EditFails, EndEdit, DropOrphan
  <2>2. \A c \in Device : shown'[c] \subseteq shown[c]
    BY <1>3 DEF Typed, Login, Logout, LeaveUpload, StartEdit, EditRead, EditFails, EndEdit,
                DropOrphan
  <2>3. \A c \in Device, k \in Kind : list'[c][k] \subseteq list[c][k]
    <3>1. CASE Logout(d)
      BY <3>1 DEF Logout, Typed
    <3>2. CASE StartEdit(d)
      BY <3>2 DEF StartEdit, Typed
    <3>3. CASE UNCHANGED list
      BY <3>3
    <3> QED
      BY <1>3, <3>1, <3>2, <3>3 DEF Login, LeaveUpload, EditRead, EditFails, EndEdit, DropOrphan
  <2> QED BY <1>0, <1>1, <2>1, <2>2, <2>3
<1>4. ASSUME NEW d \in Device, NEW k \in Enabled, AddRecord(d, k) PROVE Watched'
  <2> SUFFICES ASSUME NEW c \in Device, NEW s \in Slot
               PROVE  /\ s \in shown[c] /\ Watching(run[c][s]) =>
                           Stamps(NotUploaded(list'[c][run[c][s].kind])) \subseteq run[c][s].snap
                      /\ s \in shown[c] \/ run[c][s].pc = "success" =>
                           run[c][s].lost \subseteq Stamps(gone)
    BY <1>4 DEF AddRecord, Watched, Watching, Stamps, NotUploaded
  <2>1. CASE c = d
    BY <1>4, <2>1 DEF AddRecord, Watched
  <2>2. CASE c # d
    <3>1. list'[c] = list[c]
      BY <1>4, <2>2 DEF AddRecord, Typed
    <3> QED BY <3>1 DEF Watched
  <2> QED BY <2>1, <2>2
<1>5. ASSUME NEW d \in Device, NEW s \in Slot, NEW left \in SUBSET Enabled,
             StartSync(d, s, left)
      PROVE  Watched'
  <2>1. PICK q : q = NextSync(user[d], list[d], left, {})
    OBVIOUS
  <2>2. /\ run' = [run EXCEPT ![d][s] = q] /\ UNCHANGED <<list, gone>>
        /\ shown' = [shown EXCEPT ![d] = {s}]
    BY <1>5, <2>1 DEF StartSync
  <2>3. /\ Watching(q) => Stamps(NotUploaded(list[d][q.kind])) \subseteq q.snap
        /\ q.lost = {}
    BY <2>1, NextSyncWatched
  <2> SUFFICES ASSUME NEW c \in Device, NEW t \in Slot
               PROVE  /\ t \in shown'[c] /\ Watching(run'[c][t]) =>
                           Stamps(NotUploaded(list[c][run'[c][t].kind])) \subseteq run'[c][t].snap
                      /\ t \in shown'[c] \/ run'[c][t].pc = "success" =>
                           run'[c][t].lost \subseteq Stamps(gone)
    BY <2>2 DEF Watched, Watching, Stamps, NotUploaded
  <2>4. CASE c = d /\ t = s
    <3>1. run'[c][t] = q
      BY <2>2, <2>4 DEF Typed
    <3> QED BY <2>3, <2>4, <3>1
  <2>5. CASE ~ (c = d /\ t = s)
    <3>1. run'[c][t] = run[c][t] /\ (t \in shown'[c] => t \in shown[c])
      BY <2>2, <2>5 DEF Typed
    <3> QED BY <3>1 DEF Watched
  <2> QED BY <2>4, <2>5
<1>6. ASSUME NEW d \in Device, NEW s \in Slot, Replace(d, s) PROVE Watched'
  <2>1. PICK r : r = run[d][s]
    OBVIOUS
  <2>2. PICK new : new = {FromJson(doc) : doc \in r.got}
    OBVIOUS
  <2>3. PICK lists : lists = [list[d] EXCEPT ![r.kind] = new]
    OBVIOUS
  <2>4. PICK dropped : dropped = Stamps(NotUploaded(list[d][r.kind])) \ Stamps(new)
    OBVIOUS
  <2>0. PICK lost : lost = r.lost \cup dropped
    OBVIOUS
  <2>5. PICK q : q = NextSync(user[d], lists, r.left, lost)
    OBVIOUS
  <2>6. /\ r.pc = "read" /\ list' = [list EXCEPT ![d] = lists]
        /\ run' = [run EXCEPT ![d][s] = q] /\ UNCHANGED <<gone, shown>>
    BY <1>6, <2>0, <2>1, <2>2, <2>3, <2>4, <2>5 DEF Replace
  <2>7. r \in Run /\ r.kind \in Kind /\ new = r.got /\ \A e \in r.got : e.up
    BY <2>1, <2>2 DEF Typed, GoodRun, Run, FromJson, Owned, GotUp
  <2>8. \A c \in Device, k \in Kind : NotUploaded(list'[c][k]) \subseteq NotUploaded(list[c][k])
    BY <2>3, <2>6, <2>7 DEF Typed, NotUploaded
  <2>9. /\ Watching(q) => Stamps(NotUploaded(lists[q.kind])) \subseteq q.snap
        /\ q.lost = r.lost \cup dropped \/ q.lost = {}
        /\ q.pc # "success"
    <3>1. /\ Watching(q) => Stamps(NotUploaded(lists[q.kind])) \subseteq q.snap
          /\ q.lost = lost \/ q.lost = {}
          /\ q.pc # "success"
      BY ONLY <2>5, NextSyncWatched
    <3> QED BY <2>0, <3>1
  <2>10. s \in shown[d] => dropped \subseteq Stamps(gone)
    <3>1. r.snap \subseteq Stamps(r.got) \cup Stamps(gone)
      BY <2>1, <2>6 DEF RunsKept, RunKept
    <3>2. s \in shown[d] => Stamps(NotUploaded(list[d][r.kind])) \subseteq r.snap
      BY <2>1, <2>6 DEF Watched, Watching
    <3> QED BY <2>4, <2>7, <3>1, <3>2
  <2> SUFFICES ASSUME NEW c \in Device, NEW t \in Slot
               PROVE  /\ t \in shown[c] /\ Watching(run'[c][t]) =>
                           Stamps(NotUploaded(list'[c][run'[c][t].kind])) \subseteq run'[c][t].snap
                      /\ t \in shown[c] \/ run'[c][t].pc = "success" =>
                           run'[c][t].lost \subseteq Stamps(gone)
    BY <2>6 DEF Watched, Watching, Stamps, NotUploaded
  <2>11. CASE c = d /\ t = s
    <3>1. run'[c][t] = q /\ list'[c] = lists
      BY <2>6, <2>11 DEF Typed
    <3>2. s \in shown[d] => r.lost \subseteq Stamps(gone)
      BY <2>1 DEF Watched
    <3> QED BY <2>9, <2>10, <2>11, <3>1, <3>2
  <2>12. CASE ~ (c = d /\ t = s)
    <3>1. run'[c][t] = run[c][t] /\ run[c][t].kind \in Kind
      BY <2>6, <2>12 DEF Typed, GoodRun, Run
    <3>2. Stamps(NotUploaded(list'[c][run[c][t].kind]))
            \subseteq Stamps(NotUploaded(list[c][run[c][t].kind]))
      BY <2>8, <3>1 DEF Stamps
    <3> QED BY <3>1, <3>2 DEF Watched
  <2> QED BY <2>11, <2>12
<1>7. ASSUME NEW d \in Device, NEW s \in Slot, Deliver(d, s) PROVE Watched'
  <2>1. PICK q : q = [run[d][s] EXCEPT !.pc = "added"]
    OBVIOUS
  <2>2. run[d][s] \in GoodRun /\ run[d][s] \in Run /\ run[d][s].pc = "adding"
    BY <1>7 DEF Typed, GoodRun, Deliver
  <2>3. run[d][s].acct \in Account /\ run[d][s].kind \in Kind
        /\ FirstOf(run[d][s].todo) \in Entry
    BY <2>2, FirstOfIn DEF GoodRun, Run
  <2>4. NothingVanishes /\ UNCHANGED <<list, shown>> /\ run' = [run EXCEPT ![d][s] = q]
    BY <1>7, <2>1, <2>3, StoreKeeps DEF Deliver
  <2>5. /\ q.kind = run[d][s].kind /\ q.snap = run[d][s].snap /\ q.lost = run[d][s].lost
        /\ Watching(run[d][s]) /\ q.pc = "added"
    BY <2>1, <2>2 DEF Run, Watching
  <2> QED BY <1>2, <2>4, <2>5
<1>8. ASSUME NEW d \in Device, NEW s \in Slot, Added(d, s) \/ ReadCollection(d, s)
      PROVE  Watched'
  <2>1. PICK r : r = run[d][s]
    OBVIOUS
  <2>2. r \in Run /\ Watching(r)
    BY <1>8, <2>1 DEF Typed, GoodRun, Added, ReadCollection, Watching
  <2>3. NothingVanishes /\ UNCHANGED <<list, shown>>
    BY <1>0, <1>8 DEF Added, ReadCollection
  <2>4. PICK q : /\ run' = [run EXCEPT ![d][s] = q]
                 /\ q.kind = r.kind /\ q.snap = r.snap /\ q.lost = r.lost
                 /\ q.pc # "success"
    <3>1. CASE Added(d, s)
      <4>1. PICK q : q = [r EXCEPT !.todo = r.todo \ {FirstOf(r.todo)},
                                   !.pc = IF r.todo \ {FirstOf(r.todo)} = {}
                                          THEN "reading" ELSE "adding"]
        OBVIOUS
      <4>2. run' = [run EXCEPT ![d][s] = q]
        BY <2>1, <3>1, <4>1 DEF Added
      <4>3. q.kind = r.kind /\ q.snap = r.snap /\ q.lost = r.lost /\ q.pc # "success"
        BY <2>2, <4>1 DEF Run
      <4> QED BY <4>2, <4>3
    <3>2. CASE ReadCollection(d, s)
      <4>1. PICK q : q = [r EXCEPT !.pc = "read", !.got = remote[r.acct][r.kind]]
        OBVIOUS
      <4>2. run' = [run EXCEPT ![d][s] = q]
        BY <2>1, <3>2, <4>1 DEF ReadCollection
      <4>3. q.kind = r.kind /\ q.snap = r.snap /\ q.lost = r.lost /\ q.pc # "success"
        BY <2>2, <4>1 DEF Run
      <4> QED BY <4>2, <4>3
    <3> QED BY <1>8, <3>1, <3>2
  <2> QED BY <1>2, <2>1, <2>2, <2>3, <2>4
<1>9. ASSUME NEW d \in Device, NEW s \in Slot, CallFails(d, s) \/ EndSync(d, s) \/ SyncGoal(d, s)
      PROVE  Watched'
  <2>1. NothingVanishes /\ UNCHANGED list /\ \A c \in Device : shown'[c] \subseteq shown[c]
    BY <1>0, <1>9 DEF Typed, CallFails, EndSync, SyncGoal
  <2>2. CASE run' = [run EXCEPT ![d][s] = NoRun]
    BY <1>2, <2>1, <2>2
  <2>3. CASE SyncGoal(d, s) /\ s \in shown[d]
    <3>1. PICK q : q = [run[d][s] EXCEPT !.pc = "success"]
      OBVIOUS
    <3>2. run[d][s] \in Run /\ run' = [run EXCEPT ![d][s] = q]
      BY <2>3, <3>1 DEF Typed, GoodRun, SyncGoal
    <3>3. /\ q.kind = run[d][s].kind /\ q.snap = run[d][s].snap /\ q.lost = run[d][s].lost
          /\ ~Watching(q)
      BY <3>1, <3>2 DEF Run, Watching
    <3> QED BY <1>2, <2>1, <2>3, <3>2, <3>3
  <2> QED BY <1>9, <2>2, <2>3 DEF CallFails, EndSync, SyncGoal
<1>10. ASSUME NEW d \in Device, EditCommit(d) PROVE Watched'
  <2>1. /\ Erase(edit[d].acct, edit[d].docs) /\ edit[d].acct \in Account
        /\ UNCHANGED <<list, run, shown>>
    BY <1>10 DEF EditCommit, Typed, GoodEdit
  <2> QED BY <1>1, <2>1, EraseKeeps
<1>11. ASSUME NEW d \in Device, Crash(d) PROVE Watched'
  <2>1. NothingVanishes /\ UNCHANGED list /\ \A c \in Device : shown'[c] \subseteq shown[c]
    BY <1>0, <1>11 DEF Typed, Crash
  <2>2. \A c \in Device, t \in Slot : run'[c][t] = run[c][t] \/ run'[c][t] = NoRun
    BY <1>11 DEF Typed, Crash
  <2>3. \A c \in Device, t \in Slot : SameWatch(c, t)
    BY <2>2 DEF SameWatch, Watching
  <2> QED BY <2>1, <2>3, WatchedStays
<1>12. ASSUME NEW d \in Device, DeliverOrphan(d) PROVE Watched'
  <2>1. PICK w \in orphan[d] :
          /\ IF w.op = "add"
             THEN Store(w.acct, w.kind, FirstOf(w.recs)) /\ UNCHANGED gone
             ELSE Erase(w.acct, w.recs) /\ UNCHANGED docs
          /\ UNCHANGED <<session, list, run, edit, made, flags>>
    BY <1>12 DEF DeliverOrphan
  <2>2. w \in GoodWrite /\ w.acct \in Account /\ w.kind \in Kind /\ w.recs \in SUBSET Entry
    BY DEF Typed, GoodWrite, Write
  <2>3. NothingVanishes
    <3>1. CASE w.op = "add"
      <4>1. FirstOf(w.recs) \in Entry
        BY <2>2, <3>1, FirstOfIn DEF GoodWrite
      <4> QED BY <2>1, <2>2, <3>1, <4>1, StoreKeeps
    <3>2. CASE w.op # "add"
      BY <2>1, <2>2, <3>2, EraseKeeps
    <3> QED BY <3>1, <3>2
  <2> QED BY <1>1, <2>1, <2>3
<1>13. ASSUME UNCHANGED vars PROVE Watched'
  <2>1. UNCHANGED <<remote, gone, run, list, shown>>
    BY <1>13 DEF vars
  <2> QED BY <1>0, <1>1, <2>1
<1> QED
  BY <1>3, <1>4, <1>5, <1>6, <1>7, <1>8, <1>9, <1>10, <1>11, <1>12, <1>13
     DEF Next, SyncStep

\* SuccessKeepsRecords: however many syncs of however many devices overlap, the one
\* that reports success has dropped no record, or a profile edit deleted its copy
\* (upload_function.dart:103 with upload_screen.dart:218).
THEOREM SuccessMeansKept == Spec => []SuccessKeepsRecords
<1>1. Watched => SuccessKeepsRecords
  BY DEF Watched, SuccessKeepsRecords
<1> QED
  BY <1>1, TypedInit, TypedStep, OwnedInit, OwnedStep, SecuredInit, SecuredStep,
     WatchedInit, WatchedStep, PTL DEF Spec

=============================================================================
