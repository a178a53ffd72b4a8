-------------------------- MODULE RecordLifeProofs --------------------------
(***************************************************************************)
(* RecordSync implements RecordLife, for any number of devices, accounts,  *)
(* overlapping syncs, records and documents.  Every step of RecordSync is  *)
(* shown to be of one of four kinds (StepKinds): it adds a record, stores  *)
(* a copy, erases copies, or leaves the cloud alone and makes no record    *)
(* pending; each kind is a step of RecordLife, or a stutter.               *)
(***************************************************************************)
EXTENDS RecordSyncProofs

-----------------------------------------------------------------------------
(* What is to be deleted was stored once, and a write that survives a crash *)
(* adds one record.                                                         *)

\* Document e is in a collection, or was deleted.
Known(e) == e \in gone \/ \E a \in Account, k \in Kind : e \in remote[a][k]

GoneOld == \A e \in gone : e.ts \in 1 .. clock

EditKnown == \A d \in Device : \A e \in edit[d].docs : Known(e)

OrphanKnown ==
  \A d \in Device : \A w \in orphan[d] :
    /\ w.op = "add" => \E e : w.recs = {e}
    /\ w.op # "add" => \A e \in w.recs : Known(e)

Accounted == GoneOld /\ EditKnown /\ OrphanKnown

LEMMA AccountedInit == Init => Accounted
BY DEF Init, Accounted, GoneOld, EditKnown, OrphanKnown, NoEdit

LEMMA KnownStays ==
  ASSUME NothingVanishes, NEW e, Known(e)
  PROVE  Known(e)'
BY DEF NothingVanishes, Known

\* What the deletion of known documents takes away is old.
LEMMA EraseOld ==
  ASSUME Typed, RemoteOwned, GoneOld, NEW a \in Account, NEW S, Erase(a, S),
         \A e \in S : Known(e), UNCHANGED clock
  PROVE  GoneOld'
<1> SUFFICES ASSUME NEW e \in gone' PROVE e.ts \in 1 .. clock
  BY DEF GoneOld
<1>1. Known(e)
  BY DEF Erase, Known
<1> QED
  BY <1>1 DEF Known, GoneOld, RemoteOwned, Made

\* Edits and orphaned writes that were there, with nothing new to delete.
LEMMA AccountedStays ==
  ASSUME Accounted, NothingVanishes, clock \in Nat, clock' \in Nat, clock <= clock', GoneOld',
         \A d \in Device : \A e \in edit'[d].docs : e \in edit[d].docs \/ Known(e),
         \A d \in Device : \A w \in orphan'[d] :
           \/ w \in orphan[d]
           \/ w.op = "add" /\ \E e : w.recs = {e}
           \/ w.op # "add" /\ \A e \in w.recs : Known(e)
  PROVE  Accounted'
<1>1. EditKnown'
  <2> SUFFICES ASSUME NEW d \in Device, NEW e \in edit'[d].docs PROVE Known(e)'
    BY DEF EditKnown
  <2>1. Known(e)
    BY DEF Accounted, EditKnown
  <2> QED
    BY <2>1, KnownStays
<1>2. OrphanKnown'
  <2> SUFFICES ASSUME NEW d \in Device, NEW w \in orphan'[d]
               PROVE  /\ w.op = "add" => \E e : w.recs = {e}
                      /\ w.op # "add" => \A e \in w.recs : Known(e)'
    BY DEF OrphanKnown
  <2>1. /\ w.op = "add" => \E e : w.recs = {e}
        /\ w.op # "add" => \A e \in w.recs : Known(e)
    BY DEF Accounted, OrphanKnown
  <2> QED
    BY <2>1, KnownStays
<1> QED
  BY <1>1, <1>2 DEF Accounted

LEMMA AccountedStep == Typed /\ Owned /\ Accounted /\ [Next]_vars => Accounted'
<1> SUFFICES ASSUME Typed, Owned, Accounted, [Next]_vars PROVE Accounted'
  OBVIOUS
<1> USE DEF session, cloud, made, flags
<1>0. clock \in Nat /\ \A d \in Device : edit[d] \in Edit
  BY SyncAssumption DEF Typed, GoodEdit
<1>1. ASSUME UNCHANGED <<remote, gone, clock>>,
             \A d \in Device : \A e \in edit'[d].docs : e \in edit[d].docs \/ Known(e),
             \A d \in Device : \A w \in orphan'[d] :
               \/ w \in orphan[d]
               \/ w.op = "add" /\ \E e : w.recs = {e}
               \/ w.op # "add" /\ \A e \in w.recs : Known(e)
      PROVE  Accounted'
  <2>1. NothingVanishes /\ GoneOld'
    BY <1>1 DEF NothingVanishes, Accounted, GoneOld
  <2>2. clock' \in Nat /\ clock <= clock'
    BY <1>0, <1>1
  <2> QED
    BY <1>0, <1>1, <2>1, <2>2, AccountedStays
<1>2. ASSUME UNCHANGED <<remote, gone, clock, edit, orphan>> PROVE Accounted'
  BY <1>1, <1>2
<1>3. ASSUME NEW d \in Device, NEW k \in Enabled, AddRecord(d, k) PROVE Accounted'
  <2>1. UNCHANGED <<remote, gone, edit, orphan>> /\ clock' = clock + 1
    BY <1>3 DEF AddRecord
  <2>2. NothingVanishes /\ clock' \in Nat /\ clock <= clock'
    BY <1>0, <2>1 DEF NothingVanishes
  <2>3. GoneOld'
    BY <1>0, <2>1 DEF Accounted, GoneOld
  <2> QED
    BY <1>0, <2>1, <2>2, <2>3, AccountedStays
<1>4. ASSUME NEW d \in Device, NEW s \in Slot, Deliver(d, s) PROVE Accounted'
  <2>1. run[d][s] \in GoodRun /\ run[d][s].pc = "adding"
    BY <1>4 DEF Typed, Deliver
  <2>2. run[d][s].acct \in Account /\ run[d][s].kind \in Kind
        /\ FirstOf(run[d][s].todo) \in Entry
    BY <2>1, FirstOfIn DEF GoodRun, Run
  <2>3. NothingVanishes /\ UNCHANGED <<gone, clock, edit, orphan>>
    BY <1>4, <2>2, StoreKeeps DEF Deliver
  <2>4. GoneOld'
    BY <2>3 DEF Accounted, GoneOld
  <2> QED
    BY <1>0, <2>3, <2>4, AccountedStays
<1>5. ASSUME NEW d \in Device, StartEdit(d) \/ EndEdit(d) PROVE Accounted'
  <2>1. UNCHANGED <<remote, gone, clock, orphan>>
    BY <1>5 DEF StartEdit, EndEdit
  <2>2. \A c \in Device : \A e \in edit'[c].docs : e \in edit[c].docs
    <3>1. PICK e : e.docs = {} /\ edit' = [edit EXCEPT ![d] = e]
      BY <1>5 DEF StartEdit, EndEdit, NoEdit
    <3> QED
      BY <3>1 DEF Typed
  <2> QED
    BY <1>1, <2>1, <2>2
<1>6. ASSUME NEW d \in Device, EditRead(d) PROVE Accounted'
  <2>1. UNCHANGED <<remote, gone, clock, orphan>>
    BY <1>6 DEF EditRead
  <2>2. edit[d].acct \in Account
    BY <1>6 DEF EditRead, Typed, GoodEdit
  <2>3. \A c \in Device : \A e \in edit'[c].docs : e \in edit[c].docs \/ Known(e)
    <3>1. edit' = [edit EXCEPT ![d] =
                     [edit[d] EXCEPT !.pc = "commit", !.docs = remote[edit[d].acct]["update"]]]
      BY <1>6 DEF EditRead
    <3>2. edit'[d].docs = remote[edit[d].acct]["update"]
      BY <1>0, <3>1 DEF Typed, Edit
    <3>3. \A e \in edit'[d].docs : Known(e)
      BY <2>2, <3>2 DEF Known, Kind
    <3>4. \A c \in Device : c # d => edit'[c] = edit[c]
      BY <3>1 DEF Typed
    <3> QED
      BY <3>3, <3>4
  <2> QED
    BY <1>1, <2>1, <2>3
<1>7. ASSUME NEW d \in Device, EditCommit(d) \/ EditFails(d)
      PROVE  \A c \in Device : \A e \in edit'[c].docs : e \in edit[c].docs
  <2>1. edit' = [edit EXCEPT ![d] = [edit[d] EXCEPT !.pc = "done", !.docs = {}]]
    BY <1>7 DEF EditCommit, EditFails
  <2>2. edit'[d].docs = {} /\ \A c \in Device : c # d => edit'[c] = edit[c]
    BY <1>0, <2>1 DEF Typed, Edit
  <2> QED
    BY <2>2
<1>8. ASSUME NEW d \in Device, EditFails(d) PROVE Accounted'
  <2>1. UNCHANGED <<remote, gone, clock, orphan>>
    BY <1>8 DEF EditFails
  <2> QED
    BY <1>1, <1>7, <1>8, <2>1
<1>9. ASSUME NEW d \in Device, EditCommit(d) PROVE Accounted'
  <2>1. /\ Erase(edit[d].acct, edit[d].docs) /\ edit[d].acct \in Account
        /\ UNCHANGED <<clock, orphan>>
    BY <1>9 DEF EditCommit, Typed, GoodEdit
  <2>2. \A e \in edit[d].docs : Known(e)
    BY DEF Accounted, EditKnown
  <2>3. NothingVanishes
    BY <2>1, EraseKeeps
  <2>4. GoneOld'
    BY <2>1, <2>2, EraseOld DEF Owned, Accounted
  <2> QED
    BY <1>0, <1>7, <1>9, <2>1, <2>3, <2>4, AccountedStays
<1>10. ASSUME NEW d \in Device, Crash(d) PROVE Accounted'
  <2>1. UNCHANGED <<remote, gone, clock>> /\ edit' = [edit EXCEPT ![d] = NoEdit]
    BY <1>10 DEF Crash
  <2>2. \A c \in Device : \A e \in edit'[c].docs : e \in edit[c].docs
    BY <2>1 DEF Typed, NoEdit
  <2>3. \A c \in Device : \A w \in orphan'[c] : w \in orphan[c] \/ w \in Unanswered(d)
    BY <1>10 DEF Crash, Typed
  <2>4. ASSUME NEW w \in Unanswered(d)
        PROVE  \/ w.op = "add" /\ \E e : w.recs = {e}
               \/ w.op # "add" /\ \A e \in w.recs : Known(e)
    <3>1. CASE \E s \in Slot : w = [op |-> "add", acct |-> run[d][s].acct, kind |-> run[d][s].kind,
                                    recs |-> {FirstOf(run[d][s].todo)}]
      BY <3>1
    <3>2. CASE w = [op |-> "delete", acct |-> edit[d].acct, kind |-> "update",
                    recs |-> edit[d].docs]
      BY <3>2 DEF Accounted, EditKnown
    <3> QED
      BY <3>1, <3>2 DEF Unanswered
  <2> QED
    BY <1>1, <2>1, <2>2, <2>3, <2>4
<1>11. ASSUME NEW d \in Device, NEW w \in orphan[d], orphan' = [orphan EXCEPT ![d] = @ \ {w}]
       PROVE  \A c \in Device : orphan'[c] \subseteq orphan[c]
  BY <1>11 DEF Typed
<1>12. ASSUME NEW d \in Device, DropOrphan(d) PROVE Accounted'
  <2>1. \A c \in Device : orphan'[c] \subseteq orphan[c]
    BY <1>11, <1>12 DEF DropOrphan
  <2>2. UNCHANGED <<remote, gone, clock, edit>>
    BY <1>12 DEF DropOrphan
  <2> QED
    BY <1>1, <2>1, <2>2
<1>13. ASSUME NEW d \in Device, DeliverOrphan(d) PROVE Accounted'
  <2>1. PICK w \in orphan[d] :
          /\ orphan' = [orphan EXCEPT ![d] = @ \ {w}]
          /\ IF w.op = "add"
             THEN Store(w.acct, w.kind, FirstOf(w.recs)) /\ UNCHANGED gone
             ELSE Erase(w.acct, w.recs) /\ UNCHANGED docs
          /\ UNCHANGED <<session, list, run, edit, made, flags>>
    BY <1>13 DEF DeliverOrphan
  <2>2. w \in GoodWrite /\ w.acct \in Account /\ w.kind \in Kind /\ w.recs \in SUBSET Entry
    BY DEF Typed, GoodWrite, Write
  <2>3. \A c \in Device : orphan'[c] \subseteq orphan[c]
    BY <1>11, <2>1
  <2>4. NothingVanishes /\ GoneOld'
    <3>1. CASE w.op = "add"
      <4>1. FirstOf(w.recs) \in Entry
        BY <2>2, <3>1, FirstOfIn DEF GoodWrite
      <4>2. NothingVanishes
        BY <2>1, <2>2, <3>1, <4>1, StoreKeeps
      <4> QED
        BY <2>1, <3>1, <4>2 DEF Accounted, GoneOld
    <3>2. CASE w.op # "add"
      <4>1. \A e \in w.recs : Known(e)
        BY <3>2 DEF Accounted, OrphanKnown
      <4> QED
        BY <2>1, <2>2, <3>2, <4>1, EraseKeeps, EraseOld DEF Owned, Accounted
    <3> QED
      BY <3>1, <3>2
  <2> QED
    BY <1>0, <2>1, <2>3, <2>4, AccountedStays
<1>14. ASSUME NEW d \in Device,
              \/ \E a \in Account : Login(d, a)
              \/ Logout(d) \/ LeaveUpload(d)
              \/ \E s \in Slot, left \in SUBSET Enabled : StartSync(d, s, left)
       PROVE  Accounted'
  BY <1>2, <1>14 DEF Login, Logout, LeaveUpload, StartSync
<1>15. ASSUME NEW d \in Device, NEW s \in Slot,
              \/ Added(d, s) \/ ReadCollection(d, s) \/ Replace(d, s) \/ CallFails(d, s)
              \/ SyncGoal(d, s) \/ EndSync(d, s)
       PROVE  Accounted'
  <2>1. UNCHANGED <<remote, gone, clock, edit, orphan>>
    BY <1>15 DEF Added, ReadCollection, Replace, CallFails, SyncGoal, EndSync
  <2> QED
    BY <1>2, <2>1
<1>16. CASE UNCHANGED vars
  BY <1>2, <1>16 DEF vars
<1> QED
  BY <1>3, <1>4, <1>5, <1>6, <1>8, <1>9, <1>10, <1>12, <1>13, <1>14, <1>15, <1>16
     DEF Next, SyncStep

-----------------------------------------------------------------------------
(* The kinds of steps.                                                      *)

\* Nothing becomes pending, and the cloud stays as it is.
QuietStep ==
  /\ UNCHANGED <<remote, gone, clock>>
  /\ \A t : Pending(t)' => Pending(t)

\* A copy of a pending record is stored; no other record is concerned.
StoreStep(a, k, e) ==
  /\ Store(a, k, e)
  /\ UNCHANGED <<gone, clock>>
  /\ e.ts \in 1 .. clock
  /\ Pending(e.ts)
  /\ \A t : t # e.ts => (Pending(t)' <=> Pending(t))

\* Documents that are known are deleted.
EraseStep(a, S) ==
  /\ Erase(a, S)
  /\ UNCHANGED clock
  /\ \A e \in S : Known(e)
  /\ \A t : Pending(t)' <=> Pending(t)

\* Lists, syncs and orphaned writes that hold no new copy that waits.
LEMMA PendingStays ==
  ASSUME \A d \in Device, k \in Kind : NotUploaded(list'[d][k]) \subseteq NotUploaded(list[d][k]),
         \A d \in Device, s \in Slot : \A e \in run'[d][s].todo :
           \/ e \in run[d][s].todo
           \/ \E k \in Kind : e \in NotUploaded(list[d][k]),
         \A d \in Device : \A w \in orphan'[d] : w.op = "add" =>
           \/ w \in orphan[d]
           \/ \E s \in Slot : w.recs \subseteq run[d][s].todo
  PROVE  \A t : Pending(t)' => Pending(t)
<1> SUFFICES ASSUME NEW t, Pending(t)' PROVE Pending(t)
  OBVIOUS
<1>1. PICK d \in Device :
        \/ \E k \in Kind : t \in Stamps(NotUploaded(list'[d][k]))
        \/ \E s \in Slot : t \in Stamps(run'[d][s].todo)
        \/ \E w \in orphan'[d] : w.op = "add" /\ t \in Stamps(w.recs)
  BY DEF Pending, Stamps, NotUploaded
<1>2. ASSUME NEW k \in Kind, t \in Stamps(NotUploaded(list'[d][k])) PROVE Pending(t)
  BY <1>2 DEF Pending, Stamps
<1>3. ASSUME NEW s \in Slot, t \in Stamps(run'[d][s].todo) PROVE Pending(t)
  <2>1. PICK e \in run'[d][s].todo : e.ts = t
    BY <1>3 DEF Stamps
  <2> QED
    BY <2>1 DEF Pending, Stamps
<1>4. ASSUME NEW w \in orphan'[d], w.op = "add", t \in Stamps(w.recs) PROVE Pending(t)
  BY <1>4 DEF Pending, Stamps
<1> QED
  BY <1>1, <1>2, <1>3, <1>4

\* What a sync function begins with was waiting in a list.
LEMMA NextSyncTodo ==
  ASSUME NEW u, NEW lists, NEW left, NEW lost, NEW r, r = NextSync(u, lists, left, lost)
  PROVE  \A e \in r.todo : \E k \in Kind : e \in NotUploaded(lists[k])
<1>1. CASE u = None \/ left = {}
  BY <1>1 DEF NextSync, NoRun
<1>2. CASE u # None /\ left # {}
  <2>1. r.todo = NotUploaded(lists[FirstKind(left)])
    BY <1>2 DEF NextSync
  <2> QED
    BY <2>1, FirstKindIn
<1> QED
  BY <1>1, <1>2

LEMMA StepKinds ==
  ASSUME Typed, Owned, Accounted, [Next]_vars
  PROVE  \/ QuietStep
         \/ \E d \in Device, k \in Kind : AddRecord(d, k)
         \/ \E a \in Account, k \in Kind, e \in Entry : StoreStep(a, k, e)
         \/ \E a \in Account, S \in SUBSET Entry : EraseStep(a, S)
<1> USE DEF session, cloud, made, flags
<1> DEFINE Stored == \E a \in Account, k \in Kind, e \in Entry : StoreStep(a, k, e)
           Erased == \E a \in Account, S \in SUBSET Entry : EraseStep(a, S)
<1>1. ASSUME NEW d \in Device,
             \/ \E a \in Account : Login(d, a)
             \/ LeaveUpload(d) \/ EditRead(d) \/ EditFails(d) \/ EndEdit(d)
      PROVE  QuietStep
  <2>1. UNCHANGED <<remote, gone, clock, list, run, orphan>>
    BY <1>1 DEF Login, LeaveUpload, EditRead, EditFails, EndEdit
  <2> QED
    BY <2>1 DEF QuietStep, Pending
<1>2. ASSUME NEW d \in Device, Logout(d) \/ StartEdit(d) PROVE QuietStep
  <2>1. UNCHANGED <<remote, gone, clock, run, orphan>>
    BY <1>2 DEF Logout, StartEdit
  <2>2. \A c \in Device, k \in Kind : list'[c][k] \subseteq list[c][k]
    <3>1. CASE Logout(d)
      BY <3>1 DEF Logout, Typed
    <3>2. CASE StartEdit(d)
      BY <3>2 DEF StartEdit, Typed
    <3> QED
      BY <1>2, <3>1, <3>2
  <2>3. \A c \in Device, k \in Kind : NotUploaded(list'[c][k]) \subseteq NotUploaded(list[c][k])
    BY <2>2 DEF NotUploaded
  <2> QED
    BY <2>1, <2>3, PendingStays DEF QuietStep
<1>3. ASSUME NEW d \in Device, NEW s \in Slot, NEW left \in SUBSET Enabled, StartSync(d, s, left)
      PROVE  QuietStep
  <2>1. PICK q : q = NextSync(user[d], list[d], left, {})
    OBVIOUS
  <2>2. UNCHANGED <<list, remote, gone, clock, orphan>> /\ run' = [run EXCEPT ![d][s] = q]
    BY <1>3, <2>1 DEF StartSync
  <2>3. \A e \in q.todo : \E k \in Kind : e \in NotUploaded(list[d][k])
    BY <2>1, NextSyncTodo
  <2>4. \A c \in Device, t \in Slot : \A e \in run'[c][t].todo :
          \/ e \in run[c][t].todo
          \/ \E k \in Kind : e \in NotUploaded(list[c][k])
    BY <2>2, <2>3 DEF Typed
  <2> QED
    BY <2>2, <2>4, PendingStays DEF QuietStep
<1>4. ASSUME NEW d \in Device, NEW s \in Slot, NEW q, run' = [run EXCEPT ![d][s] = q],
             q.todo \subseteq run[d][s].todo, UNCHANGED <<list, remote, gone, clock, orphan>>
      PROVE  QuietStep
  <2>1. \A c \in Device, t \in Slot : run'[c][t].todo \subseteq run[c][t].todo
    BY <1>4 DEF Typed
  <2> QED
    BY <1>4, <2>1, PendingStays DEF QuietStep
<1>5. ASSUME NEW d \in Device, NEW s \in Slot,
             \/ Added(d, s) \/ ReadCollection(d, s) \/ SyncGoal(d, s)
             \/ CallFails(d, s) \/ EndSync(d, s)
      PROVE  QuietStep
  <2>1. run[d][s] \in Run
    BY DEF Typed, GoodRun
  <2>2. UNCHANGED <<list, remote, gone, clock, orphan>>
    BY <1>5 DEF Added, ReadCollection, SyncGoal, CallFails, EndSync
  <2>3. PICK q : run' = [run EXCEPT ![d][s] = q] /\ q.todo \subseteq run[d][s].todo
    <3>0. PICK r \in Run : r = run[d][s]
      BY <2>1
    <3>1. CASE Added(d, s)
      <4>1. PICK rest : rest = r.todo \ {FirstOf(r.todo)}
        OBVIOUS
      <4>2. PICK q : q = [r EXCEPT !.todo = rest,
                                   !.pc = IF rest = {} THEN "reading" ELSE "adding"]
        OBVIOUS
      <4>3. q.todo = rest
        BY <4>2 DEF Run
      <4>4. run' = [run EXCEPT ![d][s] = q]
        BY <3>0, <3>1, <4>1, <4>2 DEF Added
      <4> QED
        BY <3>0, <4>1, <4>3, <4>4
    <3>2. CASE ReadCollection(d, s)
      <4>1. PICK q : q = [r EXCEPT !.pc = "read", !.got = remote[r.acct][r.kind]]
        OBVIOUS
      <4>2. q.todo = r.todo
        BY <4>1 DEF Run
      <4>3. run' = [run EXCEPT ![d][s] = q]
        BY <3>0, <3>2, <4>1 DEF ReadCollection
      <4> QED
        BY <3>0, <4>2, <4>3
    <3>3. CASE SyncGoal(d, s)
      <4>1. PICK q : q = IF s \in shown[d] THEN [r EXCEPT !.pc = "success"] ELSE NoRun
        OBVIOUS
      <4>2. q.todo \subseteq r.todo
        BY <4>1 DEF Run, NoRun
      <4>3. run' = [run EXCEPT ![d][s] = q]
        BY <3>0, <3>3, <4>1 DEF SyncGoal
      <4> QED
        BY <3>0, <4>2, <4>3
    <3>4. CASE CallFails(d, s) \/ EndSync(d, s)
      BY <3>4 DEF CallFails, EndSync, NoRun
    <3> QED
      BY <1>5, <3>1, <3>2, <3>3, <3>4
  <2> QED
    BY <1>4, <2>2, <2>3
<1>6. ASSUME NEW d \in Device, NEW s \in Slot, Replace(d, s) PROVE QuietStep
  <2>1. PICK r : r = run[d][s]
    OBVIOUS
  <2>2. PICK lists : lists = [list[d] EXCEPT ![r.kind] = {FromJson(doc) : doc \in r.got}]
    OBVIOUS
  <2>3. PICK lost : run' = [run EXCEPT ![d][s] = NextSync(user[d], lists, r.left, lost)]
    BY <1>6, <2>1, <2>2 DEF Replace
  <2>4. PICK q : q = NextSync(user[d], lists, r.left, lost)
    OBVIOUS
  <2>5. list' = [list EXCEPT ![d] = lists] /\ UNCHANGED <<remote, gone, clock, orphan>>
    BY <1>6, <2>1, <2>2 DEF Replace
  <2>6. r.kind \in Kind /\ \A e \in r.got : e.up
    BY <2>1 DEF Typed, GoodRun, Run, Owned, GotUp
  <2>7. \A k \in Kind : NotUploaded(lists[k]) \subseteq NotUploaded(list[d][k])
    BY <2>2, <2>6 DEF Typed, FromJson, NotUploaded
  <2>8. \A c \in Device, k \in Kind : NotUploaded(list'[c][k]) \subseteq NotUploaded(list[c][k])
    BY <2>5, <2>7 DEF Typed
  <2>9. \A e \in q.todo : \E k \in Kind : e \in NotUploaded(list[d][k])
    BY <2>4, <2>7, NextSyncTodo
  <2>10. \A c \in Device, t \in Slot : \A e \in run'[c][t].todo :
           \/ e \in run[c][t].todo
           \/ \E k \in Kind : e \in NotUploaded(list[c][k])
    BY <2>3, <2>4, <2>9 DEF Typed
  <2> QED
    BY <2>5, <2>8, <2>10, PendingStays DEF QuietStep
<1>7. ASSUME NEW d \in Device, Crash(d) PROVE QuietStep
  <2>1. UNCHANGED <<list, remote, gone, clock>> /\ run' = [run EXCEPT ![d] = [s \in Slot |-> NoRun]]
    BY <1>7 DEF Crash
  <2>2. \A c \in Device, t \in Slot : run'[c][t].todo \subseteq run[c][t].todo
    BY <2>1 DEF Typed, NoRun
  <2>3. ASSUME NEW c \in Device, NEW w \in orphan'[c], w.op = "add"
        PROVE  w \in orphan[c] \/ \E s \in Slot : w.recs \subseteq run[c][s].todo
    <3>1. w \in orphan[c] \/ (c = d /\ w \in Unanswered(d))
      BY <1>7 DEF Crash, Typed
    <3>2. ASSUME w \in Unanswered(d)
          PROVE  \E s \in Slot : w.recs \subseteq run[d][s].todo
      <4>1. PICK s \in Slot :
              run[d][s].pc = "adding" /\
              w = [op |-> "add", acct |-> run[d][s].acct, kind |-> run[d][s].kind,
                   recs |-> {FirstOf(run[d][s].todo)}]
        BY <2>3, <3>2 DEF Unanswered
      <4>2. run[d][s] \in GoodRun
        BY DEF Typed
      <4>3. FirstOf(run[d][s].todo) \in run[d][s].todo
        BY <4>1, <4>2, FirstOfIn DEF GoodRun, Run
      <4> QED
        BY <4>1, <4>3
    <3> QED
      BY <3>1, <3>2
  <2> QED
    BY <2>1, <2>2, <2>3, PendingStays DEF QuietStep
<1>8. ASSUME NEW d \in Device, NEW w \in orphan[d], orphan' = [orphan EXCEPT ![d] = @ \ {w}]
      PROVE  \A c \in Device : /\ orphan'[c] \subseteq orphan[c]
                               /\ \A v \in orphan[c] : v # w => v \in orphan'[c]
  BY <1>8 DEF Typed
<1>9. ASSUME NEW d \in Device, DropOrphan(d) PROVE QuietStep
  <2>1. UNCHANGED <<list, remote, gone, clock, run>>
    BY <1>9 DEF DropOrphan
  <2>2. \A c \in Device : orphan'[c] \subseteq orphan[c]
    BY <1>8, <1>9 DEF DropOrphan
  <2> QED
    BY <2>1, <2>2, PendingStays DEF QuietStep
<1>10. ASSUME NEW d \in Device, NEW s \in Slot, Deliver(d, s) PROVE Stored
  <2>1. PICK r : r = run[d][s]
    OBVIOUS
  <2>2. PICK e : e = FirstOf(r.todo)
    OBVIOUS
  <2>3. PICK q : q = [r EXCEPT !.pc = "added"]
    OBVIOUS
  <2>4. r \in GoodRun /\ r.pc = "adding"
    BY <1>10, <2>1 DEF Typed, Deliver
  <2>5. r.acct \in Account /\ r.kind \in Kind /\ e \in r.todo /\ e \in Entry
    BY <2>2, <2>4, FirstOfIn DEF GoodRun, Run
  <2>6. /\ Store(r.acct, r.kind, e) /\ run' = [run EXCEPT ![d][s] = q]
        /\ UNCHANGED <<gone, clock, list, orphan>>
    BY <1>10, <2>1, <2>2, <2>3 DEF Deliver
  <2>7. \A c \in Device, t \in Slot : run'[c][t].todo = run[c][t].todo
    BY <2>1, <2>3, <2>4, <2>6 DEF Typed, GoodRun, Run
  <2>8. \A t : Pending(t)' <=> Pending(t)
    BY <2>6, <2>7 DEF Pending
  <2>9. e.ts \in 1 .. clock /\ Pending(e.ts)
    BY <2>1, <2>5 DEF Owned, TodoOwned, Made, Pending, Stamps
  <2>10. StoreStep(r.acct, r.kind, e)
    BY <2>6, <2>8, <2>9 DEF StoreStep
  <2> QED
    BY <2>5, <2>10
<1>11. ASSUME NEW d \in Device, EditCommit(d) PROVE Erased
  <2>1. /\ Erase(edit[d].acct, edit[d].docs) /\ edit[d].acct \in Account
        /\ edit[d].docs \in SUBSET Entry /\ UNCHANGED <<clock, list, run, orphan>>
    BY <1>11 DEF EditCommit, Typed, GoodEdit, Edit
  <2>2. \A e \in edit[d].docs : Known(e)
    BY DEF Accounted, EditKnown
  <2>3. EraseStep(edit[d].acct, edit[d].docs)
    BY <2>1, <2>2 DEF EraseStep, Pending
  <2> QED
    BY <2>1, <2>3
<1>12. ASSUME NEW d \in Device, DeliverOrphan(d) PROVE Stored \/ Erased
  <2>1. PICK w \in orphan[d] :
          /\ orphan' = [orphan EXCEPT ![d] = @ \ {w}]
          /\ IF w.op = "add"
             THEN Store(w.acct, w.kind, FirstOf(w.recs)) /\ UNCHANGED gone
             ELSE Erase(w.acct, w.recs) /\ UNCHANGED docs
          /\ UNCHANGED <<session, list, run, edit, made, flags>>
    BY <1>12 DEF DeliverOrphan
  <2>2. w \in GoodWrite /\ w.acct \in Account /\ w.kind \in Kind /\ w.recs \in SUBSET Entry
    BY DEF Typed, GoodWrite, Write
  <2>3. \A c \in Device : /\ orphan'[c] \subseteq orphan[c]
                          /\ \A v \in orphan[c] : v # w => v \in orphan'[c]
    BY <1>8, <2>1
  <2>4. UNCHANGED <<list, run, clock>>
    BY <2>1
  <2>5. ASSUME NEW t, w.op = "add" => t \notin Stamps(w.recs)
        PROVE  Pending(t)' <=> Pending(t)
    BY <2>3, <2>4, <2>5 DEF Pending
  <2>6. CASE w.op = "add"
    <3>1. PICK e : w.recs = {e}
      BY <2>6 DEF Accounted, OrphanKnown
    <3>2. FirstOf(w.recs) = e /\ e \in Entry
      BY <2>2, <3>1, FirstOfIn
    <3>3. e.ts \in 1 .. clock /\ Pending(e.ts)
      BY <2>6, <3>1 DEF Owned, OrphanOwned, Made, Pending, Stamps
    <3>4. \A t : t # e.ts => (Pending(t)' <=> Pending(t))
      BY <2>5, <3>1 DEF Stamps
    <3>5. StoreStep(w.acct, w.kind, e)
      BY <2>1, <2>4, <2>6, <3>2, <3>3, <3>4 DEF StoreStep
    <3> QED
      BY <2>2, <3>2, <3>5
  <2>7. CASE w.op # "add"
    <3>1. \A e \in w.recs : Known(e)
      BY <2>7 DEF Accounted, OrphanKnown
    <3>2. EraseStep(w.acct, w.recs)
      BY <2>1, <2>4, <2>5, <2>7, <3>1 DEF EraseStep
    <3> QED
      BY <2>2, <3>2
  <2> QED
    BY <2>6, <2>7
<1>13. CASE UNCHANGED vars
  BY <1>13 DEF vars, QuietStep, Pending
<1>14. Enabled \subseteq Kind
  BY SyncAssumption
<1> HIDE DEF Stored, Erased
<1>15. \/ QuietStep \/ Stored \/ Erased
       \/ \E d \in Device, k \in Kind : AddRecord(d, k)
  <2>1. SUFFICES ASSUME Next
                 PROVE  \/ QuietStep \/ Stored \/ Erased
                        \/ \E d \in Device, k \in Kind : AddRecord(d, k)
    BY <1>13 DEF Stored, Erased
  <2>2. PICK d \in Device :
          \/ \E a \in Account : Login(d, a)
          \/ Logout(d) \/ LeaveUpload(d) \/ StartEdit(d) \/ EditRead(d) \/ EditFails(d) \/ EndEdit(d)
          \/ \E k \in Enabled : AddRecord(d, k)
          \/ \E s \in Slot, left \in SUBSET Enabled : StartSync(d, s, left)
          \/ \E s \in Slot : \/ Added(d, s) \/ ReadCollection(d, s) \/ SyncGoal(d, s)
                             \/ CallFails(d, s) \/ EndSync(d, s)
          \/ \E s \in Slot : Deliver(d, s)
          \/ \E s \in Slot : Replace(d, s)
          \/ EditCommit(d) \/ Crash(d) \/ DeliverOrphan(d) \/ DropOrphan(d)
    BY <2>1 DEF Next, SyncStep
  <2> QED
    BY <1>1, <1>2, <1>3, <1>5, <1>6, <1>7, <1>9, <1>10, <1>11, <1>12, <1>14, <2>2
<1> QED
  BY <1>15 DEF Stored, Erased

-----------------------------------------------------------------------------
(* Each kind is a step of RecordLife.                                       *)

Uploaded(t) == \E a \in Account, k \in Kind : t \in Stamps(remote[a][k])

\* The stages, told apart.
LEMMA Stages ==
  ASSUME NEW t \in Stamp
  PROVE  life[t] = IF t > clock THEN "none"
                   ELSE IF Uploaded(t) THEN "stored"
                   ELSE IF t \in Stamps(gone) THEN "erased"
                   ELSE IF Pending(t) THEN "pending"
                   ELSE "lost"
BY DEF life, Uploaded

LEMMA StagesNext ==
  ASSUME NEW t \in Stamp
  PROVE  life'[t] = IF t > clock' THEN "none"
                    ELSE IF Uploaded(t)' THEN "stored"
                    ELSE IF t \in Stamps(gone') THEN "erased"
                    ELSE IF Pending(t)' THEN "pending"
                    ELSE "lost"
BY DEF life, Uploaded, Stamps

\* A step that moves the records of T, and only them.
LEMMA Becomes ==
  ASSUME NEW T, NEW from, NEW to,
         \A t \in Stamp : IF t \in T THEN life[t] \in from /\ life'[t] = to
                                     ELSE life'[t] = life[t],
         T \subseteq Stamp
  PROVE  Life!Become(T, from, to)
<1>1. life' = [t \in Stamp |-> life'[t]]
  BY DEF life
<1>2. life' = [t \in Stamp |-> IF t \in T THEN to ELSE life[t]]
  BY <1>1
<1> QED
  BY <1>2 DEF Life!Become, Life!Record, Stamp

LEMMA QuietLoses ==
  ASSUME QuietStep
  PROVE  \E T \in SUBSET Stamp : Life!Lose(T)
<1> DEFINE T == {t \in Stamp : life[t] = "pending" /\ life'[t] = "lost"}
<1>1. ASSUME NEW t \in Stamp, t \notin T
      PROVE  life'[t] = life[t]
  <2>1. Uploaded(t)' <=> Uploaded(t)
    BY DEF QuietStep, Uploaded
  <2>2. UNCHANGED <<gone, clock>> /\ (Pending(t)' => Pending(t))
    BY DEF QuietStep
  <2>3. ~(life[t] = "pending" /\ life'[t] = "lost")
    BY <1>1
  <2> QED
    BY <2>1, <2>2, <2>3, Stages, StagesNext
<1>2. \A t \in Stamp : IF t \in T THEN life[t] \in {"pending"} /\ life'[t] = "lost"
                                  ELSE life'[t] = life[t]
  BY <1>1
<1>3. T \in SUBSET Stamp
  OBVIOUS
<1> HIDE DEF T
<1>4. Life!Become(T, {"pending"}, "lost")
  BY <1>2, <1>3, Becomes
<1> QED
  BY <1>3, <1>4 DEF Life!Lose

LEMMA AddCreates ==
  ASSUME Typed, Owned, Accounted, NEW d \in Device, NEW k \in Kind, AddRecord(d, k)
  PROVE  \E t \in Stamp : Life!Create(t)
<1>0. PICK new \in Stamp : new = clock + 1 /\ clock \in Nat
  BY SyncAssumption DEF AddRecord, Typed, Stamp
<1>1. clock' = new /\ UNCHANGED <<remote, gone, run, orphan>>
  BY <1>0 DEF AddRecord, cloud
<1>2. list' = [list EXCEPT ![d][k] = @ \cup {NewRecord(new)}] /\ list \in [Device -> [Kind -> SUBSET Entry]]
  BY <1>0 DEF AddRecord, Typed
<1>3. NewRecord(new).ts = new /\ ~NewRecord(new).up
  BY DEF NewRecord
<1>4. \A c \in Device, j \in Kind :
        /\ list[c][j] \subseteq list'[c][j]
        /\ \A e \in list'[c][j] : e \in list[c][j] \/ e = NewRecord(new)
  BY <1>2
<1>5. NewRecord(new) \in list'[d][k]
  BY <1>2
<1>6. ASSUME NEW t \in Stamp, t # new
      PROVE  life'[t] = life[t]
  <2>1. t > clock' <=> t > clock
    BY <1>0, <1>1, <1>6 DEF Stamp
  <2>2. Pending(t)' <=> Pending(t)
    <3>1. \A c \in Device, j \in Kind :
            t \in Stamps(NotUploaded(list'[c][j])) <=> t \in Stamps(NotUploaded(list[c][j]))
      BY <1>3, <1>4, <1>6 DEF Stamps, NotUploaded
    <3> QED
      BY <1>1, <3>1 DEF Pending, Stamps, NotUploaded
  <2> QED
    BY <1>1, <2>1, <2>2, Stages, StagesNext DEF Uploaded
<1>7. life[new] = "none"
  BY <1>0, Stages
<1>8. life'[new] = "pending"
  <2>1. ~(new > clock') /\ ~(new \in 1 .. clock)
    BY <1>0, <1>1
  <2>2. ~Uploaded(new)'
    BY <1>1, <2>1 DEF Uploaded, Stamps, Owned, RemoteOwned, Made
  <2>3. new \notin Stamps(gone')
    BY <1>1, <2>1 DEF Stamps, Accounted, GoneOld
  <2>4. Pending(new)'
    BY <1>3, <1>5 DEF Pending, Stamps, NotUploaded
  <2> QED
    BY <1>1, <2>1, <2>2, <2>3, <2>4, StagesNext
<1>9. Life!Become({new}, {"none"}, "pending")
  BY <1>1, <1>6, <1>7, <1>8, Becomes
<1> QED
  BY <1>1, <1>9 DEF Life!Create

LEMMA StoreSaves ==
  ASSUME Typed, NEW a \in Account, NEW k \in Kind, NEW e \in Entry, StoreStep(a, k, e)
  PROVE  \E t \in Stamp : Life!Save(t)
<1>1. PICK doc : doc = [ToJson(e) EXCEPT !.doc = docs + 1]
  OBVIOUS
<1>2. doc.ts = e.ts
  BY <1>1 DEF ToJson, Entry
<1>3. /\ remote' = [remote EXCEPT ![a][k] = @ \cup {doc}]
      /\ UNCHANGED <<gone, clock>>
      /\ remote \in [Account -> [Kind -> SUBSET Entry]]
  BY <1>1 DEF StoreStep, Store, Typed
<1>4. e.ts \in Stamp /\ e.ts \in 1 .. clock /\ Pending(e.ts) /\ clock \in Nat
  BY SyncAssumption DEF StoreStep, Entry, Typed
<1>5. /\ doc \in remote'[a][k]
      /\ \A b \in Account, j \in Kind :
           /\ remote[b][j] \subseteq remote'[b][j]
           /\ \A f \in remote'[b][j] : f \in remote[b][j] \/ f = doc
  BY <1>3
<1>6. ASSUME NEW t \in Stamp, t # e.ts
      PROVE  life'[t] = life[t]
  <2>1. Uploaded(t)' <=> Uploaded(t)
    BY <1>2, <1>5, <1>6 DEF Uploaded, Stamps
  <2>2. Pending(t)' <=> Pending(t)
    BY <1>6 DEF StoreStep
  <2> QED
    BY <1>3, <2>1, <2>2, Stages, StagesNext
<1>7. life[e.ts] \in {"pending", "stored", "erased"}
  <2>1. ~(e.ts > clock)
    BY <1>4
  <2> QED
    BY <1>4, <2>1, Stages
<1>8. life'[e.ts] = "stored"
  <2>1. ~(e.ts > clock')
    BY <1>3, <1>4
  <2>2. Uploaded(e.ts)'
    BY <1>2, <1>5 DEF Uploaded, Stamps
  <2> QED
    BY <1>4, <2>1, <2>2, StagesNext
<1>9. PICK t \in Stamp : t = e.ts
  BY <1>4
<1>10. Life!Become({t}, {"pending", "stored", "erased"}, "stored")
  BY <1>6, <1>7, <1>8, <1>9, Becomes
<1> QED
  BY <1>10 DEF Life!Save

LEMMA EraseErases ==
  ASSUME Typed, Owned, NEW a \in Account, NEW S \in SUBSET Entry, EraseStep(a, S)
  PROVE  \E T \in SUBSET Stamp : Life!Erase(T)
<1> DEFINE T == {t \in Stamp : life[t] = "stored" /\ life'[t] = "erased"}
<1>1. /\ remote' = [remote EXCEPT ![a]["update"] = @ \ S]
      /\ gone' = gone \cup S /\ clock' = clock
      /\ \A e \in S : Known(e)
      /\ remote \in [Account -> [Kind -> SUBSET Entry]]
  BY DEF EraseStep, Erase, Typed
<1>2. \A b \in Account, j \in Kind :
        /\ remote'[b][j] \subseteq remote[b][j]
        /\ \A f \in remote[b][j] : f \in remote'[b][j] \/ f \in S
  BY <1>1 DEF Kind
<1>3. ASSUME NEW t \in Stamp, t \notin T
      PROVE  life'[t] = life[t]
  <2>1. Pending(t)' <=> Pending(t)
    BY DEF EraseStep
  <2>2. Uploaded(t)' => Uploaded(t)
    BY <1>2 DEF Uploaded, Stamps
  <2>3. Uploaded(t) => Uploaded(t)' \/ t \in Stamps(gone')
    BY <1>1, <1>2 DEF Uploaded, Stamps
  <2>4. t \in Stamps(gone) => t \in Stamps(gone')
    BY <1>1 DEF Stamps
  <2>5. t \in Stamps(gone') => t \in Stamps(gone) \/ Uploaded(t)
    BY <1>1 DEF Stamps, Known, Uploaded
  <2>6. ~(life[t] = "stored" /\ life'[t] = "erased")
    BY <1>3
  <2> QED
    BY <1>1, <2>1, <2>2, <2>3, <2>4, <2>5, <2>6, Stages, StagesNext
<1>4. \A t \in Stamp : IF t \in T THEN life[t] \in {"stored"} /\ life'[t] = "erased"
                                  ELSE life'[t] = life[t]
  BY <1>3
<1>5. T \in SUBSET Stamp
  OBVIOUS
<1> HIDE DEF T
<1>6. Life!Become(T, {"stored"}, "erased")
  BY <1>4, <1>5, Becomes
<1> QED
  BY <1>5, <1>6 DEF Life!Erase

LEMMA LifeInit == Init => Life!Init
<1> SUFFICES ASSUME Init PROVE Life!Init
  OBVIOUS
<1>1. \A t \in Stamp : life[t] = "none"
  BY SyncAssumption, Stages DEF Init, Stamp
<1>2. life = [t \in Stamp |-> life[t]]
  BY DEF life
<1>3. life = [t \in Stamp |-> "none"]
  BY <1>1, <1>2
<1> QED
  BY <1>3 DEF Life!Init, Life!Record, Stamp

LEMMA LifeStep == Typed /\ Owned /\ Accounted /\ [Next]_vars => [Life!Next]_life
<1> SUFFICES ASSUME Typed, Owned, Accounted, [Next]_vars PROVE Life!Next
  OBVIOUS
<1>1. Stamp = Life!Record
  BY DEF Stamp, Life!Record
<1>2. CASE QuietStep
  BY <1>1, <1>2, QuietLoses DEF Life!Next
<1>3. CASE \E d \in Device, k \in Kind : AddRecord(d, k)
  BY <1>1, <1>3, AddCreates DEF Life!Next
<1>4. CASE \E a \in Account, k \in Kind, e \in Entry : StoreStep(a, k, e)
  BY <1>1, <1>4, StoreSaves DEF Life!Next
<1>5. CASE \E a \in Account, S \in SUBSET Entry : EraseStep(a, S)
  BY <1>1, <1>5, EraseErases DEF Life!Next
<1> QED
  BY <1>2, <1>3, <1>4, <1>5, StepKinds

\* The syncs, edits, crashes and late writes implement the life of records: a stored
\* record leaves the cloud only when a profile edit deletes it, and a lost one never
\* reappears (upload_function.dart:13-103, edit_function.dart:113-133).
THEOREM SyncsImplementLife == Spec => LifeOfRecords
<1>1. Spec => Life!Spec
  BY TypedInit, TypedStep, OwnedInit, OwnedStep, AccountedInit, AccountedStep,
     LifeInit, LifeStep, PTL DEF Spec, Life!Spec
<1> QED
  BY <1>1 DEF LifeOfRecords

=============================================================================
