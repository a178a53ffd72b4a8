-------------------------- MODULE RecordOnceProofs --------------------------
(***************************************************************************)
(* No record is stored twice, for any number of devices, accounts, syncs   *)
(* and records, as long as no sync of a device overlapped another one,     *)
(* failed or died (OnceEach of RecordSync).                                *)
(*                                                                         *)
(* OnceEach is not inductive: a record must also wait for upload in one    *)
(* place at most, what a sync still has to add must not be stored, and a   *)
(* stored record may only go on waiting in the list that a sync is about   *)
(* to replace.                                                             *)
(***************************************************************************)
EXTENDS RecordLifeProofs

\* From its snapshot to the replacement of the list a sync is at work on one list.
Active == {"adding", "added", "reading", "read"}

Single ==
  \A d \in Device, s, t \in Slot : run[d][s].pc # "idle" /\ run[d][t].pc # "idle" => s = t

IdleDone == \A d \in Device, s \in Slot : run[d][s].pc = "idle" => run[d][s].todo = {}

NoLateAdd == \A d \in Device : \A w \in orphan[d] : w.op # "add"

\* A record waits in one list at most ...
FreshOnce ==
  \A c, d \in Device, j, k \in Kind :
    \A f \in NotUploaded(list[c][j]), e \in NotUploaded(list[d][k]) :
      f.ts = e.ts => c = d /\ j = k /\ f = e

\* ... and, if it is also in a sync, in a list of the device and the kind of that sync;
TodoFresh ==
  \A c, d \in Device, s \in Slot, k \in Kind :
    \A f \in run[c][s].todo, e \in NotUploaded(list[d][k]) :
      f.ts = e.ts => c = d /\ run[c][s].kind = k /\ f = e

\* it waits in one sync at most.
TodoOnce ==
  \A c, d \in Device, s, t \in Slot :
    \A f \in run[c][s].todo, e \in run[d][t].todo :
      f.ts = e.ts => c = d /\ s = t /\ f = e

\* What run r still has to send.
ToSend(r) == IF r.pc = "added" THEN r.todo \ {FirstOf(r.todo)} ELSE r.todo

TodoNew ==
  \A d \in Device, s \in Slot : \A e \in ToSend(run[d][s]) : ~Uploaded(e.ts)

FreshStored ==
  \A d \in Device, k \in Kind : \A e \in NotUploaded(list[d][k]) :
    Uploaded(e.ts) => \E s \in Slot : run[d][s].pc \in Active /\ run[d][s].kind = k

StoredOnce == \A a \in Account, k \in Kind : \A e, f \in remote[a][k] : e.ts = f.ts => e = f

Orderly ==
  /\ Single /\ IdleDone /\ NoLateAdd
  /\ FreshOnce /\ TodoFresh /\ TodoOnce
  /\ TodoNew /\ FreshStored /\ StoredOnce

LEMMA OrderlyInit == Init => Orderly
<1> SUFFICES ASSUME Init PROVE Orderly
  OBVIOUS
<1>1. /\ \A d \in Device, s \in Slot : run[d][s].pc = "idle" /\ run[d][s].todo = {}
      /\ \A d \in Device, k \in Kind : NotUploaded(list[d][k]) = {}
      /\ \A d \in Device : orphan[d] = {}
      /\ \A a \in Account, k \in Kind : remote[a][k] = {}
  BY DEF Init, NoRun, NotUploaded
<1>2. Single /\ IdleDone /\ NoLateAdd
  BY <1>1 DEF Single, IdleDone, NoLateAdd
<1>3. FreshOnce /\ TodoFresh /\ TodoOnce /\ TodoNew /\ FreshStored
  BY <1>1 DEF FreshOnce, TodoFresh, TodoOnce, TodoNew, ToSend, FreshStored
<1>4. StoredOnce
  BY <1>1 DEF StoredOnce
<1> QED
  BY <1>2, <1>3, <1>4 DEF Orderly

-----------------------------------------------------------------------------
(* Steps that start nothing.                                                *)

\* Run q goes on from run r, or is over.
GoesOn(r, q) ==
  /\ q.pc # "idle" => r.pc # "idle"
  /\ q.pc = "idle" => q.todo = {}
  /\ q.todo \subseteq r.todo
  /\ q.todo # {} => q.kind = r.kind
  /\ ToSend(q) \subseteq ToSend(r)
  /\ r.pc \in Active => q.pc \in Active /\ q.kind = r.kind

LEMMA OrderlyStays ==
  ASSUME Orderly,
         \A d \in Device, k \in Kind : NotUploaded(list'[d][k]) \subseteq NotUploaded(list[d][k]),
         \A a \in Account, k \in Kind : remote'[a][k] \subseteq remote[a][k],
         \A d \in Device : \A w \in orphan'[d] : w.op # "add",
         \A d \in Device, s \in Slot : run'[d][s] = run[d][s] \/ GoesOn(run[d][s], run'[d][s])
  PROVE  Orderly'
<1>1. \A t : Uploaded(t)' => Uploaded(t)
  BY DEF Uploaded, Stamps
<1>2. \A d \in Device, s \in Slot :
        /\ run'[d][s].pc # "idle" => run[d][s].pc # "idle"
        /\ run'[d][s].pc = "idle" => run'[d][s].todo = {}
        /\ run'[d][s].todo \subseteq run[d][s].todo
        /\ run'[d][s].todo # {} => run'[d][s].kind = run[d][s].kind
        /\ ToSend(run'[d][s]) \subseteq ToSend(run[d][s])
        /\ run[d][s].pc \in Active =>
             run'[d][s].pc \in Active /\ run'[d][s].kind = run[d][s].kind
  BY DEF GoesOn, Orderly, IdleDone
<1>3. Single' /\ IdleDone' /\ NoLateAdd'
  BY <1>2 DEF Orderly, Single, IdleDone, NoLateAdd
<1>4. FreshOnce'
  <2> SUFFICES ASSUME NEW c \in Device, NEW d \in Device, NEW j \in Kind, NEW k \in Kind,
                      NEW f \in NotUploaded(list'[c][j]), NEW e \in NotUploaded(list'[d][k]),
                      f.ts = e.ts
               PROVE  c = d /\ j = k /\ f = e
    BY DEF FreshOnce, NotUploaded
  <2> QED
    BY DEF Orderly, FreshOnce
<1>5. TodoFresh'
  <2> SUFFICES ASSUME NEW c \in Device, NEW d \in Device, NEW s \in Slot, NEW k \in Kind,
                      NEW f \in run'[c][s].todo, NEW e \in NotUploaded(list'[d][k]),
                      f.ts = e.ts
               PROVE  c = d /\ run'[c][s].kind = k /\ f = e
    BY DEF TodoFresh, NotUploaded
  <2>1. f \in run[c][s].todo /\ e \in NotUploaded(list[d][k]) /\ run'[c][s].kind = run[c][s].kind
    BY <1>2
  <2> QED
    BY <2>1 DEF Orderly, TodoFresh
<1>6. TodoOnce'
  <2> SUFFICES ASSUME NEW c \in Device, NEW d \in Device, NEW s \in Slot, NEW t \in Slot,
                      NEW f \in run'[c][s].todo, NEW e \in run'[d][t].todo, f.ts = e.ts
               PROVE  c = d /\ s = t /\ f = e
    BY DEF TodoOnce
  <2> QED
    BY <1>2 DEF Orderly, TodoOnce
<1>7. TodoNew'
  <2> SUFFICES ASSUME NEW d \in Device, NEW s \in Slot, NEW e \in ToSend(run'[d][s])
               PROVE  ~Uploaded(e.ts)'
    BY DEF TodoNew, ToSend, FirstOf
  <2>1. e \in ToSend(run[d][s])
    BY <1>2
  <2> QED
    BY <1>1, <2>1 DEF Orderly, TodoNew
<1>8. FreshStored'
  <2> SUFFICES ASSUME NEW d \in Device, NEW k \in Kind, NEW e \in NotUploaded(list'[d][k]),
                      Uploaded(e.ts)'
               PROVE  \E s \in Slot : run'[d][s].pc \in Active /\ run'[d][s].kind = k
    BY DEF FreshStored, NotUploaded, Active
  <2>1. PICK s \in Slot : run[d][s].pc \in Active /\ run[d][s].kind = k
    BY <1>1 DEF Orderly, FreshStored
  <2> QED
    BY <1>2, <2>1
<1>9. StoredOnce'
  BY DEF Orderly, StoredOnce
<1> QED
  BY <1>3, <1>4, <1>5, <1>6, <1>7, <1>8, <1>9 DEF Orderly

-----------------------------------------------------------------------------
(* A sync function begins.                                                  *)

LEMMA NextSyncShape ==
  ASSUME NEW u, NEW lists, NEW left, NEW lost, NEW q, q = NextSync(u, lists, left, lost)
  PROVE  /\ q.pc \in {"idle", "goal", "reading", "adding"}
         /\ q.todo # {} => /\ q.pc = "adding" /\ q.kind \in Kind
                           /\ q.todo = NotUploaded(lists[q.kind])
<1>1. CASE u = None \/ left = {}
  BY <1>1 DEF NextSync, NoRun
<1>2. CASE u # None /\ left # {}
  <2> DEFINE fresh == NotUploaded(lists[FirstKind(left)])
  <2>1. /\ q.todo = fresh /\ q.kind = FirstKind(left)
        /\ q.pc = IF fresh = {} THEN "reading" ELSE "adding"
    BY <1>2 DEF NextSync
  <2> HIDE DEF fresh
  <2>2. fresh = NotUploaded(lists[q.kind]) /\ q.kind \in Kind
    BY <2>1, FirstKindIn DEF fresh
  <2> QED
    BY <2>1, <2>2
<1> QED
  BY <1>1, <1>2

LEMMA OrderlyBegins ==
  ASSUME Typed, Orderly, NEW d \in Device, NEW s \in Slot,
         NEW u, NEW lists, NEW left, NEW lost, NEW q, q = NextSync(u, lists, left, lost),
         run' = [run EXCEPT ![d][s] = q], list' = [list EXCEPT ![d] = lists],
         UNCHANGED <<remote, orphan>>,
         \A t \in Slot : t # s => run[d][t].pc = "idle",
         \A k \in Kind : NotUploaded(lists[k]) \subseteq NotUploaded(list[d][k]),
         \A k \in Kind : \A e \in NotUploaded(lists[k]) : ~Uploaded(e.ts)
  PROVE  Orderly'
<1>1. /\ run'[d][s] = q
      /\ \A c \in Device, t \in Slot : ~(c = d /\ t = s) => run'[c][t] = run[c][t]
      /\ list'[d] = lists
      /\ \A c \in Device : c # d => list'[c] = list[c]
  BY DEF Typed
<1>2. /\ q.pc \in {"idle", "goal", "reading", "adding"}
      /\ q.todo # {} => /\ q.pc = "adding" /\ q.kind \in Kind
                        /\ q.todo = NotUploaded(lists[q.kind])
  BY NextSyncShape
<1>3. \A t : Uploaded(t)' <=> Uploaded(t)
  BY DEF Uploaded
<1>4. \A c \in Device, k \in Kind : NotUploaded(list'[c][k]) \subseteq NotUploaded(list[c][k])
  BY <1>1
<1>5. \A t \in Slot : t # s => run'[d][t].pc = "idle" /\ run'[d][t].todo = {}
  BY <1>1 DEF Orderly, IdleDone
<1>6. Single' /\ IdleDone' /\ NoLateAdd'
  <2>1. Single'
    <3> SUFFICES ASSUME NEW c \in Device, NEW x \in Slot, NEW y \in Slot,
                        run'[c][x].pc # "idle", run'[c][y].pc # "idle"
                 PROVE  x = y
      BY DEF Single
    <3>1. CASE c = d
      BY <1>5, <3>1
    <3>2. CASE c # d
      BY <1>1, <3>2 DEF Orderly, Single
    <3> QED
      BY <3>1, <3>2
  <2>2. IdleDone'
    <3> SUFFICES ASSUME NEW c \in Device, NEW x \in Slot, run'[c][x].pc = "idle"
                 PROVE  run'[c][x].todo = {}
      BY DEF IdleDone
    <3>1. CASE c = d /\ x = s
      BY <1>1, <1>2, <3>1
    <3>2. CASE ~(c = d /\ x = s)
      BY <1>1, <3>2 DEF Orderly, IdleDone
    <3> QED
      BY <3>1, <3>2
  <2>3. NoLateAdd'
    BY DEF Orderly, NoLateAdd
  <2> QED
    BY <2>1, <2>2, <2>3
<1>7. FreshOnce'
  <2> SUFFICES ASSUME NEW c \in Device, NEW x \in Device, NEW j \in Kind, NEW k \in Kind,
                      NEW f \in NotUploaded(list'[c][j]), NEW e \in NotUploaded(list'[x][k]),
                      f.ts = e.ts
               PROVE  c = x /\ j = k /\ f = e
    BY DEF FreshOnce, NotUploaded
  <2> QED
    BY <1>4 DEF Orderly, FreshOnce
\* What the new run has to add was in a list of the device.
<1>8. ASSUME NEW c \in Device, NEW t \in Slot, NEW f \in run'[c][t].todo
      PROVE  \/ /\ c = d /\ t = s /\ q.todo # {} /\ f \in NotUploaded(lists[q.kind])
                /\ f \in NotUploaded(list[d][q.kind]) /\ run'[c][t].kind = q.kind
             \/ /\ c # d /\ f \in run[c][t].todo /\ run'[c][t] = run[c][t]
  <2>1. CASE c = d /\ t = s
    BY <1>1, <1>2, <1>8, <2>1
  <2>2. CASE c = d /\ t # s
    BY <1>5, <1>8, <2>2
  <2>3. CASE c # d
    BY <1>1, <1>8, <2>3
  <2> QED
    BY <2>1, <2>2, <2>3
<1>9. TodoFresh'
  <2> SUFFICES ASSUME NEW c \in Device, NEW x \in Device, NEW t \in Slot, NEW k \in Kind,
                      NEW f \in run'[c][t].todo, NEW e \in NotUploaded(list'[x][k]),
                      f.ts = e.ts
               PROVE  c = x /\ run'[c][t].kind = k /\ f = e
    BY DEF TodoFresh, NotUploaded
  <2>1. e \in NotUploaded(list[x][k])
    BY <1>4
  <2>2. CASE c = d
    <3>1. f \in NotUploaded(list[d][q.kind]) /\ run'[c][t].kind = q.kind /\ q.kind \in Kind
      BY <1>2, <1>8, <2>2
    <3> QED
      BY <2>1, <2>2, <3>1 DEF Orderly, FreshOnce
  <2>3. CASE c # d
    <3>1. f \in run[c][t].todo /\ run'[c][t] = run[c][t]
      BY <1>8, <2>3
    <3> QED
      BY <2>1, <3>1 DEF Orderly, TodoFresh
  <2> QED
    BY <2>2, <2>3
<1>10. TodoOnce'
  <2> SUFFICES ASSUME NEW c \in Device, NEW x \in Device, NEW t \in Slot, NEW y \in Slot,
                      NEW f \in run'[c][t].todo, NEW e \in run'[x][y].todo, f.ts = e.ts
               PROVE  c = x /\ t = y /\ f = e
    BY DEF TodoOnce
  <2>1. CASE c = d /\ x = d
    <3>1. /\ t = s /\ y = s /\ q.kind \in Kind
          /\ f \in NotUploaded(list[d][q.kind]) /\ e \in NotUploaded(list[d][q.kind])
      BY <1>2, <1>8, <2>1
    <3> QED
      BY <2>1, <3>1 DEF Orderly, FreshOnce
  <2>2. CASE c = d /\ x # d
    <3>1. f \in NotUploaded(list[d][q.kind]) /\ q.kind \in Kind /\ e \in run[x][y].todo
      BY <1>2, <1>8, <2>2
    <3> QED
      BY <2>2, <3>1 DEF Orderly, TodoFresh
  <2>3. CASE c # d /\ x = d
    <3>1. e \in NotUploaded(list[d][q.kind]) /\ q.kind \in Kind /\ f \in run[c][t].todo
      BY <1>2, <1>8, <2>3
    <3> QED
      BY <2>3, <3>1 DEF Orderly, TodoFresh
  <2>4. CASE c # d /\ x # d
    <3>1. f \in run[c][t].todo /\ e \in run[x][y].todo
      BY <1>8, <2>4
    <3> QED
      BY <3>1 DEF Orderly, TodoOnce
  <2> QED
    BY <2>1, <2>2, <2>3, <2>4
<1>11. TodoNew'
  <2> SUFFICES ASSUME NEW c \in Device, NEW t \in Slot, NEW e \in ToSend(run'[c][t])
               PROVE  ~Uploaded(e.ts)
    BY <1>3 DEF TodoNew, ToSend, FirstOf
  <2>1. e \in run'[c][t].todo
    BY DEF ToSend
  <2>2. CASE c = d
    BY <1>2, <1>8, <2>1, <2>2
  <2>3. CASE c # d
    BY <1>1, <2>3 DEF Orderly, TodoNew
  <2> QED
    BY <2>2, <2>3
<1>12. FreshStored'
  <2> SUFFICES ASSUME NEW c \in Device, NEW k \in Kind, NEW e \in NotUploaded(list'[c][k]),
                      Uploaded(e.ts)
               PROVE  \E t \in Slot : run'[c][t].pc \in Active /\ run'[c][t].kind = k
    BY <1>3 DEF FreshStored, NotUploaded, Active
  <2>1. c # d
    BY <1>1
  <2> QED
    BY <1>1, <2>1 DEF Orderly, FreshStored
<1>13. StoredOnce'
  BY DEF Orderly, StoredOnce
<1> QED
  BY <1>6, <1>7, <1>9, <1>10, <1>11, <1>12, <1>13 DEF Orderly

-----------------------------------------------------------------------------
(* A record is added; a record is stored.                                   *)

LEMMA OrderlyAdds ==
  ASSUME Typed, Owned, Orderly, NEW d \in Device, NEW k \in Kind, AddRecord(d, k)
  PROVE  Orderly'
<1>0. PICK new \in Stamp : new = clock + 1 /\ clock \in Nat
  BY SyncAssumption DEF AddRecord, Typed, Stamp
<1>1. UNCHANGED <<remote, run, orphan>>
  BY DEF AddRecord, cloud
<1>2. list' = [list EXCEPT ![d][k] = @ \cup {NewRecord(new)}]
  BY <1>0 DEF AddRecord
<1>3. NewRecord(new).ts = new
  BY DEF NewRecord
<1>4. ASSUME NEW c \in Device, NEW j \in Kind, NEW e \in NotUploaded(list'[c][j])
      PROVE  e \in NotUploaded(list[c][j]) \/ (c = d /\ j = k /\ e = NewRecord(new))
  BY <1>2, <1>4 DEF Typed, NotUploaded
<1>5. /\ \A c \in Device, j \in Kind : \A e \in NotUploaded(list[c][j]) : e.ts # new
      /\ \A c \in Device, s \in Slot : \A e \in run[c][s].todo : e.ts # new
      /\ ~Uploaded(new)
  <2>1. \A t, a, j : Made(t, a, j) => t # new
    BY <1>0 DEF Made
  <2>2. \A c \in Device, j \in Kind : \A e \in NotUploaded(list[c][j]) : e.ts # new
    BY <2>1 DEF Owned, FreshOwned
  <2>3. \A c \in Device, s \in Slot : \A e \in run[c][s].todo : e.ts # new
    BY <2>1 DEF Owned, TodoOwned
  <2>4. ~Uploaded(new)
    BY <2>1 DEF Owned, RemoteOwned, Uploaded, Stamps
  <2> QED
    BY <2>2, <2>3, <2>4
<1>6. Single' /\ IdleDone' /\ NoLateAdd' /\ TodoOnce' /\ StoredOnce'
  BY <1>1 DEF Orderly, Single, IdleDone, NoLateAdd, TodoOnce, StoredOnce
<1>7. TodoNew'
  BY <1>1 DEF Orderly, TodoNew, ToSend, FirstOf, Uploaded
<1>8. FreshOnce'
  <2> SUFFICES ASSUME NEW c \in Device, NEW x \in Device, NEW i \in Kind, NEW j \in Kind,
                      NEW f \in NotUploaded(list'[c][i]), NEW e \in NotUploaded(list'[x][j]),
                      f.ts = e.ts
               PROVE  c = x /\ i = j /\ f = e
    BY DEF FreshOnce, NotUploaded
  <2>1. f \in NotUploaded(list[c][i]) \/ (c = d /\ i = k /\ f = NewRecord(new))
    BY <1>4
  <2>2. e \in NotUploaded(list[x][j]) \/ (x = d /\ j = k /\ e = NewRecord(new))
    BY <1>4
  <2> QED
    BY <1>3, <1>5, <2>1, <2>2 DEF Orderly, FreshOnce
<1>9. TodoFresh'
  <2> SUFFICES ASSUME NEW c \in Device, NEW x \in Device, NEW s \in Slot, NEW j \in Kind,
                      NEW f \in run[c][s].todo, NEW e \in NotUploaded(list'[x][j]),
                      f.ts = e.ts
               PROVE  c = x /\ run[c][s].kind = j /\ f = e
    BY <1>1 DEF TodoFresh, NotUploaded
  <2>1. e \in NotUploaded(list[x][j]) \/ e = NewRecord(new)
    BY <1>4
  <2> QED
    BY <1>3, <1>5, <2>1 DEF Orderly, TodoFresh
<1>10. FreshStored'
  <2> SUFFICES ASSUME NEW c \in Device, NEW j \in Kind, NEW e \in NotUploaded(list'[c][j]),
                      Uploaded(e.ts)
               PROVE  \E s \in Slot : run[c][s].pc \in Active /\ run[c][s].kind = j
    BY <1>1 DEF FreshStored, NotUploaded, Active, Uploaded
  <2>1. e \in NotUploaded(list[c][j]) \/ e = NewRecord(new)
    BY <1>4
  <2> QED
    BY <1>3, <1>5, <2>1 DEF Orderly, FreshStored
<1> QED
  BY <1>6, <1>7, <1>8, <1>9, <1>10 DEF Orderly

LEMMA OrderlyDelivers ==
  ASSUME Typed, Orderly, NEW d \in Device, NEW s \in Slot, Deliver(d, s)
  PROVE  Orderly'
<1>1. PICK r : r = run[d][s]
  OBVIOUS
<1>2. PICK e : e = FirstOf(r.todo)
  OBVIOUS
<1>3. PICK q : q = [r EXCEPT !.pc = "added"]
  OBVIOUS
<1>4. PICK doc : doc = [ToJson(e) EXCEPT !.doc = docs + 1]
  OBVIOUS
<1>5. r \in GoodRun /\ r.pc = "adding"
  BY <1>1 DEF Typed, Deliver
<1>6. r.acct \in Account /\ r.kind \in Kind /\ e \in r.todo /\ e \in Entry
  BY <1>2, <1>5, FirstOfIn DEF GoodRun, Run
<1>7. q.pc = "added" /\ q.todo = r.todo /\ q.kind = r.kind
  BY <1>3, <1>5 DEF GoodRun, Run
<1>8. /\ remote' = [remote EXCEPT ![r.acct][r.kind] = @ \cup {doc}]
      /\ run' = [run EXCEPT ![d][s] = q]
      /\ UNCHANGED <<list, orphan>>
  BY <1>1, <1>2, <1>3, <1>4 DEF Deliver, Store
<1>9. doc.ts = e.ts
  BY <1>4, <1>6 DEF ToJson, Entry
<1>10. \A a \in Account, k \in Kind : \A f \in remote'[a][k] :
         f \in remote[a][k] \/ (a = r.acct /\ k = r.kind /\ f = doc)
  BY <1>8 DEF Typed
<1>11. /\ run'[d][s] = q
       /\ \A c \in Device, t \in Slot : ~(c = d /\ t = s) => run'[c][t] = run[c][t]
  BY <1>8 DEF Typed
<1>12. \A t : Uploaded(t)' => Uploaded(t) \/ t = e.ts
  BY <1>9, <1>10 DEF Uploaded, Stamps
<1>13. \A c \in Device, t \in Slot :
         /\ run'[c][t].pc = "idle" <=> run[c][t].pc = "idle"
         /\ run'[c][t].todo = run[c][t].todo /\ run'[c][t].kind = run[c][t].kind
         /\ run[c][t].pc \in Active => run'[c][t].pc \in Active
  BY <1>1, <1>5, <1>7, <1>11 DEF Active
<1>14. Single' /\ IdleDone' /\ NoLateAdd' /\ FreshOnce'
  BY <1>8, <1>13 DEF Orderly, Single, IdleDone, NoLateAdd, FreshOnce
<1>15. TodoFresh' /\ TodoOnce'
  BY <1>8, <1>13 DEF Orderly, TodoFresh, TodoOnce
<1>16. TodoNew'
  <2> SUFFICES ASSUME NEW c \in Device, NEW t \in Slot, NEW f \in ToSend(run'[c][t])
               PROVE  ~Uploaded(f.ts)'
    BY DEF TodoNew, ToSend, FirstOf
  <2>1. CASE c = d /\ t = s
    <3>1. f \in r.todo /\ f # e
      BY <1>2, <1>7, <1>11, <2>1 DEF ToSend
    <3>2. f.ts # e.ts
      BY <1>1, <1>6, <3>1 DEF Orderly, TodoOnce
    <3>3. f \in ToSend(run[d][s])
      BY <1>1, <1>5, <3>1 DEF ToSend
    <3> QED
      BY <1>12, <3>2, <3>3 DEF Orderly, TodoNew
  <2>2. CASE ~(c = d /\ t = s)
    <3>1. f \in ToSend(run[c][t]) /\ f \in run[c][t].todo
      BY <1>11, <2>2 DEF ToSend
    <3>2. f.ts # e.ts
      BY <1>1, <1>6, <2>2, <3>1 DEF Orderly, TodoOnce
    <3> QED
      BY <1>12, <3>1, <3>2 DEF Orderly, TodoNew
  <2> QED
    BY <2>1, <2>2
<1>17. FreshStored'
  <2> SUFFICES ASSUME NEW c \in Device, NEW k \in Kind, NEW f \in NotUploaded(list[c][k]),
                      Uploaded(f.ts)'
               PROVE  \E t \in Slot : run'[c][t].pc \in Active /\ run'[c][t].kind = k
    BY <1>8 DEF FreshStored, NotUploaded, Active
  <2>1. CASE f.ts = e.ts
    <3>1. c = d /\ r.kind = k
      BY <1>1, <1>6, <2>1 DEF Orderly, TodoFresh
    <3> QED
      BY <1>7, <1>11, <3>1 DEF Active
  <2>2. CASE f.ts # e.ts
    <3>1. PICK t \in Slot : run[c][t].pc \in Active /\ run[c][t].kind = k
      BY <1>12, <2>2 DEF Orderly, FreshStored
    <3> QED
      BY <1>13, <3>1
  <2> QED
    BY <2>1, <2>2
<1>18. StoredOnce'
  <2> SUFFICES ASSUME NEW a \in Account, NEW k \in Kind,
                      NEW f \in remote'[a][k], NEW g \in remote'[a][k], f.ts = g.ts
               PROVE  f = g
    BY DEF StoredOnce
  <2>1. ~Uploaded(e.ts)
    BY <1>1, <1>5, <1>6 DEF Orderly, TodoNew, ToSend
  <2>2. \A h \in remote[a][k] : h.ts # doc.ts
    BY <1>9, <2>1 DEF Uploaded, Stamps
  <2> QED
    BY <1>10, <2>2 DEF Orderly, StoredOnce
<1> QED
  BY <1>14, <1>15, <1>16, <1>17, <1>18 DEF Orderly

-----------------------------------------------------------------------------
(* Every step.                                                              *)

Once == tidy => Orderly

LEMMA OnceStep == Typed /\ Owned /\ Once /\ [Next]_vars => Once'
<1> SUFFICES ASSUME Typed, Owned, Once, [Next]_vars, tidy' PROVE Orderly'
  BY DEF Once
<1> USE DEF session, cloud, made, flags
<1>1. ASSUME Orderly, UNCHANGED <<remote, run>>,
             \A d \in Device : orphan'[d] \subseteq orphan[d],
             \A d \in Device, k \in Kind : list'[d][k] \subseteq list[d][k]
      PROVE  Orderly'
  <2>1. \A d \in Device, k \in Kind : NotUploaded(list'[d][k]) \subseteq NotUploaded(list[d][k])
    BY <1>1 DEF NotUploaded
  <2>2. \A d \in Device : \A w \in orphan'[d] : w.op # "add"
    BY <1>1 DEF Orderly, NoLateAdd
  <2> QED
    BY <1>1, <2>1, <2>2, OrderlyStays
<1>2. ASSUME NEW d \in Device,
             \/ \E a \in Account : Login(d, a)
             \/ LeaveUpload(d) \/ EditRead(d) \/ EditFails(d) \/ EndEdit(d)
      PROVE  Orderly'
  <2>1. UNCHANGED <<remote, run, orphan, list, tidy>>
    BY <1>2 DEF Login, LeaveUpload, EditRead, EditFails, EndEdit
  <2> QED
    BY <1>1, <2>1 DEF Once
<1>3. ASSUME NEW d \in Device, Logout(d) \/ StartEdit(d) PROVE Orderly'
  <2>1. UNCHANGED <<remote, run, orphan, tidy>>
    BY <1>3 DEF Logout, StartEdit
  <2>2. \A c \in Device, k \in Kind : list'[c][k] \subseteq list[c][k]
    <3>1. CASE Logout(d)
      BY <3>1 DEF Logout, Typed
    <3>2. CASE StartEdit(d)
      BY <3>2 DEF StartEdit, Typed
    <3> QED
      BY <1>3, <3>1, <3>2
  <2> QED
    BY <1>1, <2>1, <2>2 DEF Once
<1>4. ASSUME NEW d \in Device, NEW k \in Enabled, AddRecord(d, k) PROVE Orderly'
  <2>1. k \in Kind /\ tidy' = tidy
    BY <1>4, SyncAssumption DEF AddRecord
  <2> QED
    BY <1>4, <2>1, OrderlyAdds DEF Once
<1>5. ASSUME NEW d \in Device, NEW s \in Slot, NEW left \in SUBSET Enabled, StartSync(d, s, left)
      PROVE  Orderly'
  <2>1. tidy /\ ~Busy(d)
    BY <1>5 DEF StartSync, Typed
  <2>2. Orderly /\ \A t \in Slot : run[d][t].pc = "idle"
    BY <2>1 DEF Once, Busy
  <2>3. PICK q : q = NextSync(user[d], list[d], left, {})
    OBVIOUS
  <2>4. run' = [run EXCEPT ![d][s] = q] /\ UNCHANGED <<list, remote, orphan>>
    BY <1>5, <2>3 DEF StartSync
  <2>5. list' = [list EXCEPT ![d] = list[d]]
    BY <2>4 DEF Typed
  <2>6. \A k \in Kind : \A e \in NotUploaded(list[d][k]) : ~Uploaded(e.ts)
    BY <2>2 DEF Orderly, FreshStored, Active
  <2> QED
    BY <2>2, <2>3, <2>4, <2>5, <2>6, OrderlyBegins
<1>6. ASSUME NEW d \in Device, NEW s \in Slot, Deliver(d, s) PROVE Orderly'
  <2>1. tidy' = tidy
    BY <1>6 DEF Deliver
  <2> QED
    BY <1>6, <2>1, OrderlyDelivers DEF Once
<1>7. ASSUME Orderly, NEW d \in Device, NEW s \in Slot, NEW q, run' = [run EXCEPT ![d][s] = q],
             GoesOn(run[d][s], q), UNCHANGED <<list, remote, orphan>>
      PROVE  Orderly'
  <2>1. \A c \in Device, t \in Slot : run'[c][t] = run[c][t] \/ GoesOn(run[c][t], run'[c][t])
    BY <1>7 DEF Typed
  <2>2. \A c \in Device : \A w \in orphan'[c] : w.op # "add"
    BY <1>7 DEF Orderly, NoLateAdd
  <2> QED
    BY <1>7, <2>1, <2>2, OrderlyStays
<1>8. ASSUME NEW d \in Device, NEW s \in Slot, Added(d, s) PROVE Orderly'
  <2>1. PICK r : r = run[d][s]
    OBVIOUS
  <2>2. PICK rest : rest = r.todo \ {FirstOf(r.todo)}
    OBVIOUS
  <2>3. PICK q : q = [r EXCEPT !.todo = rest,
                               !.pc = IF rest = {} THEN "reading" ELSE "adding"]
    OBVIOUS
  <2>4. r \in Run /\ r.pc = "added"
    BY <1>8, <2>1 DEF Typed, Added, GoodRun
  <2>5. run' = [run EXCEPT ![d][s] = q] /\ UNCHANGED <<list, remote, orphan, tidy>>
    BY <1>8, <2>1, <2>2, <2>3 DEF Added
  <2>6. q.todo = rest /\ q.kind = r.kind /\ q.pc \in {"reading", "adding"}
    BY <2>3, <2>4 DEF Run
  <2>7. ToSend(q) = rest /\ ToSend(r) = rest
    BY <2>2, <2>4, <2>6 DEF ToSend
  <2>8. GoesOn(r, q)
    BY <2>2, <2>4, <2>6, <2>7 DEF GoesOn, Active
  <2> QED
    BY <1>7, <2>1, <2>5, <2>8 DEF Once
<1>9. ASSUME NEW d \in Device, NEW s \in Slot, ReadCollection(d, s) PROVE Orderly'
  <2>1. PICK r : r = run[d][s]
    OBVIOUS
  <2>2. PICK q : q = [r EXCEPT !.pc = "read", !.got = remote[r.acct][r.kind]]
    OBVIOUS
  <2>3. r \in Run /\ r.pc = "reading"
    BY <1>9, <2>1 DEF Typed, ReadCollection, GoodRun
  <2>4. run' = [run EXCEPT ![d][s] = q] /\ UNCHANGED <<list, remote, orphan, tidy>>
    BY <1>9, <2>1, <2>2 DEF ReadCollection
  <2>5. q.todo = r.todo /\ q.kind = r.kind /\ q.pc = "read"
    BY <2>2, <2>3 DEF Run, NoRun
  <2>6. GoesOn(r, q)
    BY <2>3, <2>5 DEF GoesOn, Active, ToSend
  <2> QED
    BY <1>7, <2>1, <2>4, <2>6 DEF Once
<1>10. ASSUME NEW d \in Device, NEW s \in Slot, Replace(d, s) PROVE Orderly'
  <2>1. PICK r : r = run[d][s]
    OBVIOUS
  <2>2. PICK lists : lists = [list[d] EXCEPT ![r.kind] = {FromJson(doc) : doc \in r.got}]
    OBVIOUS
  <2>3. PICK lost : run' = [run EXCEPT ![d][s] = NextSync(user[d], lists, r.left, lost)]
    BY <1>10, <2>1, <2>2 DEF Replace
  <2>4. PICK q : q = NextSync(user[d], lists, r.left, lost)
    OBVIOUS
  <2>5. /\ list' = [list EXCEPT ![d] = lists] /\ UNCHANGED <<remote, orphan>>
        /\ r.pc = "read" /\ tidy
    BY <1>10, <2>1, <2>2 DEF Replace, Typed
  <2>6. r.kind \in Kind /\ \A e \in r.got : e.up
    BY <2>1 DEF Typed, GoodRun, Run, Owned, GotUp
  <2>7. Orderly
    BY <2>5 DEF Once
  <2>8. \A t \in Slot : t # s => run[d][t].pc = "idle"
    BY <2>1, <2>5, <2>7 DEF Orderly, Single
  <2>9. /\ NotUploaded(lists[r.kind]) = {}
        /\ \A k \in Kind : k # r.kind => lists[k] = list[d][k]
    BY <2>2, <2>6 DEF Typed, FromJson, NotUploaded
  <2>10. \A k \in Kind : NotUploaded(lists[k]) \subseteq NotUploaded(list[d][k])
    BY <2>9
  <2>11. ASSUME NEW k \in Kind, NEW e \in NotUploaded(lists[k]), Uploaded(e.ts)
         PROVE  FALSE
    <3>1. k # r.kind /\ e \in NotUploaded(list[d][k])
      BY <2>9, <2>11
    <3>2. PICK t \in Slot : run[d][t].pc \in Active /\ run[d][t].kind = k
      BY <2>7, <2>11, <3>1 DEF Orderly, FreshStored
    <3> QED
      BY <2>1, <2>8, <3>1, <3>2 DEF Active
  <2>12. run' = [run EXCEPT ![d][s] = q]
    BY <2>3, <2>4
  <2> QED
    BY <2>4, <2>5, <2>7, <2>8, <2>10, <2>11, <2>12, OrderlyBegins
<1>11. ASSUME NEW d \in Device, NEW s \in Slot, SyncGoal(d, s) PROVE Orderly'
  <2>1. PICK r : r = run[d][s]
    OBVIOUS
  <2>2. PICK q : q = IF s \in shown[d] THEN [r EXCEPT !.pc = "success"] ELSE NoRun
    OBVIOUS
  <2>3. r \in Run /\ r.pc = "goal"
    BY <1>11, <2>1 DEF Typed, SyncGoal, GoodRun
  <2>4. run' = [run EXCEPT ![d][s] = q] /\ UNCHANGED <<list, remote, orphan, tidy>>
    BY <1>11, <2>1, <2>2 DEF SyncGoal
  <2>5. \/ q.todo = r.todo /\ q.kind = r.kind /\ q.pc = "success"
        \/ q.todo = {} /\ q.pc = "idle"
    BY <2>2, <2>3 DEF Run, NoRun
  <2>6. GoesOn(r, q)
    BY <2>3, <2>5 DEF GoesOn, Active, ToSend
  <2> QED
    BY <1>7, <2>1, <2>4, <2>6 DEF Once
<1>12. ASSUME NEW d \in Device, NEW s \in Slot, EndSync(d, s) PROVE Orderly'
  <2>1. PICK q : q = NoRun
    OBVIOUS
  <2>2. /\ run' = [run EXCEPT ![d][s] = q] /\ UNCHANGED <<list, remote, orphan, tidy>>
        /\ run[d][s].pc = "success"
    BY <1>12, <2>1 DEF EndSync
  <2>3. q.pc = "idle" /\ q.todo = {}
    BY <2>1 DEF NoRun
  <2>4. GoesOn(run[d][s], q)
    BY <2>2, <2>3 DEF GoesOn, Active, ToSend
  <2> QED
    BY <1>7, <2>2, <2>4 DEF Once
<1>13. ASSUME NEW d \in Device, NEW s \in Slot, CallFails(d, s) PROVE Orderly'
  BY <1>13 DEF CallFails
<1>14. ASSUME NEW d \in Device, Crash(d) PROVE Orderly'
  <2>1. tidy /\ ~Busy(d) /\ UNCHANGED <<list, remote>> /\ run' = [run EXCEPT ![d] = [s \in Slot |-> NoRun]]
    BY <1>14 DEF Crash, Typed
  <2>2. Orderly /\ \A s \in Slot : run[d][s].pc = "idle"
    BY <2>1 DEF Once, Busy
  <2>3. \A c \in Device : \A w \in orphan'[c] : w.op # "add"
    <3>1. \A c \in Device : \A w \in orphan'[c] : w \in orphan[c] \/ w \in Unanswered(d)
      BY <1>14 DEF Crash, Typed
    <3>2. \A w \in Unanswered(d) : w.op # "add"
      BY <2>2 DEF Unanswered
    <3> QED
      BY <2>2, <3>1, <3>2 DEF Orderly, NoLateAdd
  <2>4. ASSUME NEW c \in Device, NEW s \in Slot
        PROVE  run'[c][s] = run[c][s] \/ GoesOn(run[c][s], run'[c][s])
    <3>1. CASE c = d
      <4>1. run'[c][s] = NoRun /\ run[c][s].pc = "idle"
        BY <2>1, <2>2, <3>1 DEF Typed
      <4> QED
        BY <4>1 DEF GoesOn, ToSend, NoRun, Active
    <3>2. CASE c # d
      BY <2>1, <3>2 DEF Typed
    <3> QED
      BY <3>1, <3>2
  <2> QED
    BY <2>1, <2>2, <2>3, <2>4, OrderlyStays
<1>15. ASSUME NEW d \in Device, NEW a \in Account, NEW S, Erase(a, S),
              UNCHANGED <<list, run, tidy>>, \A c \in Device : orphan'[c] \subseteq orphan[c]
       PROVE  Orderly'
  <2>1. Orderly
    BY <1>15 DEF Once
  <2>2. \A b \in Account, k \in Kind : remote'[b][k] \subseteq remote[b][k]
    BY <1>15 DEF Erase, Typed, Kind
  <2>3. \A c \in Device : \A w \in orphan'[c] : w.op # "add"
    BY <1>15, <2>1 DEF Orderly, NoLateAdd
  <2> QED
    BY <1>15, <2>1, <2>2, <2>3, OrderlyStays
<1>16. ASSUME NEW d \in Device, EditCommit(d) PROVE Orderly'
  <2>1. /\ Erase(edit[d].acct, edit[d].docs) /\ edit[d].acct \in Account
        /\ UNCHANGED <<list, run, orphan, tidy>>
    BY <1>16 DEF EditCommit, Typed, GoodEdit
  <2> QED
    BY <1>15, <2>1
<1>17. ASSUME NEW d \in Device, DeliverOrphan(d) PROVE Orderly'
  <2>1. PICK w \in orphan[d] :
          /\ orphan' = [orphan EXCEPT ![d] = @ \ {w}]
          /\ IF w.op = "add"
             THEN Store(w.acct, w.kind, FirstOf(w.recs)) /\ UNCHANGED gone
             ELSE Erase(w.acct, w.recs) /\ UNCHANGED docs
          /\ UNCHANGED <<session, list, run, edit, made, flags>>
    BY <1>17 DEF DeliverOrphan
  <2>a. w.acct \in Account
    BY DEF Typed, GoodWrite, Write
  <2>b. UNCHANGED <<list, run, tidy>>
    BY <2>1
  <2>2. w.acct \in Account /\ UNCHANGED <<list, run, tidy>>
    BY <2>a, <2>b
  <2>3. Orderly
    BY <2>b DEF Once
  <2>4. Erase(w.acct, w.recs)
    BY <2>1, <2>3 DEF Orderly, NoLateAdd
  <2>5. \A c \in Device : orphan'[c] \subseteq orphan[c]
    BY <2>1 DEF Typed
  <2> QED
    BY <1>15, <2>2, <2>4, <2>5
<1>18. ASSUME NEW d \in Device, DropOrphan(d) PROVE Orderly'
  <2>1. UNCHANGED <<list, remote, run, tidy>> /\ \A c \in Device : orphan'[c] \subseteq orphan[c]
    BY <1>18 DEF DropOrphan, Typed
  <2> QED
    BY <1>1, <2>1 DEF Once
<1>19. CASE UNCHANGED vars
  <2>1. UNCHANGED <<remote, run, orphan, list, tidy>>
    BY <1>19 DEF vars
  <2> QED
    BY <1>1, <2>1 DEF Once
<1> QED
  <2>1. SUFFICES ASSUME Next PROVE Orderly'
    BY <1>19
  <2>2. PICK d \in Device :
          \/ \E a \in Account : Login(d, a)
          \/ Logout(d) \/ LeaveUpload(d) \/ StartEdit(d) \/ EditRead(d) \/ EditFails(d) \/ EndEdit(d)
          \/ \E k \in Enabled : AddRecord(d, k)
          \/ \E s \in Slot, left \in SUBSET Enabled : StartSync(d, s, left)
          \/ \E s \in Slot : \/ Deliver(d, s) \/ Added(d, s) \/ ReadCollection(d, s)
                             \/ Replace(d, s) \/ SyncGoal(d, s) \/ EndSync(d, s)
                             \/ CallFails(d, s)
          \/ EditCommit(d) \/ Crash(d) \/ DeliverOrphan(d) \/ DropOrphan(d)
    BY <2>1 DEF Next, SyncStep
  <2> QED
    BY <1>2, <1>3, <1>4, <1>5, <1>6, <1>8, <1>9, <1>10, <1>11, <1>12, <1>13, <1>14, <1>16,
       <1>17, <1>18, <2>2

\* No record is stored twice under one account, whatever devices sync, edit, log out or
\* crash between syncs, as long as no sync overlapped another one of its device, failed
\* or died: the query and the replacement come after all the adds
\* (upload_function.dart:13-103).
THEOREM RecordsAreStoredOnce == Spec => []OnceEach
<1>1. Init => Once
  BY OrderlyInit DEF Once
<1>2. Once => OnceEach
  BY DEF Once, Orderly, StoredOnce, OnceEach
<1> QED
  BY TypedInit, TypedStep, OwnedInit, OwnedStep, OnceStep, <1>1, <1>2, PTL DEF Spec

=============================================================================
