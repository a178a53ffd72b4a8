------------------------------ MODULE GoalSync ------------------------------
(***************************************************************************)
(* The last step of a sync, UploadFunction.syncGoal: the student's goal is *)
(* one string in the box of a device and, as a document of its own, in     *)
(* UserData/{id}/Goal.  A device without a goal takes over a stored one; a *)
(* device with a goal deletes the stored ones and adds its own.            *)
(*                                                                         *)
(* The goal of the box is read before and again after the query; the       *)
(* deletion is not awaited.  Firestore's client queues the writes of a     *)
(* device in their order and keeps the queue when the app is killed.       *)
(*                                                                         *)
(* A goal is a number in the order the goals were set; 0 is the empty      *)
(* string.                                                                 *)
(***************************************************************************)
EXTENDS Naturals, Sequences, FiniteSets

CONSTANTS
  Device,    \* installations of the app
  Account,   \* premium accounts
  Slot,      \* syncs of one device that may be under way together
  MaxGoal,   \* bound: goals ever set
  MaxDoc,    \* bound: documents ever created
  MaxQueue,  \* bound: writes of one device that are not yet applied
  None       \* nobody is logged in

ASSUME GoalAssumption ==
  /\ {MaxGoal, MaxDoc, MaxQueue} \subseteq Nat
  /\ None \notin Account \cup Slot

Goal == 1 .. MaxGoal

VARIABLES
  user,     \* user[d]: the account AuthProvider.user of device d holds
  goal,     \* goal[d]: the goal in the box of the device
  run,      \* run[d][s]: a call of syncGoal under way
  queue,    \* queue[d]: writes sent to Firestore and not yet applied
  remote,   \* remote[a]: the documents of UserData/{a}/Goal
  docs,     \* documents created so far
  goals,    \* goals set so far
  author,   \* auxiliary: author[g], the student who set goal g
  tidy,     \* auxiliary: accounts whose pushes never overlapped and were not refused
  whole,    \* auxiliary: accounts whose additions were never refused or lost
  late      \* auxiliary: a session ended while a goal was being synced

device == <<user, goal, run>>
cloud  == <<queue, remote, docs>>
made   == <<goals, author>>
flags  == <<tidy, whole, late>>

vars == <<device, cloud, made, flags>>

-----------------------------------------------------------------------------

Idle == [pc |-> "idle", acct |-> None]

\* A push of account a is under way, or left writes behind.
Pushing(a) ==
  \E d \in Device :
    \/ \E s \in Slot : run[d][s].acct = a /\ run[d][s].pc \in {"pushing", "adding"}
    \/ \E n \in 1 .. Len(queue[d]) : queue[d][n].acct = a

Begin(d, s, pc) == run' = [run EXCEPT ![d][s] = [pc |-> pc, acct |-> user[d]]]
End(d, s) == run' = [run EXCEPT ![d][s] = Idle]

Init ==
  /\ user = [d \in Device |-> None]
  /\ goal = [d \in Device |-> 0]
  /\ run = [d \in Device |-> [s \in Slot |-> Idle]]
  /\ queue = [d \in Device |-> <<>>]
  /\ remote = [a \in Account |-> {}]
  /\ docs = 0
  /\ goals = 0
  /\ author = [g \in Goal |-> None]
  /\ tidy = Account
  /\ whole = Account
  /\ late = FALSE

Login(d, a) ==
  /\ user[d] = None
  /\ user' = [user EXCEPT ![d] = a]
  /\ UNCHANGED <<goal, run, cloud, made, flags>>

\* mutant: clearData without HiveGoal.clearQuickData
LogoutKeepsGoal(d) ==
  /\ user[d] # None
  /\ user' = [user EXCEPT ![d] = None]
  /\ late' = (late \/ \E s \in Slot : run[d][s].pc \in {"pulling", "pushing"})
  /\ UNCHANGED <<goal, run, cloud, made, tidy, whole>>

\* clearData: the syncs under way go on.
Logout(d) ==
  /\ user[d] # None
  /\ user' = [user EXCEPT ![d] = None]
  /\ goal' = [goal EXCEPT ![d] = 0]
  /\ late' = (late \/ \E s \in Slot : run[d][s].pc \in {"pulling", "pushing"})
  /\ UNCHANGED <<run, cloud, made, tidy, whole>>

SetGoal(d) ==
  /\ user[d] # None
  /\ goals < MaxGoal
  /\ goals' = goals + 1
  /\ goal' = [goal EXCEPT ![d] = goals + 1]
  /\ author' = [author EXCEPT ![goals + 1] = user[d]]
  /\ UNCHANGED <<user, run, cloud, flags>>

\* A sync reaches the goal, and asks for the stored ones: for one if the box has no
\* goal.
StartSync(d, s) ==
  /\ user[d] # None
  /\ run[d][s] = Idle
  /\ Begin(d, s, IF goal[d] = 0 THEN "pulling" ELSE "pushing")
  /\ tidy' = IF goal[d] # 0 /\ Pushing(user[d]) THEN tidy \ {user[d]} ELSE tidy
  /\ UNCHANGED <<user, goal, cloud, made, whole, late>>

\* Without a goal at the start: the stored goal, if any, becomes the goal of the box.
Pulled(d, s) ==
  /\ run[d][s].pc = "pulling"
  /\ \/ /\ remote[run[d][s].acct] = {}
        /\ UNCHANGED goal
     \/ \E doc \in remote[run[d][s].acct] : goal' = [goal EXCEPT ![d] = doc.goal]
  /\ End(d, s)
  /\ UNCHANGED <<user, cloud, made, flags>>

\* mutant: the stored goals are not deleted
PushedBeside(d, s) ==
  LET a == run[d][s].acct
  IN  /\ run[d][s].pc = "pushing"
      /\ Len(queue[d]) + 2 <= MaxQueue
      /\ queue' = [queue EXCEPT ![d] = @ \o
           <<[op |-> "delete", acct |-> a, docs |-> {}, goal |-> 0, slot |-> s],
             [op |-> "add", acct |-> a, docs |-> {}, goal |-> goal[d], slot |-> s]>>]
      /\ run' = [run EXCEPT ![d][s].pc = "adding"]
      /\ UNCHANGED <<user, goal, remote, docs, made, flags>>

\* mutant: an empty goal is not added
PushedUnlessEmpty(d, s) ==
  LET a == run[d][s].acct
  IN  /\ run[d][s].pc = "pushing"
      /\ Len(queue[d]) + 2 <= MaxQueue
      /\ queue' = [queue EXCEPT ![d] = @ \o
           <<[op |-> "delete", acct |-> a, docs |-> remote[a], goal |-> 0, slot |-> s]>> \o
           IF goal[d] = 0 THEN <<>>
           ELSE <<[op |-> "add", acct |-> a, docs |-> {}, goal |-> goal[d], slot |-> s]>>]
      /\ run' = [run EXCEPT ![d][s] = IF goal[d] = 0 THEN Idle ELSE [@ EXCEPT !.pc = "adding"]]
      /\ UNCHANGED <<user, goal, remote, docs, made, flags>>

\* With a goal at the start: the documents of the query are to be deleted in a batch
\* and the goal the box has now is to be added.
Pushed(d, s) ==
  LET a == run[d][s].acct
  IN  /\ run[d][s].pc = "pushing"
      /\ Len(queue[d]) + 2 <= MaxQueue
      /\ queue' = [queue EXCEPT ![d] = @ \o
           <<[op |-> "delete", acct |-> a, docs |-> remote[a], goal |-> 0, slot |-> s],
             [op |-> "add", acct |-> a, docs |-> {}, goal |-> goal[d], slot |-> s]>>]
      /\ run' = [run EXCEPT ![d][s].pc = "adding"]
      /\ UNCHANGED <<user, goal, remote, docs, made, flags>>

QueryFails(d, s) ==
  /\ run[d][s].pc \in {"pulling", "pushing"}
  /\ End(d, s)
  /\ UNCHANGED <<user, goal, cloud, made, flags>>

\* mutant: nobody is told
EndOfNone(d, w) == run' = run

\* The sync that waits for a write, if it has not died with the app.
EndOf(d, w) ==
  run' = IF w.op = "add" /\ w.slot # None THEN [run EXCEPT ![d][w.slot] = Idle] ELSE run

\* The first write of the queue is applied.
Applied(d) ==
  LET w == Head(queue[d])
  IN  /\ queue[d] # <<>>
      /\ queue' = [queue EXCEPT ![d] = Tail(@)]
      /\ \/ /\ w.op = "delete"
            /\ remote' = [remote EXCEPT ![w.acct] = @ \ w.docs]
            /\ UNCHANGED docs
         \/ /\ w.op = "add"
            /\ docs < MaxDoc
            /\ docs' = docs + 1
            /\ remote' = [remote EXCEPT ![w.acct] = @ \cup {[id |-> docs + 1, goal |-> w.goal]}]
      /\ EndOf(d, w)
      /\ UNCHANGED <<user, goal, made, flags>>

\* It is refused.  For the deletion nobody waits.
Refused(d) ==
  LET w == Head(queue[d])
  IN  /\ queue[d] # <<>>
      /\ queue' = [queue EXCEPT ![d] = Tail(@)]
      /\ EndOf(d, w)
      /\ tidy' = tidy \ {w.acct}
      /\ whole' = IF w.op = "add" THEN whole \ {w.acct} ELSE whole
      /\ UNCHANGED <<user, goal, remote, docs, made, late>>

\* The app is killed: the syncs are gone, the client's queue is kept as far as it was
\* written.
Kill(d) ==
  /\ run[d] # [s \in Slot |-> Idle] \/ queue[d] # <<>>
  /\ run' = [run EXCEPT ![d] = [s \in Slot |-> Idle]]
  /\ \E n \in 0 .. Len(queue[d]) :
       /\ queue' = [queue EXCEPT ![d] = [m \in 1 .. n |-> [@[m] EXCEPT !.slot = None]]]
       /\ whole' = whole \ {queue[d][m].acct : m \in {k \in n + 1 .. Len(queue[d]) : queue[d][k].op = "add"}}
  /\ UNCHANGED <<user, goal, remote, docs, made, tidy, late>>

Student(d) ==
  \/ \E a \in Account : Login(d, a)
  \/ Logout(d)
  \/ SetGoal(d)

SyncStep(d, s) ==
  \/ StartSync(d, s)
  \/ Pulled(d, s)
  \/ Pushed(d, s)
  \/ QueryFails(d, s)

Next ==
  \E d \in Device :
    \/ Student(d)
    \/ \E s \in Slot : SyncStep(d, s)
    \/ Applied(d)
    \/ Refused(d)
    \/ Kill(d)

Spec == Init /\ [][Next]_vars

-----------------------------------------------------------------------------
(* Properties.                                                             *)

Run == {Idle} \cup [pc : {"pulling", "pushing", "adding"}, acct : Account]

Doc == [id : 1 .. MaxDoc, goal : 0 .. MaxGoal]

Write == [op : {"delete", "add"}, acct : Account, docs : SUBSET Doc,
          goal : 0 .. MaxGoal, slot : Slot \cup {None}]

\* The variables have their types; a call of syncGoal under way knows its account,
\* and one that waits for its add has it in the queue (upload_function.dart:137).
TypeOK ==
  /\ user \in [Device -> Account \cup {None}]
  /\ goal \in [Device -> 0 .. MaxGoal]
  /\ run \in [Device -> [Slot -> Run]]
  /\ queue \in [Device -> Seq(Write)]
  /\ remote \in [Account -> SUBSET Doc]
  /\ \A d \in Device, s \in Slot :
       run[d][s].pc = "adding" =>
         \E n \in 1 .. Len(queue[d]) : queue[d][n].op = "add" /\ queue[d][n].slot = s

\* An account has at most one stored goal, although the deletion is not awaited and
\* the app may be killed between it and the addition, as long as no two pushes of the
\* account overlap, on one device or on two, and no write is refused
\* (upload_function.dart:124-137).
OneGoal == \A a \in tidy : Cardinality(remote[a]) <= 1

\* The stored goals of an account and the goal in its sessions were set by its
\* student, and no empty goal is stored, unless a session ended while its goal was
\* being synced (the goal is read again after the query, upload_function.dart:137,
\* and saved for whoever is there, upload_function.dart:115).
OwnGoals ==
  late \/ /\ \A a \in Account : \A doc \in remote[a] : doc.goal # 0 /\ author[doc.goal] = a
          /\ \A d \in Device : goal[d] # 0 => user[d] # None /\ author[goal[d]] = user[d]

\* The account has a stored goal, or one is on its way.
HasGoal(a) ==
  \/ remote[a] # {}
  \/ \E d \in Device : \E n \in 1 .. Len(queue[d]) : queue[d][n].op = "add" /\ queue[d][n].acct = a

\* Once an account has a stored goal it always has one, or one is on its way to
\* replace it: no order of syncs on any devices leaves it without, as long as no
\* addition is refused or lost with the app (upload_function.dart:129-137).
GoalStays ==
  [][\A a \in Account : HasGoal(a) => HasGoal(a)' \/ a \notin whole']_vars

=============================================================================
