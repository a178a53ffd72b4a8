--------------------------- MODULE GoalSyncProofs ---------------------------
(***************************************************************************)
(* Proofs about GoalSync, for any number of devices, students, overlapping *)
(* syncs, goals and queued writes: types, ownership of goals, and that a   *)
(* stored goal is only ever replaced.                                      *)
(***************************************************************************)
EXTENDS GoalSync, SequenceTheorems, FiniteSetTheorems, TLAPS

\* The type invariant, with the variables TypeOK leaves out.
Types ==
  /\ TypeOK
  /\ docs \in 0 .. MaxDoc
  /\ goals \in 0 .. MaxGoal
  /\ author \in [Goal -> Account \cup {None}]
  /\ tidy \subseteq Account
  /\ whole \subseteq Account
  /\ late \in BOOLEAN

\* What has been queued after the first write.
LEMMA TailFacts ==
  ASSUME NEW S, NEW q \in Seq(S), q # <<>>
  PROVE  /\ Head(q) = q[1] /\ Head(q) \in S
         /\ Tail(q) \in Seq(S)
         /\ Len(q) \in Nat /\ Len(q) >= 1
         /\ Len(Tail(q)) = Len(q) - 1
         /\ \A n \in 1 .. Len(Tail(q)) : Tail(q)[n] = q[n + 1]
BY HeadTailProperties

\* A queue with two more writes.
LEMMA PairFacts ==
  ASSUME NEW S, NEW q \in Seq(S), NEW v \in S, NEW w \in S
  PROVE  LET r == q \o <<v, w>>
         IN  /\ r \in Seq(S)
             /\ Len(q) \in Nat /\ Len(r) = Len(q) + 2
             /\ \A n \in 1 .. Len(q) : r[n] = q[n]
             /\ r[Len(q) + 1] = v /\ r[Len(q) + 2] = w
<1>1. <<v, w>> \in Seq(S) /\ Len(<<v, w>>) = 2
  OBVIOUS
<1> QED
  BY <1>1, ConcatProperties, LenProperties

\* The beginning of a queue, with its slots forgotten.
LEMMA CutFacts ==
  ASSUME NEW q \in Seq(Write), NEW n \in 0 .. Len(q)
  PROVE  LET r == [m \in 1 .. n |-> [q[m] EXCEPT !.slot = None]]
         IN  /\ r \in Seq(Write)
             /\ Len(q) \in Nat /\ n \in Nat /\ Len(r) = n
             /\ \A m \in 1 .. n : /\ r[m].op = q[m].op
                                  /\ r[m].acct = q[m].acct
                                  /\ r[m].docs = q[m].docs
                                  /\ r[m].goal = q[m].goal
<1> DEFINE r == [m \in 1 .. n |-> [q[m] EXCEPT !.slot = None]]
<1>1. Len(q) \in Nat /\ n \in Nat
  OBVIOUS
<1>2. \A m \in 1 .. n : q[m] \in Write
  BY <1>1
<1>3. \A m \in 1 .. n : r[m] \in Write
  BY <1>2 DEF Write
<1>4. r \in [1 .. n -> Write]
  BY <1>3
<1>5. r \in Seq(Write) /\ Len(r) = n
  <2> HIDE DEF r
  <2>1. r \in Seq(Write)
    BY <1>1, <1>4, SeqDef
  <2> QED
    BY <1>1, <1>4, <2>1, LenProperties
<1>6. \A m \in 1 .. n : /\ r[m].op = q[m].op /\ r[m].acct = q[m].acct
                       /\ r[m].docs = q[m].docs /\ r[m].goal = q[m].goal
  BY <1>2 DEF Write
<1> QED
  BY <1>1, <1>5, <1>6

-----------------------------------------------------------------------------
(* Types.                                                                  *)

LEMMA Bounds == MaxGoal \in Nat /\ MaxDoc \in Nat /\ MaxQueue \in Nat
BY GoalAssumption

LEMMA TypesInit == Init => Types
<1> SUFFICES ASSUME Init PROVE Types
  OBVIOUS
<1>1. user \in [Device -> Account \cup {None}] /\ goal \in [Device -> 0 .. MaxGoal]
  BY Bounds DEF Init
<1>2. run \in [Device -> [Slot -> Run]] /\ queue \in [Device -> Seq(Write)]
  BY DEF Init, Run
<1>3. remote \in [Account -> SUBSET Doc]
  BY DEF Init
<1>4. \A d \in Device, s \in Slot : run[d][s].pc = "idle"
  BY DEF Init, Idle
<1>5. TypeOK
  BY <1>1, <1>2, <1>3, <1>4 DEF TypeOK
<1>6. docs \in 0 .. MaxDoc /\ goals \in 0 .. MaxGoal
  BY Bounds DEF Init
<1>7. author \in [Goal -> Account \cup {None}]
  BY DEF Init
<1>8. tidy \subseteq Account /\ whole \subseteq Account /\ late \in BOOLEAN
  BY DEF Init
<1> QED
  BY <1>5, <1>6, <1>7, <1>8 DEF Types

\* Every write of a queue is one.
LEMMA WriteFacts ==
  ASSUME Types, NEW d \in Device, NEW n \in 1 .. Len(queue[d])
  PROVE  /\ queue[d][n] \in Write
         /\ queue[d][n].op \in {"delete", "add"}
         /\ queue[d][n].acct \in Account
         /\ queue[d][n].goal \in 0 .. MaxGoal
<1>1. queue[d] \in Seq(Write)
  BY DEF Types, TypeOK
<1>2. queue[d][n] \in Write
  BY <1>1, ElementOfSeq
<1> QED
  BY <1>2 DEF Write

\* A call under way knows its account.
LEMMA RunFacts ==
  ASSUME Types, NEW d \in Device, NEW s \in Slot, run[d][s].pc # "idle"
  PROVE  /\ run[d][s].acct \in Account
         /\ run[d][s] \in [pc : {"pulling", "pushing", "adding"}, acct : Account]
<1>1. run[d][s] \in Run
  BY DEF Types, TypeOK
<1> QED
  BY <1>1 DEF Run, Idle

\* The two writes of a push are writes.
LEMMA PushedWrites ==
  ASSUME Types, NEW d \in Device, NEW s \in Slot, run[d][s].pc = "pushing"
  PROVE  LET a == run[d][s].acct
         IN  /\ [op |-> "delete", acct |-> a, docs |-> remote[a], goal |-> 0, slot |-> s] \in Write
             /\ [op |-> "add", acct |-> a, docs |-> {}, goal |-> goal[d], slot |-> s] \in Write
<1>1. run[d][s].acct \in Account
  BY RunFacts
<1>2. remote[run[d][s].acct] \in SUBSET Doc /\ goal[d] \in 0 .. MaxGoal
  BY <1>1 DEF Types, TypeOK
<1> QED
  BY <1>1, <1>2, Bounds DEF Write

LEMMA TypesStep == Types /\ [Next]_vars => Types'
<1> SUFFICES ASSUME Types, [Next]_vars PROVE Types'
  OBVIOUS
<1> USE Bounds
<1>1. ASSUME NEW d \in Device, NEW a \in Account, Login(d, a)
      PROVE  Types'
  <2>1. user' \in [Device -> Account \cup {None}]
    BY <1>1 DEF Login, Types, TypeOK
  <2> QED
    BY <1>1, <2>1 DEF Login, Types, TypeOK, cloud, made, flags
<1>2. ASSUME NEW d \in Device, Logout(d)
      PROVE  Types'
  <2>1. user' \in [Device -> Account \cup {None}] /\ goal' \in [Device -> 0 .. MaxGoal]
    BY <1>2 DEF Logout, Types, TypeOK
  <2>2. late' \in BOOLEAN
    BY <1>2 DEF Logout, Types
  <2> QED
    BY <1>2, <2>1, <2>2 DEF Logout, Types, TypeOK, cloud, made
<1>3. ASSUME NEW d \in Device, SetGoal(d)
      PROVE  Types'
  <2>1. goals + 1 \in Goal /\ goals' = goals + 1
    BY <1>3 DEF SetGoal, Types, Goal
  <2>2. goal' \in [Device -> 0 .. MaxGoal] /\ goals' \in 0 .. MaxGoal
    BY <1>3, <2>1 DEF SetGoal, Types, TypeOK, Goal
  <2>3. author' \in [Goal -> Account \cup {None}]
    BY <1>3, <2>1 DEF SetGoal, Types, TypeOK
  <2> QED
    BY <1>3, <2>2, <2>3 DEF SetGoal, Types, TypeOK, cloud, flags
<1>4. ASSUME NEW d \in Device, NEW s \in Slot, StartSync(d, s)
      PROVE  Types'
  <2>1. user[d] \in Account
    BY <1>4 DEF StartSync, Types, TypeOK
  <2>2. PICK pc \in {"pulling", "pushing"} : run' = [run EXCEPT ![d][s] = [pc |-> pc, acct |-> user[d]]]
    BY <1>4 DEF StartSync, Begin
  <2>3. [pc |-> pc, acct |-> user[d]] \in Run
    BY <2>1 DEF Run
  <2>4. run' \in [Device -> [Slot -> Run]]
    BY <2>2, <2>3 DEF Types, TypeOK
  <2>5. \A e \in Device, t \in Slot : run'[e][t].pc = "adding" => run[e][t].pc = "adding"
    BY <2>2 DEF Types, TypeOK
  <2>6. tidy' \subseteq Account
    BY <1>4 DEF StartSync, Types
  <2> QED
    BY <1>4, <2>4, <2>5, <2>6 DEF StartSync, Types, TypeOK, cloud, made
<1>5. ASSUME NEW d \in Device, NEW s \in Slot, run' = [run EXCEPT ![d][s] = Idle]
      PROVE  /\ run' \in [Device -> [Slot -> Run]]
             /\ \A e \in Device, t \in Slot : run'[e][t].pc = "adding" => run[e][t].pc = "adding"
  BY <1>5 DEF Types, TypeOK, Run, Idle
<1>6. ASSUME NEW d \in Device, NEW s \in Slot, Pulled(d, s)
      PROVE  Types'
  <2>1. run' = [run EXCEPT ![d][s] = Idle]
    BY <1>6 DEF Pulled, End
  <2>2. run[d][s].acct \in Account
    BY <1>6, RunFacts DEF Pulled
  <2>3. \A doc \in remote[run[d][s].acct] : doc.goal \in 0 .. MaxGoal
    BY <2>2 DEF Types, TypeOK, Doc
  <2>4. goal' \in [Device -> 0 .. MaxGoal]
    BY <1>6, <2>3 DEF Pulled, Types, TypeOK
  <2>5. /\ run' \in [Device -> [Slot -> Run]]
        /\ \A e \in Device, t \in Slot : run'[e][t].pc = "adding" => run[e][t].pc = "adding"
    BY <1>5, <2>1
  <2> QED
    BY <1>6, <2>4, <2>5 DEF Pulled, Types, TypeOK, cloud, made, flags
<1>7. ASSUME NEW d \in Device, NEW s \in Slot, QueryFails(d, s)
      PROVE  Types'
  <2>1. run' = [run EXCEPT ![d][s] = Idle]
    BY <1>7 DEF QueryFails, End
  <2>2. /\ run' \in [Device -> [Slot -> Run]]
        /\ \A e \in Device, t \in Slot : run'[e][t].pc = "adding" => run[e][t].pc = "adding"
    BY <1>5, <2>1
  <2> QED
    BY <1>7, <2>2 DEF QueryFails, Types, TypeOK, cloud, made, flags
<1>8. ASSUME NEW d \in Device, NEW s \in Slot, Pushed(d, s)
      PROVE  Types'
  <2> DEFINE a == run[d][s].acct
             v == [op |-> "delete", acct |-> a, docs |-> remote[a], goal |-> 0, slot |-> s]
             w == [op |-> "add", acct |-> a, docs |-> {}, goal |-> goal[d], slot |-> s]
             r == queue[d] \o <<v, w>>
  <2>1. v \in Write /\ w \in Write
    BY <1>8, PushedWrites DEF Pushed
  <2>2. queue[d] \in Seq(Write)
    BY DEF Types, TypeOK
  <2>3. w.op = "add" /\ w.slot = s
    OBVIOUS
  <2>4. queue' = [queue EXCEPT ![d] = r] /\ run' = [run EXCEPT ![d][s].pc = "adding"]
    BY <1>8 DEF Pushed
  <2> HIDE DEF v, w
  <2>5. /\ r \in Seq(Write) /\ Len(queue[d]) \in Nat /\ Len(r) = Len(queue[d]) + 2
        /\ \A n \in 1 .. Len(queue[d]) : r[n] = queue[d][n]
        /\ r[Len(queue[d]) + 2] = w
    BY <2>1, <2>2, PairFacts
  <2> HIDE DEF r
  <2>6. queue' \in [Device -> Seq(Write)]
    BY <2>4, <2>5 DEF Types, TypeOK
  <2>7. [run[d][s] EXCEPT !.pc = "adding"] \in Run
    BY <1>8, RunFacts DEF Pushed, Run
  <2>8. run' \in [Device -> [Slot -> Run]]
    BY <2>4, <2>7 DEF Types, TypeOK
  <2>9. ASSUME NEW e \in Device, NEW t \in Slot, run'[e][t].pc = "adding"
        PROVE  \E n \in 1 .. Len(queue'[e]) : queue'[e][n].op = "add" /\ queue'[e][n].slot = t
    <3>1. CASE e = d /\ t = s
      <4>1. queue'[e] = r /\ Len(queue[d]) + 2 \in 1 .. Len(r)
        BY <2>4, <2>5, <3>1 DEF Types, TypeOK
      <4> QED
        BY <2>3, <2>5, <3>1, <4>1
    <3>2. CASE ~(e = d /\ t = s)
      <4>1. run[e][t].pc = "adding"
        BY <2>4, <2>9, <3>2 DEF Types, TypeOK
      <4>2. PICK n \in 1 .. Len(queue[e]) : queue[e][n].op = "add" /\ queue[e][n].slot = t
        BY <4>1 DEF Types, TypeOK
      <4>3. n \in 1 .. Len(queue'[e]) /\ queue'[e][n] = queue[e][n]
        BY <2>4, <2>5 DEF Types, TypeOK
      <4> QED
        BY <4>2, <4>3
    <3> QED
      BY <3>1, <3>2
  <2> QED
    BY <1>8, <2>6, <2>8, <2>9 DEF Pushed, Types, TypeOK, made, flags
<1>9. ASSUME NEW d \in Device, queue[d] # <<>>, queue' = [queue EXCEPT ![d] = Tail(@)],
             EndOf(d, Head(queue[d]))
      PROVE  /\ run' \in [Device -> [Slot -> Run]]
             /\ queue' \in [Device -> Seq(Write)]
             /\ \A e \in Device, t \in Slot :
                  run'[e][t].pc = "adding" =>
                    \E n \in 1 .. Len(queue'[e]) : queue'[e][n].op = "add" /\ queue'[e][n].slot = t
  <2> DEFINE q == queue[d]
             w == Head(q)
  <2>1. q \in Seq(Write)
    BY DEF Types, TypeOK
  <2>2. /\ w = q[1] /\ w \in Write /\ Tail(q) \in Seq(Write)
        /\ Len(q) \in Nat /\ Len(q) >= 1 /\ Len(Tail(q)) = Len(q) - 1
        /\ \A n \in 1 .. Len(Tail(q)) : Tail(q)[n] = q[n + 1]
    BY <1>9, <2>1, TailFacts
  <2>3. queue'[d] = Tail(q) /\ \A e \in Device : e # d => queue'[e] = queue[e]
    BY <1>9 DEF Types, TypeOK
  <2>4. queue' \in [Device -> Seq(Write)]
    BY <1>9, <2>2 DEF Types, TypeOK
  <2>5. run' = IF w.op = "add" /\ w.slot # None THEN [run EXCEPT ![d][w.slot] = Idle] ELSE run
    BY <1>9 DEF EndOf
  <2>6. w.slot # None => w.slot \in Slot
    BY <2>2 DEF Write
  <2>7. run' \in [Device -> [Slot -> Run]]
    BY <2>5, <2>6 DEF Types, TypeOK, Run
  <2>8. ASSUME NEW e \in Device, NEW t \in Slot, run'[e][t].pc = "adding"
        PROVE  \E n \in 1 .. Len(queue'[e]) : queue'[e][n].op = "add" /\ queue'[e][n].slot = t
    <3>1. run[e][t].pc = "adding"
      BY <2>5, <2>6, <2>8 DEF Types, TypeOK, Idle
    <3>2. PICK n \in 1 .. Len(queue[e]) : queue[e][n].op = "add" /\ queue[e][n].slot = t
      BY <3>1 DEF Types, TypeOK
    <3>3. CASE e # d
      BY <2>3, <3>2, <3>3
    <3>4. CASE e = d
      <4>1. ASSUME n = 1
            PROVE  FALSE
        <5>1. w.op = "add" /\ w.slot = t /\ t # None
          BY <2>2, <3>2, <3>4, <4>1, GoalAssumption
        <5>2. run'[d][t] = Idle
          BY <2>5, <5>1 DEF Types, TypeOK
        <5> QED
          BY <2>8, <3>4, <5>2 DEF Idle
      <4>2. n - 1 \in 1 .. Len(Tail(q)) /\ Tail(q)[n - 1] = q[n]
        BY <2>2, <3>2, <3>4, <4>1
      <4> QED
        BY <2>3, <3>2, <3>4, <4>2
    <3> QED
      BY <3>3, <3>4
  <2> QED
    BY <2>4, <2>7, <2>8
<1>10. ASSUME NEW d \in Device, Applied(d)
       PROVE  Types'
  <2> DEFINE w == Head(queue[d])
  <2>1. queue[d] # <<>> /\ queue' = [queue EXCEPT ![d] = Tail(@)] /\ EndOf(d, w)
    BY <1>10 DEF Applied
  <2>2. w \in Write
    BY <2>1, TailFacts DEF Types, TypeOK
  <2>3. remote' \in [Account -> SUBSET Doc] /\ docs' \in 0 .. MaxDoc
    <3>1. CASE w.op = "delete"
      <4>1. remote' = [remote EXCEPT ![w.acct] = @ \ w.docs] /\ docs' = docs
        BY <1>10, <3>1 DEF Applied
      <4> QED
        BY <2>2, <4>1 DEF Types, TypeOK
    <3>2. CASE w.op = "add"
      <4>1. /\ docs < MaxDoc /\ docs' = docs + 1
            /\ remote' = [remote EXCEPT ![w.acct] = @ \cup {[id |-> docs + 1, goal |-> w.goal]}]
        BY <1>10, <3>2 DEF Applied
      <4>2. docs + 1 \in 1 .. MaxDoc /\ docs' \in 0 .. MaxDoc
        BY <4>1 DEF Types
      <4>3. [id |-> docs + 1, goal |-> w.goal] \in Doc
        BY <2>2, <4>2 DEF Write, Doc
      <4> QED
        BY <4>1, <4>2, <4>3 DEF Types, TypeOK
    <3> QED
      BY <1>10, <3>1, <3>2 DEF Applied
  <2> QED
    BY <1>9, <1>10, <2>1, <2>3 DEF Applied, Types, TypeOK, made, flags
<1>11. ASSUME NEW d \in Device, Refused(d)
       PROVE  Types'
  <2>1. queue[d] # <<>> /\ queue' = [queue EXCEPT ![d] = Tail(@)] /\ EndOf(d, Head(queue[d]))
    BY <1>11 DEF Refused
  <2>2. tidy' \subseteq Account /\ whole' \subseteq Account
    BY <1>11 DEF Refused, Types
  <2> QED
    BY <1>9, <1>11, <2>1, <2>2 DEF Refused, Types, TypeOK, made
<1>12. ASSUME NEW d \in Device, Kill(d)
       PROVE  Types'
  <2>1. PICK n \in 0 .. Len(queue[d]) :
          /\ queue' = [queue EXCEPT ![d] = [m \in 1 .. n |-> [@[m] EXCEPT !.slot = None]]]
          /\ whole' \subseteq whole
    BY <1>12 DEF Kill
  <2> DEFINE r == [m \in 1 .. n |-> [queue[d][m] EXCEPT !.slot = None]]
  <2>2. queue' = [queue EXCEPT ![d] = r]
    BY <2>1
  <2>3. r \in Seq(Write)
    BY CutFacts DEF Types, TypeOK
  <2> HIDE DEF r
  <2>4. queue' \in [Device -> Seq(Write)]
    BY <2>2, <2>3 DEF Types, TypeOK
  <2>5. run' = [run EXCEPT ![d] = [s \in Slot |-> Idle]]
    BY <1>12 DEF Kill
  <2>6. [s \in Slot |-> Idle] \in [Slot -> Run]
    BY DEF Run
  <2>7. run' \in [Device -> [Slot -> Run]]
    BY <2>5, <2>6 DEF Types, TypeOK
  <2>8. ASSUME NEW e \in Device, NEW t \in Slot, run'[e][t].pc = "adding"
        PROVE  e # d /\ run[e][t].pc = "adding" /\ queue'[e] = queue[e]
    BY <2>2, <2>5, <2>8 DEF Types, TypeOK, Idle
  <2> QED
    BY <1>12, <2>1, <2>4, <2>7, <2>8 DEF Kill, Types, TypeOK, made
<1>13. CASE UNCHANGED vars
  BY <1>13 DEF vars, device, cloud, made, flags, Types, TypeOK
<1> QED
  BY <1>1, <1>2, <1>3, <1>4, <1>6, <1>7, <1>8, <1>10, <1>11, <1>12, <1>13
     DEF Next, Student, SyncStep

\* The variables of the goal's sync keep their types, and a call that waits for its
\* addition has it in the queue (upload_function.dart:106-139).
THEOREM TypeCorrect == Spec => []TypeOK
<1>1. Spec => []Types
  BY TypesInit, TypesStep, PTL DEF Spec
<1>2. Types => TypeOK
  BY DEF Types
<1> QED
  BY <1>1, <1>2, PTL

-----------------------------------------------------------------------------
(* Ownership.  A call that has not read the answer of its query was started *)
(* in the session that is still there, unless a session ended meanwhile;    *)
(* and what is queued to be added was the goal of that session.             *)

\* No goal has an author before it is set.
Fresh == \A g \in Goal : g > goals => author[g] = None

\* Goal g was set by the student of account a.
By(g, a) == g \in Goal /\ author[g] = a

StoredOwn == \A a \in Account : \A doc \in remote[a] : By(doc.goal, a)

BoxOwn == \A d \in Device : goal[d] # 0 => user[d] # None /\ By(goal[d], user[d])

QueuedOwn ==
  \A d \in Device : \A n \in 1 .. Len(queue[d]) :
    queue[d][n].op = "add" => By(queue[d][n].goal, queue[d][n].acct)

SessionOfRun ==
  \A d \in Device, s \in Slot :
    /\ run[d][s].pc \in {"pulling", "pushing"} => run[d][s].acct = user[d]
    /\ run[d][s].pc = "pushing" => goal[d] # 0

Owned ==
  /\ Fresh
  /\ late \/ (StoredOwn /\ BoxOwn /\ QueuedOwn /\ SessionOfRun)

LEMMA OwnedInit == Init => Owned
<1> SUFFICES ASSUME Init PROVE Owned
  OBVIOUS
<1>1. Fresh
  BY DEF Init, Fresh
<1>2. StoredOwn /\ BoxOwn
  BY DEF Init, StoredOwn, BoxOwn
<1>3. QueuedOwn
  BY DEF Init, QueuedOwn
<1>4. SessionOfRun
  BY DEF Init, SessionOfRun, Idle
<1> QED
  BY <1>1, <1>2, <1>3, <1>4 DEF Owned

\* After a step that ends a run nothing new is asked of the runs.
LEMMA EndedRun ==
  ASSUME Types, NEW d \in Device, NEW s \in Slot, run' = [run EXCEPT ![d][s] = Idle]
  PROVE  \A e \in Device, t \in Slot :
           run'[e][t].pc \in {"pulling", "pushing"} => run'[e][t] = run[e][t]
BY DEF Types, TypeOK, Idle

LEMMA OwnedStep == Types /\ Owned /\ [Next]_vars => Owned'
<1> SUFFICES ASSUME Types, Owned, [Next]_vars PROVE Owned'
  OBVIOUS
<1> USE Bounds
<1>1. ASSUME NEW d \in Device, NEW a \in Account, Login(d, a)
      PROVE  Owned'
  <2>1. /\ user[d] = None /\ user' = [user EXCEPT ![d] = a]
        /\ UNCHANGED <<goal, run, queue, remote, goals, author, late>>
    BY <1>1 DEF Login, cloud, made, flags
  <2>2. Fresh'
    BY <2>1 DEF Owned, Fresh
  <2>3. ASSUME ~late
        PROVE  StoredOwn' /\ BoxOwn' /\ QueuedOwn' /\ SessionOfRun'
    <3>1. StoredOwn' /\ QueuedOwn'
      BY <2>1, <2>3 DEF Owned, StoredOwn, QueuedOwn, By
    <3>2. BoxOwn'
      BY <2>1, <2>3 DEF Owned, BoxOwn, By, Types, TypeOK
    <3>3. \A s \in Slot : run[d][s].pc \notin {"pulling", "pushing"}
      BY <2>1, <2>3, RunFacts, GoalAssumption DEF Owned, SessionOfRun
    <3>4. SessionOfRun'
      BY <2>1, <2>3, <3>3 DEF Owned, SessionOfRun, Types, TypeOK
    <3> QED
      BY <3>1, <3>2, <3>4
  <2>4. late' = late
    BY <2>1
  <2> QED
    BY <2>2, <2>3, <2>4, Zenon DEF Owned
<1>2. ASSUME NEW d \in Device, Logout(d)
      PROVE  Owned'
  <2>1. /\ user' = [user EXCEPT ![d] = None] /\ goal' = [goal EXCEPT ![d] = 0]
        /\ late' = (late \/ \E s \in Slot : run[d][s].pc \in {"pulling", "pushing"})
        /\ UNCHANGED <<run, queue, remote, goals, author>>
    BY <1>2 DEF Logout, cloud, made
  <2>2. Fresh'
    BY <2>1 DEF Owned, Fresh
  <2>3. ASSUME ~late'
        PROVE  StoredOwn' /\ BoxOwn' /\ QueuedOwn' /\ SessionOfRun'
    <3>1. ~late /\ \A s \in Slot : run[d][s].pc \notin {"pulling", "pushing"}
      BY <2>1, <2>3
    <3>2. StoredOwn' /\ QueuedOwn'
      BY <2>1, <3>1 DEF Owned, StoredOwn, QueuedOwn, By
    <3>3. BoxOwn'
      BY <2>1, <3>1 DEF Owned, BoxOwn, By, Types, TypeOK
    <3>4. SessionOfRun'
      BY <2>1, <3>1 DEF Owned, SessionOfRun, Types, TypeOK
    <3> QED
      BY <3>2, <3>3, <3>4
  <2> QED
    BY <2>2, <2>3, Zenon DEF Owned
<1>3. ASSUME NEW d \in Device, SetGoal(d)
      PROVE  Owned'
  <2> DEFINE g == goals + 1
  <2>1. /\ user[d] # None /\ g \in Goal /\ goals' = g
        /\ goal' = [goal EXCEPT ![d] = g] /\ author' = [author EXCEPT ![g] = user[d]]
        /\ UNCHANGED <<user, run, queue, remote, late>>
    BY <1>3 DEF SetGoal, cloud, flags, Types, Goal
  <2>2. Fresh'
    BY <2>1 DEF Owned, Fresh, Types, Goal
  <2>3. \A x, a : By(x, a) /\ a # None => By(x, a)'
    BY <2>1 DEF Owned, Fresh, By, Types, Goal
  <2>4. goal'[d] = g /\ author'[g] = user'[d]
    BY <2>1 DEF Types, TypeOK
  <2>5. ASSUME ~late
        PROVE  StoredOwn' /\ BoxOwn' /\ QueuedOwn' /\ SessionOfRun'
    <3>1. StoredOwn'
      BY <2>1, <2>3, <2>5, GoalAssumption DEF Owned, StoredOwn
    <3>2. QueuedOwn'
      BY <2>1, <2>3, <2>5, WriteFacts, GoalAssumption DEF Owned, QueuedOwn
    <3>3. BoxOwn'
      BY <2>1, <2>3, <2>4, <2>5 DEF Owned, BoxOwn, By, Types, TypeOK
    <3>4. SessionOfRun'
      BY <2>1, <2>5 DEF Owned, SessionOfRun, Types, TypeOK, Goal
    <3> QED
      BY <3>1, <3>2, <3>3, <3>4
  <2>6. late' = late
    BY <2>1
  <2> QED
    BY <2>2, <2>5, <2>6, Zenon DEF Owned
<1>4. ASSUME NEW d \in Device, NEW s \in Slot, StartSync(d, s)
      PROVE  Owned'
  <2>1. PICK pc \in {"pulling", "pushing"} :
          /\ run' = [run EXCEPT ![d][s] = [pc |-> pc, acct |-> user[d]]]
          /\ pc = "pushing" => goal[d] # 0
    BY <1>4 DEF StartSync, Begin
  <2>2. UNCHANGED <<user, goal, queue, remote, goals, author, late>>
    BY <1>4 DEF StartSync, cloud, made
  <2>3. SessionOfRun => SessionOfRun'
    BY <2>1, <2>2 DEF SessionOfRun, Types, TypeOK
  <2> QED
    BY <2>2, <2>3 DEF Owned, Fresh, StoredOwn, BoxOwn, QueuedOwn, By
<1>5. ASSUME NEW d \in Device, NEW s \in Slot, Pulled(d, s)
      PROVE  Owned'
  <2> DEFINE a == run[d][s].acct
  <2>1. /\ run[d][s].pc = "pulling" /\ run' = [run EXCEPT ![d][s] = Idle]
        /\ UNCHANGED <<user, queue, remote, goals, author, late>>
    BY <1>5 DEF Pulled, End, cloud, made, flags
  <2>2. goal' = goal \/ \E doc \in remote[a] : goal' = [goal EXCEPT ![d] = doc.goal]
    BY <1>5 DEF Pulled
  <2>3. a \in Account
    BY <2>1, RunFacts
  <2>4. ASSUME ~late
        PROVE  BoxOwn' /\ SessionOfRun'
    <3>1. a = user[d] /\ \A doc \in remote[a] : doc.goal \in Goal /\ author[doc.goal] = user[d]
      BY <2>1, <2>3, <2>4 DEF Owned, SessionOfRun, StoredOwn, By
    <3>2. BoxOwn'
      BY <2>1, <2>2, <2>3, <2>4, <3>1, GoalAssumption DEF Owned, BoxOwn, By, Types, TypeOK
    <3>3. \A e \in Device : goal[e] # 0 => goal'[e] # 0
      BY <2>2, <3>1 DEF Types, TypeOK, Goal
    <3>4. \A e \in Device, t \in Slot :
            run'[e][t].pc \in {"pulling", "pushing"} => run'[e][t] = run[e][t]
      BY <2>1, EndedRun
    <3>5. SessionOfRun'
      BY <2>1, <2>4, <3>3, <3>4 DEF Owned, SessionOfRun
    <3> QED
      BY <3>2, <3>5
  <2>5. Fresh'
    BY <2>1 DEF Owned, Fresh
  <2>6. ASSUME ~late
        PROVE  StoredOwn' /\ QueuedOwn'
    BY <2>1, <2>6 DEF Owned, StoredOwn, QueuedOwn, By
  <2>7. late' = late
    BY <2>1
  <2> QED
    BY <2>4, <2>5, <2>6, <2>7, Zenon DEF Owned
<1>6. ASSUME NEW d \in Device, NEW s \in Slot, QueryFails(d, s)
      PROVE  Owned'
  <2>1. /\ run' = [run EXCEPT ![d][s] = Idle]
        /\ UNCHANGED <<user, goal, queue, remote, goals, author, late>>
    BY <1>6 DEF QueryFails, End, cloud, made, flags
  <2>2. SessionOfRun => SessionOfRun'
    BY <2>1, EndedRun DEF SessionOfRun
  <2> QED
    BY <2>1, <2>2 DEF Owned, Fresh, StoredOwn, BoxOwn, QueuedOwn, By
<1>7. ASSUME NEW d \in Device, NEW s \in Slot, Pushed(d, s)
      PROVE  Owned'
  <2> DEFINE a == run[d][s].acct
             v == [op |-> "delete", acct |-> a, docs |-> remote[a], goal |-> 0, slot |-> s]
             w == [op |-> "add", acct |-> a, docs |-> {}, goal |-> goal[d], slot |-> s]
             r == queue[d] \o <<v, w>>
  <2>1. /\ run[d][s].pc = "pushing" /\ run' = [run EXCEPT ![d][s].pc = "adding"]
        /\ queue' = [queue EXCEPT ![d] = r]
        /\ UNCHANGED <<user, goal, remote, goals, author, late>>
    BY <1>7 DEF Pushed, made, flags
  <2>2. v \in Write /\ w \in Write
    BY <2>1, PushedWrites
  <2>3. /\ v.op = "delete"
        /\ w.op = "add" /\ w.acct = a /\ w.goal = goal[d]
    OBVIOUS
  <2>4. queue[d] \in Seq(Write)
    BY DEF Types, TypeOK
  <2> HIDE DEF v, w
  <2>5. /\ Len(queue[d]) \in Nat /\ Len(r) = Len(queue[d]) + 2
        /\ \A n \in 1 .. Len(queue[d]) : r[n] = queue[d][n]
        /\ r[Len(queue[d]) + 1] = v /\ r[Len(queue[d]) + 2] = w
    BY <2>2, <2>4, PairFacts
  <2> HIDE DEF r
  <2>6. ASSUME ~late
        PROVE  QueuedOwn' /\ SessionOfRun'
    <3>1. By(w.goal, w.acct)
      BY <2>1, <2>3, <2>6 DEF Owned, SessionOfRun, BoxOwn
    <3>2. ASSUME NEW e \in Device, NEW n \in 1 .. Len(queue'[e]), queue'[e][n].op = "add"
          PROVE  By(queue'[e][n].goal, queue'[e][n].acct)
      <4>1. CASE e = d
        <5>1. queue'[e] = r
          BY <2>1, <4>1 DEF Types, TypeOK
        <5>2. CASE n \in 1 .. Len(queue[d])
          BY <2>5, <2>6, <3>2, <4>1, <5>1, <5>2 DEF Owned, QueuedOwn
        <5>3. CASE n = Len(queue[d]) + 1
          BY <2>3, <2>5, <3>2, <5>1, <5>3
        <5>4. CASE n = Len(queue[d]) + 2
          BY <2>5, <3>1, <5>1, <5>4
        <5> QED
          BY <2>5, <3>2, <5>1, <5>2, <5>3, <5>4
      <4>2. CASE e # d
        BY <2>1, <2>6, <3>2, <4>2 DEF Owned, QueuedOwn, Types, TypeOK
      <4> QED
        BY <4>1, <4>2
    <3>3. QueuedOwn'
      BY <2>1, <3>2 DEF QueuedOwn, By
    <3>4. SessionOfRun'
      BY <2>1, <2>6 DEF Owned, SessionOfRun, Types, TypeOK
    <3> QED
      BY <3>3, <3>4
  <2> QED
    BY <2>1, <2>6 DEF Owned, Fresh, StoredOwn, BoxOwn, By
<1>8. ASSUME NEW d \in Device, queue[d] # <<>>, queue' = [queue EXCEPT ![d] = Tail(@)],
             EndOf(d, Head(queue[d])), UNCHANGED <<user, goal, author>>, ~late, Owned
      PROVE  QueuedOwn' /\ SessionOfRun'
  <2>1. queue[d] \in Seq(Write)
    BY DEF Types, TypeOK
  <2>2. /\ Head(queue[d]) \in Write
        /\ Len(queue[d]) \in Nat /\ Len(Tail(queue[d])) = Len(queue[d]) - 1
        /\ \A n \in 1 .. Len(Tail(queue[d])) : Tail(queue[d])[n] = queue[d][n + 1]
    BY <1>8, <2>1, TailFacts
  <2>3. queue'[d] = Tail(queue[d]) /\ \A e \in Device : e # d => queue'[e] = queue[e]
    BY <1>8 DEF Types, TypeOK
  <2>4. ASSUME NEW e \in Device, NEW n \in 1 .. Len(queue'[e])
        PROVE  \E m \in 1 .. Len(queue[e]) : queue'[e][n] = queue[e][m]
    <3>1. CASE e = d
      <4>1. n + 1 \in 1 .. Len(queue[d]) /\ queue'[d][n] = queue[d][n + 1]
        <5>1. n \in 1 .. Len(Tail(queue[d])) /\ queue'[d] = Tail(queue[d])
          BY <2>3, <2>4, <3>1
        <5>2. n + 1 \in 1 .. Len(queue[d])
          BY <2>2, <5>1
        <5> QED
          BY <2>2, <5>1, <5>2
      <4> QED
        BY <3>1, <4>1
    <3>2. CASE e # d
      BY <2>3, <2>4, <3>2
    <3> QED
      BY <3>1, <3>2
  <2>5. QueuedOwn
    BY <1>8 DEF Owned
  <2>6. QueuedOwn'
    BY <1>8, <2>4, <2>5 DEF QueuedOwn, By
  <2>7. \A e \in Device, t \in Slot :
          run'[e][t].pc \in {"pulling", "pushing"} => run'[e][t] = run[e][t]
    <3>1. CASE run' = run
      BY <3>1
    <3>2. CASE run' # run
      <4>1. /\ run' = [run EXCEPT ![d][Head(queue[d]).slot] = Idle]
            /\ Head(queue[d]).slot \in Slot
        BY <1>8, <2>2, <3>2 DEF EndOf, Write
      <4> QED
        BY <4>1, EndedRun
    <3> QED
      BY <3>1, <3>2
  <2>8. SessionOfRun'
    BY <1>8, <2>7 DEF Owned, SessionOfRun
  <2> QED
    BY <2>6, <2>8
<1>9. ASSUME NEW d \in Device, Applied(d)
      PROVE  Owned'
  <2> DEFINE w == Head(queue[d])
  <2>1. /\ queue[d] # <<>> /\ queue' = [queue EXCEPT ![d] = Tail(@)] /\ EndOf(d, w)
        /\ UNCHANGED <<user, goal, goals, author, late>>
    BY <1>9 DEF Applied, made, flags
  <2>2. ASSUME ~late
        PROVE  StoredOwn' /\ BoxOwn' /\ QueuedOwn' /\ SessionOfRun'
    <3>1. QueuedOwn' /\ SessionOfRun'
      BY <1>8, <2>1, <2>2
    <3>2. BoxOwn'
      BY <2>1, <2>2 DEF Owned, BoxOwn, By
    <3>3. queue[d] \in Seq(Write)
      BY DEF Types, TypeOK
    <3>4. w = queue[d][1] /\ w \in Write /\ 1 \in 1 .. Len(queue[d])
      BY <2>1, <3>3, TailFacts
    <3>5. w.op = "add" => By(w.goal, w.acct)
      BY <2>2, <3>4 DEF Owned, QueuedOwn
    <3>6. StoredOwn
      BY <2>2 DEF Owned
    <3>7. CASE w.op = "delete"
      <4>1. remote' = [remote EXCEPT ![w.acct] = @ \ w.docs]
        BY <1>9, <3>7 DEF Applied
      <4>2. \A a \in Account : remote'[a] \subseteq remote[a]
        BY <4>1 DEF Types, TypeOK
      <4>3. StoredOwn'
        BY <2>1, <3>6, <4>2 DEF StoredOwn, By
      <4> QED
        BY <3>1, <3>2, <4>3
    <3>8. CASE w.op = "add"
      <4>1. remote' = [remote EXCEPT ![w.acct] = @ \cup {[id |-> docs + 1, goal |-> w.goal]}]
        BY <1>9, <3>8 DEF Applied
      <4>2. \A a \in Account : \A doc \in remote'[a] :
              doc \in remote[a] \/ (a = w.acct /\ doc.goal = w.goal)
        BY <4>1 DEF Types, TypeOK
      <4>3. StoredOwn'
        BY <2>1, <3>5, <3>6, <3>8, <4>2 DEF StoredOwn, By
      <4> QED
        BY <3>1, <3>2, <4>3
    <3> QED
      BY <1>9, <3>7, <3>8 DEF Applied
  <2> QED
    BY <2>1, <2>2 DEF Owned, Fresh
<1>10. ASSUME NEW d \in Device, Refused(d)
       PROVE  Owned'
  <2>1. /\ queue[d] # <<>> /\ queue' = [queue EXCEPT ![d] = Tail(@)] /\ EndOf(d, Head(queue[d]))
        /\ UNCHANGED <<user, goal, remote, goals, author, late>>
    BY <1>10 DEF Refused, made
  <2>2. ASSUME ~late
        PROVE  QueuedOwn' /\ SessionOfRun'
    BY <1>8, <2>1, <2>2
  <2> QED
    BY <2>1, <2>2 DEF Owned, Fresh, StoredOwn, BoxOwn, By
<1>11. ASSUME NEW d \in Device, Kill(d)
       PROVE  Owned'
  <2>1. /\ run' = [run EXCEPT ![d] = [s \in Slot |-> Idle]]
        /\ UNCHANGED <<user, goal, remote, goals, author, late>>
    BY <1>11 DEF Kill, made
  <2>2. PICK n \in 0 .. Len(queue[d]) :
          queue' = [queue EXCEPT ![d] = [m \in 1 .. n |-> [@[m] EXCEPT !.slot = None]]]
    BY <1>11 DEF Kill
  <2> DEFINE r == [m \in 1 .. n |-> [queue[d][m] EXCEPT !.slot = None]]
  <2>3. queue' = [queue EXCEPT ![d] = r]
    BY <2>2
  <2>4. queue[d] \in Seq(Write)
    BY DEF Types, TypeOK
  <2>5. /\ Len(queue[d]) \in Nat /\ n \in Nat /\ Len(r) = n
        /\ \A m \in 1 .. n : /\ r[m].op = queue[d][m].op
                             /\ r[m].acct = queue[d][m].acct
                             /\ r[m].goal = queue[d][m].goal
    BY <2>4, CutFacts
  <2> HIDE DEF r
  <2>6. QueuedOwn => QueuedOwn'
    <3>1. ASSUME QueuedOwn, NEW e \in Device, NEW m \in 1 .. Len(queue'[e]), queue'[e][m].op = "add"
          PROVE  By(queue'[e][m].goal, queue'[e][m].acct)
      <4>1. CASE e = d
        <5>1. queue'[e] = r
          BY <2>3, <4>1 DEF Types, TypeOK
        <5>2. m \in 1 .. n /\ m \in 1 .. Len(queue[d])
          BY <2>5, <3>1, <5>1
        <5> QED
          BY <2>5, <3>1, <5>1, <5>2 DEF QueuedOwn
      <4>2. CASE e # d
        BY <2>3, <3>1, <4>2 DEF QueuedOwn, Types, TypeOK
      <4> QED
        BY <4>1, <4>2
    <3> QED
      BY <2>1, <3>1 DEF QueuedOwn, By
  <2>7. SessionOfRun => SessionOfRun'
    BY <2>1 DEF SessionOfRun, Types, TypeOK, Idle
  <2> QED
    BY <2>1, <2>6, <2>7 DEF Owned, Fresh, StoredOwn, BoxOwn, By
<1>12. CASE UNCHANGED vars
  BY <1>12 DEF vars, device, cloud, made, flags, Owned, Fresh, StoredOwn, BoxOwn,
               QueuedOwn, SessionOfRun, By
<1> QED
  BY <1>1, <1>2, <1>3, <1>4, <1>5, <1>6, <1>7, <1>9, <1>10, <1>11, <1>12
     DEF Next, Student, SyncStep

\* Unless a session ended while its goal was being synced, no student's goal is stored
\* for, or taken over by, another student (upload_function.dart:115, 137).
THEOREM GoalsStayWithTheirStudent == Spec => []OwnGoals
<1>1. Owned => OwnGoals
  BY DEF Owned, OwnGoals, StoredOwn, BoxOwn, By, Goal
<1> QED
  BY TypesInit, TypesStep, OwnedInit, OwnedStep, <1>1, PTL DEF Spec

-----------------------------------------------------------------------------
(* A stored goal is only replaced: a queued deletion has its addition right *)
(* behind it, unless that one was refused or lost.                          *)

Followed(q, n) == n + 1 \in 1 .. Len(q) /\ q[n + 1].op = "add" /\ q[n + 1].acct = q[n].acct

Paired ==
  \A d \in Device : \A n \in 1 .. Len(queue[d]) :
    queue[d][n].op = "delete" => queue[d][n].acct \notin whole \/ Followed(queue[d], n)

LEMMA PairedInit == Init => Paired
BY DEF Init, Paired

\* The first write leaves a queue: the pairs behind it stay.
LEMMA PairedTail ==
  ASSUME NEW q \in Seq(Write), q # <<>>, NEW n \in 1 .. Len(Tail(q))
  PROVE  /\ n + 1 \in 1 .. Len(q) /\ Tail(q)[n] = q[n + 1]
         /\ Followed(q, n + 1) => Followed(Tail(q), n)
<1>1. /\ Len(q) \in Nat /\ Len(Tail(q)) = Len(q) - 1
      /\ \A m \in 1 .. Len(Tail(q)) : Tail(q)[m] = q[m + 1]
  BY TailFacts
<1>2. n + 1 \in 1 .. Len(q) /\ Tail(q)[n] = q[n + 1]
  BY <1>1
<1>3. ASSUME Followed(q, n + 1)
      PROVE  Followed(Tail(q), n)
  <2>1. n + 1 + 1 \in 1 .. Len(q)
    BY <1>3 DEF Followed
  <2>2. n + 1 \in 1 .. Len(Tail(q)) /\ Tail(q)[n + 1] = q[n + 1 + 1]
    BY <1>1, <2>1
  <2> QED
    BY <1>2, <1>3, <2>2 DEF Followed
<1> QED
  BY <1>2, <1>3

LEMMA PairedStep == Types /\ Paired /\ [Next]_vars => Paired'
<1> SUFFICES ASSUME Types, Paired, [Next]_vars PROVE Paired'
  OBVIOUS
<1> USE Bounds
<1>1. CASE UNCHANGED <<queue, whole>>
  BY <1>1 DEF Paired, Followed
<1>2. ASSUME NEW d \in Device, NEW s \in Slot, Pushed(d, s)
      PROVE  Paired'
  <2> DEFINE a == run[d][s].acct
             v == [op |-> "delete", acct |-> a, docs |-> remote[a], goal |-> 0, slot |-> s]
             w == [op |-> "add", acct |-> a, docs |-> {}, goal |-> goal[d], slot |-> s]
             r == queue[d] \o <<v, w>>
  <2>1. queue' = [queue EXCEPT ![d] = r] /\ whole' = whole
    BY <1>2 DEF Pushed, flags
  <2>2. v \in Write /\ w \in Write
    BY <1>2, PushedWrites DEF Pushed
  <2>3. w.op = "add" /\ w.acct = v.acct
    OBVIOUS
  <2>4. queue[d] \in Seq(Write)
    BY DEF Types, TypeOK
  <2> HIDE DEF v, w
  <2>5. /\ Len(queue[d]) \in Nat /\ Len(r) = Len(queue[d]) + 2
        /\ \A n \in 1 .. Len(queue[d]) : r[n] = queue[d][n]
        /\ r[Len(queue[d]) + 1] = v /\ r[Len(queue[d]) + 2] = w
    BY <2>2, <2>4, PairFacts
  <2> HIDE DEF r
  <2>6. ASSUME NEW e \in Device, NEW n \in 1 .. Len(queue'[e]), queue'[e][n].op = "delete"
        PROVE  queue'[e][n].acct \notin whole \/ Followed(queue'[e], n)
    <3>1. CASE e # d
      BY <2>1, <2>6, <3>1 DEF Paired, Types, TypeOK
    <3>2. CASE e = d
      <4>1. queue'[e] = r
        BY <2>1, <3>2 DEF Types, TypeOK
      <4>2. CASE n \in 1 .. Len(queue[d])
        <5>1. queue[d][n].acct \notin whole \/ Followed(queue[d], n)
          BY <2>5, <2>6, <4>1, <4>2 DEF Paired
        <5>2. ASSUME Followed(queue[d], n) PROVE Followed(r, n)
          <6>1. n + 1 \in 1 .. Len(queue[d])
            BY <5>2 DEF Followed
          <6>2. n + 1 \in 1 .. Len(r) /\ r[n + 1] = queue[d][n + 1] /\ r[n] = queue[d][n]
            BY <2>5, <4>2, <6>1
          <6> QED
            BY <5>2, <6>2 DEF Followed
        <5> QED
          BY <2>5, <4>1, <4>2, <5>1, <5>2
      <4>3. CASE n = Len(queue[d]) + 1
        <5>1. n + 1 = Len(queue[d]) + 2 /\ n + 1 \in 1 .. Len(r)
          BY <2>5, <4>3
        <5>2. r[n] = v /\ r[n + 1] = w
          BY <2>5, <4>3, <5>1
        <5> QED
          BY <2>3, <4>1, <5>1, <5>2 DEF Followed
      <4>4. CASE n = Len(queue[d]) + 2
        BY <2>3, <2>5, <2>6, <4>1, <4>4
      <4> QED
        BY <2>5, <2>6, <4>1, <4>2, <4>3, <4>4
    <3> QED
      BY <3>1, <3>2
  <2> QED
    BY <2>1, <2>6 DEF Paired, Followed
<1>3. ASSUME NEW d \in Device, queue[d] # <<>>, queue' = [queue EXCEPT ![d] = Tail(@)],
             whole' \subseteq whole
      PROVE  Paired'
  <2>1. queue[d] \in Seq(Write)
    BY DEF Types, TypeOK
  <2>2. queue'[d] = Tail(queue[d]) /\ \A e \in Device : e # d => queue'[e] = queue[e]
    BY <1>3 DEF Types, TypeOK
  <2>3. ASSUME NEW e \in Device, NEW n \in 1 .. Len(queue'[e]), queue'[e][n].op = "delete"
        PROVE  queue'[e][n].acct \notin whole' \/ Followed(queue'[e], n)
    <3>1. CASE e # d
      BY <1>3, <2>2, <2>3, <3>1 DEF Paired
    <3>2. CASE e = d
      <4>1. n \in 1 .. Len(Tail(queue[d])) /\ queue'[e] = Tail(queue[d])
        BY <2>2, <2>3, <3>2
      <4>2. /\ n + 1 \in 1 .. Len(queue[d]) /\ queue'[e][n] = queue[d][n + 1]
            /\ Followed(queue[d], n + 1) => Followed(queue'[e], n)
        BY <1>3, <2>1, <4>1, PairedTail
      <4> QED
        BY <1>3, <2>3, <4>2 DEF Paired
    <3> QED
      BY <3>1, <3>2
  <2> QED
    BY <2>3 DEF Paired, Followed
<1>4. ASSUME NEW d \in Device, Kill(d)
      PROVE  Paired'
  <2>1. PICK n \in 0 .. Len(queue[d]) :
          /\ queue' = [queue EXCEPT ![d] = [m \in 1 .. n |-> [@[m] EXCEPT !.slot = None]]]
          /\ whole' = whole \ {queue[d][m].acct : m \in {k \in n + 1 .. Len(queue[d]) : queue[d][k].op = "add"}}
    BY <1>4 DEF Kill
  <2> DEFINE r == [m \in 1 .. n |-> [queue[d][m] EXCEPT !.slot = None]]
  <2>2. queue' = [queue EXCEPT ![d] = r]
    BY <2>1
  <2>3. queue[d] \in Seq(Write)
    BY DEF Types, TypeOK
  <2>4. /\ Len(queue[d]) \in Nat /\ n \in Nat /\ Len(r) = n
        /\ \A m \in 1 .. n : r[m].op = queue[d][m].op /\ r[m].acct = queue[d][m].acct
    BY <2>3, CutFacts
  <2> HIDE DEF r
  <2>5. whole' \subseteq whole
    BY <2>1
  <2>6. ASSUME NEW e \in Device, NEW m \in 1 .. Len(queue'[e]), queue'[e][m].op = "delete"
        PROVE  queue'[e][m].acct \notin whole' \/ Followed(queue'[e], m)
    <3>1. CASE e # d
      BY <2>2, <2>5, <2>6, <3>1 DEF Paired, Types, TypeOK
    <3>2. CASE e = d
      <4>1. queue'[e] = r
        BY <2>2, <3>2 DEF Types, TypeOK
      <4>2. m \in 1 .. n /\ m \in 1 .. Len(queue[d])
        BY <2>4, <2>6, <4>1
      <4>3. queue[d][m].acct \notin whole \/ Followed(queue[d], m)
        BY <2>4, <2>6, <4>1, <4>2 DEF Paired
      <4>4. CASE Followed(queue[d], m) /\ m = n
        <5>1. n + 1 \in n + 1 .. Len(queue[d]) /\ queue[d][n + 1].op = "add"
          BY <2>4, <4>4 DEF Followed
        <5>2. queue[d][n + 1].acct \notin whole'
          BY <2>1, <5>1
        <5> QED
          BY <2>4, <4>1, <4>2, <4>4, <5>2 DEF Followed
      <4>5. CASE Followed(queue[d], m) /\ m # n
        <5>1. m + 1 \in 1 .. n
          BY <2>4, <4>2, <4>5
        <5> QED
          BY <2>4, <4>1, <4>2, <4>5, <5>1 DEF Followed
      <4> QED
        BY <2>4, <2>5, <4>1, <4>2, <4>3, <4>4, <4>5
    <3> QED
      BY <3>1, <3>2
  <2> QED
    BY <2>6 DEF Paired, Followed
<1> QED
  BY <1>1, <1>2, <1>3, <1>4
     DEF Next, Student, SyncStep, Login, Logout, SetGoal, StartSync, Pulled, QueryFails,
         Applied, Refused, cloud, flags, vars

\* An addition of account a is queued on device d.
Adding(a, d) == \E n \in 1 .. Len(queue[d]) : queue[d][n].op = "add" /\ queue[d][n].acct = a

LEMMA StaysStep ==
  ASSUME Types, Paired, [Next]_vars, NEW a \in Account, HasGoal(a), a \in whole'
  PROVE  HasGoal(a)'
<1> USE Bounds
<1>1. CASE UNCHANGED <<queue, remote>>
  BY <1>1 DEF HasGoal
<1>2. ASSUME NEW d \in Device, NEW s \in Slot, Pushed(d, s)
      PROVE  HasGoal(a)'
  <2> DEFINE b == run[d][s].acct
             v == [op |-> "delete", acct |-> b, docs |-> remote[b], goal |-> 0, slot |-> s]
             w == [op |-> "add", acct |-> b, docs |-> {}, goal |-> goal[d], slot |-> s]
             r == queue[d] \o <<v, w>>
  <2>1. queue' = [queue EXCEPT ![d] = r] /\ remote' = remote
    BY <1>2 DEF Pushed
  <2>2. v \in Write /\ w \in Write /\ queue[d] \in Seq(Write)
    BY <1>2, PushedWrites DEF Pushed, Types, TypeOK
  <2> HIDE DEF v, w
  <2>3. /\ Len(queue[d]) \in Nat /\ Len(r) = Len(queue[d]) + 2
        /\ \A n \in 1 .. Len(queue[d]) : r[n] = queue[d][n]
    BY <2>2, PairFacts
  <2> HIDE DEF r
  <2>4. ASSUME NEW e \in Device, Adding(a, e)
        PROVE  Adding(a, e)'
    <3>1. PICK n \in 1 .. Len(queue[e]) : queue[e][n].op = "add" /\ queue[e][n].acct = a
      BY <2>4 DEF Adding
    <3>2. n \in 1 .. Len(queue'[e]) /\ queue'[e][n] = queue[e][n]
      <4>1. CASE e = d
        <5>1. queue'[e] = r
          BY <2>1, <4>1 DEF Types, TypeOK
        <5>2. n \in 1 .. Len(r) /\ r[n] = queue[d][n]
          BY <2>3, <4>1
        <5> QED
          BY <4>1, <5>1, <5>2
      <4>2. CASE e # d
        BY <2>1, <4>2 DEF Types, TypeOK
      <4> QED
        BY <4>1, <4>2
    <3> QED
      BY <3>1, <3>2 DEF Adding
  <2> QED
    BY <2>1, <2>4 DEF HasGoal, Adding
<1>3. ASSUME NEW d \in Device, queue[d] # <<>>, queue' = [queue EXCEPT ![d] = Tail(@)],
             NEW e \in Device, NEW n \in 1 .. Len(queue[e]), e # d \/ n # 1,
             queue[e][n].op = "add", queue[e][n].acct = a
      PROVE  HasGoal(a)'
  <2>1. queue[d] \in Seq(Write)
    BY DEF Types, TypeOK
  <2>2. queue'[d] = Tail(queue[d]) /\ (e # d => queue'[e] = queue[e])
    BY <1>3 DEF Types, TypeOK
  <2>3. CASE e # d
    BY <1>3, <2>2, <2>3 DEF HasGoal
  <2>4. CASE e = d
    <3>1. n - 1 \in 1 .. Len(Tail(queue[d])) /\ Tail(queue[d])[n - 1] = queue[d][n]
      BY <1>3, <2>1, <2>4, TailFacts
    <3> QED
      BY <1>3, <2>2, <2>4, <3>1 DEF HasGoal
  <2> QED
    BY <2>3, <2>4
<1>4. ASSUME NEW d \in Device, Applied(d)
      PROVE  HasGoal(a)'
  <2> DEFINE w == Head(queue[d])
  <2>1. /\ queue[d] # <<>> /\ queue' = [queue EXCEPT ![d] = Tail(@)] /\ whole' = whole
    BY <1>4 DEF Applied, flags
  <2>2. queue[d] \in Seq(Write)
    BY DEF Types, TypeOK
  <2>3. w = queue[d][1] /\ w \in Write /\ 1 \in 1 .. Len(queue[d])
    BY <2>1, <2>2, TailFacts
  <2>4. CASE w.op = "add"
    <3>1. remote' = [remote EXCEPT ![w.acct] = @ \cup {[id |-> docs + 1, goal |-> w.goal]}]
      BY <1>4, <2>4 DEF Applied
    <3>2. remote[a] # {} \/ w.acct = a => remote'[a] # {}
      BY <3>1 DEF Types, TypeOK
    <3>3. CASE remote[a] # {} \/ w.acct = a
      BY <3>2, <3>3 DEF HasGoal
    <3>4. CASE remote[a] = {} /\ w.acct # a
      <4>1. PICK e \in Device : \E n \in 1 .. Len(queue[e]) : queue[e][n].op = "add" /\ queue[e][n].acct = a
        BY <3>4 DEF HasGoal
      <4>2. PICK n \in 1 .. Len(queue[e]) : queue[e][n].op = "add" /\ queue[e][n].acct = a
        BY <4>1
      <4>3. e # d \/ n # 1
        BY <2>3, <3>4, <4>2
      <4> QED
        BY <1>3, <2>1, <4>2, <4>3
    <3> QED
      BY <3>3, <3>4
  <2>5. CASE w.op = "delete"
    <3>1. remote' = [remote EXCEPT ![w.acct] = @ \ w.docs]
      BY <1>4, <2>5 DEF Applied
    <3>2. CASE w.acct = a
      <4>1. Followed(queue[d], 1)
        BY <2>1, <2>3, <2>5, <3>2 DEF Paired
      <4>2. PICK n \in 1 .. Len(queue[d]) : n # 1 /\ queue[d][n].op = "add" /\ queue[d][n].acct = a
        BY <2>3, <3>2, <4>1 DEF Followed
      <4> QED
        BY <1>3, <2>1, <4>2
    <3>3. CASE w.acct # a
      <4>1. remote'[a] = remote[a]
        BY <3>1, <3>3 DEF Types, TypeOK
      <4>2. CASE remote[a] # {}
        BY <4>1, <4>2 DEF HasGoal
      <4>3. CASE remote[a] = {}
        <5>1. PICK e \in Device : \E n \in 1 .. Len(queue[e]) : queue[e][n].op = "add" /\ queue[e][n].acct = a
          BY <4>3 DEF HasGoal
        <5>2. PICK n \in 1 .. Len(queue[e]) : queue[e][n].op = "add" /\ queue[e][n].acct = a
          BY <5>1
        <5>3. e # d \/ n # 1
          BY <2>3, <2>5, <5>2
        <5> QED
          BY <1>3, <2>1, <5>2, <5>3
      <4> QED
        BY <4>2, <4>3
    <3> QED
      BY <3>2, <3>3
  <2> QED
    BY <2>3, <2>4, <2>5 DEF Write
<1>5. ASSUME NEW d \in Device, Refused(d)
      PROVE  HasGoal(a)'
  <2>1. /\ queue[d] # <<>> /\ queue' = [queue EXCEPT ![d] = Tail(@)] /\ remote' = remote
        /\ whole' = IF Head(queue[d]).op = "add" THEN whole \ {Head(queue[d]).acct} ELSE whole
    BY <1>5 DEF Refused
  <2>2. queue[d] \in Seq(Write)
    BY DEF Types, TypeOK
  <2>3. Head(queue[d]) = queue[d][1]
    BY <2>1, <2>2, TailFacts
  <2>4. CASE remote[a] # {}
    BY <2>1, <2>4 DEF HasGoal
  <2>5. CASE remote[a] = {}
    <3>1. PICK e \in Device : \E n \in 1 .. Len(queue[e]) : queue[e][n].op = "add" /\ queue[e][n].acct = a
      BY <2>5 DEF HasGoal
    <3>2. PICK n \in 1 .. Len(queue[e]) : queue[e][n].op = "add" /\ queue[e][n].acct = a
      BY <3>1
    <3>3. e # d \/ n # 1
      BY <2>1, <2>3, <3>2
    <3> QED
      BY <1>3, <2>1, <3>2, <3>3
  <2> QED
    BY <2>4, <2>5
<1>6. ASSUME NEW d \in Device, Kill(d)
      PROVE  HasGoal(a)'
  <2>1. PICK n \in 0 .. Len(queue[d]) :
          /\ queue' = [queue EXCEPT ![d] = [m \in 1 .. n |-> [@[m] EXCEPT !.slot = None]]]
          /\ whole' = whole \ {queue[d][m].acct : m \in {k \in n + 1 .. Len(queue[d]) : queue[d][k].op = "add"}}
    BY <1>6 DEF Kill
  <2> DEFINE r == [m \in 1 .. n |-> [queue[d][m] EXCEPT !.slot = None]]
  <2>2. queue' = [queue EXCEPT ![d] = r] /\ remote' = remote
    BY <1>6, <2>1 DEF Kill
  <2>3. queue[d] \in Seq(Write)
    BY DEF Types, TypeOK
  <2>4. /\ Len(queue[d]) \in Nat /\ n \in Nat /\ Len(r) = n
        /\ \A m \in 1 .. n : r[m].op = queue[d][m].op /\ r[m].acct = queue[d][m].acct
    BY <2>3, CutFacts
  <2> HIDE DEF r
  <2>5. CASE remote[a] # {}
    BY <2>2, <2>5 DEF HasGoal
  <2>6. CASE remote[a] = {}
    <3>1. PICK e \in Device : \E m \in 1 .. Len(queue[e]) : queue[e][m].op = "add" /\ queue[e][m].acct = a
      BY <2>6 DEF HasGoal
    <3>2. PICK m \in 1 .. Len(queue[e]) : queue[e][m].op = "add" /\ queue[e][m].acct = a
      BY <3>1
    <3>3. CASE e # d
      <4>1. queue'[e] = queue[e]
        BY <2>2, <3>3 DEF Types, TypeOK
      <4> QED
        BY <3>2, <4>1 DEF HasGoal
    <3>4. CASE e = d
      <4>1. m \in 1 .. n
        <5>1. m \notin n + 1 .. Len(queue[d])
          BY <2>1, <3>2, <3>4
        <5> QED
          BY <2>4, <3>2, <3>4, <5>1
      <4>2. queue'[d] = r
        BY <2>2 DEF Types, TypeOK
      <4>3. m \in 1 .. Len(queue'[d]) /\ queue'[d][m].op = "add" /\ queue'[d][m].acct = a
        BY <2>4, <3>2, <3>4, <4>1, <4>2
      <4> QED
        BY <4>3 DEF HasGoal
    <3> QED
      BY <3>3, <3>4
  <2> QED
    BY <2>5, <2>6
<1> QED
  BY <1>1, <1>2, <1>4, <1>5, <1>6
     DEF Next, Student, SyncStep, Login, Logout, SetGoal, StartSync, Pulled, QueryFails, cloud, vars

\* A stored goal is only ever replaced, whatever syncs of whatever devices, refusals of
\* deletions and kills come between, unless an addition was refused or lost
\* (upload_function.dart:129-137).
THEOREM GoalIsReplaced == Spec => GoalStays
<1>1. Types /\ Paired /\ [Next]_vars
        => [\A a \in Account : HasGoal(a) => HasGoal(a)' \/ a \notin whole']_vars
  BY StaysStep
<1>2. Spec => [][\A a \in Account : HasGoal(a) => HasGoal(a)' \/ a \notin whole']_vars
  BY <1>1, TypesInit, TypesStep, PairedInit, PairedStep, PTL DEF Spec
<1> QED
  BY <1>2 DEF GoalStays

-----------------------------------------------------------------------------
(* At most one stored goal.  As long as an account is tidy, what is queued   *)
(* for it is what is left of one push: a deletion of all that is stored, and *)
(* the addition right behind it.                                             *)

\* The writes of account a that are queued on device d.
Queued(a, d) == {n \in 1 .. Len(queue[d]) : queue[d][n].acct = a}

\* Writes n and m of device d are the deletion and the addition of one push, in this order.
Pair(d, n, m) == m = n + 1 /\ queue[d][n].op = "delete" /\ queue[d][m].op = "add"

IsPushing(a, d, s) == run[d][s].pc = "pushing" /\ run[d][s].acct = a

OnePush(a) ==
  \A d, e \in Device : \A n \in Queued(a, d), m \in Queued(a, e) :
    d = e /\ (n = m \/ Pair(d, n, m) \/ Pair(d, m, n))

PushAlone(a) ==
  \A d \in Device, s \in Slot :
    IsPushing(a, d, s) =>
      /\ \A e \in Device : Queued(a, e) = {}
      /\ \A e \in Device, t \in Slot : IsPushing(a, e, t) => e = d /\ t = s

\* Nothing survives a queued deletion, and an addition finds nothing.
Replaces(a, d, n) ==
  /\ queue[d][n].op = "delete" => remote[a] \subseteq queue[d][n].docs
  /\ queue[d][n].op = "add" =>
       \/ remote[a] = {}
       \/ n - 1 \in Queued(a, d) /\ queue[d][n - 1].op = "delete"

Tidy ==
  \A a \in tidy :
    /\ OnePush(a)
    /\ PushAlone(a)
    /\ \A d \in Device : \A n \in Queued(a, d) : Replaces(a, d, n)
    /\ \A x, y \in remote[a] : x = y

LEMMA TidyInit == Init => Tidy
<1> SUFFICES ASSUME Init, NEW a \in tidy
             PROVE  /\ \A d \in Device : Queued(a, d) = {}
                    /\ \A d \in Device, s \in Slot : ~IsPushing(a, d, s)
                    /\ remote[a] = {}
  BY DEF Tidy, OnePush, PushAlone
<1> QED
  BY DEF Init, Queued, IsPushing, Idle

\* What an addition that would find something has right before it.
LEMMA AddFollows ==
  ASSUME NEW a, NEW d, NEW c, Replaces(a, d, c), queue[d][c].op = "add", remote[a] # {}
  PROVE  c - 1 \in Queued(a, d) /\ queue[d][c - 1].op = "delete"
BY DEF Replaces

\* A step that queues nothing: what is queued was there, k[d] places further back.
LEMMA TidyShift ==
  ASSUME Types, Tidy, tidy' \subseteq tidy,
         NEW k \in [Device -> {0, 1}],
         \A d \in Device : Len(queue[d]) \in Nat /\ Len(queue'[d]) \in Nat,
         \A d \in Device : \A n \in 1 .. Len(queue'[d]) :
           /\ n + k[d] \in 1 .. Len(queue[d])
           /\ queue'[d][n].op = queue[d][n + k[d]].op
           /\ queue'[d][n].acct = queue[d][n + k[d]].acct
           /\ queue'[d][n].docs = queue[d][n + k[d]].docs,
         \A d \in Device : Len(queue'[d]) <= Len(queue[d]) - k[d],
         \A d \in Device, s \in Slot : run'[d][s].pc = "pushing" => run'[d][s] = run[d][s],
         \A a \in tidy' :
           \/ /\ remote'[a] = remote[a]
              /\ \A d \in Device : k[d] = 1 => queue[d][1].acct # a
           \/ remote'[a] = {}
           \/ /\ \A d \in Device : Queued(a, d)' = {}
              /\ \A x, y \in remote'[a] : x = y
  PROVE  Tidy'
<1> SUFFICES ASSUME NEW a \in tidy'
             PROVE  /\ OnePush(a)'
                    /\ PushAlone(a)'
                    /\ \A d \in Device : \A n \in Queued(a, d)' : Replaces(a, d, n)'
                    /\ \A x, y \in remote'[a] : x = y
  BY DEF Tidy
<1>1. /\ OnePush(a) /\ PushAlone(a)
      /\ \A d \in Device : \A n \in Queued(a, d) : Replaces(a, d, n)
      /\ \A x, y \in remote[a] : x = y
  BY DEF Tidy
<1>2. ASSUME NEW d \in Device, NEW n \in Queued(a, d)'
      PROVE  n \in 1 .. Len(queue'[d]) /\ n + k[d] \in Queued(a, d)
  BY <1>2 DEF Queued
<1>3. OnePush(a)'
  <2>1. SUFFICES ASSUME NEW d \in Device, NEW e \in Device,
                        NEW n \in Queued(a, d)', NEW m \in Queued(a, e)'
                 PROVE  d = e /\ (n = m \/ Pair(d, n, m)' \/ Pair(d, m, n)')
    BY DEF OnePush
  <2>2. n + k[d] \in Queued(a, d) /\ m + k[e] \in Queued(a, e)
    BY <1>2
  <2>3. d = e
    BY <1>1, <2>2 DEF OnePush
  <2>4. n + k[d] = m + k[d] \/ Pair(d, n + k[d], m + k[d]) \/ Pair(d, m + k[d], n + k[d])
    BY <1>1, <2>2, <2>3 DEF OnePush
  <2>5. n \in 1 .. Len(queue'[d]) /\ m \in 1 .. Len(queue'[d]) /\ k[d] \in {0, 1}
    BY <1>2, <2>3
  <2>6. /\ queue'[d][n].op = queue[d][n + k[d]].op
        /\ queue'[d][m].op = queue[d][m + k[d]].op
    BY <2>5
  <2>7. n + k[d] = m + k[d] => n = m
    BY <2>5
  <2>8. /\ Pair(d, n + k[d], m + k[d]) => Pair(d, n, m)'
        /\ Pair(d, m + k[d], n + k[d]) => Pair(d, m, n)'
    BY <2>5, <2>6 DEF Pair
  <2> QED
    BY <2>3, <2>4, <2>7, <2>8
<1>4. PushAlone(a)'
  <2>1. \A d \in Device, s \in Slot : IsPushing(a, d, s)' => IsPushing(a, d, s)
    BY DEF IsPushing
  <2> QED
    BY <1>1, <1>2, <2>1 DEF PushAlone
<1>5. ASSUME NEW d \in Device, NEW n \in Queued(a, d)'
      PROVE  Replaces(a, d, n)'
  <2>1. /\ n \in 1 .. Len(queue'[d]) /\ n + k[d] \in Queued(a, d) /\ Replaces(a, d, n + k[d])
        /\ queue'[d][n].op = queue[d][n + k[d]].op
        /\ queue'[d][n].docs = queue[d][n + k[d]].docs
    BY <1>1, <1>2, <1>5
  <2>2. CASE remote'[a] = {}
    BY <2>2 DEF Replaces
  <2>3. CASE remote'[a] = remote[a] /\ (k[d] = 1 => queue[d][1].acct # a)
    <3>1. CASE queue[d][n + k[d]].op = "delete" \/ remote[a] = {}
      BY <2>1, <2>3, <3>1 DEF Replaces
    <3>2. CASE queue[d][n + k[d]].op # "delete" /\ remote[a] # {}
      <4>1. CASE queue[d][n + k[d]].op = "add"
        <5>0. PICK c \in Nat : c = n + k[d]
          BY <2>1 DEF Queued
        <5>1. c - 1 \in Queued(a, d) /\ queue[d][c - 1].op = "delete"
          <6>1. Replaces(a, d, c) /\ queue[d][c].op = "add"
            BY <2>1, <4>1, <5>0
          <6> QED
            BY <3>2, <6>1, AddFollows
        <5>2. c - 1 >= 1 /\ queue[d][c - 1].acct = a
          BY <5>1 DEF Queued
        <5>3. n # 1
          <6>1. k[d] = 0 \/ k[d] = 1
            OBVIOUS
          <6>2. n = 1 => c = 1 \/ (c = 2 /\ k[d] = 1)
            BY <5>0, <6>1
          <6> QED
            BY <2>3, <5>2, <6>2
        <5>4. n - 1 \in 1 .. Len(queue'[d]) /\ n - 1 + k[d] = c - 1
          BY <2>1, <5>0, <5>3
        <5>5. /\ queue'[d][n - 1].op = queue[d][n - 1 + k[d]].op
              /\ queue'[d][n - 1].acct = queue[d][n - 1 + k[d]].acct
          BY <5>4
        <5>6. n - 1 \in Queued(a, d)' /\ queue'[d][n - 1].op = "delete"
          BY <5>1, <5>2, <5>4, <5>5 DEF Queued
        <5> QED
          BY <2>1, <4>1, <5>6 DEF Replaces
      <4>2. CASE queue[d][n + k[d]].op # "add"
        BY <2>1, <3>2, <4>2 DEF Replaces
      <4> QED
        BY <4>1, <4>2
    <3> QED
      BY <3>1, <3>2
  <2> QED
    BY <1>5, <2>2, <2>3
<1>6. \A x, y \in remote'[a] : x = y
  BY <1>1
<1> QED
  BY <1>3, <1>4, <1>5, <1>6

LEMMA TidyStep == Types /\ Tidy /\ [Next]_vars => Tidy'
<1> SUFFICES ASSUME Types, Tidy, [Next]_vars PROVE Tidy'
  OBVIOUS
<1> DEFINE none == [e \in Device |-> 0]
<1>0. /\ none \in [Device -> {0, 1}] /\ \A d \in Device : none[d] = 0
      /\ \A d \in Device : queue[d] \in Seq(Write) /\ Len(queue[d]) \in Nat
  BY DEF Types, TypeOK
<1> HIDE DEF none
<1>1. ASSUME UNCHANGED <<queue, remote, tidy>>,
             \A d \in Device, s \in Slot : run'[d][s].pc = "pushing" => run'[d][s] = run[d][s]
      PROVE  Tidy'
  <2>1. \A d \in Device : \A n \in 1 .. Len(queue'[d]) : n + none[d] = n /\ n \in 1 .. Len(queue[d])
    BY <1>0, <1>1
  <2>2. \A d \in Device : Len(queue'[d]) <= Len(queue[d]) - none[d] /\ Len(queue'[d]) \in Nat
    BY <1>0, <1>1
  <2> QED
    BY <1>0, <1>1, <2>1, <2>2, TidyShift
<1>2. ASSUME NEW d \in Device, NEW s \in Slot, StartSync(d, s)
      PROVE  Tidy'
  <2>1. PICK pc \in {"pulling", "pushing"} :
          /\ pc = "pushing" <=> goal[d] # 0
          /\ run' = [run EXCEPT ![d][s] = [pc |-> pc, acct |-> user[d]]]
    BY <1>2 DEF StartSync, Begin
  <2>2. /\ tidy' = IF goal[d] # 0 /\ Pushing(user[d]) THEN tidy \ {user[d]} ELSE tidy
        /\ UNCHANGED <<queue, remote>>
    BY <1>2 DEF StartSync, cloud
  <2>3. SUFFICES ASSUME NEW a \in tidy' PROVE PushAlone(a)'
    BY <2>2 DEF Tidy, OnePush, Pair, Queued, Replaces
  <2>4. PushAlone(a)
    BY <2>2 DEF Tidy
  <2>5. \A e \in Device, t \in Slot :
          IsPushing(a, e, t)' => IsPushing(a, e, t) \/ (e = d /\ t = s /\ pc = "pushing" /\ user[d] = a)
    BY <2>1 DEF IsPushing, Types, TypeOK
  <2>6. CASE pc = "pushing" /\ user[d] = a
    <3>1. ~Pushing(a)
      BY <2>1, <2>2, <2>6
    <3>2. /\ \A e \in Device : Queued(a, e) = {}
          /\ \A e \in Device, t \in Slot : ~IsPushing(a, e, t)
      BY <3>1 DEF Pushing, Queued, IsPushing
    <3> QED
      BY <2>2, <2>5, <3>2 DEF PushAlone, Queued
  <2>7. CASE ~(pc = "pushing" /\ user[d] = a)
    BY <2>2, <2>4, <2>5, <2>7 DEF PushAlone, Queued
  <2> QED
    BY <2>6, <2>7
<1>3. ASSUME NEW d \in Device, NEW s \in Slot, Pushed(d, s)
      PROVE  Tidy'
  <2> DEFINE b == run[d][s].acct
             v == [op |-> "delete", acct |-> b, docs |-> remote[b], goal |-> 0, slot |-> s]
             w == [op |-> "add", acct |-> b, docs |-> {}, goal |-> goal[d], slot |-> s]
             r == queue[d] \o <<v, w>>
  <2>1. /\ queue' = [queue EXCEPT ![d] = r] /\ run' = [run EXCEPT ![d][s].pc = "adding"]
        /\ run[d][s].pc = "pushing" /\ UNCHANGED <<remote, tidy>>
    BY <1>3 DEF Pushed, flags
  <2>2. v \in Write /\ w \in Write
    BY <1>3, PushedWrites DEF Pushed
  <2>3. /\ v.op = "delete" /\ w.op = "add" /\ v.acct = b /\ w.acct = b
        /\ v.docs = remote[b]
    OBVIOUS
  <2> HIDE DEF v, w
  <2>4. /\ Len(queue[d]) \in Nat /\ Len(r) = Len(queue[d]) + 2
        /\ \A n \in 1 .. Len(queue[d]) : r[n] = queue[d][n]
        /\ r[Len(queue[d]) + 1] = v /\ r[Len(queue[d]) + 2] = w
    BY <1>0, <2>2, PairFacts
  <2> HIDE DEF r
  <2>5. queue'[d] = r /\ \A e \in Device : e # d => queue'[e] = queue[e]
    BY <2>1 DEF Types, TypeOK
  <2>6. \A a, e, t : e \in Device /\ t \in Slot /\ IsPushing(a, e, t)' => IsPushing(a, e, t) /\ ~(e = d /\ t = s)
    BY <2>1 DEF IsPushing, Types, TypeOK
  <2>7. SUFFICES ASSUME NEW a \in tidy
                 PROVE  /\ OnePush(a)'
                        /\ PushAlone(a)'
                        /\ \A e \in Device : \A n \in Queued(a, e)' : Replaces(a, e, n)'
    BY <2>1 DEF Tidy
  <2>8. /\ OnePush(a) /\ PushAlone(a)
        /\ \A e \in Device : \A n \in Queued(a, e) : Replaces(a, e, n)
    BY DEF Tidy
  <2>9. CASE a = b
    <3>0. PICK len : len = Len(queue[d])
      OBVIOUS
    <3>1. IsPushing(a, d, s)
      BY <2>1, <2>9 DEF IsPushing
    <3>2. \A e \in Device : Queued(a, e) = {}
      BY <2>8, <3>1 DEF PushAlone
    <3>3. \A e \in Device : e # d => Queued(a, e)' = {}
      BY <2>5, <3>2 DEF Queued
    <3>4. Queued(a, d)' \subseteq {len + 1, len + 2} /\ len + 1 \in Queued(a, d)'
      <4>1. \A n \in Queued(a, d)' : n \in 1 .. len + 2 /\ n \notin 1 .. len
        BY <2>4, <2>5, <3>0, <3>2 DEF Queued
      <4>2. len + 1 \in Queued(a, d)'
        BY <2>3, <2>4, <2>5, <2>9, <3>0 DEF Queued
      <4> QED
        BY <2>4, <3>0, <4>1, <4>2
    <3>5. Pair(d, len + 1, len + 2)'
      BY <2>3, <2>4, <2>5, <3>0 DEF Pair
    <3>6. OnePush(a)'
      BY <3>3, <3>4, <3>5 DEF OnePush
    <3>7. PushAlone(a)'
      BY <2>6, <2>8, <3>1 DEF PushAlone
    <3>8. Replaces(a, d, len + 1)' /\ Replaces(a, d, len + 2)'
      <4>1. Replaces(a, d, len + 1)'
        BY <2>1, <2>3, <2>4, <2>5, <2>9, <3>0 DEF Replaces
      <4>2. len + 2 - 1 = len + 1
        BY <2>4, <3>0
      <4> QED
        BY <2>3, <2>4, <2>5, <3>0, <3>4, <4>1, <4>2 DEF Replaces
    <3> QED
      BY <3>3, <3>4, <3>6, <3>7, <3>8
  <2>10. CASE a # b
    <3>1. \A e \in Device : Queued(a, e)' = Queued(a, e)
      <4>1. SUFFICES Queued(a, d)' = Queued(a, d)
        BY <2>5 DEF Queued
      <4>2. \A n \in 1 .. Len(queue[d]) + 2 : r[n].acct = a => n \in 1 .. Len(queue[d])
        BY <2>3, <2>4, <2>10
      <4> QED
        BY <2>4, <2>5, <4>2 DEF Queued
    <3>2. \A e \in Device : \A n \in Queued(a, e) : queue'[e][n] = queue[e][n]
      BY <2>4, <2>5 DEF Queued
    <3>3. OnePush(a)'
      BY <2>8, <3>1, <3>2 DEF OnePush, Pair
    <3>4. PushAlone(a)'
      BY <2>6, <2>8, <3>1 DEF PushAlone
    <3>5. \A e \in Device : \A n \in Queued(a, e)' : Replaces(a, e, n)'
      BY <2>1, <2>8, <3>1, <3>2 DEF Replaces
    <3> QED
      BY <3>3, <3>4, <3>5
  <2> QED
    BY <2>9, <2>10
<1>4. ASSUME NEW d \in Device, queue[d] # <<>>, queue' = [queue EXCEPT ![d] = Tail(@)],
             EndOf(d, Head(queue[d])), tidy' \subseteq tidy,
             \A a \in tidy' :
               \/ remote'[a] = remote[a] /\ Head(queue[d]).acct # a
               \/ remote'[a] = {}
               \/ /\ \A e \in Device : Queued(a, e)' = {}
                  /\ \A x, y \in remote'[a] : x = y
      PROVE  Tidy'
  <2> DEFINE k == [e \in Device |-> IF e = d THEN 1 ELSE 0]
             w == Head(queue[d])
  <2>1. /\ w = queue[d][1] /\ w \in Write
        /\ Len(queue[d]) >= 1 /\ Len(Tail(queue[d])) = Len(queue[d]) - 1
        /\ \A n \in 1 .. Len(Tail(queue[d])) : Tail(queue[d])[n] = queue[d][n + 1]
    BY <1>0, <1>4, TailFacts
  <2>2. queue'[d] = Tail(queue[d]) /\ \A e \in Device : e # d => queue'[e] = queue[e]
    BY <1>4 DEF Types, TypeOK
  <2>3. k \in [Device -> {0, 1}] /\ k[d] = 1 /\ \A e \in Device : e # d => k[e] = 0
    OBVIOUS
  <2>4. run' = IF w.op = "add" /\ w.slot # None THEN [run EXCEPT ![d][w.slot] = Idle] ELSE run
    BY <1>4 DEF EndOf
  <2>5. \A e \in Device, t \in Slot : run'[e][t].pc = "pushing" => run'[e][t] = run[e][t]
    BY <2>1, <2>4 DEF Types, TypeOK, Write, Idle
  <2> HIDE DEF k, w
  <2>6. ASSUME NEW e \in Device
        PROVE  /\ Len(queue'[e]) \in Nat /\ Len(queue'[e]) <= Len(queue[e]) - k[e]
               /\ \A n \in 1 .. Len(queue'[e]) :
                    /\ n + k[e] \in 1 .. Len(queue[e])
                    /\ queue'[e][n].op = queue[e][n + k[e]].op
                    /\ queue'[e][n].acct = queue[e][n + k[e]].acct
                    /\ queue'[e][n].docs = queue[e][n + k[e]].docs
    <3>1. CASE e = d
      <4>0. k[e] = 1 /\ queue'[e] = Tail(queue[e]) /\ Len(queue[e]) \in Nat
        BY <1>0, <2>2, <2>3, <3>1
      <4>1. Len(queue'[e]) \in Nat /\ Len(queue'[e]) <= Len(queue[e]) - k[e]
        BY <2>1, <3>1, <4>0
      <4>2. ASSUME NEW n \in 1 .. Len(queue'[e])
            PROVE  n + k[e] \in 1 .. Len(queue[e]) /\ queue'[e][n] = queue[e][n + k[e]]
        BY <2>1, <3>1, <4>0
      <4> QED
        BY <4>1, <4>2
    <3>2. CASE e # d
      <4>1. k[e] = 0 /\ queue'[e] = queue[e]
        BY <2>2, <2>3, <3>2
      <4>2. \A n \in 1 .. Len(queue[e]) : n + 0 = n
        BY <1>0
      <4> QED
        BY <1>0, <4>1, <4>2
    <3> QED
      BY <3>1, <3>2
  <2>7. ASSUME NEW a \in tidy'
        PROVE  \/ /\ remote'[a] = remote[a]
                  /\ \A e \in Device : k[e] = 1 => queue[e][1].acct # a
               \/ remote'[a] = {}
               \/ /\ \A e \in Device : Queued(a, e)' = {}
                  /\ \A x, y \in remote'[a] : x = y
    <3>1. CASE remote'[a] = remote[a] /\ w.acct # a
      <4>1. \A e \in Device : k[e] = 1 => e = d
        BY <2>3
      <4> QED
        BY <2>1, <3>1, <4>1
    <3> QED
      BY <1>4, <3>1 DEF w
  <2> QED
    BY <1>0, <1>4, <2>3, <2>5, <2>6, <2>7, TidyShift
<1>5. ASSUME NEW d \in Device, Applied(d)
      PROVE  Tidy'
  <2> DEFINE w == Head(queue[d])
  <2>1. /\ queue[d] # <<>> /\ queue' = [queue EXCEPT ![d] = Tail(@)] /\ EndOf(d, w)
        /\ tidy' = tidy
    BY <1>5 DEF Applied, flags
  <2>2. /\ w = queue[d][1] /\ w \in Write /\ 1 \in 1 .. Len(queue[d])
        /\ Len(Tail(queue[d])) = Len(queue[d]) - 1
        /\ \A n \in 1 .. Len(Tail(queue[d])) : Tail(queue[d])[n] = queue[d][n + 1]
    BY <1>0, <2>1, TailFacts
  <2>3. queue'[d] = Tail(queue[d]) /\ \A e \in Device : e # d => queue'[e] = queue[e]
    BY <2>1 DEF Types, TypeOK
  <2>4. ASSUME NEW a \in tidy, w.acct # a
        PROVE  remote'[a] = remote[a]
    BY <1>5, <2>4 DEF Applied, Types, TypeOK
  <2>5. ASSUME NEW a \in tidy, w.acct = a, w.op = "delete"
        PROVE  remote'[a] = {}
    <3>1. remote' = [remote EXCEPT ![a] = @ \ w.docs]
      BY <1>5, <2>5 DEF Applied
    <3>2. 1 \in Queued(a, d)
      BY <2>2, <2>5 DEF Queued
    <3>3. remote[a] \subseteq w.docs
      BY <2>2, <2>5, <3>2 DEF Tidy, Replaces
    <3>4. remote'[a] = remote[a] \ w.docs
      BY <3>1 DEF Types, TypeOK
    <3> QED
      BY <3>3, <3>4
  <2>6. ASSUME NEW a \in tidy, w.acct = a, w.op = "add"
        PROVE  /\ \A e \in Device : Queued(a, e)' = {}
               /\ \A x, y \in remote'[a] : x = y
    <3>1. remote' = [remote EXCEPT ![a] = @ \cup {[id |-> docs + 1, goal |-> w.goal]}]
      BY <1>5, <2>6 DEF Applied
    <3>2. 1 \in Queued(a, d)
      BY <2>2, <2>6 DEF Queued
    <3>3. remote[a] = {}
      <4>1. 0 \notin Queued(a, d)
        BY <1>0 DEF Queued
      <4>2. Replaces(a, d, 1)
        BY <3>2 DEF Tidy
      <4> QED
        BY <2>2, <2>6, <4>1, <4>2 DEF Replaces
    <3>4. \A x, y \in remote'[a] : x = y
      BY <3>1, <3>3 DEF Types, TypeOK
    <3>5. OnePush(a)
      BY DEF Tidy
    <3>6. ASSUME NEW e \in Device, NEW n \in Queued(a, e)'
          PROVE  FALSE
      <4>1. CASE e = d
        <5>1. n \in 1 .. Len(Tail(queue[d])) /\ Tail(queue[d])[n].acct = a
          BY <2>3, <3>6, <4>1 DEF Queued
        <5>2. n + 1 \in Queued(a, d) /\ n + 1 # 1 /\ n + 1 >= 1
          BY <1>0, <2>2, <5>1 DEF Queued
        <5>3. Pair(d, 1, n + 1) \/ Pair(d, n + 1, 1)
          BY <3>2, <3>5, <5>2 DEF OnePush
        <5> QED
          BY <2>2, <2>6, <5>1, <5>3 DEF Pair
      <4>2. CASE e # d
        <5>1. n \in Queued(a, e)
          BY <2>3, <3>6, <4>2 DEF Queued
        <5> QED
          BY <3>2, <3>5, <4>2, <5>1 DEF OnePush
      <4> QED
        BY <4>1, <4>2
    <3> QED
      BY <3>4, <3>6
  <2>7. w.op \in {"delete", "add"}
    BY <2>2 DEF Write
  <2>8. \A a \in tidy' :
          \/ remote'[a] = remote[a] /\ w.acct # a
          \/ remote'[a] = {}
          \/ /\ \A e \in Device : Queued(a, e)' = {}
             /\ \A x, y \in remote'[a] : x = y
    BY <2>1, <2>4, <2>5, <2>6, <2>7
  <2> QED
    BY <1>4, <2>1, <2>8
<1>6. ASSUME NEW d \in Device, Refused(d)
      PROVE  Tidy'
  <2>1. /\ queue[d] # <<>> /\ queue' = [queue EXCEPT ![d] = Tail(@)] /\ EndOf(d, Head(queue[d]))
        /\ tidy' = tidy \ {Head(queue[d]).acct} /\ remote' = remote
    BY <1>6 DEF Refused
  <2>2. \A a \in tidy' : remote'[a] = remote[a] /\ Head(queue[d]).acct # a
    BY <2>1
  <2> QED
    BY <1>4, <2>1, <2>2
<1>7. ASSUME NEW d \in Device, Kill(d)
      PROVE  Tidy'
  <2>1. PICK n \in 0 .. Len(queue[d]) :
          queue' = [queue EXCEPT ![d] = [m \in 1 .. n |-> [@[m] EXCEPT !.slot = None]]]
    BY <1>7 DEF Kill
  <2> DEFINE r == [m \in 1 .. n |-> [queue[d][m] EXCEPT !.slot = None]]
  <2>2. /\ queue' = [queue EXCEPT ![d] = r] /\ UNCHANGED <<remote, tidy>>
        /\ run' = [run EXCEPT ![d] = [s \in Slot |-> Idle]]
    BY <1>7, <2>1 DEF Kill
  <2>3. n \in Nat /\ n <= Len(queue[d]) /\ queue[d] \in Seq(Write)
    BY <1>0
  <2>8. /\ Len(r) = n
        /\ \A m \in 1 .. n : /\ r[m].op = queue[d][m].op
                             /\ r[m].acct = queue[d][m].acct
                             /\ r[m].docs = queue[d][m].docs
    BY <2>3, CutFacts
  <2> HIDE DEF r
  <2>4. queue'[d] = r /\ \A e \in Device : e # d => queue'[e] = queue[e]
    BY <2>2 DEF Types, TypeOK
  <2>5. ASSUME NEW e \in Device
        PROVE  /\ Len(queue'[e]) \in Nat /\ Len(queue'[e]) <= Len(queue[e]) - none[e]
               /\ \A m \in 1 .. Len(queue'[e]) :
                    /\ m + none[e] \in 1 .. Len(queue[e])
                    /\ queue'[e][m].op = queue[e][m + none[e]].op
                    /\ queue'[e][m].acct = queue[e][m + none[e]].acct
                    /\ queue'[e][m].docs = queue[e][m + none[e]].docs
    <3>1. Len(queue'[e]) \in Nat /\ Len(queue'[e]) <= Len(queue[e])
      BY <1>0, <2>3, <2>4, <2>8
    <3>2. ASSUME NEW m \in 1 .. Len(queue'[e])
          PROVE  m + none[e] = m /\ m \in 1 .. Len(queue[e])
      BY <1>0, <3>1
    <3>3. ASSUME NEW m \in 1 .. Len(queue'[e])
          PROVE  /\ queue'[e][m].op = queue[e][m].op
                 /\ queue'[e][m].acct = queue[e][m].acct
                 /\ queue'[e][m].docs = queue[e][m].docs
      BY <2>3, <2>4, <2>8
    <3> QED
      BY <1>0, <3>1, <3>2, <3>3
  <2>6. \A e \in Device, t \in Slot : run'[e][t].pc = "pushing" => run'[e][t] = run[e][t]
    BY <2>2 DEF Types, TypeOK, Idle
  <2>7. \A e \in Device : none[e] # 1
    BY <1>0
  <2> QED
    BY <1>0, <2>2, <2>5, <2>6, <2>7, TidyShift
<1>8. ASSUME NEW d \in Device, NEW s \in Slot, run' = [run EXCEPT ![d][s] = Idle]
      PROVE  \A e \in Device, t \in Slot : run'[e][t].pc = "pushing" => run'[e][t] = run[e][t]
  BY <1>8, EndedRun
<1>9. ASSUME NEW d \in Device, NEW s \in Slot, Pulled(d, s) \/ QueryFails(d, s)
      PROVE  Tidy'
  <2>1. run' = [run EXCEPT ![d][s] = Idle] /\ UNCHANGED <<queue, remote, tidy>>
    BY <1>9 DEF Pulled, QueryFails, End, cloud, flags
  <2> QED
    BY <1>1, <1>8, <2>1
<1>10. ASSUME UNCHANGED <<run, queue, remote, tidy>>
       PROVE  Tidy'
  BY <1>1, <1>10
<1>11. ASSUME NEW d \in Device, Student(d)
       PROVE  Tidy'
  BY <1>10, <1>11 DEF Student, Login, Logout, SetGoal, cloud, flags
<1>12. CASE UNCHANGED vars
  BY <1>10, <1>12 DEF vars, device, cloud, flags
<1> QED
  BY <1>2, <1>3, <1>5, <1>6, <1>7, <1>9, <1>11, <1>12 DEF Next, SyncStep

\* Syncs of a student's devices leave one stored goal, in whatever order their writes
\* are applied and whichever of them a kill of the app loses, as long as the pushes do
\* not overlap and nothing is refused (upload_function.dart:124-137).
THEOREM OneGoalIsStored == Spec => []OneGoal
<1>1. Types /\ Tidy => OneGoal
  <2> SUFFICES ASSUME Types, Tidy, NEW a \in tidy
               PROVE  Cardinality(remote[a]) <= 1
    BY DEF OneGoal
  <2>1. CASE remote[a] = {}
    BY <2>1, FS_EmptySet
  <2>2. CASE remote[a] # {}
    <3>1. PICK x : remote[a] = {x}
      BY <2>2 DEF Tidy
    <3>2. Cardinality({x}) = 1
      BY FS_Singleton
    <3> QED
      BY <3>1, <3>2
  <2> QED
    BY <2>1, <2>2
<1> QED
  BY TypesInit, TypesStep, TidyInit, TidyStep, <1>1, PTL DEF Spec

=============================================================================
