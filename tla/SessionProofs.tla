---------------------------- MODULE SessionProofs ----------------------------
(***************************************************************************)
(* The account in memory, in the box and in the cloud, for any number of   *)
(* accounts, handlers and writes under way: types, and what a log-out, a   *)
(* new start of the app and a deletion leave behind.                       *)
(***************************************************************************)
EXTENDS Session, SequenceTheorems, TLAPS

-----------------------------------------------------------------------------
(* Types.                                                                  *)

\* A password is hashed before it is stored, and a profile has a course.
Hashed == Word \X (1 .. MaxHash)

Filled == [pw : Hashed, course : Course]

Member == [id : Id, pw : Hashed, course : Course]

Image == [user : Member \cup {None}, data : Course \cup {None}]

SignUpCall == [kind : {"signup"}, at : {"lookup"}, address : Address,
               capitals : BOOLEAN, word : Word, here : BOOLEAN]
LoginCall  == [kind : {"login"}, at : {"user"}, address : Address, word : Word, here : BOOLEAN]
CourseCall == [kind : {"login", "edit"}, at : {"courses"}, course : Course, here : BOOLEAN]
ReadCall   == [kind : {"change"}, at : {"read"}, id : Id, here : BOOLEAN]
ClearCall  == [kind : {"edit"}, at : {"clear"}, user : Member, here : BOOLEAN]
ThrewCall  == [kind : {"edit"}, at : {"threw"}, here : BOOLEAN]

GoodCall ==
  SignUpCall \cup LoginCall \cup CourseCall \cup ReadCall \cup ClearCall \cup ThrewCall

\* What a handler sends; a write of the process before may be any of these.
GoodWrite ==
  {w \in [op : {"set", "update", "password", "delete"}, id : Id, doc : Filled,
          kind : {"fill", "record", "change", "edit", "delete", "orphan"}, here : BOOLEAN] :
     /\ w.kind = "fill" => w.op = "set"
     /\ w.kind \in {"record", "edit"} => w.op = "update"
     /\ w.kind = "change" => w.op = "password"
     /\ w.kind = "delete" => w.op = "delete"
     /\ w.kind \in {"record", "orphan"} => ~w.here}

Types ==
  /\ screen \in {"splash", "stuck", "auth", "fill", "main", "change", "edit"}
  /\ user \in User \cup {None}
  /\ userBox \in Seq(Image) /\ userBox # <<>>
  /\ lists \in Seq(SUBSET Id) /\ lists # <<>>
  /\ calls \subseteq GoodCall
  /\ sent \in Seq(GoodWrite)
  /\ stored \in [Id -> Filled \cup {None}]
  /\ other \in Member \cup {None}
  /\ ids \in 0 .. MaxId

\* The screen a handler was started on.
ScreenOf(kind) == IF kind \in {"signup", "login"} THEN "auth" ELSE kind

\* A handler whose screen is shown was started on it; for a deletion this is not needed.
Mounted ==
  /\ \A c \in calls : c.here => screen = ScreenOf(c.kind)
  /\ \A n \in 1 .. Len(sent) : sent[n].here /\ sent[n].kind # "delete" => screen = sent[n].kind

\* There is one such handler at most.
Single ==
  /\ \A c, e \in calls : c.here /\ e.here => c = e
  /\ \A n, m \in 1 .. Len(sent) :
       sent[n].here /\ sent[m].here /\ "delete" \notin {sent[n].kind, sent[m].kind} => n = m
  /\ \A c \in calls, n \in 1 .. Len(sent) : c.here /\ sent[n].here => sent[n].kind = "delete"

\* A session has a user with a profile, and so has a sign-in or a profile edit that
\* waits for the courses.
Sessions ==
  /\ InSession => user \in Member
  /\ screen = "fill" => user \in User
  /\ (\E c \in calls : c.here /\ c.at = "courses") => user \in Member
  /\ screen \in {"splash", "stuck"} =>
       calls = {} /\ \A n \in 1 .. Len(sent) : sent[n].kind = "orphan"

\* A sync is of an account, and two lists at most follow.
Syncing == syncs \subseteq [nr : 1 .. MaxSync, id : Id, left : 0 .. 2]

\* What the syncs have no part in.
Core == Types /\ Mounted /\ Single /\ Sessions

IInv == Types /\ Mounted /\ Single /\ Sessions /\ Syncing

-----------------------------------------------------------------------------
(* Boxes, queues and calls.                                                *)

LEMMA NoneApart ==
  /\ None \notin Member /\ None \notin Filled /\ None \notin User /\ None \notin Course
  /\ Member \subseteq User /\ Filled \subseteq Profile /\ Hashed \subseteq Password
BY NoneAssumption, SessionAssumption
   DEF Member, Filled, User, Profile, Hashed, Password

LEMMA LastOf ==
  ASSUME NEW S, NEW s \in Seq(S), s # <<>>
  PROVE  Last(s) \in S /\ Len(s) \in Nat \ {0} /\ Last(s) = s[Len(s)]
BY DEF Last

LEMMA FunctionIsSeq ==
  ASSUME NEW S, NEW n \in Nat, NEW f \in [1 .. n -> S]
  PROVE  f \in Seq(S) /\ Len(f) = n
BY SeqDef

LEMMA BoxIs ==
  ASSUME Types
  PROVE  /\ Last(userBox) \in Image
         /\ Box \in Seq(Image) /\ Box # <<>> /\ Last(Box) = Last(userBox)
         /\ \A n \in 1 .. Len(Box) : Box[n] = Last(userBox)
<1>1. Last(userBox) \in Image
  BY LastOf DEF Types
<1> QED
  BY <1>1 DEF Box, Last

\* Images of the box are those there were, and the last one has what was put.
LEMMA SavedUser ==
  ASSUME NEW images \in Seq(Image), images # <<>>, NEW u \in Member \cup {None}
  PROVE  /\ saveUser(images, u) \in Seq(Image) /\ saveUser(images, u) # <<>>
         /\ Last(saveUser(images, u)) = [user |-> u, data |-> Last(images).data]
         /\ \A n \in 1 .. Len(saveUser(images, u)) :
              \/ saveUser(images, u)[n] = Last(saveUser(images, u))
              \/ \E m \in 1 .. Len(images) : saveUser(images, u)[n] = images[m]
<1>1. Last(images) \in Image
  BY LastOf
<1>2. PICK new : new = [Last(images) EXCEPT !["user"] = u]
  OBVIOUS
<1>3. new = [user |-> u, data |-> Last(images).data] /\ new \in Image
  BY <1>1, <1>2 DEF Image
<1>4. saveUser(images, u) = IF new = Last(images) THEN images ELSE Append(images, new)
  BY <1>2 DEF saveUser, Put
<1>5. Append(images, new) \in Seq(Image) /\ Last(Append(images, new)) = new
  BY <1>3, AppendProperties DEF Last
<1> QED
  BY <1>3, <1>4, <1>5

LEMMA SavedData ==
  ASSUME NEW images \in Seq(Image), images # <<>>, NEW d \in Course \cup {None}
  PROVE  /\ saveCourseData(images, d) \in Seq(Image) /\ saveCourseData(images, d) # <<>>
         /\ Last(saveCourseData(images, d)) = [user |-> Last(images).user, data |-> d]
         /\ \A n \in 1 .. Len(saveCourseData(images, d)) :
              \/ saveCourseData(images, d)[n] = Last(saveCourseData(images, d))
              \/ \E m \in 1 .. Len(images) : saveCourseData(images, d)[n] = images[m]
<1>1. Last(images) \in Image
  BY LastOf
<1>2. PICK new : new = [Last(images) EXCEPT !["data"] = d]
  OBVIOUS
<1>3. new = [user |-> Last(images).user, data |-> d] /\ new \in Image
  BY <1>1, <1>2 DEF Image
<1>4. saveCourseData(images, d) = IF new = Last(images) THEN images ELSE Append(images, new)
  BY <1>2 DEF saveCourseData, Put
<1>5. Append(images, new) \in Seq(Image) /\ Last(Append(images, new)) = new
  BY <1>3, AppendProperties DEF Last
<1> QED
  BY <1>3, <1>4, <1>5

\* What the handlers put in the box.
LEMMA UserSaved ==
  ASSUME Types, NEW u \in Member
  PROVE  /\ saveUser(Box, u) \in Seq(Image) /\ saveUser(Box, u) # <<>>
         /\ Last(saveUser(Box, u)) = [user |-> u, data |-> Last(userBox).data]
         /\ \A n \in 1 .. Len(saveUser(Box, u)) :
              saveUser(Box, u)[n] \in {Last(userBox), [user |-> u, data |-> Last(userBox).data]}
BY BoxIs, SavedUser

LEMMA DataSaved ==
  ASSUME Types, NEW d \in Course
  PROVE  /\ saveCourseData(Box, d) \in Seq(Image) /\ saveCourseData(Box, d) # <<>>
         /\ Last(saveCourseData(Box, d)) = [user |-> Last(userBox).user, data |-> d]
         /\ \A n \in 1 .. Len(saveCourseData(Box, d)) :
              saveCourseData(Box, d)[n] \in {Last(userBox), [user |-> Last(userBox).user, data |-> d]}
BY BoxIs, SavedData

LEMMA BothSaved ==
  ASSUME Types, NEW u \in Member, NEW d \in Course
  PROVE  /\ saveCourseData(saveUser(Box, u), d) \in Seq(Image)
         /\ saveCourseData(saveUser(Box, u), d) # <<>>
         /\ Last(saveCourseData(saveUser(Box, u), d)) = [user |-> u, data |-> d]
         /\ \A n \in 1 .. Len(saveCourseData(saveUser(Box, u), d)) :
              saveCourseData(saveUser(Box, u), d)[n]
                \in {Last(userBox), [user |-> u, data |-> Last(userBox).data], [user |-> u, data |-> d]}
<1>1. PICK images : images = saveUser(Box, u)
  OBVIOUS
<1>2. /\ images \in Seq(Image) /\ images # <<>>
      /\ Last(images) = [user |-> u, data |-> Last(userBox).data]
      /\ \A n \in 1 .. Len(images) :
           images[n] \in {Last(userBox), [user |-> u, data |-> Last(userBox).data]}
  BY <1>1, UserSaved
<1>3. PICK r : r = saveCourseData(images, d)
  OBVIOUS
<1>4. /\ r \in Seq(Image) /\ r # <<>> /\ Last(r) = [user |-> u, data |-> d]
      /\ \A n \in 1 .. Len(r) : r[n] = Last(r) \/ \E m \in 1 .. Len(images) : r[n] = images[m]
  BY <1>2, <1>3, SavedData
<1>5. \A n \in 1 .. Len(r) :
        r[n] \in {Last(userBox), [user |-> u, data |-> Last(userBox).data], [user |-> u, data |-> d]}
  BY <1>2, <1>4
<1> QED
  BY <1>1, <1>3, <1>4, <1>5

LEMMA BothDeleted ==
  ASSUME Types
  PROVE  /\ deleteKeys(Box) \in Seq(Image) /\ deleteKeys(Box) # <<>>
         /\ Last(deleteKeys(Box)) = [user |-> None, data |-> None]
         /\ \A n \in 1 .. Len(deleteKeys(Box)) :
              deleteKeys(Box)[n] = Last(userBox) \/ deleteKeys(Box)[n].user = None
<1>1. PICK images : images = saveUser(Box, None)
  OBVIOUS
<1>2. /\ images \in Seq(Image) /\ images # <<>>
      /\ Last(images) = [user |-> None, data |-> Last(userBox).data]
      /\ \A n \in 1 .. Len(images) : images[n] = Last(userBox) \/ images[n].user = None
  BY <1>1, BoxIs, SavedUser
<1>3. PICK r : r = saveCourseData(images, None)
  OBVIOUS
<1>4. /\ r \in Seq(Image) /\ r # <<>> /\ Last(r) = [user |-> None, data |-> None]
      /\ \A n \in 1 .. Len(r) : r[n] = Last(r) \/ \E m \in 1 .. Len(images) : r[n] = images[m]
  BY <1>2, <1>3, SavedData
<1>5. deleteKeys(Box) = r
  BY <1>1, <1>3 DEF deleteKeys, saveUser, saveCourseData
<1>6. \A n \in 1 .. Len(r) : r[n] = Last(userBox) \/ r[n].user = None
  BY <1>2, <1>4
<1> QED
  BY <1>4, <1>5, <1>6

\* What becomes of the queue of writes.
LEMMA SentOne ==
  ASSUME NEW queue \in Seq(GoodWrite), NEW w \in GoodWrite
  PROVE  /\ Append(queue, w) \in Seq(GoodWrite)
         /\ Len(queue) \in Nat /\ Len(Append(queue, w)) = Len(queue) + 1
         /\ \A n \in 1 .. Len(queue) : Append(queue, w)[n] = queue[n]
         /\ Append(queue, w)[Len(queue) + 1] = w
BY AppendProperties

LEMMA FrontOf ==
  ASSUME NEW queue \in Seq(GoodWrite), queue # <<>>
  PROVE  /\ Head(queue) \in GoodWrite /\ Head(queue) = queue[1] /\ 1 \in 1 .. Len(queue)
         /\ Tail(queue) \in Seq(GoodWrite)
         /\ Len(queue) \in Nat /\ Len(Tail(queue)) = Len(queue) - 1
         /\ \A n \in 1 .. Len(Tail(queue)) :
              Tail(queue)[n] = queue[n + 1] /\ n + 1 \in 1 .. Len(queue)
OBVIOUS

LEMMA LeftWrite ==
  ASSUME NEW w \in GoodWrite
  PROVE  /\ [w EXCEPT !.here = FALSE] \in GoodWrite
         /\ [w EXCEPT !.kind = "orphan", !.here = FALSE] \in GoodWrite
BY DEF GoodWrite

LEMMA LeftQueue ==
  ASSUME NEW queue \in Seq(GoodWrite)
  PROVE  /\ UnmountedWrites(queue) \in Seq(GoodWrite)
         /\ Len(UnmountedWrites(queue)) = Len(queue)
         /\ \A n \in 1 .. Len(queue) :
              UnmountedWrites(queue)[n] = [queue[n] EXCEPT !.here = FALSE]
<1>1. DOMAIN queue = 1 .. Len(queue) /\ Len(queue) \in Nat
  OBVIOUS
<1>2. \A n \in 1 .. Len(queue) : [queue[n] EXCEPT !.here = FALSE] \in GoodWrite
  <2>1. \A n \in 1 .. Len(queue) : queue[n] \in GoodWrite
    OBVIOUS
  <2> QED
    BY <2>1, LeftWrite
<1>3. UnmountedWrites(queue) \in [1 .. Len(queue) -> GoodWrite]
  BY <1>1, <1>2 DEF UnmountedWrites
<1> QED
  BY <1>1, <1>3, FunctionIsSeq DEF UnmountedWrites

LEMMA QueueLeft ==
  ASSUME sent \in Seq(GoodWrite), sent' = sent \/ sent' = UnmountedWrites(sent)
  PROVE  /\ sent' \in Seq(GoodWrite) /\ Len(sent') = Len(sent) /\ Len(sent) \in Nat
         /\ \A n \in 1 .. Len(sent) :
              /\ sent'[n].kind = sent[n].kind /\ sent'[n].op = sent[n].op /\ sent'[n].id = sent[n].id
              /\ sent'[n].doc = sent[n].doc
              /\ sent'[n].here => sent[n].here
<1>1. \A n \in 1 .. Len(sent) : sent[n] \in GoodWrite
  OBVIOUS
<1>2. \A w \in GoodWrite :
        /\ [w EXCEPT !.here = FALSE].kind = w.kind /\ [w EXCEPT !.here = FALSE].op = w.op
        /\ [w EXCEPT !.here = FALSE].id = w.id /\ [w EXCEPT !.here = FALSE].doc = w.doc
        /\ [w EXCEPT !.here = FALSE].here = FALSE
  BY DEF GoodWrite
<1>3. CASE sent' = sent
  BY <1>3
<1>4. CASE sent' = UnmountedWrites(sent)
  <2>1. /\ sent' \in Seq(GoodWrite) /\ Len(sent') = Len(sent) /\ Len(sent) \in Nat
        /\ \A n \in 1 .. Len(sent) : sent'[n] = [sent[n] EXCEPT !.here = FALSE]
    BY <1>4, LeftQueue
  <2> QED
    BY <1>1, <1>2, <2>1
<1> QED
  BY <1>3, <1>4

\* The writes that are in the client's queue when the app is killed.
Orphans(queue, n) == [m \in 1 .. n |-> [queue[m] EXCEPT !.kind = "orphan", !.here = FALSE]]

LEMMA OrphanQueue ==
  ASSUME NEW queue \in Seq(GoodWrite), NEW n \in 0 .. Len(queue)
  PROVE  /\ Orphans(queue, n) \in Seq(GoodWrite)
         /\ Len(Orphans(queue, n)) = n
         /\ \A m \in 1 .. n : /\ Orphans(queue, n)[m] = [queue[m] EXCEPT !.kind = "orphan", !.here = FALSE]
                              /\ m \in 1 .. Len(queue)
<1>1. \A m \in 1 .. n : [queue[m] EXCEPT !.kind = "orphan", !.here = FALSE] \in GoodWrite
  <2>1. \A m \in 1 .. n : queue[m] \in GoodWrite
    OBVIOUS
  <2> QED
    BY <2>1, LeftWrite
<1>2. Orphans(queue, n) \in [1 .. n -> GoodWrite]
  BY <1>1 DEF Orphans
<1>3. Orphans(queue, n) \in Seq(GoodWrite) /\ Len(Orphans(queue, n)) = n
  BY <1>2, FunctionIsSeq
<1>4. n \in Nat /\ \A m \in 1 .. n : m \in 1 .. Len(queue)
  OBVIOUS
<1> QED
  BY <1>3, <1>4 DEF Orphans

\* What becomes of a call when its screen is left.
LEMMA LeftCall ==
  ASSUME NEW c \in GoodCall
  PROVE  /\ [c EXCEPT !.here = FALSE] \in GoodCall
         /\ [c EXCEPT !.here = FALSE].here = FALSE
         /\ [c EXCEPT !.here = FALSE].at = c.at
         /\ [c EXCEPT !.here = FALSE].kind = c.kind
BY DEF GoodCall, SignUpCall, LoginCall, CourseCall, ReadCall, ClearCall, ThrewCall

LEMMA LeftCalls ==
  ASSUME NEW cs \in SUBSET GoodCall
  PROVE  /\ Unmounted(cs) \subseteq GoodCall
         /\ \A e \in Unmounted(cs) : /\ ~e.here /\ e.at # "threw"
                                   /\ \E c \in cs : e = [c EXCEPT !.here = FALSE] /\ e.at = c.at
BY LeftCall DEF Unmounted

LEMMA CallShape ==
  ASSUME NEW c \in GoodCall
  PROVE  /\ c.at = "lookup" => c \in SignUpCall
         /\ c.at = "user" => c \in LoginCall
         /\ c.at = "courses" => c \in CourseCall
         /\ c.at = "read" => c \in ReadCall
         /\ c.at = "clear" => c \in ClearCall
         /\ c.at = "threw" => c \in ThrewCall
         /\ c.here \in BOOLEAN
         /\ c.kind \in {"signup", "login", "change", "edit"}
         /\ c.at \in {"lookup", "user", "courses", "read", "clear", "threw"}
BY DEF GoodCall, SignUpCall, LoginCall, CourseCall, ReadCall, ClearCall, ThrewCall

-----------------------------------------------------------------------------
(* The invariant.                                                          *)

LEMMA Facts ==
  ASSUME IInv
  PROVE  /\ \A n \in 1 .. Len(sent) : sent[n] \in GoodWrite
         /\ \A c \in calls : c \in GoodCall
         /\ Len(sent) \in Nat
         /\ screen = "main" => \A c \in calls : ~c.here
         /\ screen \in {"splash", "stuck", "fill", "main"} => \A c \in calls : ~c.here
         /\ screen \in {"splash", "stuck", "main", "auth"} =>
              \A n \in 1 .. Len(sent) : sent[n].here => sent[n].kind = "delete"
<1>1. \A c \in calls : c \in GoodCall
  BY DEF IInv, Types
<1>2. \A n \in 1 .. Len(sent) : sent[n] \in GoodWrite
  BY DEF IInv, Types
<1>3. \A c \in calls : c.kind \in {"signup", "login", "change", "edit"}
  BY <1>1, CallShape
<1>4. Len(sent) \in Nat
  BY DEF IInv, Types
<1>5. screen \in {"splash", "stuck", "fill", "main"} => \A c \in calls : ~c.here
  BY <1>3 DEF IInv, Mounted, ScreenOf
<1>6. \A n \in 1 .. Len(sent) : sent[n].kind \in {"fill", "record", "change", "edit", "delete", "orphan"}
                                 /\ (sent[n].here => sent[n].kind \notin {"record", "orphan"})
  BY <1>2 DEF GoodWrite
<1>7. screen \in {"splash", "stuck", "main", "auth"} =>
        \A n \in 1 .. Len(sent) : sent[n].here => sent[n].kind = "delete"
  BY <1>6 DEF IInv, Mounted
<1> QED
  BY <1>1, <1>2, <1>4, <1>5, <1>7

THEOREM InvInit == Init => IInv
<1> SUFFICES ASSUME Init PROVE IInv
  OBVIOUS
<1>1. Types
  BY NoneAssumption, SessionAssumption DEF Init, Types, Image
<1>2. calls = {} /\ Len(sent) = 0 /\ screen = "splash"
  BY DEF Init
<1> QED
  BY <1>1, <1>2 DEF IInv, Mounted, Single, Sessions, InSession, Init, Syncing

\* Whoever starts something adds a call or a write.
LEMMA CallAdded ==
  ASSUME IInv, NEW c \in GoodCall, calls' = calls \cup {c}, c.here, screen = ScreenOf(c.kind),
         \A e \in calls : ~e.here,
         \A n \in 1 .. Len(sent) : sent[n].here => sent[n].kind = "delete",
         c.at # "courses",
         UNCHANGED <<screen, user, userBox, lists, sent, stored, other, ids>>
  PROVE  Core'
<1>1. Types'
  BY DEF IInv, Types
<1>2. Mounted'
  BY DEF IInv, Mounted, ScreenOf
<1>3. Single'
  BY DEF IInv, Single
<1>4. Sessions'
  <2>1. c.kind \in {"signup", "login", "change", "edit"}
    BY CallShape
  <2> QED
    BY <2>1 DEF IInv, Sessions, InSession, ScreenOf
<1> QED
  BY <1>1, <1>2, <1>3, <1>4 DEF Core

LEMMA WriteAdded ==
  ASSUME IInv, NEW w \in GoodWrite, sent' = Append(sent, w), w.kind # "orphan",
         screen \notin {"splash", "stuck"},
         w.here /\ w.kind # "delete" =>
           /\ screen = w.kind
           /\ \A e \in calls : ~e.here
           /\ \A n \in 1 .. Len(sent) : sent[n].here => sent[n].kind = "delete",
         user' \in User, user \in Member => user' \in Member,
         userBox' \in Seq(Image), userBox' # <<>>, lists' \in Seq(SUBSET Id), lists' # <<>>,
         UNCHANGED <<screen, calls, stored, other, ids>>
  PROVE  Core'
<1>1. /\ sent' \in Seq(GoodWrite) /\ Len(sent) \in Nat /\ Len(sent') = Len(sent) + 1
      /\ \A n \in 1 .. Len(sent) : sent'[n] = sent[n]
      /\ sent'[Len(sent) + 1] = w
  BY SentOne DEF IInv, Types
<1>2. \A n \in 1 .. Len(sent') : \/ n \in 1 .. Len(sent) /\ sent'[n] = sent[n]
                                 \/ n = Len(sent) + 1 /\ sent'[n] = w
  <2>1. Len(sent) \in Nat /\ Len(sent') = Len(sent) + 1
    BY <1>1
  <2>2. \A n \in 1 .. Len(sent') : n \in 1 .. Len(sent) \/ n = Len(sent) + 1
    BY <2>1
  <2> QED
    BY <1>1, <2>2
<1>3. Types'
  BY <1>1 DEF IInv, Types
<1>4. Mounted'
  BY <1>2 DEF IInv, Mounted, ScreenOf
<1>5. Single'
  <2>1. (\A c, e \in calls : c.here /\ e.here => c = e)'
    BY DEF IInv, Single
  <2>2. (\A n, m \in 1 .. Len(sent) :
           sent[n].here /\ sent[m].here /\ "delete" \notin {sent[n].kind, sent[m].kind} => n = m)'
    BY <1>2 DEF IInv, Single
  <2>3. (\A c \in calls, n \in 1 .. Len(sent) : c.here /\ sent[n].here => sent[n].kind = "delete")'
    BY <1>2 DEF IInv, Single
  <2> QED
    BY <2>1, <2>2, <2>3 DEF Single
<1>6. Sessions'
  BY DEF IInv, Sessions, InSession
<1> QED
  BY <1>3, <1>4, <1>5, <1>6 DEF Core

\* Whoever answers takes a call or a write away, and may put another call in its place.
LEMMA CallAnswered ==
  ASSUME IInv, NEW c \in calls, calls' \subseteq calls \ {c},
         \/ screen' = screen
         \/ c.here /\ screen \notin {"splash", "stuck"} /\ screen' \in {"main", "fill"},
         user' \in User \cup {None}, user \in Member => user' \in Member \/ (c.here /\ screen' \notin {"main", "change", "edit"}),
         screen' = "main" => user' \in Member,
         screen' = "fill" => user' \in User,
         userBox' \in Seq(Image), userBox' # <<>>,
         ids' \in 0 .. MaxId, sent' = sent \/ sent' = UnmountedWrites(sent),
         UNCHANGED <<lists, stored, other>>
  PROVE  Core'
<1>q. sent \in Seq(GoodWrite)
  BY DEF IInv, Types
<1>0. \A n \in 1 .. Len(sent') :
        /\ n \in 1 .. Len(sent)
        /\ sent'[n].kind = sent[n].kind
        /\ sent'[n].here => sent[n].here
  BY <1>q, QueueLeft
<1>1. Types'
  BY <1>q, QueueLeft DEF IInv, Types
<1>2. Mounted'
  <2>1. CASE screen' = screen
    BY <1>0, <2>1 DEF IInv, Mounted, ScreenOf
  <2>2. CASE c.here
    BY <1>0, <2>2 DEF IInv, Mounted, Single
  <2> QED
    BY <2>1, <2>2
<1>3. Single'
  BY <1>0 DEF IInv, Single
<1>4. Sessions'
  <2>1. c.here => \A e \in calls' : ~e.here
    BY DEF IInv, Single
  <2> QED
    BY <1>0, <2>1 DEF IInv, Sessions, InSession
<1> QED
  BY <1>1, <1>2, <1>3, <1>4 DEF Core

LEMMA CallReplaced ==
  ASSUME IInv, NEW c \in calls, NEW e \in GoodCall, calls' = (calls \ {c}) \cup {e},
         e.here => c.here, e.kind = c.kind, user' \in Member,
         userBox' \in Seq(Image), userBox' # <<>>,
         UNCHANGED <<screen, lists, sent, stored, other, ids>>
  PROVE  Core'
<1>1. Types'
  BY NoneApart DEF IInv, Types
<1>2. Mounted'
  BY DEF IInv, Mounted, ScreenOf
<1>3. Single'
  BY DEF IInv, Single
<1>4. Sessions'
  BY NoneApart DEF IInv, Sessions, InSession
<1> QED
  BY <1>1, <1>2, <1>3, <1>4 DEF Core

LEMMA Dropped ==
  ASSUME IInv, sent # <<>>, sent' = Tail(sent), calls' \subseteq GoodCall,
         \A e \in calls' : e.here => e \in calls \/ (Head(sent).here /\ e.kind = Head(sent).kind
                                                     /\ Head(sent).kind # "delete"
                                                     /\ \A f \in calls' : f.here => f = e),
         calls = {} => calls' = {} \/ Head(sent).kind # "orphan",
         (\E e \in calls' : e.here /\ e.at = "courses") =>
            user' \in Member \/ \E e \in calls : e.here /\ e.at = "courses",
         \/ screen' = screen /\ UNCHANGED user
         \/ screen' = screen /\ user' \in Member
         \/ Head(sent).here /\ Head(sent).kind = "fill" /\ screen' = "main" /\ user' \in Member,
         userBox' \in Seq(Image), userBox' # <<>>,
         stored' \in [Id -> Filled \cup {None}],
         UNCHANGED <<lists, other, ids>>
  PROVE  Core'
<1>1. /\ Tail(sent) \in Seq(GoodWrite)
      /\ Head(sent) = sent[1] /\ 1 \in 1 .. Len(sent)
      /\ \A n \in 1 .. Len(sent') : sent'[n] = sent[n + 1] /\ n + 1 \in 1 .. Len(sent) /\ n \in Nat
  BY FrontOf DEF IInv, Types
<1>2. Types'
  BY <1>1, NoneApart DEF IInv, Types
<1>3. Mounted'
  <2>1. CASE screen' = screen
    <3>1. \A n \in 1 .. Len(sent') : sent'[n].here /\ sent'[n].kind # "delete" => screen = sent'[n].kind
      BY <1>1 DEF IInv, Mounted
    <3>2. ASSUME NEW e \in calls', e.here PROVE screen = ScreenOf(e.kind)
      <4>1. CASE e \in calls
        BY <3>2, <4>1 DEF IInv, Mounted
      <4>2. CASE Head(sent).here /\ e.kind = Head(sent).kind /\ Head(sent).kind # "delete"
        <5>1. screen = Head(sent).kind
          BY <1>1, <4>2 DEF IInv, Mounted
        <5>2. Head(sent).kind \notin {"signup", "login"}
          BY <1>1, Facts DEF GoodWrite
        <5> QED
          BY <4>2, <5>1, <5>2 DEF ScreenOf
      <4> QED
        BY <3>2, <4>1, <4>2
    <3> QED
      BY <2>1, <3>1, <3>2 DEF Mounted
  <2>2. CASE Head(sent).here /\ Head(sent).kind = "fill" /\ screen' = "main"
    <3>1. \A e \in calls : ~e.here
      BY <1>1, <2>2, Facts DEF IInv, Mounted
    <3>2. \A n \in 1 .. Len(sent') : sent'[n].here => sent'[n].kind = "delete"
      <4> SUFFICES ASSUME NEW n \in 1 .. Len(sent'), sent'[n].here, sent'[n].kind # "delete"
                   PROVE  FALSE
        OBVIOUS
      <4>1. n + 1 \in 1 .. Len(sent) /\ sent[n + 1].here /\ sent[n + 1].kind # "delete" /\ n \in Nat
        BY <1>1
      <4>2. n + 1 = 1
        BY <1>1, <2>2, <4>1 DEF IInv, Single
      <4>3. n \in 1 .. Len(sent')
        OBVIOUS
      <4> QED
        BY <4>1, <4>2
    <3>3. \A e \in calls' : ~e.here
      BY <2>2, <3>1, CallShape
    <3> QED
      BY <2>2, <3>2, <3>3 DEF Mounted
  <2> QED
    BY <2>1, <2>2
<1>4. Single'
  <2>1. (\A c, e \in calls : c.here /\ e.here => c = e)'
    <3>1. CASE \A e \in calls' : e.here => e \in calls
      BY <3>1 DEF IInv, Single
    <3>2. CASE \E e \in calls' : \A f \in calls' : f.here => f = e
      BY <3>2
    <3> QED
      BY <3>1, <3>2
  <2>2. ASSUME NEW n \in 1 .. Len(sent'), NEW m \in 1 .. Len(sent'), sent'[n].here, sent'[m].here,
               "delete" \notin {sent'[n].kind, sent'[m].kind}
        PROVE  n = m
    <3>1. n + 1 = m + 1
      BY <1>1, <2>2 DEF IInv, Single
    <3>2. n \in Nat /\ m \in Nat
      BY <1>1
    <3> QED
      BY <3>1, <3>2
  <2>3. ASSUME NEW e \in calls', NEW n \in 1 .. Len(sent'), e.here, sent'[n].here
        PROVE  sent'[n].kind = "delete"
    <3>1. n + 1 \in 1 .. Len(sent) /\ sent[n + 1] = sent'[n] /\ n \in Nat /\ n # 0
      BY <1>1
    <3>2. CASE e \in calls
      BY <2>3, <3>1, <3>2 DEF IInv, Single
    <3>3. CASE Head(sent).here /\ Head(sent).kind # "delete"
      <4>1. n + 1 = 1 \/ sent[n + 1].kind = "delete"
        BY <1>1, <2>3, <3>1, <3>3 DEF IInv, Single
      <4> QED
        BY <3>1, <4>1
    <3> QED
      BY <2>3, <3>2, <3>3
  <2> QED
    BY <2>1, <2>2, <2>3 DEF Single
<1>5. Sessions'
  BY <1>1, NoneApart DEF IInv, Sessions, InSession
<1> QED
  BY <1>2, <1>3, <1>4, <1>5 DEF Core

LEMMA NothingLoading ==
  ASSUME IInv, NEW kind \in {"fill", "change", "edit"}, screen = kind, ~Loading(kind)
  PROVE  /\ \A c \in calls : ~c.here
         /\ \A n \in 1 .. Len(sent) : sent[n].here => sent[n].kind = "delete"
<1>1. \A c \in calls : c.here => kind # "fill" /\ c.kind = kind
  <2>1. \A c \in calls : c.kind \in {"signup", "login", "change", "edit"}
    BY Facts, CallShape
  <2> QED
    BY <2>1 DEF IInv, Mounted, ScreenOf
<1> QED
  BY <1>1 DEF Loading, IInv, Mounted

LEMMA NothingEntering ==
  ASSUME IInv, screen = "auth", ~Loading("signup"), ~Loading("login")
  PROVE  /\ \A c \in calls : ~c.here
         /\ \A n \in 1 .. Len(sent) : sent[n].here => sent[n].kind = "delete"
<1>1. \A c \in calls : c.here => c.kind \in {"signup", "login"}
  <2>1. \A c \in calls : c.kind \in {"signup", "login", "change", "edit"}
    BY Facts, CallShape
  <2> QED
    BY <2>1 DEF IInv, Mounted, ScreenOf
<1> QED
  BY <1>1, Facts DEF Loading

LEMMA HashIs ==
  ASSUME NEW pw \in Password, pw[2] < MaxHash
  PROVE  hashPassword(pw) \in Hashed
BY SessionAssumption DEF hashPassword, Hashed, Password

\* The screens and the user do not matter to what is shown on none of them.
LEMMA ScreenLeft ==
  ASSUME IInv,
         \/ calls' = {} \/ calls' = Unmounted(calls) \/ (calls' = calls /\ screen = "main"),
         \/ sent' = UnmountedWrites(sent) \/ (sent' = sent /\ screen = "main")
         \/ sent # <<>> /\ sent' = UnmountedWrites(Tail(sent))
         \/ \E k \in 0 .. Len(sent) : sent' = Orphans(sent, k),
         \/ screen' \in {"auth", "main", "change", "edit"}
         \/ screen' = "splash" /\ calls' = {} /\ \E k \in 0 .. Len(sent) : sent' = Orphans(sent, k),
         user' \in User \cup {None}, screen' \in {"main", "change", "edit"} => user' \in Member,
         userBox' \in Seq(Image), userBox' # <<>>, lists' \in Seq(SUBSET Id), lists' # <<>>,
         stored' \in [Id -> Filled \cup {None}],
         UNCHANGED <<other, ids>>
  PROVE  Core'
<1>1. calls' \subseteq GoodCall /\ \A c \in calls' : ~c.here
  <2>1. CASE calls' = {}
    BY <2>1
  <2>2. CASE calls' = Unmounted(calls)
    BY <2>2, LeftCalls DEF IInv, Types
  <2>3. CASE calls' = calls /\ screen = "main"
    BY <2>3, Facts
  <2> QED
    BY <2>1, <2>2, <2>3
<1>2. sent' \in Seq(GoodWrite) /\ \A n \in 1 .. Len(sent') : sent'[n].here => sent'[n].kind = "delete"
  <2>0. sent \in Seq(GoodWrite)
    BY DEF IInv, Types
  <2>1. ASSUME NEW queue \in Seq(GoodWrite), sent' = UnmountedWrites(queue)
        PROVE  sent' \in Seq(GoodWrite) /\ \A n \in 1 .. Len(sent') : ~sent'[n].here
    <3>1. \A n \in 1 .. Len(queue) : queue[n] \in GoodWrite
      OBVIOUS
    <3>2. \A w \in GoodWrite : [w EXCEPT !.here = FALSE].here = FALSE
      BY DEF GoodWrite
    <3>3. /\ sent' \in Seq(GoodWrite) /\ Len(sent') = Len(queue)
          /\ \A n \in 1 .. Len(queue) : sent'[n] = [queue[n] EXCEPT !.here = FALSE]
      BY <2>1, LeftQueue
    <3>4. \A n \in 1 .. Len(queue) : [queue[n] EXCEPT !.here = FALSE].here = FALSE
      BY <3>1, <3>2
    <3> QED
      BY <3>3, <3>4
  <2>2. CASE sent' = sent /\ screen = "main"
    BY <2>0, <2>2, Facts
  <2>3. CASE sent # <<>> /\ sent' = UnmountedWrites(Tail(sent))
    BY <2>0, <2>1, <2>3, FrontOf
  <2>4. ASSUME NEW k \in 0 .. Len(sent), sent' = Orphans(sent, k)
        PROVE  sent' \in Seq(GoodWrite) /\ \A n \in 1 .. Len(sent') : ~sent'[n].here
    <3>1. \A n \in 1 .. Len(sent) : sent[n] \in GoodWrite
      BY <2>0
    <3>2. \A w \in GoodWrite : [w EXCEPT !.kind = "orphan", !.here = FALSE].here = FALSE
      BY DEF GoodWrite
    <3>3. /\ sent' \in Seq(GoodWrite) /\ Len(sent') = k
          /\ \A n \in 1 .. k : /\ sent'[n] = [sent[n] EXCEPT !.kind = "orphan", !.here = FALSE]
                              /\ n \in 1 .. Len(sent)
      BY <2>0, <2>4, OrphanQueue
    <3>4. \A n \in 1 .. Len(sent) : [sent[n] EXCEPT !.kind = "orphan", !.here = FALSE].here = FALSE
      BY <3>1, <3>2
    <3> QED
      BY <3>3, <3>4
  <2> QED
    BY <2>0, <2>1, <2>2, <2>3, <2>4
<1>3. screen' = "splash" => calls' = {} /\ \A n \in 1 .. Len(sent') : sent'[n].kind = "orphan"
  <2> SUFFICES ASSUME NEW k \in 0 .. Len(sent), sent' = Orphans(sent, k)
               PROVE  \A n \in 1 .. Len(sent') : sent'[n].kind = "orphan"
    OBVIOUS
  <2>0. sent \in Seq(GoodWrite)
    BY DEF IInv, Types
  <2>1. \A n \in 1 .. Len(sent) : sent[n] \in GoodWrite
    BY <2>0
  <2>2. \A w \in GoodWrite : [w EXCEPT !.kind = "orphan", !.here = FALSE].kind = "orphan"
    BY DEF GoodWrite
  <2>3. /\ Len(sent') = k
        /\ \A n \in 1 .. k : /\ sent'[n] = [sent[n] EXCEPT !.kind = "orphan", !.here = FALSE]
                            /\ n \in 1 .. Len(sent)
    BY <2>0, OrphanQueue
  <2>4. \A n \in 1 .. Len(sent) : [sent[n] EXCEPT !.kind = "orphan", !.here = FALSE].kind = "orphan"
    BY <2>1, <2>2
  <2> QED
    BY <2>3, <2>4
<1>4. Types'
  BY <1>1, <1>2 DEF IInv, Types
<1>5. Mounted' /\ Single'
  BY <1>1, <1>2 DEF Mounted, Single
<1>6. Sessions'
  BY <1>1, <1>3 DEF Sessions, InSession
<1> QED
  BY <1>4, <1>5, <1>6 DEF Core

LEMMA ListsSet ==
  ASSUME Types, NEW owners \in SUBSET Id, SetLists(owners)
  PROVE  lists' \in Seq(SUBSET Id) /\ lists' # <<>> /\ Last(lists') = owners
<1>1. PICK S : S = SUBSET Id
  OBVIOUS
<1>2. lists \in Seq(S) /\ lists # <<>> /\ owners \in S
  BY <1>1 DEF Types
<1>3. Last(lists) \in S
  BY <1>2, LastOf
<1>4. lists' \in Seq(S) /\ lists' # <<>> /\ Last(lists') = owners
  BY <1>2, <1>3 DEF SetLists, Last
<1> QED
  BY <1>1, <1>4

LEMMA InvStudent ==
  ASSUME IInv, Student
  PROVE  Core'
<1>1. ASSUME NEW a \in Address, NEW cap \in BOOLEAN, NEW w \in Word, StartSignUp(a, cap, w)
      PROVE  Core'
  <2>1. PICK c : c = [kind |-> "signup", at |-> "lookup", address |-> a,
                      capitals |-> cap, word |-> w, here |-> TRUE]
    OBVIOUS
  <2>2. c \in GoodCall /\ c.here /\ c.at # "courses" /\ ScreenOf(c.kind) = "auth"
    BY <2>1 DEF GoodCall, SignUpCall, ScreenOf
  <2> QED
    BY <1>1, <2>1, <2>2, NothingEntering, CallAdded DEF StartSignUp, Call, cloud, made
<1>2. ASSUME NEW course \in Course, SubmitProfile(course)
      PROVE  Core'
  <2>1. user \in User /\ screen = "fill"
    BY <1>2 DEF SubmitProfile, IInv, Sessions
  <2>2. hashPassword(user.pw) \in Hashed
    BY <1>2, <2>1, HashIs DEF SubmitProfile, User
  <2>3. PICK u : u = [user EXCEPT !.pw = hashPassword(@), !.course = course]
    OBVIOUS
  <2>4. u \in Member /\ Document(u) \in Filled
    BY <2>1, <2>2, <2>3 DEF User, Member, Filled, Document
  <2>5. PICK w : w = [op |-> "set", id |-> u.id, doc |-> Document(u), kind |-> "fill", here |-> TRUE]
    OBVIOUS
  <2>6. w \in GoodWrite /\ w.kind = "fill"
    BY <2>4, <2>5 DEF GoodWrite, Member
  <2>7. sent' = Append(sent, w) /\ user' = u
    BY <1>2, <2>3, <2>5 DEF SubmitProfile, Send
  <2>8. user' \in User /\ user' \in Member
    BY <2>4, <2>7, NoneApart
  <2>9. \A e \in calls : ~e.here
    BY <1>2, NothingLoading DEF SubmitProfile
  <2>10. \A n \in 1 .. Len(sent) : sent[n].here => sent[n].kind = "delete"
    BY <1>2, NothingLoading DEF SubmitProfile
  <2>11. UNCHANGED <<screen, userBox, lists, calls, stored, other, ids>>
    BY <1>2 DEF SubmitProfile, made
  <2>12. userBox' \in Seq(Image) /\ userBox' # <<>> /\ lists' \in Seq(SUBSET Id) /\ lists' # <<>>
    BY <2>11 DEF IInv, Types
  <2> QED
    BY <2>1, <2>6, <2>7, <2>8, <2>9, <2>10, <2>11, <2>12, WriteAdded
<1>3. ASSUME NEW a \in Address, NEW w \in Word, StartLogin(a, w)
      PROVE  Core'
  <2>1. PICK c : c = [kind |-> "login", at |-> "user", address |-> a, word |-> w, here |-> TRUE]
    OBVIOUS
  <2>2. c \in GoodCall /\ c.here /\ c.at # "courses" /\ ScreenOf(c.kind) = "auth"
    BY <2>1 DEF GoodCall, LoginCall, ScreenOf
  <2> QED
    BY <1>3, <2>1, <2>2, NothingEntering, CallAdded DEF StartLogin, Call, cloud, made
<1>4. ASSUME NEW s \in {"change", "edit"}, Open(s)
      PROVE  Core'
  <2>1. user \in Member /\ screen = "main" /\ UNCHANGED <<user, userBox, lists, calls, sent, stored, other, ids>>
    BY <1>4 DEF Open, cloud, made, IInv, Sessions, InSession
  <2>2. user' \in User \cup {None} /\ user' \in Member
    BY <2>1, NoneApart
  <2> QED
    BY <1>4, <2>1, <2>2, ScreenLeft DEF Open, IInv, Types
<1>5. CASE Leave
  <2>1. screen' = "main" => user \in Member
    BY <1>5 DEF Leave, IInv, Sessions, InSession
  <2>2. calls' = Unmounted(calls) /\ sent' = UnmountedWrites(sent) /\ screen' \in {"auth", "main"}
    BY <1>5 DEF Leave
  <2>3. UNCHANGED <<user, userBox, lists, stored, other, ids>>
    BY <1>5 DEF Leave, made
  <2> QED
    BY <2>1, <2>2, <2>3, ScreenLeft DEF IInv, Types
<1>6. CASE Record
  <2>1. user \in Member /\ screen = "main"
    BY <1>6 DEF Record, IInv, Sessions, InSession
  <2>2. PICK w : w = [op |-> "update", id |-> user.id, doc |-> Document(user),
                      kind |-> "record", here |-> FALSE]
    OBVIOUS
  <2>3. w \in GoodWrite /\ w.kind = "record" /\ ~w.here
    BY <2>1, <2>2 DEF GoodWrite, Member, Filled, Document
  <2>4. sent' = Append(sent, w) /\ UNCHANGED <<screen, user, calls, stored, other, ids>>
    BY <1>6, <2>2 DEF Record, Send, made
  <2>5. userBox' \in Seq(Image) /\ userBox' # <<>>
    BY <1>6, <2>1, UserSaved DEF Record, IInv
  <2>6. lists' \in Seq(SUBSET Id) /\ lists' # <<>>
    <3>1. Last(lists) \in SUBSET Id
      <4>1. PICK S : S = SUBSET Id
        OBVIOUS
      <4>2. lists \in Seq(S) /\ lists # <<>>
        BY <4>1 DEF IInv, Types
      <4> QED
        BY <4>1, <4>2, LastOf
    <3>2. Last(lists) \cup {user.id} \in SUBSET Id
      BY <2>1, <3>1 DEF Member
    <3> QED
      BY <1>6, <3>2, ListsSet DEF Record, IInv
  <2>7. user' \in User /\ user' \in Member
    BY <2>1, <2>4, NoneApart
  <2> QED
    BY <2>1, <2>3, <2>4, <2>5, <2>6, <2>7, WriteAdded
<1>7. CASE Logout
  <2>1. /\ userBox' \in Seq(Image) /\ userBox' # <<>>
        /\ lists' \in Seq(SUBSET Id) /\ lists' # <<>>
    BY <1>7, BothDeleted, ListsSet DEF Logout, clearData, IInv
  <2>2. /\ screen = "main" /\ screen' = "auth" /\ user' = None
        /\ UNCHANGED <<calls, sent, stored, other, ids>>
    BY <1>7 DEF Logout, clearData, cloud, made
  <2> QED
    BY <2>1, <2>2, ScreenLeft DEF IInv, Types
<1>8. ASSUME NEW old \in Word, NEW new \in Word, StartChange(old, new)
      PROVE  Core'
  <2>1. user \in Member /\ screen = "change"
    BY <1>8 DEF StartChange, IInv, Sessions, InSession
  <2>2. hashPassword(<<new, 0>>) \in Hashed
    <3>1. user.pw[2] = 1 /\ user.pw \in Hashed
      BY <1>8, <2>1 DEF StartChange, hashPassword, Member
    <3>2. 1 \in 1 .. MaxHash
      BY <3>1 DEF Hashed
    <3> QED
      BY <3>2 DEF Hashed, hashPassword
  <2>3. PICK w : w = [op |-> "password", id |-> user.id,
                      doc |-> [pw |-> hashPassword(<<new, 0>>), course |-> user.course],
                      kind |-> "change", here |-> TRUE]
    OBVIOUS
  <2>4. w \in GoodWrite /\ w.kind = "change"
    BY <2>1, <2>2, <2>3 DEF GoodWrite, Member, Filled
  <2>5. sent' = Append(sent, w) /\ UNCHANGED <<screen, user, userBox, lists, calls, stored, other, ids>>
    BY <1>8, <2>3 DEF StartChange, Send, made
  <2>6. user' \in User /\ user' \in Member
    BY <2>1, <2>5, NoneApart
  <2>7. \A e \in calls : ~e.here
    BY <1>8, NothingLoading DEF StartChange
  <2>8. \A n \in 1 .. Len(sent) : sent[n].here => sent[n].kind = "delete"
    BY <1>8, NothingLoading DEF StartChange
  <2>9. userBox' \in Seq(Image) /\ userBox' # <<>> /\ lists' \in Seq(SUBSET Id) /\ lists' # <<>>
    BY <2>5 DEF IInv, Types
  <2> QED
    BY <2>1, <2>4, <2>5, <2>6, <2>7, <2>8, <2>9, WriteAdded
<1>9. ASSUME NEW course \in Course, StartEdit(course)
      PROVE  Core'
  <2>1. user \in Member /\ screen = "edit"
    BY <1>9 DEF StartEdit, IInv, Sessions, InSession
  <2>2. PICK c : c = [kind |-> "edit", at |-> "clear", user |-> [user EXCEPT !.course = course],
                      here |-> TRUE]
    OBVIOUS
  <2>3. c \in GoodCall /\ c.here /\ c.at # "courses" /\ ScreenOf(c.kind) = "edit"
    BY <2>1, <2>2 DEF GoodCall, ClearCall, ScreenOf, Member
  <2> QED
    BY <1>9, <2>1, <2>2, <2>3, NothingLoading, CallAdded DEF StartEdit, Call, cloud, made
<1>10. CASE StartDelete
  <2>1. user \in Member /\ screen = "edit"
    BY <1>10 DEF StartDelete, IInv, Sessions, InSession
  <2>2. PICK w : w = [op |-> "delete", id |-> user.id, doc |-> Document(user),
                      kind |-> "delete", here |-> TRUE]
    OBVIOUS
  <2>3. w \in GoodWrite /\ w.kind = "delete"
    BY <2>1, <2>2 DEF GoodWrite, Member, Filled, Document
  <2>4. sent' = Append(sent, w) /\ UNCHANGED <<screen, user, userBox, lists, calls, stored, other, ids>>
    BY <1>10, <2>2 DEF StartDelete, Send, made
  <2>5. user' \in User /\ user' \in Member
    BY <2>1, <2>4, NoneApart
  <2>6. userBox' \in Seq(Image) /\ userBox' # <<>> /\ lists' \in Seq(SUBSET Id) /\ lists' # <<>>
    BY <2>4 DEF IInv, Types
  <2> QED
    BY <2>1, <2>3, <2>4, <2>5, <2>6, WriteAdded
<1> QED
  BY <1>1, <1>2, <1>3, <1>4, <1>5, <1>6, <1>7, <1>8, <1>9, <1>10 DEF Student

LEMMA UserOfIs ==
  ASSUME NEW i \in Id, NEW doc \in Filled
  PROVE  /\ UserOf(i, doc) \in Member /\ UserOf(i, doc).id = i
         /\ UserOf(i, doc).pw = doc.pw /\ UserOf(i, doc).course = doc.course
         /\ Document(UserOf(i, doc)) = doc
BY DEF UserOf, Member, Filled, Document

LEMMA StoredIs ==
  ASSUME Types, NEW i \in Id, stored[i] # None
  PROVE  stored[i] \in Filled /\ UserOf(i, stored[i]) \in Member
BY UserOfIs DEF Types

LEMMA InvAnswer ==
  ASSUME IInv, Answer
  PROVE  Core'
<1>0. PICK c \in calls : \/ LookedUp(c) \/ UserRead(c) \/ CoursesRead(c)
                         \/ QueryFails(c) \/ PasswordRead(c) \/ Cleared(c)
  BY DEF Answer
<1>a. Types /\ c \in GoodCall
  BY Facts DEF IInv
<1>b. screen \notin {"splash", "stuck"}
  BY DEF IInv, Sessions
<1>c. InSession => user \in Member
  BY DEF IInv, Sessions
<1>1. CASE LookedUp(c)
  <2>0. c \in SignUpCall /\ calls' = calls \ {c}
    BY <1>1, <1>a, CallShape DEF LookedUp, Answered
  <2>1. CASE ~c.here \/ (Having(c.address) # {} /\ ~c.capitals)
    <3>1. UNCHANGED <<screen, user, userBox, lists, sent, stored, other, ids>>
      BY <1>1, <2>1 DEF LookedUp, made, cloud
    <3> QED
      BY <2>0, <3>1, <1>a, <1>b, <1>c, CallAnswered, NoneApart DEF Types, IInv, Sessions, InSession
  <2>2. CASE ~(~c.here \/ (Having(c.address) # {} /\ ~c.capitals))
    <3>1. /\ ids < MaxId /\ ids' = ids + 1 /\ screen' = "fill" /\ c.here
          /\ user' = [id |-> ids + 1, pw |-> <<c.word, 0>>, course |-> None]
          /\ UNCHANGED <<userBox, lists, sent, stored, other>>
      BY <1>1, <2>2 DEF LookedUp, cloud
    <3>2. ids' \in 1 .. MaxId
      BY <3>1, <1>a, SessionAssumption DEF Types
    <3>3. user' \in User
      BY <2>0, <3>1, <3>2, SessionAssumption DEF User, Id, Password, SignUpCall
    <3>4. screen' \notin {"main", "change", "edit"}
      BY <3>1
    <3>5. userBox' \in Seq(Image) /\ userBox' # <<>>
      BY <3>1, <1>a DEF Types
    <3>6. ids' \in 0 .. MaxId /\ user' \in User \cup {None}
      BY <3>2, <3>3
    <3> QED
      BY <2>0, <3>1, <3>3, <3>4, <3>5, <3>6, <1>b, CallAnswered
  <2> QED
    BY <2>1, <2>2
<1>2. CASE UserRead(c)
  <2>0. c \in LoginCall
    BY <1>2, <1>a, CallShape DEF UserRead
  <2>1. CASE Answered(c) /\ UNCHANGED <<user, userBox>>
    <3>1. UNCHANGED <<screen, user, userBox, lists, sent, stored, other, ids>>
      BY <1>2, <2>1 DEF UserRead, made, cloud
    <3> QED
      BY <2>1, <3>1, <1>a, <1>b, <1>c, CallAnswered, NoneApart
         DEF Types, IInv, Sessions, InSession, Answered
  <2>2. ASSUME NEW i \in Having(c.address),
               userBox' = saveUser(Box, UserOf(i, stored[i])),
               user' = UserOf(i, stored[i]),
               calls' = (calls \ {c}) \cup
                 {[kind |-> "login", at |-> "courses", course |-> stored[i].course, here |-> c.here]}
        PROVE  Core'
    <3>1. i \in Id /\ stored[i] # None
      BY DEF Having
    <3>2. stored[i] \in Filled /\ user' \in Member
      BY <2>2, <3>1, <1>a, StoredIs
    <3>3. userBox' \in Seq(Image) /\ userBox' # <<>>
      BY <2>2, <3>2, <1>a, UserSaved
    <3>4. PICK e : e = [kind |-> "login", at |-> "courses", course |-> stored[i].course, here |-> c.here]
      OBVIOUS
    <3>5. e \in GoodCall /\ e.here = c.here /\ e.kind = c.kind
      BY <2>0, <3>2, <3>4 DEF GoodCall, CourseCall, LoginCall, Filled
    <3>6. UNCHANGED <<screen, lists, sent, stored, other, ids>>
      BY <1>2 DEF UserRead, cloud, made
    <3> QED
      BY <2>2, <3>2, <3>3, <3>4, <3>5, <3>6, CallReplaced
  <2> QED
    BY <1>2, <2>1, <2>2 DEF UserRead
<1>3. CASE CoursesRead(c)
  <2>1. c \in CourseCall /\ c.course \in Course
    BY <1>3, <1>a, CallShape DEF CoursesRead, CourseCall
  <2>2. userBox' \in Seq(Image) /\ userBox' # <<>>
    BY <1>3, <1>a, <2>1, DataSaved DEF CoursesRead
  <2>3. calls' = calls \ {c} /\ (sent' = sent \/ sent' = UnmountedWrites(sent))
        /\ UNCHANGED <<user, lists, stored, other, ids>>
    BY <1>3 DEF CoursesRead, Answered, made
  <2>4. \/ screen' = screen
        \/ c.here /\ screen' = "main" /\ user' \in Member
    BY <1>3, <2>3 DEF CoursesRead, Show, IInv, Sessions
  <2>5. user' \in User \cup {None} /\ (user \in Member => user' \in Member)
    BY <2>3, <1>a DEF Types
  <2>6. (screen' = "main" => user' \in Member) /\ (screen' = "fill" => user' \in User)
    BY <2>3, <2>4, <1>c DEF IInv, Sessions, InSession
  <2> QED
    BY <1>a, <1>b, <2>2, <2>3, <2>4, <2>5, <2>6, CallAnswered DEF Types
<1>4. CASE QueryFails(c)
  <2>1. calls' = calls \ {c} /\ UNCHANGED <<screen, user, userBox, lists, sent, stored, other, ids>>
    BY <1>4 DEF QueryFails, Answered, cloud, made
  <2> QED
    BY <2>1, <1>a, <1>b, <1>c, CallAnswered, NoneApart DEF Types, IInv, Sessions, InSession
<1>5. CASE PasswordRead(c)
  <2>1. c \in ReadCall /\ c.id \in Id
    BY <1>5, <1>a, CallShape DEF PasswordRead, ReadCall
  <2>2. UserOf(c.id, stored[c.id]) \in Member
    BY <1>5, <1>a, <2>1, StoredIs DEF PasswordRead
  <2>3. userBox' \in Seq(Image) /\ userBox' # <<>>
    BY <1>5, <1>a, <2>2, UserSaved DEF PasswordRead
  <2>4. user' \in Member /\ user' \in User
    BY <1>5, <2>2, NoneApart DEF PasswordRead
  <2>5. calls' = calls \ {c} /\ UNCHANGED <<lists, sent, stored, other, ids>>
    BY <1>5 DEF PasswordRead, Answered, cloud, made
  <2>6. screen' = screen \/ (c.here /\ screen' = "main")
    BY <1>5 DEF PasswordRead, Show
  <2> QED
    BY <1>a, <1>b, <2>3, <2>4, <2>5, <2>6, CallAnswered DEF Types
<1>6. CASE Cleared(c)
  <2>1. c \in ClearCall /\ c.user \in Member
    BY <1>6, <1>a, CallShape DEF Cleared, ClearCall
  <2>2. userBox' \in Seq(Image) /\ userBox' # <<>>
    BY <1>6, <1>a, <2>1, UserSaved DEF Cleared
  <2>3. user' = c.user /\ calls' = calls \ {c} /\ UNCHANGED <<screen, lists, stored, other, ids>>
    BY <1>6 DEF Cleared, Answered, made
  <2>4. PICK w : w = [op |-> "update", id |-> c.user.id, doc |-> Document(c.user),
                      kind |-> "edit", here |-> c.here]
    OBVIOUS
  <2>5. sent' = Append(sent, w)
    BY <1>6, <2>4 DEF Cleared, Send
  <2>6. w \in GoodWrite /\ w.kind = "edit" /\ w.here = c.here
    BY <2>1, <2>4 DEF GoodWrite, ClearCall, Member, Filled, Document
  <2>7. Types'
    BY <1>a, <2>1, <2>2, <2>3, <2>5, <2>6, SentOne, NoneApart DEF Types
  <2>8. \A n \in 1 .. Len(sent') : \/ n \in 1 .. Len(sent) /\ sent'[n] = sent[n]
                                   \/ n = Len(sent) + 1 /\ sent'[n] = w
    <3>1. /\ Len(sent) \in Nat /\ Len(sent') = Len(sent) + 1
          /\ \A n \in 1 .. Len(sent) : sent'[n] = sent[n]
          /\ sent'[Len(sent) + 1] = w
      BY <1>a, <2>5, <2>6, SentOne DEF Types
    <3>2. \A n \in 1 .. Len(sent') : n \in 1 .. Len(sent) \/ n = Len(sent) + 1
      BY <3>1
    <3> QED
      BY <3>1, <3>2
  <2>9. c.here => screen = "edit"
    BY <2>1 DEF IInv, Mounted, ScreenOf, ClearCall
  <2>10. c.here => \A e \in calls' : ~e.here
    BY <2>3 DEF IInv, Single
  <2>11. c.here => \A n \in 1 .. Len(sent) : sent[n].here => sent[n].kind = "delete"
    BY DEF IInv, Single
  <2>12. Mounted'
    <3>1. \A e \in calls' : e.here => screen = ScreenOf(e.kind)
      BY <2>3 DEF IInv, Mounted
    <3>2. \A n \in 1 .. Len(sent') : sent'[n].here /\ sent'[n].kind # "delete" => screen = sent'[n].kind
      BY <2>6, <2>8, <2>9 DEF IInv, Mounted
    <3> QED
      BY <2>3, <3>1, <3>2 DEF Mounted
  <2>13. Single'
    <3>1. (\A e, f \in calls : e.here /\ f.here => e = f)'
      BY <2>3 DEF IInv, Single
    <3>2. (\A n, m \in 1 .. Len(sent) :
             sent[n].here /\ sent[m].here /\ "delete" \notin {sent[n].kind, sent[m].kind} => n = m)'
      BY <2>6, <2>8, <2>11 DEF IInv, Single
    <3>3. (\A e \in calls, n \in 1 .. Len(sent) : e.here /\ sent[n].here => sent[n].kind = "delete")'
      BY <2>3, <2>6, <2>8, <2>10 DEF IInv, Single
    <3> QED
      BY <3>1, <3>2, <3>3 DEF Single
  <2>14. Sessions'
    BY <1>b, <2>1, <2>3, NoneApart DEF Sessions, InSession
  <2> QED
    BY <2>7, <2>12, <2>13, <2>14 DEF Core
<1> QED
  BY <1>0, <1>1, <1>2, <1>3, <1>4, <1>5, <1>6

LEMMA AppliedIs ==
  ASSUME Types, NEW w \in GoodWrite, Applied(w)
  PROVE  /\ stored' \in [Id -> Filled \cup {None}]
        
         /\ w.op = "delete" => stored'[w.id] = None
         /\ \A i \in Id \ {w.id} : stored'[i] = stored[i]
         /\ w.op \notin {"delete", "password"} => stored'[w.id] = w.doc
<1>1. w.id \in Id /\ w.doc \in Filled /\ w.op \in {"set", "update", "password", "delete"}
  BY DEF GoodWrite
<1>2. stored \in [Id -> Filled \cup {None}]
  BY DEF Types
<1>3. w.op = "password" => stored[w.id] \in Filled
  BY <1>1, <1>2 DEF Applied
<1>4. w.op = "password" => [stored[w.id] EXCEPT !.pw = w.doc.pw] \in Filled
  BY <1>1, <1>3 DEF Filled
<1>5. PICK d : d = IF w.op = "delete" THEN None
                   ELSE IF w.op = "password" THEN [stored[w.id] EXCEPT !.pw = w.doc.pw]
                   ELSE w.doc
  OBVIOUS
<1>6. d \in Filled \cup {None} /\ stored' = [stored EXCEPT ![w.id] = d]
  BY <1>1, <1>4, <1>5 DEF Applied
<1> QED
  BY <1>1, <1>2, <1>5, <1>6

LEMMA InvAcknowledgement ==
  ASSUME IInv, Acknowledgement
  PROVE  Core'
<1>0. sent # <<>>
  BY DEF Acknowledgement, ProfileStored, RecordStored, PasswordStored, EditStored,
         AccountDeleted, Refused, OrphanApplied, Front
<1>a. Types /\ Head(sent) \in GoodWrite /\ Head(sent) = sent[1] /\ 1 \in 1 .. Len(sent)
  BY <1>0, FrontOf DEF IInv, Types
<1>b. calls \subseteq GoodCall /\ userBox \in Seq(Image) /\ userBox # <<>>
      /\ stored \in [Id -> Filled \cup {None}]
  BY <1>a DEF Types
<1> DEFINE w == Head(sent)
<1>1. CASE ProfileStored
  <2>1. w.id \in Id /\ w.doc \in Filled /\ w.kind = "fill"
    BY <1>1, <1>a DEF ProfileStored, GoodWrite
  <2>2. PICK u : u = UserOf(w.id, w.doc)
    OBVIOUS
  <2>3. u \in Member /\ u.course \in Course
    BY <2>1, <2>2, UserOfIs DEF Member
  <2>4. userBox' = saveCourseData(saveUser(Box, u), u.course) /\ user' = u
    BY <1>1, <2>2 DEF ProfileStored
  <2>5. userBox' \in Seq(Image) /\ userBox' # <<>>
    BY <1>a, <2>3, <2>4, BothSaved
  <2>6. stored' \in [Id -> Filled \cup {None}]
    BY <1>1, <1>b, <2>1 DEF ProfileStored
  <2>7. sent' = Tail(sent) /\ UNCHANGED <<calls, lists, other, ids>>
        /\ (screen' = screen \/ (w.here /\ screen' = "main"))
    BY <1>1 DEF ProfileStored, made, Show
  <2> QED
    BY <1>0, <1>b, <2>1, <2>3, <2>4, <2>5, <2>6, <2>7, Dropped
<1>2. CASE RecordStored
  <2>1. sent' = Tail(sent) /\ UNCHANGED <<screen, user, userBox, lists, calls, other, ids>>
    BY <1>2 DEF RecordStored, local
  <2>2. stored' \in [Id -> Filled \cup {None}]
    BY <1>2, <1>a, AppliedIs DEF RecordStored
  <2> QED
    BY <1>0, <1>b, <2>1, <2>2, Dropped
<1>3. CASE PasswordStored
  <2>1. PICK e : e = [kind |-> "change", at |-> "read", id |-> w.id, here |-> w.here]
    OBVIOUS
  <2>2. /\ sent' = Tail(sent) /\ calls' = calls \cup {e} /\ w.kind = "change"
        /\ UNCHANGED <<screen, user, userBox, lists, other, ids>>
    BY <1>3, <2>1 DEF PasswordStored, Front, Call
  <2>3. e \in GoodCall /\ e.at = "read" /\ e.kind = "change" /\ e.here = w.here
    BY <1>a, <2>1 DEF GoodCall, ReadCall, GoodWrite
  <2>4. stored' \in [Id -> Filled \cup {None}]
    BY <1>3, <1>a, AppliedIs DEF PasswordStored
  <2>5. w.here => \A f \in calls : ~f.here
    BY <1>a, <2>2 DEF IInv, Single
  <2> QED
    BY <1>0, <1>b, <2>2, <2>3, <2>4, <2>5, Dropped
<1>4. CASE EditStored
  <2>1. PICK e : e = [kind |-> "edit", at |-> "courses", course |-> w.doc.course, here |-> w.here]
    OBVIOUS
  <2>2. /\ sent' = Tail(sent) /\ calls' = calls \cup {e} /\ w.kind = "edit"
        /\ UNCHANGED <<screen, user, userBox, lists, other, ids>>
    BY <1>4, <2>1 DEF EditStored, Front, Call
  <2>3. e \in GoodCall /\ e.kind = "edit" /\ e.here = w.here
    BY <1>a, <2>1 DEF GoodCall, CourseCall, GoodWrite, Filled
  <2>4. stored' \in [Id -> Filled \cup {None}]
    BY <1>4, <1>a, AppliedIs DEF EditStored
  <2>5. w.here => \A f \in calls : ~f.here
    BY <1>a, <2>2 DEF IInv, Single
  <2>6. e.here => user' \in Member
    BY <1>a, <2>2, <2>3 DEF IInv, Mounted, Sessions, InSession
  <2> QED
    BY <1>0, <1>b, <2>2, <2>3, <2>4, <2>5, <2>6, Dropped
<1>5. CASE AccountDeleted
  <2>1. stored' \in [Id -> Filled \cup {None}]
    BY <1>5, <1>a, AppliedIs DEF AccountDeleted
  <2>2. CASE w.here
    <3>1. /\ clearData /\ calls' = Unmounted(calls) /\ sent' = UnmountedWrites(Tail(sent))
          /\ UNCHANGED <<other, ids>>
      BY <1>5, <2>2 DEF AccountDeleted
    <3>2. /\ userBox' \in Seq(Image) /\ userBox' # <<>>
          /\ lists' \in Seq(SUBSET Id) /\ lists' # <<>>
      BY <1>a, <3>1, BothDeleted, ListsSet DEF clearData
    <3>3. screen' = "auth" /\ user' = None
      BY <3>1 DEF clearData
    <3> QED
      BY <1>0, <2>1, <3>1, <3>2, <3>3, ScreenLeft
  <2>3. CASE ~w.here
    <3>1. sent' = Tail(sent) /\ UNCHANGED <<screen, user, userBox, lists, calls, other, ids>>
      BY <1>5, <2>3 DEF AccountDeleted
    <3> QED
      BY <1>0, <1>b, <2>1, <3>1, Dropped
  <2> QED
    BY <2>2, <2>3
<1>6. CASE Refused
  <2>1. /\ sent' = Tail(sent)
        /\ UNCHANGED <<screen, user, userBox, lists, stored, other, ids>>
    BY <1>6 DEF Refused, made
  <2>2. CASE calls' = calls
    BY <1>0, <1>b, <2>1, <2>2, Dropped
  <2>3. CASE w.kind = "edit" /\ w.here
    <3>1. PICK e : e = [kind |-> "edit", at |-> "threw", here |-> TRUE]
      OBVIOUS
    <3>2. calls' = calls \cup {e} /\ e \in GoodCall /\ e.at = "threw" /\ e.kind = "edit"
      BY <1>6, <2>3, <3>1 DEF Refused, GoodCall, ThrewCall
    <3>3. \A f \in calls : ~f.here
      BY <1>a, <2>3 DEF IInv, Single
    <3> QED
      BY <1>0, <1>b, <2>1, <2>3, <3>2, <3>3, Dropped
  <2> QED
    BY <1>6, <2>2, <2>3 DEF Refused
<1>7. CASE OrphanApplied
  <2>1. sent' = Tail(sent) /\ UNCHANGED <<screen, user, userBox, lists, calls, other, ids>>
    BY <1>7 DEF OrphanApplied, local
  <2>2. stored' \in [Id -> Filled \cup {None}]
    BY <1>7, <1>a, AppliedIs DEF OrphanApplied
  <2> QED
    BY <1>0, <1>b, <2>1, <2>2, Dropped
<1> QED
  BY <1>1, <1>2, <1>3, <1>4, <1>5, <1>6, <1>7 DEF Acknowledgement

LEMMA InvRest ==
  ASSUME IInv, Restore \/ Kill \/ OtherDevice
  PROVE  Core'
<1>a. /\ Types /\ userBox \in Seq(Image) /\ userBox # <<>>
      /\ stored \in [Id -> Filled \cup {None}]
  BY DEF IInv, Types
<1>1. CASE Restore
  <2>1. Last(userBox).user \in Member \cup {None}
    BY <1>a, BoxIs DEF Image
  <2>2. /\ user' = Last(userBox).user /\ screen = "splash" /\ screen' \in {"auth", "stuck", "main"}
        /\ screen' = "main" => user' # None
        /\ UNCHANGED <<userBox, lists, calls, sent, stored, other, ids>>
    BY <1>1 DEF Restore, cloud, made
  <2>3. calls = {} /\ \A n \in 1 .. Len(sent) : sent[n].kind = "orphan"
    BY <2>2 DEF IInv, Sessions
  <2>4. \A n \in 1 .. Len(sent) : ~sent[n].here
    BY <2>3, Facts DEF GoodWrite
  <2>5. Types'
    BY <2>1, <2>2, NoneApart DEF IInv, Types
  <2>6. Mounted' /\ Single'
    BY <2>2, <2>3, <2>4 DEF Mounted, Single
  <2>7. Sessions'
    BY <2>1, <2>2, <2>3 DEF Sessions, InSession
  <2> QED
    BY <2>5, <2>6, <2>7 DEF Core
<1>2. CASE Kill
  <2>1. PICK n \in 1 .. Len(userBox) : userBox' = <<userBox[n]>>
    BY <1>2 DEF Kill
  <2>2. PICK m \in 1 .. Len(lists) : lists' = <<lists[m]>>
    BY <1>2 DEF Kill
  <2>3. userBox' \in Seq(Image) /\ userBox' # <<>>
    BY <1>a, <2>1
  <2>4. lists' \in Seq(SUBSET Id) /\ lists' # <<>>
    <3>1. PICK S : S = SUBSET Id
      OBVIOUS
    <3>2. lists \in Seq(S)
      BY <1>a, <3>1 DEF Types
    <3> QED
      BY <2>2, <3>1, <3>2
  <2>5. \E k \in 0 .. Len(sent) : sent' = Orphans(sent, k)
    BY <1>2 DEF Kill, Orphans
  <2>6. calls' = {} /\ user' = None /\ screen' = "splash" /\ UNCHANGED <<stored, other, ids>>
    BY <1>2 DEF Kill, made
  <2> QED
    BY <1>a, <2>3, <2>4, <2>5, <2>6, ScreenLeft
<1>3. CASE OtherDevice
  <2>1. UNCHANGED <<screen, user, userBox, lists, calls, sent, ids>>
    BY <1>3 DEF OtherDevice, OtherSession, OtherRecord, OtherChange, OtherEdit, OtherDelete, local, made
  <2>2. stored' \in [Id -> Filled \cup {None}] /\ other' \in Member \cup {None}
    <3>0. other \in Member \cup {None} /\ (other # None => other.id \in Id /\ Document(other) \in Filled)
      BY <1>a DEF Types, Member, Filled, Document
    <3>1. ASSUME NEW i \in Id, OtherSession(i) PROVE stored' = stored /\ other' \in Member \cup {None}
      BY <1>a, <3>1, StoredIs DEF OtherSession
    <3>2. CASE OtherRecord
      BY <1>a, <3>0, <3>2 DEF OtherRecord, OtherFinds
    <3>3. ASSUME NEW w \in Word, OtherChange(w)
          PROVE  stored' \in [Id -> Filled \cup {None}] /\ other' \in Member \cup {None}
      <4>1. other.id \in Id /\ stored[other.id] \in Filled
        BY <1>a, <3>0, <3>3 DEF OtherChange, OtherFinds
      <4>2. hashPassword(<<w, 0>>) \in Hashed
        <5>1. stored[other.id].pw \in Hashed
          BY <4>1 DEF Filled
        <5>2. 1 \in 1 .. MaxHash
          BY <5>1, SessionAssumption DEF Hashed
        <5> QED
          BY <5>2 DEF hashPassword, Hashed
      <4>3. PICK d : d = [stored[other.id] EXCEPT !.pw = hashPassword(<<w, 0>>)]
        OBVIOUS
      <4>4. d \in Filled
        BY <4>1, <4>2, <4>3 DEF Filled
      <4>5. stored' = [stored EXCEPT ![other.id] = d]
        BY <3>3, <4>3 DEF OtherChange
      <4>6. stored' \in [Id -> Filled \cup {None}] /\ stored'[other.id] = d
        BY <1>a, <4>1, <4>4, <4>5
      <4>7. other' = UserOf(other.id, d)
        BY <3>3, <4>6 DEF OtherChange
      <4> QED
        BY <4>1, <4>4, <4>6, <4>7, UserOfIs
    <3>4. ASSUME NEW course \in Course, OtherEdit(course)
          PROVE  stored' \in [Id -> Filled \cup {None}] /\ other' \in Member \cup {None}
      <4>1. other \in Member
        BY <3>0, <3>4 DEF OtherEdit, OtherFinds
      <4>2. PICK u : u = [other EXCEPT !.course = course]
        OBVIOUS
      <4>3. u \in Member /\ Document(u) \in Filled /\ other.id \in Id
        BY <4>1, <4>2 DEF Member, Filled, Document
      <4>4. other' = u /\ stored' = [stored EXCEPT ![other.id] = Document(u)]
        BY <3>4, <4>2 DEF OtherEdit, Document
      <4> QED
        BY <1>a, <4>3, <4>4
    <3>5. CASE OtherDelete
      BY <1>a, <3>0, <3>5 DEF OtherDelete
    <3>6. OtherRecord => other' = other
      BY DEF OtherRecord
    <3> QED
      BY <1>3, <1>a, <3>0, <3>1, <3>2, <3>3, <3>4, <3>5, <3>6 DEF OtherDevice
  <2>3. Types'
    BY <1>a, <2>1, <2>2 DEF Types
  <2>4. Mounted' /\ Single' /\ Sessions'
    BY <2>1 DEF IInv, Mounted, Single, Sessions, InSession
  <2> QED
    BY <2>3, <2>4 DEF Core
<1> QED
  BY <1>1, <1>2, <1>3

\* What a sync changes: the lists, and the box is as after its last put.
LEMMA SyncIs ==
  ASSUME Sync
  PROVE  /\ UNCHANGED <<screen, user, calls, sent, stored, other, account, ids, turns, history>>
         /\ \/ UNCHANGED <<lists, userBox, mixed>>
            \/ \E s \in syncs : \E owners \in SUBSET (Last(lists) \cup {s.id}) :
                 /\ SetLists(owners)
                 /\ userBox' = Box
                 /\ mixed' = (mixed \/ ~InSession \/ user.id # s.id)
<1>1. ASSUME NEW n, NEW following, StartSync(n, following)
      PROVE  /\ UNCHANGED <<screen, user, calls, sent, stored, other, account, ids, turns, history>>
             /\ UNCHANGED <<lists, userBox, mixed>>
  BY <1>1 DEF StartSync, cloud, made
<1>2. ASSUME NEW s, SyncFails(s)
      PROVE  /\ UNCHANGED <<screen, user, calls, sent, stored, other, account, ids, turns, history>>
             /\ UNCHANGED <<lists, userBox, mixed>>
  BY <1>2 DEF SyncFails, cloud, made
<1>3. ASSUME NEW s \in syncs, SyncAnswered(s)
      PROVE  /\ UNCHANGED <<screen, user, calls, sent, stored, other, account, ids, turns, history>>
             /\ userBox' = Box
             /\ mixed' = (mixed \/ ~InSession \/ user.id # s.id)
             /\ \E owners \in SUBSET (Last(lists) \cup {s.id}) : SetLists(owners)
  <2>1. PICK others \in SUBSET Last(lists), found \in SUBSET {s.id} : SetLists(others \cup found)
    BY <1>3 DEF SyncAnswered
  <2>2. others \cup found \subseteq Last(lists) \cup {s.id}
    OBVIOUS
  <2> QED
    BY <1>3, <2>1, <2>2 DEF SyncAnswered, cloud, made
<1> QED
  BY <1>1, <1>2, <1>3 DEF Sync

LEMMA SyncBox ==
  ASSUME Types, Sync
  PROVE  /\ userBox' \in Seq(Image) /\ userBox' # <<>> /\ Last(userBox') = Last(userBox)
         /\ \A n \in 1 .. Len(userBox') : \E m \in 1 .. Len(userBox) : userBox'[n] = userBox[m]
<1>1. userBox' \in {userBox, Box}
  BY SyncIs
<1>2. Len(userBox) \in 1 .. Len(userBox) /\ Last(userBox) = userBox[Len(userBox)]
  BY DEF Types, Last
<1> QED
  BY <1>1, <1>2, BoxIs DEF Types

LEMMA InvSync ==
  ASSUME IInv, Sync
  PROVE  Core'
<1>1. Types
  BY DEF IInv
<1>2. lists' \in Seq(SUBSET Id) /\ lists' # <<>>
  <2>1. CASE UNCHANGED lists
    BY <1>1, <2>1 DEF Types
  <2>2. ASSUME NEW s \in syncs, NEW owners \in SUBSET (Last(lists) \cup {s.id}), SetLists(owners)
        PROVE  lists' \in Seq(SUBSET Id) /\ lists' # <<>>
    <3>1. s.id \in Id
      BY DEF IInv, Syncing
    <3>2. Last(lists) \subseteq Id
      <4>1. PICK S : S = SUBSET Id
        OBVIOUS
      <4>2. lists \in Seq(S) /\ lists # <<>>
        BY <1>1, <4>1 DEF Types
      <4> QED
        BY <4>1, <4>2, LastOf
    <3>3. owners \in SUBSET Id
      BY <2>2, <3>1, <3>2
    <3> QED
      BY <1>1, <2>2, <3>3, ListsSet
  <2> QED
    BY <2>1, <2>2, SyncIs
<1>3. Types'
  BY <1>1, <1>2, SyncIs, SyncBox DEF Types
<1>4. Mounted' /\ Single' /\ Sessions'
  BY SyncIs DEF IInv, Mounted, Single, Sessions, InSession
<1> QED
  BY <1>3, <1>4 DEF Core

\* Only the syncs start and go on with syncs, and find that they are in another session.
LEMMA SyncsElsewhere == Next => Sync \/ (syncs' \subseteq syncs /\ mixed' = mixed)
BY DEF Next, Restore, Student, StartSignUp, SubmitProfile, StartLogin, Open, Leave, Record, Logout,
       StartChange, StartEdit, StartDelete, Answer, LookedUp, UserRead, CoursesRead, QueryFails,
       PasswordRead, Cleared, Acknowledgement, ProfileStored, RecordStored, PasswordStored,
       EditStored, AccountDeleted, Refused, OrphanApplied, Kill, OtherDevice, OtherSession,
       OtherRecord, OtherChange, OtherEdit, OtherDelete, local, syncing

LEMMA SyncingStep ==
  ASSUME IInv, Next
  PROVE  Syncing'
<1>1. user # None => user.id \in Id
  BY DEF IInv, Types, User
<1>2. ASSUME NEW n \in 1 .. MaxSync, NEW following \in 0 .. 2, StartSync(n, following)
      PROVE  Syncing'
  BY <1>1, <1>2 DEF StartSync, IInv, Syncing
<1>3. ASSUME NEW s \in syncs, SyncAnswered(s)
      PROVE  Syncing'
  <2>1. s \in [nr : 1 .. MaxSync, id : Id, left : 0 .. 2]
    BY DEF IInv, Syncing
  <2>2. ASSUME NEW u \in {v \in {user} \ {None} : s.left > 0}
        PROVE  [s EXCEPT !.id = u.id, !.left = @ - 1] \in [nr : 1 .. MaxSync, id : Id, left : 0 .. 2]
    <3>1. u.id \in Id /\ s.left - 1 \in 0 .. 2
      BY <1>1, <2>1
    <3> QED
      BY <2>1, <3>1
  <2> QED
    BY <1>3, <2>2 DEF SyncAnswered, IInv, Syncing
<1>4. ASSUME NEW s \in syncs, SyncFails(s)
      PROVE  Syncing'
  BY <1>4 DEF SyncFails, IInv, Syncing
<1>5. CASE Sync
  BY <1>2, <1>3, <1>4, <1>5 DEF Sync
<1>6. CASE syncs' \subseteq syncs
  BY <1>6 DEF IInv, Syncing
<1> QED
  BY <1>5, <1>6, SyncsElsewhere

THEOREM InvStep == IInv /\ [Next]_vars => IInv'
<1> SUFFICES ASSUME IInv, [Next]_vars PROVE IInv'
  OBVIOUS
<1>1. CASE Next
  <2>1. Core'
    BY <1>1, InvStudent, InvAnswer, InvAcknowledgement, InvRest, InvSync DEF Next
  <2> QED
    BY <1>1, <2>1, SyncingStep DEF IInv, Core
<1>2. CASE UNCHANGED vars
  BY <1>2 DEF vars, local, syncing, cloud, made, IInv, Types, Mounted, Single, Sessions, InSession, Syncing
<1> QED
  BY <1>1, <1>2

THEOREM Invariant == Spec => []IInv
BY InvInit, InvStep, PTL DEF Spec

\* The variables have their types, and what is more: no profile without a course and
\* no password that is not hashed is ever saved, sent or stored (fill_profile.dart:370,
\* edit_profile.dart:355).
THEOREM TypeCorrect == Spec => []TypeOK
<1>1. IInv => TypeOK
  <2> SUFFICES ASSUME IInv PROVE TypeOK
    OBVIOUS
  <2>1. Types
    BY DEF IInv
  <2>2. \A n \in 1 .. Len(userBox) : userBox[n] \in [user : User \cup {None}, data : Course \cup {None}]
    <3>1. \A n \in 1 .. Len(userBox) : userBox[n] \in Image
      BY <2>1 DEF Types
    <3> QED
      BY <3>1, NoneApart DEF Image
  <2>3. \A n \in 1 .. Len(lists) : lists[n] \subseteq Id
    <3>1. PICK S : S = SUBSET Id
      OBVIOUS
    <3>2. lists \in Seq(S)
      BY <2>1, <3>1 DEF Types
    <3> QED
      BY <3>1, <3>2
  <2>4. \A n \in 1 .. Len(sent) :
          sent[n] \in [op : {"set", "update", "password", "delete"}, id : Id, doc : Profile,
                       kind : {"fill", "record", "change", "edit", "delete", "orphan"},
                       here : BOOLEAN]
    <3>1. \A n \in 1 .. Len(sent) : sent[n] \in GoodWrite
      BY <2>1 DEF Types
    <3> QED
      BY <3>1, NoneApart DEF GoodWrite
  <2>5. stored \in [Id -> Profile \cup {None}]
    BY <2>1, NoneApart DEF Types
  <2>6. other \in [id : Id, pw : Password, course : Course] \cup {None}
    BY <2>1, NoneApart DEF Types, Member
  <2> QED
    BY <2>1, <2>2, <2>3, <2>4, <2>5, <2>6 DEF Types, TypeOK, IInv, Syncing
<1> QED
  BY <1>1, Invariant, PTL

-----------------------------------------------------------------------------
(* What was left behind on the sign-in and sign-up screens.                *)

Left == Happened("left", 0)

LEMMA HistoryGrows == Next => history \subseteq history'
BY SyncIs DEF Next, Restore, Student, StartSignUp, SubmitProfile, StartLogin, Open, Leave, Record, Logout,
       StartChange, StartEdit, StartDelete, Answer, LookedUp, UserRead, CoursesRead, QueryFails,
       PasswordRead, Cleared, Acknowledgement, ProfileStored, RecordStored, PasswordStored,
       EditStored, AccountDeleted, Refused, OrphanApplied, Kill, OtherDevice, OtherSession,
       OtherRecord, OtherChange, OtherEdit, OtherDelete, NoteShared, NoteOverlap, NoteIf, Note

\* No handler of a screen that was left is under way, and no user is in the box, but
\* for a sign-in that waits for the courses.
Waiting ==
  /\ \A c \in calls : c.at = "threw" \/ c.here
  /\ \A n \in 1 .. Len(sent) : sent[n].kind \in {"orphan", "record"} \/ sent[n].here
  /\ Last(userBox).user = None \/ \E c \in calls : c.here /\ c.at = "courses"

Entered == ~Left /\ screen \in {"auth", "fill"} => Waiting

LEMMA LeftStays ==
  ASSUME Next, ~Left'
  PROVE  ~Left
BY HistoryGrows DEF Left, Happened

\* Whoever overlaps a handler has left it.
LEMMA OverlapNoted ==
  ASSUME NoteOverlap, ~Left'
  PROVE  ~Handlers
BY DEF NoteOverlap, NoteIf, Note, Left, Happened

\* With no handler under way nothing of it is left behind.
LEMMA NoHandlers ==
  ASSUME IInv, ~Handlers
  PROVE  /\ \A c \in calls : c.at = "threw"
         /\ \A n \in 1 .. Len(sent) : sent[n].kind \in {"orphan", "record"} /\ ~sent[n].here
         /\ Unmounted(calls) = {}
         /\ \A n \in 1 .. Len(UnmountedWrites(sent)) :
              /\ UnmountedWrites(sent)[n].kind \in {"orphan", "record"}
              /\ n \in 1 .. Len(sent)
<1>1. \A c \in calls : c.at = "threw"
  BY DEF Handlers
<1>2. \A n \in 1 .. Len(sent) : sent[n].kind \in {"orphan", "record"}
  BY DEF Handlers
<1>3. \A n \in 1 .. Len(sent) : sent[n].kind \in {"orphan", "record"} /\ ~sent[n].here
  BY <1>2, Facts DEF GoodWrite
<1>4. Unmounted(calls) = {}
  BY <1>1 DEF Unmounted
<1>5. /\ Len(UnmountedWrites(sent)) = Len(sent)
      /\ \A n \in 1 .. Len(sent) : UnmountedWrites(sent)[n] = [sent[n] EXCEPT !.here = FALSE]
  BY LeftQueue DEF IInv, Types
<1>6. \A n \in 1 .. Len(sent) : [sent[n] EXCEPT !.here = FALSE].kind = sent[n].kind
  BY Facts DEF GoodWrite
<1> QED
  BY <1>1, <1>2, <1>3, <1>4, <1>5, <1>6

LEMMA EnteredStep ==
  ASSUME IInv, Entered, Next
  PROVE  Entered'
<1> SUFFICES ASSUME ~Left', screen' \in {"auth", "fill"}
             PROVE  Waiting'
  BY DEF Entered
<1>a. screen \in {"auth", "fill"} => Waiting
  BY LeftStays DEF Entered
<1>b. Types /\ Single /\ Mounted /\ Sessions
  BY DEF IInv
<1>c. sent # <<>> => /\ Head(sent) = sent[1] /\ 1 \in 1 .. Len(sent) /\ Head(sent) \in GoodWrite
                     /\ \A n \in 1 .. Len(Tail(sent)) :
                          Tail(sent)[n] = sent[n + 1] /\ n + 1 \in 1 .. Len(sent)
  BY <1>b, FrontOf DEF Types
\* A write that is acknowledged on these screens is none of a handler that is shown elsewhere.
<1>d. ASSUME sent # <<>>, screen \in {"auth", "fill"}
      PROVE  /\ Head(sent).kind \in {"orphan", "record", "fill", "delete"}
             /\ Head(sent).kind = "fill" => Head(sent).here /\ screen = "fill"
             /\ Head(sent).kind = "delete" => Head(sent).here
  BY <1>a, <1>b, <1>c, <1>d DEF Waiting, Mounted, GoodWrite
\* So is a call.
<1>e. ASSUME NEW c \in calls, screen \in {"auth", "fill"}, c.at # "threw"
      PROVE  /\ c.here /\ screen = "auth" /\ c.kind \in {"signup", "login"}
             /\ c.at \in {"lookup", "user", "courses"}
             /\ \A e \in calls \ {c} : ~e.here
  <2>1. c \in GoodCall /\ c.here
    BY <1>a, <1>e, Facts DEF Waiting
  <2>2. screen = ScreenOf(c.kind) /\ c.kind \in {"signup", "login", "change", "edit"}
    BY <1>b, <2>1, CallShape DEF Mounted
  <2>3. c.kind \in {"signup", "login"} /\ screen = "auth"
    BY <1>e, <2>2 DEF ScreenOf
  <2>4. c.at \in {"lookup", "user", "courses", "read", "clear", "threw"}
    BY <2>1, CallShape
  <2>5. c.at \notin {"read", "clear"}
    BY <2>1, <2>3, CallShape DEF ReadCall, ClearCall
  <2> QED
    BY <1>b, <1>e, <2>1, <2>3, <2>4, <2>5 DEF Single
<1>1. CASE Restore
  <2>1. calls = {} /\ \A n \in 1 .. Len(sent) : sent[n].kind = "orphan"
    BY <1>1, <1>b DEF Restore, Sessions
  <2> QED
    BY <1>1, <2>1 DEF Restore, cloud, Waiting
<1>2. CASE Student
  <2>1. ASSUME NEW a \in Address, NEW cap \in BOOLEAN, NEW w \in Word, StartSignUp(a, cap, w)
        PROVE  Waiting'
    BY <1>a, <2>1 DEF StartSignUp, Call, cloud, Waiting
  <2>2. ASSUME NEW course \in Course, SubmitProfile(course)
        PROVE  Waiting'
    <3>1. screen = "fill" /\ UNCHANGED <<calls, userBox>>
      BY <2>2 DEF SubmitProfile
    <3>2. PICK w : sent' = Append(sent, w) /\ w.here
      BY <2>2 DEF SubmitProfile, Send
    <3>3. Len(sent) \in Nat /\ Len(sent') = Len(sent) + 1
          /\ (\A n \in 1 .. Len(sent) : sent'[n] = sent[n]) /\ sent'[Len(sent) + 1] = w
      BY <1>b, <3>2 DEF Types
    <3>4. \A n \in 1 .. Len(sent') : n \in 1 .. Len(sent) \/ n = Len(sent) + 1
      BY <3>3
    <3>5. \A n \in 1 .. Len(sent') : sent'[n].kind \in {"orphan", "record"} \/ sent'[n].here
      BY <1>a, <3>1, <3>2, <3>3, <3>4 DEF Waiting
    <3> QED
      BY <1>a, <3>1, <3>5 DEF Waiting
  <2>3. ASSUME NEW a \in Address, NEW w \in Word, StartLogin(a, w)
        PROVE  Waiting'
    BY <1>a, <2>3 DEF StartLogin, Call, cloud, Waiting
  <2>4. CASE Leave
    <3>1. screen \in {"auth", "fill"}
      BY <2>4 DEF Leave
    <3>2. ~Handlers
      BY <2>4, <3>1 DEF Leave, NoteIf, Note, Left, Happened
    <3>3. calls' = Unmounted(calls) /\ sent' = UnmountedWrites(sent) /\ userBox' = userBox
      BY <2>4 DEF Leave
    <3>4. Last(userBox).user = None
      BY <1>a, <3>1, <3>2, NoHandlers DEF Waiting
    <3> QED
      BY <3>2, <3>3, <3>4, NoHandlers DEF Waiting
  <2>5. CASE Logout
    <3>1. ~Handlers
      BY <2>5, OverlapNoted DEF Logout
    <3>2. Last(userBox').user = None /\ UNCHANGED <<calls, sent>>
      BY <1>b, <2>5, BothDeleted DEF Logout, clearData, cloud
    <3> QED
      BY <3>1, <3>2, NoHandlers DEF Waiting
  <2>6. ~(\E s \in {"change", "edit"} : Open(s)) /\ ~Record
        /\ ~(\E old, new \in Word : StartChange(old, new))
        /\ ~(\E course \in Course : StartEdit(course)) /\ ~StartDelete
    BY DEF Open, Record, StartChange, StartEdit, StartDelete
  <2> QED
    BY <1>2, <2>1, <2>2, <2>3, <2>4, <2>5, <2>6 DEF Student
<1>3. CASE Answer
  <2>0. PICK c \in calls : \/ LookedUp(c) \/ UserRead(c) \/ CoursesRead(c)
                           \/ QueryFails(c) \/ PasswordRead(c) \/ Cleared(c)
    BY <1>3 DEF Answer
  <2>1. c.at # "threw" /\ screen \in {"auth", "fill"}
    <3>1. c.at # "threw"
      BY <2>0 DEF LookedUp, UserRead, CoursesRead, QueryFails, PasswordRead, Cleared
    <3>2. LookedUp(c) => (c.here /\ screen' = "fill") \/ screen' = screen
      BY DEF LookedUp
    <3>3. c.here /\ LookedUp(c) => screen = "auth"
      <4>1. c.at = "lookup" => c.kind = "signup"
        BY Facts, CallShape DEF SignUpCall
      <4> QED
        BY <1>b, <4>1 DEF LookedUp, Mounted, ScreenOf
    <3>4. ~LookedUp(c) => screen' = screen
      BY <2>0 DEF UserRead, CoursesRead, QueryFails, PasswordRead, Cleared, Show
    <3> QED
      BY <2>0, <3>1, <3>2, <3>3, <3>4
  <2>2. c.here /\ screen = "auth" /\ c.at \in {"lookup", "user", "courses"}
        /\ \A e \in calls \ {c} : ~e.here
    BY <1>e, <2>1
  <2>3. Waiting
    BY <1>a, <2>1
  <2>4. CASE UserRead(c)
    <3>1. CASE Answered(c) /\ UNCHANGED userBox
      BY <2>2, <2>3, <2>4, <3>1 DEF Waiting, Answered, UserRead, cloud
    <3>2. CASE \E i \in Id : calls' = (calls \ {c}) \cup
                 {[kind |-> "login", at |-> "courses", course |-> stored[i].course, here |-> c.here]}
      <4>1. PICK e : e.here = c.here /\ e.at = "courses" /\ calls' = (calls \ {c}) \cup {e}
        BY <3>2
      <4>2. \A n \in 1 .. Len(sent') : sent'[n].kind \in {"orphan", "record"} \/ sent'[n].here
        BY <2>3, <2>4 DEF Waiting, UserRead, cloud
      <4> QED
        BY <2>2, <2>3, <4>1, <4>2 DEF Waiting
    <3> QED
      BY <2>4, <3>1, <3>2 DEF UserRead, Having
  <2>5. CASE CoursesRead(c)
    BY <2>2, <2>5 DEF CoursesRead, Show
  <2>6. CASE LookedUp(c) \/ QueryFails(c)
    <3>1. calls' = calls \ {c} /\ UNCHANGED <<userBox, sent>> /\ c.at # "courses"
      BY <2>6 DEF LookedUp, QueryFails, Answered, cloud
    <3> QED
      BY <2>2, <2>3, <3>1 DEF Waiting
  <2>7. ~PasswordRead(c) /\ ~Cleared(c)
    BY <2>2 DEF PasswordRead, Cleared
  <2> QED
    BY <2>0, <2>4, <2>5, <2>6, <2>7
<1>4. CASE Acknowledgement
  <2>0. sent # <<>>
    BY <1>4 DEF Acknowledgement, ProfileStored, RecordStored, PasswordStored, EditStored,
           AccountDeleted, Refused, OrphanApplied, Front
  <2>1. CASE AccountDeleted /\ Head(sent).here
    <3>1. calls = {} /\ ~(Len(sent) > 1)
      BY <2>1 DEF AccountDeleted, Note, Left, Happened
    <3>2. calls' = {}
      BY <2>1, <3>1 DEF AccountDeleted, Unmounted
    <3>3. sent' = UnmountedWrites(Tail(sent))
      BY <2>1 DEF AccountDeleted
    <3>4. Len(sent') = 0
      <4>1. Tail(sent) \in Seq(GoodWrite) /\ Len(sent) \in Nat /\ Len(Tail(sent)) = Len(sent) - 1
            /\ 1 \in 1 .. Len(sent)
        BY <1>b, <2>0, FrontOf DEF Types
      <4>2. Len(Tail(sent)) = 0
        BY <3>1, <4>1
      <4> QED
        BY <3>3, <4>1, <4>2, LeftQueue
    <3>5. Last(userBox').user = None
      BY <1>b, <2>1, BothDeleted DEF AccountDeleted, clearData
    <3> QED
      BY <3>2, <3>4, <3>5 DEF Waiting
  <2>2. CASE ~(AccountDeleted /\ Head(sent).here)
    <3>1. screen \in {"auth", "fill"}
      <4>1. ProfileStored => screen' = screen \/ screen' = "main"
        BY DEF ProfileStored, Show
      <4>2. ~ProfileStored => screen' = screen
        BY <1>4, <2>2 DEF Acknowledgement, RecordStored, PasswordStored, EditStored,
               AccountDeleted, Refused, OrphanApplied, local
      <4> QED
        BY <4>1, <4>2
    <3>2. ~ProfileStored /\ ~PasswordStored /\ ~EditStored /\ ~AccountDeleted
      BY <1>d, <2>0, <2>2, <3>1 DEF ProfileStored, PasswordStored, EditStored, AccountDeleted, Front, Show
    <3>3. /\ sent' = Tail(sent) /\ userBox' = userBox
          /\ calls' = calls \/ \E e : e.at = "threw" /\ calls' = calls \cup {e}
      BY <1>4, <3>2 DEF Acknowledgement, RecordStored, Refused, OrphanApplied, local
    <3>4. \A n \in 1 .. Len(sent') : sent'[n].kind \in {"orphan", "record"} \/ sent'[n].here
      BY <1>a, <1>c, <2>0, <3>1, <3>3 DEF Waiting
    <3> QED
      BY <1>a, <3>1, <3>3, <3>4 DEF Waiting
  <2> QED
    BY <2>1, <2>2
<1>5. CASE OtherDevice
  <2>1. UNCHANGED <<screen, userBox, calls, sent>>
    BY <1>5 DEF OtherDevice, OtherSession, OtherRecord, OtherChange, OtherEdit, OtherDelete, local
  <2> QED
    BY <1>a, <2>1 DEF Waiting
<1>6. ~Kill
  BY DEF Kill
<1>7. CASE Sync
  BY <1>7, <1>a, <1>b, SyncIs, SyncBox DEF Waiting
<1> QED
  BY <1>1, <1>2, <1>3, <1>4, <1>5, <1>6, <1>7 DEF Next

\* On the sign-in screen the box has no user, so that the next start does not open a
\* session, unless a handler went on after its screen was left (authProvider.dart:120,
\* login_function.dart:53).
THEOREM LogoutIsLasting == Spec => []LogoutLasts
<1>1. Init => IInv /\ Entered
  BY InvInit DEF Init, Entered
<1>2. IInv /\ Entered /\ [Next]_vars => (IInv /\ Entered)'
  <2> SUFFICES ASSUME IInv, Entered, [Next]_vars PROVE IInv' /\ Entered'
    OBVIOUS
  <2>1. CASE Next
    BY <2>1, InvStep, EnteredStep
  <2>2. CASE UNCHANGED vars
    BY <2>2, InvStep DEF vars, local, cloud, Entered, Waiting, Left, Happened
  <2> QED
    BY <2>1, <2>2
<1>3. IInv /\ Entered => LogoutLasts
  BY NoHandlers DEF Entered, Waiting, LogoutLasts, Left, Handlers
<1> QED
  BY <1>1, <1>2, <1>3, PTL DEF Spec

-----------------------------------------------------------------------------
(* Whose records the lists hold.                                           *)

Out == Happened("out", 0)

\* The lists may hold another student's records.
Foreign == Out \/ mixed

\* Sign-ups and sign-ins are of the screen that is shown.
StayHere ==
  /\ \A c \in calls : c.kind \in {"signup", "login"} => c.here
  /\ \A n \in 1 .. Len(sent) : sent[n].kind = "fill" => sent[n].here

\* A change of password or profile is that of the session's user.
OfSession ==
  /\ \A c \in calls : c.at = "read" => InSession /\ c.id = user.id
  /\ \A c \in calls : c.at = "clear" => InSession /\ c.user.id = user.id
  /\ \A n \in 1 .. Len(sent) : sent[n].kind = "change" => InSession /\ sent[n].id = user.id

\* So is the box, from the moment that the sign-in has read the user.
SameUser ==
  InSession \/ (\E c \in calls : c.here /\ c.kind = "login" /\ c.at = "courses") =>
    Last(userBox).user # None /\ Last(userBox).user.id = user.id

\* The lists are empty when nobody is signed in, and otherwise those of the user that
\* is in the box, whichever of its images a kill leaves.
Owned ==
  /\ screen \in {"auth", "fill"} => Last(lists) = {}
  /\ Last(lists) # {} =>
       \A n \in 1 .. Len(userBox) :
         userBox[n].user # None /\ Last(lists) \subseteq {userBox[n].user.id}

Own == ~Left => StayHere /\ OfSession /\ SameUser /\ (~Foreign => Owned)

LEMMA LastImage ==
  ASSUME Types
  PROVE  Len(userBox) \in 1 .. Len(userBox) /\ Last(userBox) = userBox[Len(userBox)]
BY DEF Types, Last

\* Puts that keep the user of the box, or replace it by an image of the same one.
LEMMA OwnedKept ==
  ASSUME Types, Owned, UNCHANGED lists, screen' \in {"auth", "fill"} => screen' = screen,
         \A n \in 1 .. Len(userBox') :
           \/ \E m \in 1 .. Len(userBox) : userBox'[n].user = userBox[m].user
           \/ /\ userBox'[n].user # None
              /\ Last(userBox).user # None => userBox'[n].user.id = Last(userBox).user.id
  PROVE  Owned'
BY LastImage DEF Owned

LEMMA OwnStudent ==
  ASSUME IInv, Own, Student, ~Left', ~Left, Foreign => Foreign'
  PROVE  Own'
<1>a. StayHere /\ OfSession /\ SameUser /\ (~Foreign' => Owned)
  BY DEF Own
<1>b. Types /\ Single /\ Mounted /\ Sessions
  BY DEF IInv
<1>1. ASSUME NEW c \in GoodCall, calls' = calls \cup {c}, c.here, c.at \notin {"read", "courses"},
             c.at = "clear" => InSession /\ c.user.id = user.id,
             UNCHANGED <<screen, user, userBox, lists, sent>>
      PROVE  Own'
  <2>1. StayHere' /\ OfSession'
    BY <1>a, <1>1 DEF StayHere, OfSession, InSession
  <2>2. SameUser' /\ (~Foreign' => Owned')
    BY <1>a, <1>1 DEF SameUser, Owned, InSession
  <2> QED
    BY <2>1, <2>2 DEF Own
<1>2. ASSUME NEW w \in GoodWrite, sent' = Append(sent, w), w.kind = "fill" => w.here,
             w.kind = "change" => InSession /\ w.id = user.id,
             UNCHANGED <<screen, calls>>
      PROVE  /\ StayHere'
             /\ UNCHANGED user \/ ~InSession => OfSession'
  <2>1. /\ Len(sent) \in Nat /\ Len(sent') = Len(sent) + 1
        /\ (\A n \in 1 .. Len(sent) : sent'[n] = sent[n])
        /\ sent'[Len(sent) + 1] = w
    BY <1>b, <1>2, SentOne DEF Types
  <2>2. \A n \in 1 .. Len(sent') : n \in 1 .. Len(sent) \/ n = Len(sent) + 1
    BY <2>1
  <2>3. \A n \in 1 .. Len(sent') : sent'[n] = w \/ \E m \in 1 .. Len(sent) : sent'[n] = sent[m]
    BY <2>1, <2>2
  <2> QED
    BY <1>a, <1>2, <2>3 DEF StayHere, OfSession, InSession
<1>3. ASSUME NEW a \in Address, NEW cap \in BOOLEAN, NEW w \in Word, StartSignUp(a, cap, w)
      PROVE  Own'
  <2>1. PICK c : c = [kind |-> "signup", at |-> "lookup", address |-> a,
                      capitals |-> cap, word |-> w, here |-> TRUE]
    OBVIOUS
  <2>2. c \in GoodCall /\ c.here /\ c.at = "lookup"
    BY <2>1 DEF GoodCall, SignUpCall
  <2> QED
    BY <1>1, <1>3, <2>1, <2>2 DEF StartSignUp, Call, cloud
<1>4. ASSUME NEW course \in Course, SubmitProfile(course)
      PROVE  Own'
  <2>1. screen = "fill" /\ UNCHANGED <<screen, userBox, lists, calls>>
    BY <1>4 DEF SubmitProfile
  <2>2. PICK u : user' = u /\ u = [user EXCEPT !.pw = hashPassword(@), !.course = course]
    BY <1>4 DEF SubmitProfile
  <2>3. PICK w : w = [op |-> "set", id |-> u.id, doc |-> Document(u), kind |-> "fill", here |-> TRUE]
    OBVIOUS
  <2>4. sent' = Append(sent, w)
    BY <1>4, <2>2, <2>3 DEF SubmitProfile, Send
  <2>5. w \in GoodWrite
    <3>1. user \in User
      BY <1>b, <2>1 DEF Sessions
    <3>2. hashPassword(user.pw) \in Hashed
      BY <1>4, <3>1, HashIs DEF SubmitProfile, User
    <3> QED
      BY <2>2, <2>3, <3>1, <3>2 DEF GoodWrite, User, Filled, Document
  <2>6. ~InSession /\ ~InSession'
    BY <2>1 DEF InSession
  <2>7. StayHere' /\ OfSession'
    BY <1>2, <2>1, <2>3, <2>4, <2>5, <2>6
  <2>8. SameUser'
    BY <2>1, <2>6, Facts DEF SameUser
  <2>9. ~Foreign' => Owned'
    BY <1>a, <2>1 DEF Owned
  <2> QED
    BY <2>7, <2>8, <2>9 DEF Own
<1>5. ASSUME NEW a \in Address, NEW w \in Word, StartLogin(a, w)
      PROVE  Own'
  <2>1. PICK c : c = [kind |-> "login", at |-> "user", address |-> a, word |-> w, here |-> TRUE]
    OBVIOUS
  <2>2. c \in GoodCall /\ c.here /\ c.at = "user"
    BY <2>1 DEF GoodCall, LoginCall
  <2> QED
    BY <1>1, <1>5, <2>1, <2>2 DEF StartLogin, Call, cloud
<1>6. ASSUME NEW s \in {"change", "edit"}, Open(s)
      PROVE  Own'
  <2>1. InSession /\ InSession' /\ UNCHANGED <<user, userBox, lists, calls, sent>> /\ screen' \notin {"auth", "fill"}
    BY <1>6 DEF Open, InSession, cloud
  <2> QED
    BY <1>a, <2>1 DEF Own, StayHere, OfSession, SameUser, Owned
<1>7. CASE Leave
  <2>1. calls' = Unmounted(calls) /\ sent' = UnmountedWrites(sent) /\ UNCHANGED <<user, userBox, lists>>
    BY <1>7 DEF Leave
  <2>2. CASE screen \in {"auth", "fill"}
    <3>1. ~Handlers /\ screen' = "auth"
      BY <1>7, <2>2 DEF Leave, NoteIf, Note, Left, Happened
    <3>2. calls' = {} /\ \A n \in 1 .. Len(sent') : sent'[n].kind \in {"orphan", "record"}
      BY <2>1, <3>1, NoHandlers
    <3>3. Owned => Owned'
      BY <2>1, <2>2 DEF Owned
    <3> QED
      BY <1>a, <3>1, <3>2, <3>3 DEF Own, StayHere, OfSession, SameUser, InSession
  <2>3. CASE screen \in {"change", "edit"}
    <3>1. InSession /\ InSession' /\ screen' = "main"
      BY <1>7, <2>3 DEF Leave, InSession
    <3>2. \A c \in calls : c.kind \notin {"signup", "login"}
      BY <1>a, <1>b, <2>3 DEF StayHere, Mounted, ScreenOf
    <3>3. \A n \in 1 .. Len(sent) : sent[n].kind # "fill"
      BY <1>a, <1>b, <2>3 DEF StayHere, Mounted
    <3>4. ASSUME NEW e \in calls'
          PROVE  /\ ~e.here /\ e.kind \notin {"signup", "login"}
                 /\ e.at = "read" => e.id = user.id
                 /\ e.at = "clear" => e.user.id = user.id
      <4>1. PICK c \in calls : e = [c EXCEPT !.here = FALSE]
        BY <2>1 DEF Unmounted
      <4>2. c \in GoodCall
        BY Facts
      <4>3. ~e.here /\ e.kind = c.kind /\ e.at = c.at
        BY <4>1, <4>2, LeftCall
      <4>4. c.at = "read" => e.id = c.id
        BY <4>1, <4>2, CallShape DEF ReadCall
      <4>5. c.at = "clear" => e.user = c.user
        BY <4>1, <4>2, CallShape DEF ClearCall
      <4> QED
        BY <1>a, <3>2, <4>3, <4>4, <4>5 DEF OfSession
    <3>5. ASSUME NEW n \in 1 .. Len(sent')
          PROVE  sent'[n].kind # "fill" /\ (sent'[n].kind = "change" => sent'[n].id = user.id)
      <4>1. n \in 1 .. Len(sent) /\ sent'[n] = [sent[n] EXCEPT !.here = FALSE]
        BY <1>b, <2>1, LeftQueue DEF Types
      <4>2. sent'[n].kind = sent[n].kind /\ sent'[n].id = sent[n].id
        BY <4>1, Facts DEF GoodWrite
      <4> QED
        BY <1>a, <3>3, <4>1, <4>2 DEF OfSession
    <3>6. StayHere' /\ OfSession'
      BY <2>1, <3>1, <3>4, <3>5 DEF StayHere, OfSession
    <3>7. SameUser' /\ (~Foreign' => Owned')
      BY <1>a, <2>1, <3>1 DEF SameUser, Owned
    <3> QED
      BY <3>6, <3>7 DEF Own
  <2> QED
    BY <1>7, <2>2, <2>3 DEF Leave
<1>8. CASE Record
  <2>1. InSession /\ screen = "main" /\ user \in Member /\ user.id \in Id
    BY <1>8, <1>b DEF Record, InSession, Sessions, Member
  <2>2. PICK w : w = [op |-> "update", id |-> user.id, doc |-> Document(user),
                      kind |-> "record", here |-> FALSE]
    OBVIOUS
  <2>3. sent' = Append(sent, w) /\ UNCHANGED <<screen, user, calls>>
    BY <1>8, <2>2 DEF Record, Send
  <2>4. w \in GoodWrite
    BY <2>1, <2>2 DEF GoodWrite, Member, Filled, Document
  <2>5. StayHere' /\ OfSession'
    BY <1>2, <2>2, <2>3, <2>4
  <2>6. /\ Last(userBox').user = user
        /\ \A n \in 1 .. Len(userBox') :
             userBox'[n].user # None /\ userBox'[n].user.id = user.id
    <3>1. /\ Last(userBox') = [user |-> user, data |-> Last(userBox).data]
          /\ \A n \in 1 .. Len(userBox') :
               userBox'[n] \in {Last(userBox), [user |-> user, data |-> Last(userBox).data]}
      BY <1>8, <1>b, <2>1, UserSaved DEF Record
    <3>2. Last(userBox).user # None /\ Last(userBox).user.id = user.id
      BY <1>a, <2>1 DEF SameUser
    <3> QED
      BY <2>1, <3>1, <3>2, NoneApart
  <2>7. SameUser'
    BY <2>1, <2>3, <2>6, NoneApart DEF SameUser
  <2>8. ~Foreign' => Owned'
    <3> SUFFICES ASSUME Owned PROVE Owned'
      BY <1>a
    <3>1. Last(lists) \subseteq {user.id}
      BY <1>a, <1>b, <2>1, LastImage DEF Owned, SameUser
    <3>2. Last(lists') = {user.id}
      <4>1. Last(lists) \cup {user.id} \in SUBSET Id
        BY <2>1, <3>1
      <4>2. Last(lists') = Last(lists) \cup {user.id}
        BY <1>8, <1>b, <4>1, ListsSet DEF Record
      <4> QED
        BY <3>1, <4>2
    <3> QED
      BY <2>1, <2>3, <2>6, <3>2 DEF Owned
  <2> QED
    BY <2>5, <2>7, <2>8 DEF Own
<1>9. CASE Logout
  <2>1. ~Handlers /\ UNCHANGED <<calls, sent>> /\ screen' = "auth"
    BY <1>9, OverlapNoted DEF Logout, clearData, cloud
  <2>2. (\A c \in calls : c.at = "threw" /\ c.kind = "edit") /\ \A n \in 1 .. Len(sent) : sent[n].kind \in {"orphan", "record"}
    BY <2>1, NoHandlers, Facts, CallShape DEF ThrewCall
  <2>3. Last(lists') = {}
    BY <1>9, <1>b, ListsSet DEF Logout, clearData
  <2> QED
    BY <2>1, <2>2, <2>3 DEF Own, StayHere, OfSession, SameUser, Owned, InSession
<1>10. ASSUME NEW old \in Word, NEW new \in Word, StartChange(old, new)
       PROVE  Own'
  <2>1. InSession /\ user \in Member
    BY <1>10, <1>b DEF StartChange, InSession, Sessions
  <2>2. PICK w : w = [op |-> "password", id |-> user.id,
                      doc |-> [pw |-> hashPassword(<<new, 0>>), course |-> user.course],
                      kind |-> "change", here |-> TRUE]
    OBVIOUS
  <2>3. sent' = Append(sent, w) /\ UNCHANGED <<screen, user, calls, userBox, lists>>
    BY <1>10, <2>2 DEF StartChange, Send
  <2>4. w \in GoodWrite
    <3>1. user.pw[2] = 1 /\ user.pw \in Hashed
      BY <1>10, <2>1 DEF StartChange, hashPassword, Member
    <3>2. 1 \in 1 .. MaxHash
      BY <3>1 DEF Hashed
    <3>3. hashPassword(<<new, 0>>) \in Hashed
      BY <3>2 DEF Hashed, hashPassword
    <3> QED
      BY <2>1, <2>2, <3>3 DEF GoodWrite, Member, Filled
  <2>5. StayHere' /\ OfSession'
    BY <1>2, <2>1, <2>2, <2>3, <2>4
  <2>6. SameUser' /\ (~Foreign' => Owned')
    BY <1>a, <2>3 DEF SameUser, Owned, InSession
  <2> QED
    BY <2>5, <2>6 DEF Own
<1>11. ASSUME NEW course \in Course, StartEdit(course)
       PROVE  Own'
  <2>1. InSession /\ user \in Member
    BY <1>11, <1>b DEF StartEdit, InSession, Sessions
  <2>2. PICK c : c = [kind |-> "edit", at |-> "clear", user |-> [user EXCEPT !.course = course],
                      here |-> TRUE]
    OBVIOUS
  <2>3. c \in GoodCall /\ c.here /\ c.at = "clear" /\ c.user.id = user.id
    BY <2>1, <2>2 DEF GoodCall, ClearCall, Member
  <2> QED
    BY <1>1, <1>11, <2>1, <2>2, <2>3 DEF StartEdit, Call, cloud
<1>12. CASE StartDelete
  <2>1. InSession /\ user \in Member
    BY <1>12, <1>b DEF StartDelete, InSession, Sessions
  <2>2. PICK w : w = [op |-> "delete", id |-> user.id, doc |-> Document(user),
                      kind |-> "delete", here |-> TRUE]
    OBVIOUS
  <2>3. sent' = Append(sent, w) /\ UNCHANGED <<screen, user, calls, userBox, lists>>
    BY <1>12, <2>2 DEF StartDelete, Send
  <2>4. w \in GoodWrite
    BY <2>1, <2>2 DEF GoodWrite, Member, Filled, Document
  <2>5. StayHere' /\ OfSession'
    BY <1>2, <2>2, <2>3, <2>4
  <2>6. SameUser' /\ (~Foreign' => Owned')
    BY <1>a, <2>3 DEF SameUser, Owned, InSession
  <2> QED
    BY <2>5, <2>6 DEF Own
<1> QED
  BY <1>3, <1>4, <1>5, <1>6, <1>7, <1>8, <1>9, <1>10, <1>11, <1>12 DEF Student

LEMMA OwnAnswer ==
  ASSUME IInv, Own, Answer, ~Left', ~Left, Foreign => Foreign'
  PROVE  Own'
<1>a. StayHere /\ OfSession /\ SameUser /\ (~Foreign' => Owned)
  BY DEF Own
<1>b. Types /\ Single /\ Mounted /\ Sessions
  BY DEF IInv
<1>0. PICK c \in calls : \/ LookedUp(c) \/ UserRead(c) \/ CoursesRead(c)
                         \/ QueryFails(c) \/ PasswordRead(c) \/ Cleared(c)
  BY DEF Answer
<1>c. c \in GoodCall
  BY Facts
\* A sign-up or sign-in is shown, and there is no session.
<1>d. ASSUME c.kind \in {"signup", "login"}
      PROVE  c.here /\ screen = "auth" /\ ~InSession /\ \A e \in calls \ {c} : ~e.here
  BY <1>a, <1>b, <1>d DEF StayHere, Mounted, ScreenOf, Single, InSession
<1>q. sent \in Seq(GoodWrite)
  BY <1>b DEF Types
<1>1. ASSUME calls' = calls \ {c}, sent' = sent \/ (c.here /\ sent' = UnmountedWrites(sent))
      PROVE  StayHere'
  <2>1. CASE sent' = sent
    BY <1>a, <1>1, <2>1 DEF StayHere
  <2>2. CASE c.here /\ sent' = UnmountedWrites(sent)
    <3>1. \A n \in 1 .. Len(sent') : n \in 1 .. Len(sent) /\ sent'[n].kind = sent[n].kind
      BY <1>q, <2>2, QueueLeft
    <3>2. \A n \in 1 .. Len(sent) : sent[n].kind # "fill"
      BY <1>a, <1>b, <2>2 DEF StayHere, Single
    <3> QED
      BY <1>a, <1>1, <3>1, <3>2 DEF StayHere
  <2> QED
    BY <1>1, <2>1, <2>2
<1>2. ASSUME calls' = calls \ {c}, sent' = sent \/ sent' = UnmountedWrites(sent),
             InSession => InSession' /\ user'.id = user.id
      PROVE  OfSession'
  <2>1. \A n \in 1 .. Len(sent') :
          n \in 1 .. Len(sent) /\ sent'[n].kind = sent[n].kind /\ sent'[n].id = sent[n].id
    BY <1>q, <1>2, QueueLeft
  <2> QED
    BY <1>a, <1>2, <2>1 DEF OfSession
<1>3. CASE LookedUp(c)
  <2>1. calls' = calls \ {c} /\ UNCHANGED <<userBox, lists, sent>>
        /\ (UNCHANGED <<user, screen>> \/ screen' = "fill")
    BY <1>3 DEF LookedUp, Answered, cloud
  <2>2. c.kind = "signup"
    BY <1>3, <1>c, CallShape DEF LookedUp, SignUpCall
  <2>3. \A e \in calls' : ~e.here
    BY <1>d, <2>1, <2>2
  <2>4. ~InSession /\ ~InSession' /\ screen = "auth"
    BY <1>d, <2>1, <2>2 DEF InSession
  <2>5. SameUser' /\ (~Foreign' => Owned')
    BY <1>a, <2>1, <2>3, <2>4 DEF SameUser, Owned
  <2> QED
    BY <1>1, <1>2, <2>1, <2>4, <2>5 DEF Own
<1>4. CASE UserRead(c)
  <2>1. c.kind = "login" /\ c.at = "user"
    BY <1>4, <1>c, CallShape DEF UserRead, LoginCall
  <2>2. c.here /\ screen = "auth" /\ ~InSession /\ ~InSession' /\ UNCHANGED <<screen, lists, sent>>
    BY <1>4, <1>d, <2>1 DEF UserRead, InSession, cloud
  <2>3. CASE Answered(c) /\ UNCHANGED <<user, userBox>>
    <3>1. SameUser' /\ (~Foreign' => Owned')
      BY <1>a, <2>2, <2>3 DEF SameUser, Owned, Answered
    <3> QED
      BY <1>1, <1>2, <2>2, <2>3, <3>1 DEF Own, Answered
  <2>4. ASSUME NEW i \in Having(c.address),
               userBox' = saveUser(Box, UserOf(i, stored[i])),
               user' = UserOf(i, stored[i]),
               calls' = (calls \ {c}) \cup
                 {[kind |-> "login", at |-> "courses", course |-> stored[i].course, here |-> c.here]}
        PROVE  Own'
    <3>1. UserOf(i, stored[i]) \in Member
      BY <1>b, StoredIs DEF Having
    <3>2. Last(userBox').user = user' /\ user' # None
      BY <1>b, <2>4, <3>1, UserSaved, NoneApart
    <3>3. PICK e : /\ calls' = (calls \ {c}) \cup {e}
                   /\ e.kind = "login" /\ e.here /\ e.at = "courses"
      <4>1. PICK e : e = [kind |-> "login", at |-> "courses", course |-> stored[i].course, here |-> c.here]
        OBVIOUS
      <4>2. c.here = TRUE
        BY <1>c, <2>2, CallShape
      <4>3. e.kind = "login" /\ e.here = TRUE /\ e.at = "courses"
        BY <4>1, <4>2
      <4> QED
        BY <2>4, <4>1, <4>3
    <3>4. StayHere' /\ OfSession'
      BY <1>a, <2>2, <3>3 DEF StayHere, OfSession
    <3>5. ~Foreign' => Owned'
      BY <1>a, <2>2 DEF Owned
    <3> QED
      BY <3>2, <3>4, <3>5 DEF Own, SameUser
  <2> QED
    BY <1>4, <2>3, <2>4 DEF UserRead
<1>5. CASE CoursesRead(c)
  <2>1. c \in CourseCall /\ c.kind \in {"login", "edit"} /\ c.at = "courses" /\ c.course \in Course
    BY <1>5, <1>c, CallShape DEF CoursesRead, CourseCall
  <2>2. calls' = calls \ {c} /\ UNCHANGED <<user, lists>>
        /\ (screen' = screen \/ (c.here /\ screen' = "main"))
        /\ (sent' = sent \/ (c.here /\ sent' = UnmountedWrites(sent)))
    BY <1>5 DEF CoursesRead, Answered, Show
  <2>3. /\ Last(userBox').user = Last(userBox).user
        /\ \A n \in 1 .. Len(userBox') : userBox'[n].user = Last(userBox).user
    <3>1. /\ Last(userBox') = [user |-> Last(userBox).user, data |-> c.course]
          /\ \A n \in 1 .. Len(userBox') :
               userBox'[n] \in {Last(userBox), [user |-> Last(userBox).user, data |-> c.course]}
      BY <1>5, <1>b, <2>1, DataSaved DEF CoursesRead
    <3> QED
      BY <3>1
  <2>4. c.here => SameUser' /\ (InSession => InSession')
    <3>1. c.here /\ c.kind = "edit" => InSession
      BY <1>b DEF Mounted, ScreenOf, InSession
    <3>2. c.here => Last(userBox).user # None /\ Last(userBox).user.id = user.id
      BY <1>a, <2>1, <3>1 DEF SameUser
    <3>3. InSession => InSession'
      BY <2>2 DEF InSession
    <3> QED
      BY <2>2, <2>3, <3>2, <3>3 DEF SameUser
  <2>5. ~c.here => SameUser' /\ (InSession => InSession')
    BY <1>a, <2>2, <2>3 DEF SameUser, InSession
  <2>6. ~Foreign' => Owned'
    BY <1>a, <1>b, <2>2, <2>3, OwnedKept, LastImage
  <2> QED
    BY <1>1, <1>2, <2>2, <2>4, <2>5, <2>6 DEF Own
<1>6. CASE QueryFails(c)
  <2>1. calls' = calls \ {c} /\ UNCHANGED <<screen, user, userBox, lists, sent>>
    BY <1>6 DEF QueryFails, Answered, cloud
  <2>2. SameUser' /\ (~Foreign' => Owned') /\ (InSession => InSession')
    BY <1>a, <2>1 DEF SameUser, Owned, InSession
  <2> QED
    BY <1>1, <1>2, <2>1, <2>2 DEF Own
<1>7. CASE PasswordRead(c)
  <2>1. c.id \in Id /\ InSession /\ c.id = user.id
    BY <1>7, <1>a, <1>c, CallShape DEF PasswordRead, ReadCall, OfSession
  <2>2. PICK u : u = UserOf(c.id, stored[c.id])
    OBVIOUS
  <2>3. u \in Member /\ u.id = user.id /\ user' = u /\ userBox' = saveUser(Box, u)
    BY <1>7, <1>b, <2>1, <2>2, StoredIs, UserOfIs DEF PasswordRead
  <2>4. calls' = calls \ {c} /\ UNCHANGED <<lists, sent>> /\ screen' \in {screen, "main"}
    BY <1>7 DEF PasswordRead, Answered, cloud, Show
  <2>5. /\ Last(userBox') = [user |-> u, data |-> Last(userBox).data]
        /\ \A n \in 1 .. Len(userBox') :
             userBox'[n] \in {Last(userBox), [user |-> u, data |-> Last(userBox).data]}
    BY <1>b, <2>3, UserSaved
  <2>6. Last(userBox).user # None /\ Last(userBox).user.id = u.id /\ u # None
    BY <1>a, <2>1, <2>3, NoneApart DEF SameUser
  <2>7. InSession'
    BY <2>1, <2>4 DEF InSession
  <2>8. SameUser'
    BY <2>3, <2>5, <2>6 DEF SameUser
  <2>9. ~Foreign' => Owned'
    <3>1. \A n \in 1 .. Len(userBox') : userBox'[n].user # None /\ userBox'[n].user.id = Last(userBox).user.id
      BY <2>5, <2>6
    <3>2. screen' \notin {"auth", "fill"}
      BY <2>7 DEF InSession
    <3> QED
      BY <1>a, <1>b, <2>4, <3>1, <3>2, OwnedKept
  <2> QED
    BY <1>1, <1>2, <2>3, <2>4, <2>7, <2>8, <2>9 DEF Own
<1>8. CASE Cleared(c)
  <2>1. c.user \in Member /\ InSession /\ c.user.id = user.id
    BY <1>8, <1>a, <1>c, CallShape DEF Cleared, ClearCall, OfSession
  <2>2. PICK u : u = c.user
    OBVIOUS
  <2>3. u \in Member /\ u.id = user.id /\ user' = u /\ userBox' = saveUser(Box, u)
    BY <1>8, <2>1, <2>2 DEF Cleared
  <2>4. calls' = calls \ {c} /\ UNCHANGED <<lists, screen>>
    BY <1>8 DEF Cleared, Answered
  <2>5. /\ Last(userBox') = [user |-> u, data |-> Last(userBox).data]
        /\ \A n \in 1 .. Len(userBox') :
             userBox'[n] \in {Last(userBox), [user |-> u, data |-> Last(userBox).data]}
    BY <1>b, <2>3, UserSaved
  <2>6. Last(userBox).user # None /\ Last(userBox).user.id = u.id /\ u # None
    BY <1>a, <2>1, <2>3, NoneApart DEF SameUser
  <2>7. InSession'
    BY <2>1, <2>4 DEF InSession
  <2>8. SameUser'
    BY <2>3, <2>5, <2>6 DEF SameUser
  <2>9. ~Foreign' => Owned'
    <3>1. \A n \in 1 .. Len(userBox') : userBox'[n].user # None /\ userBox'[n].user.id = Last(userBox).user.id
      BY <2>5, <2>6
    <3> QED
      BY <1>a, <1>b, <2>4, <3>1, OwnedKept
  <2>10. PICK w : sent' = Append(sent, w) /\ w.kind = "edit" /\ w \in GoodWrite
    <3>1. PICK w : w = [op |-> "update", id |-> c.user.id, doc |-> Document(c.user),
                        kind |-> "edit", here |-> c.here]
      OBVIOUS
    <3>2. sent' = Append(sent, w)
      BY <1>8, <3>1 DEF Cleared, Send
    <3>3. w \in GoodWrite
      <4>1. c.here \in BOOLEAN
        BY <1>c, CallShape
      <4> QED
        BY <2>1, <3>1, <4>1 DEF GoodWrite, Member, Filled, Document
    <3> QED
      BY <3>1, <3>2, <3>3
  <2>11. \A n \in 1 .. Len(sent') : sent'[n] = w \/ \E m \in 1 .. Len(sent) : sent'[n] = sent[m]
    <3>1. /\ Len(sent) \in Nat /\ Len(sent') = Len(sent) + 1
          /\ (\A n \in 1 .. Len(sent) : sent'[n] = sent[n])
          /\ sent'[Len(sent) + 1] = w
      BY <1>b, <2>10, SentOne DEF Types
    <3>2. \A n \in 1 .. Len(sent') : n \in 1 .. Len(sent) \/ n = Len(sent) + 1
      BY <3>1
    <3> QED
      BY <3>1, <3>2
  <2>12. StayHere' /\ OfSession'
    BY <1>a, <2>3, <2>4, <2>7, <2>10, <2>11 DEF StayHere, OfSession
  <2> QED
    BY <2>8, <2>9, <2>12 DEF Own
<1> QED
  BY <1>0, <1>3, <1>4, <1>5, <1>6, <1>7, <1>8

LEMMA OwnAcknowledgement ==
  ASSUME IInv, Own, Acknowledgement, ~Left', ~Left, Foreign => Foreign'
  PROVE  Own'
<1>a. StayHere /\ OfSession /\ SameUser /\ (~Foreign' => Owned)
  BY DEF Own
<1>b. Types /\ Single /\ Mounted /\ Sessions
  BY DEF IInv
<1>0. sent # <<>>
  BY DEF Acknowledgement, ProfileStored, RecordStored, PasswordStored, EditStored,
         AccountDeleted, Refused, OrphanApplied, Front
<1>c. /\ Head(sent) = sent[1] /\ 1 \in 1 .. Len(sent) /\ Head(sent) \in GoodWrite
      /\ \A n \in 1 .. Len(Tail(sent)) : \E m \in 1 .. Len(sent) : Tail(sent)[n] = sent[m]
  BY <1>0, <1>b, FrontOf DEF Types
<1> DEFINE w == Head(sent)
\* What most of them change: the write is gone, and a call may be there.
<1>1. ASSUME sent' = Tail(sent),
             calls' = calls \/ \E e : /\ calls' = calls \cup {e}
                                      /\ e.kind \notin {"signup", "login"} /\ e.at # "clear"
                                      /\ e.at = "read" => InSession /\ e.id = user.id,
             UNCHANGED <<screen, user, userBox, lists>>
      PROVE  Own'
  <2>1. StayHere' /\ OfSession'
    BY <1>a, <1>c, <1>1 DEF StayHere, OfSession, InSession
  <2>2. SameUser' /\ (~Foreign' => Owned')
    BY <1>a, <1>1 DEF SameUser, Owned, InSession
  <2> QED
    BY <2>1, <2>2 DEF Own
<1>2. CASE ProfileStored
  <2>1. w.here /\ screen = "fill" /\ ~InSession
    BY <1>2, <1>a, <1>b, <1>c DEF ProfileStored, StayHere, Mounted, InSession
  <2>2. PICK u : u = UserOf(w.id, w.doc)
    OBVIOUS
  <2>3. u \in Member /\ u # None
    <3>1. w.id \in Id /\ w.doc \in Filled
      BY <1>c DEF GoodWrite
    <3> QED
      BY <2>2, <3>1, UserOfIs, NoneApart
  <2>4. /\ sent' = Tail(sent) /\ userBox' = saveCourseData(saveUser(Box, u), u.course) /\ user' = u
        /\ screen' = "main" /\ UNCHANGED <<lists, calls>>
    BY <1>2, <2>1, <2>2 DEF ProfileStored, Show
  <2>5. Last(userBox').user = u
    BY <1>b, <2>3, <2>4, BothSaved DEF Member
  <2>6. Last(lists) = {} \/ Foreign'
    BY <1>a, <2>1 DEF Owned
  <2>7. StayHere' /\ OfSession'
    BY <1>a, <1>c, <2>1, <2>4 DEF StayHere, OfSession
  <2> QED
    BY <2>3, <2>4, <2>5, <2>6, <2>7 DEF Own, SameUser, Owned
<1>3. CASE RecordStored \/ OrphanApplied
  BY <1>1, <1>3 DEF RecordStored, OrphanApplied, local
<1>4. CASE PasswordStored
  <2>1. PICK e : e = [kind |-> "change", at |-> "read", id |-> w.id, here |-> w.here]
    OBVIOUS
  <2>2. calls' = calls \cup {e} /\ sent' = Tail(sent) /\ UNCHANGED <<screen, user, userBox, lists>>
    BY <1>4, <2>1 DEF PasswordStored, Call
  <2>3. InSession /\ w.id = user.id
    BY <1>4, <1>a, <1>c DEF PasswordStored, Front, OfSession
  <2> QED
    BY <1>1, <2>1, <2>2, <2>3
<1>5. CASE EditStored
  <2>1. PICK e : e = [kind |-> "edit", at |-> "courses", course |-> w.doc.course, here |-> w.here]
    OBVIOUS
  <2>2. calls' = calls \cup {e} /\ sent' = Tail(sent) /\ UNCHANGED <<screen, user, userBox, lists>>
    BY <1>5, <2>1 DEF EditStored, Call
  <2> QED
    BY <1>1, <2>1, <2>2
<1>6. CASE AccountDeleted
  <2>1. CASE w.here
    <3>1. calls = {} /\ ~(Len(sent) > 1) /\ clearData
      BY <1>6, <2>1 DEF AccountDeleted, Note, Left, Happened
    <3>2. calls' = {}
      BY <1>6, <2>1, <3>1 DEF AccountDeleted, Unmounted
    <3>3. sent' = UnmountedWrites(Tail(sent))
      BY <1>6, <2>1 DEF AccountDeleted
    <3>4. Len(sent') = 0
      <4>1. Tail(sent) \in Seq(GoodWrite) /\ Len(sent) \in Nat /\ Len(Tail(sent)) = Len(sent) - 1
        BY <1>b, <1>0, FrontOf DEF Types
      <4>2. Len(Tail(sent)) = 0
        BY <1>c, <3>1, <4>1
      <4> QED
        BY <3>3, <4>1, <4>2, LeftQueue
    <3>5. screen' = "auth" /\ Last(lists') = {}
      BY <1>b, <3>1, ListsSet DEF clearData
    <3> QED
      BY <3>2, <3>4, <3>5 DEF Own, StayHere, OfSession, SameUser, Owned, InSession
  <2>2. CASE ~w.here
    BY <1>1, <1>6, <2>2 DEF AccountDeleted
  <2> QED
    BY <2>1, <2>2
<1>7. CASE Refused
  <2>1. sent' = Tail(sent) /\ UNCHANGED <<screen, user, userBox, lists>>
    BY <1>7 DEF Refused
  <2>2. calls' = calls \/ calls' = calls \cup {[kind |-> "edit", at |-> "threw", here |-> TRUE]}
    BY <1>7 DEF Refused
  <2>3. PICK e : e = [kind |-> "edit", at |-> "threw", here |-> TRUE]
    OBVIOUS
  <2>4. e.kind = "edit" /\ e.at = "threw" /\ (calls' = calls \/ calls' = calls \cup {e})
    BY <2>2, <2>3
  <2> QED
    BY <1>1, <2>1, <2>4
<1> QED
  BY <1>2, <1>3, <1>4, <1>5, <1>6, <1>7 DEF Acknowledgement

LEMMA OwnRest ==
  ASSUME IInv, Own, Restore \/ Kill \/ OtherDevice, ~Left', ~Left, Foreign => Foreign'
  PROVE  Own'
<1>a. StayHere /\ OfSession /\ SameUser /\ (~Foreign' => Owned)
  BY DEF Own
<1>b. Types /\ Single /\ Mounted /\ Sessions
  BY DEF IInv
<1>1. CASE Restore
  <2>1. calls = {} /\ \A n \in 1 .. Len(sent) : sent[n].kind = "orphan"
    BY <1>1, <1>b DEF Restore, Sessions
  <2>2. /\ user' = Last(userBox).user /\ screen' \in {"auth", "stuck", "main"}
        /\ screen' = "main" => user' # None
        /\ screen' = "auth" => user' = None
        /\ UNCHANGED <<userBox, lists, calls, sent>>
    BY <1>1 DEF Restore, cloud
  <2>3. StayHere' /\ OfSession' /\ SameUser'
    BY <2>1, <2>2 DEF StayHere, OfSession, SameUser, InSession
  <2>4. ~Foreign' => Owned'
    BY <1>a, <1>b, <2>2, LastImage DEF Owned
  <2> QED
    BY <2>3, <2>4 DEF Own
<1>2. CASE Kill
  <2>1. PICK n \in 1 .. Len(userBox), m \in 1 .. Len(lists) :
          /\ userBox' = <<userBox[n]>> /\ lists' = <<lists[m]>>
          /\ m < Len(lists) => Out'
    BY <1>2 DEF Kill, Note, Out, Happened
  <2>2. calls' = {} /\ screen' = "splash"
    BY <1>2 DEF Kill
  <2>3. \A k \in 1 .. Len(sent') : sent'[k].kind = "orphan"
    <3>1. PICK k \in 0 .. Len(sent) : sent' = Orphans(sent, k)
      BY <1>2 DEF Kill, Orphans
    <3>2. /\ Len(sent') = k
          /\ \A j \in 1 .. k : /\ sent'[j] = [sent[j] EXCEPT !.kind = "orphan", !.here = FALSE]
                              /\ j \in 1 .. Len(sent)
      <4>1. sent \in Seq(GoodWrite)
        BY <1>b DEF Types
      <4>2. /\ Len(Orphans(sent, k)) = k
            /\ \A j \in 1 .. k :
                 /\ Orphans(sent, k)[j] = [sent[j] EXCEPT !.kind = "orphan", !.here = FALSE]
                 /\ j \in 1 .. Len(sent)
        BY <4>1, OrphanQueue
      <4> QED
        BY <3>1, <4>2, Zenon
    <3>3. \A j \in 1 .. Len(sent) : [sent[j] EXCEPT !.kind = "orphan", !.here = FALSE].kind = "orphan"
      BY Facts DEF GoodWrite
    <3> QED
      BY <3>2, <3>3
  <2>4. StayHere' /\ OfSession' /\ SameUser'
    BY <2>2, <2>3 DEF StayHere, OfSession, SameUser, InSession
  <2>5. ~Foreign' => Owned'
    <3> SUFFICES ASSUME ~Foreign', Owned PROVE Owned'
      BY <1>a
    <3>0. ~Out'
      BY DEF Foreign
    <3>1. m = Len(lists)
      <4>1. Len(lists) \in Nat
        <5>1. PICK S : S = SUBSET Id
          OBVIOUS
        <5>2. lists \in Seq(S)
          BY <1>b, <5>1 DEF Types
        <5> QED
          BY <5>2
      <4> QED
        BY <2>1, <3>0, <4>1
    <3>2. Last(lists') = Last(lists)
      BY <2>1, <3>1 DEF Last
    <3>3. \A k \in 1 .. Len(userBox') : userBox'[k] = userBox[n]
      BY <2>1
    <3> QED
      BY <2>1, <2>2, <3>2, <3>3 DEF Owned
  <2> QED
    BY <2>4, <2>5 DEF Own
<1>3. CASE OtherDevice
  <2>1. UNCHANGED <<screen, user, userBox, lists, calls, sent>>
    BY <1>3 DEF OtherDevice, OtherSession, OtherRecord, OtherChange, OtherEdit, OtherDelete, local
  <2> QED
    BY <1>a, <2>1 DEF Own, StayHere, OfSession, SameUser, Owned, InSession
<1> QED
  BY <1>1, <1>2, <1>3

LEMMA OwnSync ==
  ASSUME IInv, Own, Sync, ~Left', ~Left, Foreign => Foreign'
  PROVE  Own'
<1>a. StayHere /\ OfSession /\ SameUser /\ (~Foreign' => Owned)
  BY DEF Own
<1>b. Types
  BY DEF IInv
<1>1. StayHere' /\ OfSession'
  BY <1>a, SyncIs DEF StayHere, OfSession, InSession
<1>2. SameUser'
  BY <1>a, <1>b, SyncIs, SyncBox DEF SameUser, InSession
<1>3. ASSUME ~Foreign' PROVE Owned'
  <2>1. CASE UNCHANGED <<lists, userBox>>
    BY <1>a, <1>3, <2>1, SyncIs DEF Owned
  <2>2. ASSUME NEW s \in syncs, NEW owners \in SUBSET (Last(lists) \cup {s.id}),
               SetLists(owners), userBox' = Box,
               mixed' = (mixed \/ ~InSession \/ user.id # s.id)
        PROVE  Owned'
    <3>1. InSession /\ user.id = s.id
      BY <1>3, <2>2 DEF Foreign
    <3>2. Last(userBox).user # None /\ Last(userBox).user.id = user.id
      BY <1>a, <3>1 DEF SameUser
    <3>3. Last(lists) \subseteq {user.id}
      BY <1>a, <1>b, <1>3, <3>2, LastImage DEF Owned
    <3>4. Last(lists') = owners /\ owners \subseteq {user.id}
      BY <2>2, <3>1, <3>3 DEF SetLists, Last
    <3>5. \A n \in 1 .. Len(userBox') : userBox'[n] = Last(userBox)
      BY <1>b, <2>2, BoxIs
    <3>6. screen' \notin {"auth", "fill"}
      BY <3>1, SyncIs DEF InSession
    <3> QED
      BY <3>2, <3>4, <3>5, <3>6 DEF Owned
  <2> QED
    BY <2>1, <2>2, SyncIs
<1> QED
  BY <1>1, <1>2, <1>3 DEF Own

LEMMA OwnStep ==
  ASSUME IInv, Own, Next
  PROVE  Own'
<1> SUFFICES ASSUME ~Left' PROVE Own'
  BY DEF Own
<1>1. ~Left
  BY LeftStays
<1>2. Foreign => Foreign'
  <2>1. mixed => mixed'
    BY SyncIs, SyncsElsewhere
  <2> QED
    BY <2>1, HistoryGrows DEF Foreign, Out, Happened
<1> QED
  BY <1>1, <1>2, OwnStudent, OwnAnswer, OwnAcknowledgement, OwnRest, OwnSync DEF Next

\* The lists in a session are those of its user, unless a log-out did not reach the
\* disk (authProvider.dart:124), a sign-in went on after its screen was left, or a sync
\* of an earlier session was answered (upload_function.dart:40).
THEOREM ListsAreOwn == Spec => []OwnLists
<1>1. Init => IInv /\ Own
  BY InvInit DEF Init, Own, StayHere, OfSession, SameUser, Owned, InSession, Last
<1>2. IInv /\ Own /\ [Next]_vars => (IInv /\ Own)'
  <2> SUFFICES ASSUME IInv, Own, [Next]_vars PROVE IInv' /\ Own'
    OBVIOUS
  <2>1. CASE Next
    BY <2>1, InvStep, OwnStep
  <2>2. CASE UNCHANGED vars
    BY <2>2, InvStep DEF vars, local, syncing, cloud, Own, StayHere, OfSession, SameUser, Owned,
                         InSession, Left, Foreign, Out, Happened
  <2> QED
    BY <2>1, <2>2
<1>3. IInv /\ Own => OwnLists
  <2> SUFFICES ASSUME IInv, Own, ~Left, ~Foreign, screen = "main"
               PROVE  Last(lists) \subseteq {user.id}
    BY DEF OwnLists, Left, Foreign, Out
  <2>1. Last(userBox).user.id = user.id
    BY DEF Own, SameUser, InSession
  <2>2. Types
    BY DEF IInv
  <2> QED
    BY <2>1, <2>2, LastImage DEF Own, Owned
<1> QED
  BY <1>1, <1>2, <1>3, PTL DEF Spec

-----------------------------------------------------------------------------
(* What is deleted stays deleted.                                          *)

Deleted(i) == Happened("deleted", i)
Again(i) == Happened("again", i)

\* The profiles of account i that are on their way to the cloud.
Sets(i) == {n \in 1 .. Len(sent) : sent[n].op = "set" /\ sent[n].id = i}

\* The account is signing up: its profile was not submitted yet.
Fresh(i) == user # None /\ user.id = i /\ user.pw[2] = 0

UserIs(i) == user # None /\ user.id = i

\* The profile was stored: something has the account that only has stored ones.
Known(i) ==
  \/ Deleted(i)
  \/ stored[i] # None
  \/ other # None /\ other.id = i
  \/ \E n \in 1 .. Len(sent) : sent[n].op = "delete" /\ sent[n].id = i
  \/ \E n \in 1 .. Len(userBox) : userBox[n].user # None /\ userBox[n].user.id = i
  \/ \E c \in calls : c.at = "clear" /\ c.user.id = i
  \/ InSession /\ user.id = i
  \/ (\E c \in calls : c.here /\ c.at = "courses") /\ user.id = i

\* A profile is submitted once, before the account is known.
Once(i) ==
  /\ \A n, m \in Sets(i) : n = m
  /\ Sets(i) # {} => ~Fresh(i) /\ ~Known(i)
  /\ Fresh(i) => ~Known(i)
  /\ Deleted(i) => stored[i] = None

\* No account is known before its identifier is given out.
Given(i) == Known(i) \/ Sets(i) # {} \/ UserIs(i) => i <= ids

\* What most steps do to an account.
Quiet(i) ==
  /\ Known(i)' => Known(i)
  /\ Fresh(i)' => Fresh(i)
  /\ UserIs(i)' => UserIs(i) \/ Known(i)
  /\ \E d \in {0, 1} : \A n \in 1 .. Len(sent') :
       sent'[n].op = "set" /\ sent'[n].id = i => n + d \in Sets(i)
  /\ stored'[i] = None \/ (stored[i] # None /\ (Deleted(i)' => Deleted(i)))
  /\ ids' \in Nat /\ ids <= ids'

Brief(i) == Given(i) /\ (Again(i) \/ Once(i))

LEMMA AgainStays ==
  ASSUME Next, NEW i, Again(i)
  PROVE  Again(i)'
BY HistoryGrows DEF Again, Happened

LEMMA QuietStep ==
  ASSUME IInv, Next, NEW i \in Id, Brief(i), Quiet(i)
  PROVE  Brief(i)'
<1>1. PICK d \in {0, 1} : \A n \in Sets(i)' : n + d \in Sets(i)
  BY DEF Quiet, Sets
<1>2. Sets(i)' # {} => Sets(i) # {}
  BY <1>1
<1>3. Given(i)'
  <2>1. Known(i)' \/ Sets(i)' # {} \/ UserIs(i)' => i <= ids
    BY <1>2 DEF Brief, Given, Quiet
  <2>2. ids \in Nat /\ ids' \in Nat /\ ids <= ids' /\ i \in Nat
    BY SessionAssumption DEF Quiet, IInv, Types, Id
  <2> QED
    BY <2>1, <2>2 DEF Given
<1>4. ASSUME Once(i) PROVE Once(i)'
  <2>1. (\A n, m \in Sets(i) : n = m)'
    <3>1. \A n \in Sets(i)' : n \in Nat
      BY InvStep DEF Sets
    <3>2. \A n, m \in Sets(i)' : n + d = m + d
      BY <1>1, <1>4 DEF Once
    <3> QED
      BY <3>1, <3>2
  <2>2. Sets(i)' # {} => ~Fresh(i)' /\ ~Known(i)'
    BY <1>2, <1>4 DEF Once, Quiet
  <2>3. Fresh(i)' => ~Known(i)'
    BY <1>4 DEF Once, Quiet
  <2>4. Deleted(i)' => stored'[i] = None
    BY <1>4 DEF Once, Quiet
  <2> QED
    BY <2>1, <2>2, <2>3, <2>4 DEF Once
<1> QED
  BY <1>3, <1>4, AgainStays DEF Brief

\* A queue whose writes were there before, but for one that stores no new profile.
Follows ==
  \E d \in {0, 1} : \A n \in 1 .. Len(sent') :
    \/ /\ n + d \in 1 .. Len(sent)
       /\ sent'[n].op = sent[n + d].op /\ sent'[n].id = sent[n + d].id
    \/ sent'[n].op \in {"update", "password"}
    \/ sent'[n].op = "delete" /\ InSession /\ sent'[n].id = user.id

LEMMA Queues ==
  ASSUME Types,
         \/ sent' = sent
         \/ sent' = UnmountedWrites(sent)
         \/ sent # <<>> /\ sent' \in {Tail(sent), UnmountedWrites(Tail(sent))}
         \/ \E k \in 0 .. Len(sent) : sent' = Orphans(sent, k)
         \/ \E w \in GoodWrite : /\ sent' = Append(sent, w) /\ w.op # "set"
                                 /\ w.op = "delete" => InSession /\ w.id = user.id
  PROVE  Follows
<1>a. sent \in Seq(GoodWrite) /\ Len(sent) \in Nat /\ \A n \in 1 .. Len(sent) : sent[n] \in GoodWrite
  BY DEF Types
<1>b. \A w \in GoodWrite : /\ [w EXCEPT !.here = FALSE].op = w.op
                           /\ [w EXCEPT !.here = FALSE].id = w.id
                           /\ [w EXCEPT !.kind = "orphan", !.here = FALSE].op = w.op
                           /\ [w EXCEPT !.kind = "orphan", !.here = FALSE].id = w.id
                           /\ w.op \in {"set", "update", "password", "delete"}
  BY DEF GoodWrite
<1>0. ASSUME NEW d \in {0, 1},
             \A n \in 1 .. Len(sent') :
               /\ n + d \in 1 .. Len(sent)
               /\ sent'[n].op = sent[n + d].op /\ sent'[n].id = sent[n + d].id
      PROVE  Follows
  BY <1>0 DEF Follows
<1>1. CASE sent' = sent
  <2>1. \A n \in 1 .. Len(sent') : n + 0 = n
    OBVIOUS
  <2> QED
    BY <1>0, <1>1, <2>1
<1>2. CASE sent' = UnmountedWrites(sent)
  <2>1. /\ Len(sent') = Len(sent)
        /\ \A n \in 1 .. Len(sent) : sent'[n] = [sent[n] EXCEPT !.here = FALSE]
    BY <1>2, <1>a, LeftQueue
  <2>2. \A n \in 1 .. Len(sent') : n + 0 \in 1 .. Len(sent) /\ n + 0 = n
    BY <1>a, <2>1
  <2>3. \A n \in 1 .. Len(sent) : sent'[n].op = sent[n].op /\ sent'[n].id = sent[n].id
    BY <1>a, <1>b, <2>1
  <2> QED
    BY <1>0, <2>1, <2>2, <2>3
<1>3. CASE sent # <<>> /\ sent' = Tail(sent)
  BY <1>0, <1>3, <1>a, FrontOf
<1>4. CASE sent # <<>> /\ sent' = UnmountedWrites(Tail(sent))
  <2>1. PICK queue \in Seq(GoodWrite) : queue = Tail(sent)
    BY <1>4, <1>a, FrontOf
  <2>2. /\ Len(sent') = Len(queue)
        /\ \A n \in 1 .. Len(queue) : sent'[n] = [queue[n] EXCEPT !.here = FALSE]
    BY <1>4, <2>1, LeftQueue
  <2>3. \A n \in 1 .. Len(queue) : queue[n] = sent[n + 1] /\ n + 1 \in 1 .. Len(sent)
    BY <1>4, <1>a, <2>1, FrontOf
  <2>4. \A n \in 1 .. Len(sent') : /\ sent'[n] = [sent[n + 1] EXCEPT !.here = FALSE]
                                   /\ sent[n + 1] \in GoodWrite
    BY <1>a, <2>2, <2>3
  <2>5. \A n \in 1 .. Len(sent') : sent'[n].op = sent[n + 1].op /\ sent'[n].id = sent[n + 1].id
    BY <1>b, <2>4
  <2> QED
    BY <1>0, <2>2, <2>3, <2>5
<1>5. CASE \E k \in 0 .. Len(sent) : sent' = Orphans(sent, k)
  <2>1. PICK k \in 0 .. Len(sent) : sent' = Orphans(sent, k)
    BY <1>5
  <2>2. /\ Len(sent') = k
        /\ \A n \in 1 .. k : /\ sent'[n] = [sent[n] EXCEPT !.kind = "orphan", !.here = FALSE]
                            /\ n \in 1 .. Len(sent)
    BY <1>a, <2>1, OrphanQueue
  <2>3. \A n \in 1 .. Len(sent') : n + 0 \in 1 .. Len(sent) /\ n + 0 = n
    <3>1. Len(sent') = k
      BY <2>2
    <3>2. Len(sent) \in Nat
      BY <1>a
    <3>3. \A n \in 1 .. k : n + 0 = n /\ n \in 1 .. Len(sent)
      BY <3>2
    <3> QED
      BY <3>1, <3>3
  <2>4. \A n \in 1 .. Len(sent') : sent'[n].op = sent[n].op /\ sent'[n].id = sent[n].id
    BY <1>a, <1>b, <2>2
  <2> QED
    BY <1>0, <2>3, <2>4
<1>6. ASSUME NEW w \in GoodWrite, sent' = Append(sent, w), w.op # "set",
             w.op = "delete" => InSession /\ w.id = user.id
      PROVE  Follows
  <2>1. /\ Len(sent') = Len(sent) + 1
        /\ \A n \in 1 .. Len(sent) : sent'[n] = sent[n]
        /\ sent'[Len(sent) + 1] = w
    BY <1>6, <1>a, SentOne
  <2>2. \A n \in 1 .. Len(sent') : n \in 1 .. Len(sent) \/ n = Len(sent) + 1
    BY <1>a, <2>1
  <2>3. \A n \in 1 .. Len(sent) : n + 0 = n
    BY <1>a
  <2>4. \A n \in 1 .. Len(sent') : \/ n + 0 \in 1 .. Len(sent) /\ sent'[n] = sent[n + 0]
                                   \/ sent'[n] = w
    BY <2>1, <2>2, <2>3
  <2>5. w.op \in {"update", "password"} \/ (w.op = "delete" /\ InSession /\ w.id = user.id)
    BY <1>6, <1>b
  <2> QED
    BY <2>4, <2>5 DEF Follows
<1> QED
  BY <1>1, <1>2, <1>3, <1>4, <1>5, <1>6

LEMMA FollowsSets ==
  ASSUME Follows, NEW i \in Id
  PROVE  /\ \E d \in {0, 1} : \A n \in 1 .. Len(sent') :
              sent'[n].op = "set" /\ sent'[n].id = i => n + d \in Sets(i)
         /\ (\E n \in 1 .. Len(sent') : sent'[n].op = "delete" /\ sent'[n].id = i) => Known(i)
BY DEF Follows, Sets, Known

\* A step that makes account i known neither in the cloud nor here.
CloudQuiet(i) ==
  /\ Deleted(i)' => Known(i)
  /\ stored'[i] = None \/ (stored[i] # None /\ (Deleted(i)' => Deleted(i)))
  /\ other' # None /\ other'.id = i => Known(i)

HereQuiet(i) ==
  /\ \A n \in 1 .. Len(userBox') : userBox'[n].user # None /\ userBox'[n].user.id = i => Known(i)
  /\ \A c \in calls' : c.at = "clear" /\ c.user.id = i => Known(i)
  /\ InSession' /\ user'.id = i => Known(i)
  /\ (\E c \in calls' : c.here /\ c.at = "courses") /\ user'.id = i => Known(i)
  /\ Fresh(i)' => Fresh(i)
  /\ UserIs(i)' => UserIs(i) \/ Known(i)

LEMMA QuietIf ==
  ASSUME IInv, NEW i \in Id, CloudQuiet(i), HereQuiet(i), Follows, ids' \in Nat, ids <= ids'
  PROVE  Quiet(i)
<1>1. /\ \E d \in {0, 1} : \A n \in 1 .. Len(sent') :
           sent'[n].op = "set" /\ sent'[n].id = i => n + d \in Sets(i)
      /\ (\E n \in 1 .. Len(sent') : sent'[n].op = "delete" /\ sent'[n].id = i) => Known(i)
  BY FollowsSets
<1>2. stored'[i] # None => Known(i)
  BY DEF CloudQuiet, Known
<1>3. Known(i)' => Known(i)
  <2>1. Known(i)' <=>
          \/ Deleted(i)'
          \/ stored'[i] # None
          \/ other' # None /\ other'.id = i
          \/ \E n \in 1 .. Len(sent') : sent'[n].op = "delete" /\ sent'[n].id = i
          \/ \E n \in 1 .. Len(userBox') : userBox'[n].user # None /\ userBox'[n].user.id = i
          \/ \E c \in calls' : c.at = "clear" /\ c.user.id = i
          \/ InSession' /\ user'.id = i
          \/ (\E c \in calls' : c.here /\ c.at = "courses") /\ user'.id = i
    BY DEF Known
  <2> QED
    BY <1>1, <1>2, <2>1 DEF CloudQuiet, HereQuiet
<1> QED
  BY <1>1, <1>3 DEF Quiet, CloudQuiet, HereQuiet

\* No step but those of a deletion notes one, and no other writes what was not there.
LEMMA CloudSame ==
  ASSUME NEW i \in Id, UNCHANGED <<stored, other>>, Deleted(i)' => Deleted(i)
  PROVE  CloudQuiet(i)
BY DEF CloudQuiet, Known

LEMMA HereSame ==
  ASSUME IInv, NEW i \in Id, UNCHANGED user,
         InSession' => InSession \/ \E c \in calls : c.here /\ c.at = "courses",
         \A c \in calls' : c.at = "clear" /\ c.user.id = i => Known(i),
         \A c \in calls' : c.here /\ c.at = "courses" =>
           InSession \/ \E e \in calls : e.here /\ e.at = "courses",
         \A n \in 1 .. Len(userBox') : \/ \E m \in 1 .. Len(userBox) : userBox'[n].user = userBox[m].user
                                       \/ InSession /\ userBox'[n].user = user
  PROVE  HereQuiet(i)
<1>1. \A n \in 1 .. Len(userBox') : userBox'[n].user # None /\ userBox'[n].user.id = i => Known(i)
  BY DEF Known
<1>2. InSession' /\ user'.id = i => Known(i)
  BY DEF Known
<1>3. (\E c \in calls' : c.here /\ c.at = "courses") /\ user'.id = i => Known(i)
  BY DEF Known
<1> QED
  BY <1>1, <1>2, <1>3 DEF HereQuiet, Fresh, UserIs

LEMMA HereOther ==
  ASSUME IInv, NEW i \in Id, NEW u \in Member \cup {None}, user' = u,
         u = None => ~InSession' /\ \A c \in calls' : c.here => c.at # "courses",
         u # None /\ u.id = i => Known(i),
         \A c \in calls' : c.at = "clear" /\ c.user.id = i => Known(i),
         \A n \in 1 .. Len(userBox') : \/ userBox'[n].user \in {None, u}
                                       \/ \E m \in 1 .. Len(userBox) : userBox'[n].user = userBox[m].user
  PROVE  HereQuiet(i)
<1>1. \A n \in 1 .. Len(userBox') : userBox'[n].user # None /\ userBox'[n].user.id = i => Known(i)
  BY DEF Known
<1>2. u # None => u.pw[2] # 0
  BY DEF Member, Hashed
<1> QED
  BY <1>1, <1>2 DEF HereQuiet, Fresh, UserIs

LEMMA SameDeleted ==
  ASSUME NEW i, NEW condition, NEW what, NEW j, what # "deleted", NoteIf(condition, what, j)
  PROVE  Deleted(i)' => Deleted(i)
BY DEF NoteIf, Note, Deleted, Happened

LEMMA LastIs ==
  ASSUME Types
  PROVE  \E m \in 1 .. Len(userBox) : Last(userBox) = userBox[m]
BY LastImage

LEMMA IdsNat ==
  ASSUME IInv
  PROVE  ids \in Nat /\ ids <= ids
BY SessionAssumption DEF IInv, Types

LEMMA QuietStudent ==
  ASSUME IInv, NEW i \in Id, Student, ~\E course \in Course : SubmitProfile(course)
  PROVE  Quiet(i)
<1>b. Types /\ Single /\ Mounted /\ Sessions
  BY DEF IInv
<1>0. ids' = ids /\ UNCHANGED <<stored, other>>
  BY DEF Student, StartSignUp, StartLogin, Open, Leave, Record, Logout, StartChange, StartEdit,
         StartDelete, cloud, made
<1>c. CloudQuiet(i)
  <2>1. Deleted(i)' => Deleted(i)
    <3>1. NoteOverlap => (Deleted(i)' => Deleted(i))
      BY SameDeleted DEF NoteOverlap
    <3>2. Leave => (Deleted(i)' => Deleted(i))
      BY SameDeleted DEF Leave
    <3>3. UNCHANGED history => (Deleted(i)' => Deleted(i))
      BY DEF Deleted, Happened
    <3> QED
      BY <3>1, <3>2, <3>3 DEF Student, StartSignUp, StartLogin, Open, Record, Logout, StartChange,
         StartEdit, StartDelete
  <2> QED
    BY <1>0, <2>1, CloudSame
<1>d. ASSUME HereQuiet(i), Follows
      PROVE  Quiet(i)
  BY <1>0, <1>c, <1>d, QuietIf, IdsNat
<1>e. \A c \in calls : c.at = "clear" /\ c.user.id = i => Known(i)
  BY DEF Known
<1>1. ASSUME NEW a \in Address, NEW cap \in BOOLEAN, NEW w \in Word, StartSignUp(a, cap, w)
      PROVE  Quiet(i)
  <2>1. HereQuiet(i)
    BY <1>1, <1>e, HereSame DEF StartSignUp, Call, InSession
  <2> QED
    BY <1>1, <1>b, <1>d, <2>1, Queues DEF StartSignUp, cloud
<1>2. ASSUME NEW a \in Address, NEW w \in Word, StartLogin(a, w)
      PROVE  Quiet(i)
  <2>1. HereQuiet(i)
    BY <1>2, <1>e, HereSame DEF StartLogin, Call, InSession
  <2> QED
    BY <1>2, <1>b, <1>d, <2>1, Queues DEF StartLogin, cloud
<1>3. ASSUME NEW s \in {"change", "edit"}, Open(s)
      PROVE  Quiet(i)
  <2>1. HereQuiet(i)
    BY <1>3, <1>e, HereSame DEF Open, InSession
  <2> QED
    BY <1>3, <1>b, <1>d, <2>1, Queues DEF Open, cloud
<1>4. CASE Leave
  <2>1. calls' = Unmounted(calls) /\ sent' = UnmountedWrites(sent) /\ UNCHANGED <<user, userBox>>
        /\ (InSession' => InSession)
    BY <1>4 DEF Leave, InSession
  <2>2. \A e \in calls' : ~e.here /\ \E c \in calls : e = [c EXCEPT !.here = FALSE] /\ e.at = c.at
    BY <1>b, <2>1, LeftCalls DEF Types
  <2>3. \A e \in calls' : e.at = "clear" /\ e.user.id = i => Known(i)
    <3> SUFFICES ASSUME NEW e \in calls', e.at = "clear", e.user.id = i
                 PROVE  Known(i)
      OBVIOUS
    <3>1. PICK c \in calls : e = [c EXCEPT !.here = FALSE] /\ e.at = c.at
      BY <2>2
    <3>2. c.user = e.user
      BY <3>1, Facts, CallShape DEF ClearCall
    <3> QED
      BY <1>e, <3>1, <3>2
  <2>4. HereQuiet(i)
    BY <2>1, <2>2, <2>3, HereSame
  <2> QED
    BY <1>b, <1>d, <2>1, <2>4, Queues
<1>5. CASE Record
  <2>1. InSession /\ InSession' /\ user \in Member /\ UNCHANGED <<user, calls>>
    BY <1>5, <1>b DEF Record, InSession, Sessions
  <2>2. \A n \in 1 .. Len(userBox') : userBox'[n].user \in {Last(userBox).user, user}
    <3>1. \A n \in 1 .. Len(userBox') :
            userBox'[n] \in {Last(userBox), [user |-> user, data |-> Last(userBox).data]}
      BY <1>5, <1>b, <2>1, UserSaved DEF Record
    <3> QED
      BY <3>1
  <2>3. HereQuiet(i)
    BY <1>b, <1>e, <2>1, <2>2, LastIs, HereSame
  <2>4. PICK w : w = [op |-> "update", id |-> user.id, doc |-> Document(user),
                      kind |-> "record", here |-> FALSE]
    OBVIOUS
  <2>5. w \in GoodWrite /\ sent' = Append(sent, w)
    BY <1>5, <2>1, <2>4 DEF Record, Send, GoodWrite, Member, Filled, Document
  <2> QED
    BY <1>b, <1>d, <2>3, <2>4, <2>5, Queues
<1>6. CASE Logout
  <2>1. /\ user' = None /\ ~InSession' /\ UNCHANGED <<calls, sent>> /\ screen = "main"
        /\ userBox' = deleteKeys(Box)
    BY <1>6 DEF Logout, clearData, cloud, InSession
  <2>2. \A n \in 1 .. Len(userBox') : userBox'[n] = Last(userBox) \/ userBox'[n].user = None
    BY <1>b, <2>1, BothDeleted
  <2>3. \A c \in calls' : ~c.here
    BY <2>1, Facts
  <2>4. HereQuiet(i)
    BY <1>b, <1>e, <2>1, <2>2, <2>3, LastIs, HereOther
  <2> QED
    BY <1>b, <1>d, <2>1, <2>4, Queues
<1>7. ASSUME NEW old \in Word, NEW new \in Word, StartChange(old, new)
      PROVE  Quiet(i)
  <2>1. user \in Member
    BY <1>7, <1>b DEF StartChange, InSession, Sessions
  <2>2. PICK w : w = [op |-> "password", id |-> user.id,
                      doc |-> [pw |-> hashPassword(<<new, 0>>), course |-> user.course],
                      kind |-> "change", here |-> TRUE]
    OBVIOUS
  <2>3. sent' = Append(sent, w) /\ UNCHANGED <<screen, user, calls, userBox>>
    BY <1>7, <2>2 DEF StartChange, Send
  <2>4. w \in GoodWrite
    <3>1. user.pw[2] = 1 /\ user.pw \in Hashed
      BY <1>7, <2>1 DEF StartChange, hashPassword, Member
    <3>2. 1 \in 1 .. MaxHash
      BY <3>1 DEF Hashed
    <3>3. hashPassword(<<new, 0>>) \in Hashed
      BY <3>2 DEF Hashed, hashPassword
    <3> QED
      BY <2>1, <2>2, <3>3 DEF GoodWrite, Member, Filled
  <2>5. HereQuiet(i)
    BY <1>e, <2>3, HereSame DEF InSession
  <2> QED
    BY <1>b, <1>d, <2>2, <2>3, <2>4, <2>5, Queues
<1>8. ASSUME NEW course \in Course, StartEdit(course)
      PROVE  Quiet(i)
  <2>1. user \in Member /\ InSession
    BY <1>8, <1>b DEF StartEdit, InSession, Sessions
  <2>2. PICK c : c = [kind |-> "edit", at |-> "clear", user |-> [user EXCEPT !.course = course],
                      here |-> TRUE]
    OBVIOUS
  <2>3. c.at = "clear" /\ c.user.id = user.id
    BY <2>1, <2>2 DEF Member
  <2>4. calls' = calls \cup {c} /\ UNCHANGED <<screen, user, userBox, sent>>
    BY <1>8, <2>2 DEF StartEdit, Call, cloud
  <2>5. \A e \in calls' : e.at = "clear" /\ e.user.id = i => Known(i)
    BY <1>e, <2>1, <2>3, <2>4 DEF Known
  <2>6. HereQuiet(i)
    BY <2>1, <2>4, <2>5, HereSame
  <2> QED
    BY <1>b, <1>d, <2>4, <2>6, Queues
<1>9. CASE StartDelete
  <2>1. InSession /\ user \in Member
    BY <1>9, <1>b DEF StartDelete, InSession, Sessions
  <2>2. PICK w : w = [op |-> "delete", id |-> user.id, doc |-> Document(user),
                      kind |-> "delete", here |-> TRUE]
    OBVIOUS
  <2>3. sent' = Append(sent, w) /\ UNCHANGED <<screen, user, calls, userBox>>
    BY <1>9, <2>2 DEF StartDelete, Send
  <2>4. w \in GoodWrite
    BY <2>1, <2>2 DEF GoodWrite, Member, Filled, Document
  <2>5. HereQuiet(i)
    BY <1>e, <2>1, <2>3, HereSame DEF InSession
  <2> QED
    BY <1>b, <1>d, <2>1, <2>2, <2>3, <2>4, <2>5, Queues
<1> QED
  BY <1>1, <1>2, <1>3, <1>4, <1>5, <1>6, <1>7, <1>8, <1>9 DEF Student

\* The sign-up screen opens the profile screen: account i is made.
Born(c) == LookedUp(c) /\ c.here /\ ~(Having(c.address) # {} /\ ~c.capitals)

LEMMA QuietAnswer ==
  ASSUME IInv, NEW i \in Id, NEW c \in calls,
         \/ LookedUp(c) \/ UserRead(c) \/ CoursesRead(c)
         \/ QueryFails(c) \/ PasswordRead(c) \/ Cleared(c),
         Born(c) => i # ids + 1
  PROVE  Quiet(i)
<1>b. Types /\ Single /\ Mounted /\ Sessions /\ c \in GoodCall
  BY Facts DEF IInv
<1>0. UNCHANGED <<stored, other>> /\ ids' \in Nat /\ ids <= ids'
  <2>1. UNCHANGED <<stored, other>> /\ (ids' = ids \/ ids' = ids + 1)
    BY DEF LookedUp, UserRead, CoursesRead, QueryFails, PasswordRead, Cleared, cloud, made
  <2> QED
    BY <2>1, IdsNat
<1>c. CloudQuiet(i)
  <2>1. QueryFails(c) => (Deleted(i)' => Deleted(i))
    BY SameDeleted DEF QueryFails
  <2>2. ~QueryFails(c) => (Deleted(i)' => Deleted(i))
    BY DEF LookedUp, UserRead, CoursesRead, PasswordRead, Cleared, Deleted, Happened
  <2> QED
    BY <1>0, <2>1, <2>2, CloudSame
<1>d. ASSUME HereQuiet(i), Follows
      PROVE  Quiet(i)
  BY <1>0, <1>c, <1>d, QuietIf
<1>e. \A e \in calls : e.at = "clear" /\ e.user.id = i => Known(i)
  BY DEF Known
<1>f. \A j \in Id : stored[j] # None => UserOf(j, stored[j]) \in Member /\ UserOf(j, stored[j]).id = j
  BY <1>b, StoredIs, UserOfIs
<1>g. None \notin Member
  BY NoneApart
<1>1. CASE LookedUp(c) /\ ~Born(c)
  <2>1. calls' = calls \ {c} /\ UNCHANGED <<screen, user, userBox, sent>>
    BY <1>1 DEF LookedUp, Born, Answered, cloud
  <2>2. HereQuiet(i)
    BY <1>e, <2>1, HereSame DEF InSession
  <2> QED
    BY <1>b, <1>d, <2>1, <2>2, Queues
<1>2. CASE Born(c)
  <2>1. /\ calls' = calls \ {c} /\ UNCHANGED <<userBox, sent>> /\ screen' = "fill"
        /\ user' = [id |-> ids + 1, pw |-> <<c.word, 0>>, course |-> None]
    BY <1>2 DEF LookedUp, Born, Answered, cloud
  <2>2. \A e \in calls' : ~e.here
    BY <1>b, <1>2, <2>1 DEF Single, Born
  <2>3. ~InSession' /\ user'.id # i
    BY <1>2, <2>1 DEF InSession
  <2>4. HereQuiet(i)
    BY <1>e, <2>1, <2>2, <2>3 DEF HereQuiet, Fresh, UserIs, Known
  <2> QED
    BY <1>b, <1>d, <2>1, <2>4, Queues
<1>3. CASE UserRead(c)
  <2>1. UNCHANGED <<screen, sent>>
    BY <1>3 DEF UserRead, cloud
  <2>2. CASE Answered(c) /\ UNCHANGED <<user, userBox>>
    <3>1. HereQuiet(i)
      BY <1>e, <2>1, <2>2, HereSame DEF InSession, Answered
    <3> QED
      BY <1>b, <1>d, <2>1, <3>1, Queues
  <2>3. ASSUME NEW j \in Having(c.address),
               userBox' = saveUser(Box, UserOf(j, stored[j])),
               user' = UserOf(j, stored[j]),
               calls' = (calls \ {c}) \cup
                 {[kind |-> "login", at |-> "courses", course |-> stored[j].course, here |-> c.here]}
        PROVE  Quiet(i)
    <3>1. PICK u \in Member : u = UserOf(j, stored[j]) /\ u.id = j
      BY <1>f DEF Having
    <3>2. u.id = i => Known(i)
      BY <3>1 DEF Having, Known
    <3>3. \A e \in calls' : e.at = "clear" /\ e.user.id = i => Known(i)
      BY <1>e, <2>3
    <3>4. \A n \in 1 .. Len(userBox') : userBox'[n].user \in {Last(userBox).user, u}
      <4>1. \A n \in 1 .. Len(userBox') :
              userBox'[n] \in {Last(userBox), [user |-> u, data |-> Last(userBox).data]}
        BY <1>b, <2>3, <3>1, UserSaved
      <4> QED
        BY <4>1
    <3>5. HereQuiet(i)
      BY <1>b, <1>g, <2>3, <3>1, <3>2, <3>3, <3>4, LastIs, HereOther
    <3> QED
      BY <1>b, <1>d, <2>1, <3>5, Queues
  <2> QED
    BY <1>3, <2>2, <2>3 DEF UserRead
<1>4. CASE CoursesRead(c)
  <2>1. calls' = calls \ {c} /\ UNCHANGED user /\ (screen' = screen \/ (c.here /\ screen' = "main"))
        /\ c.at = "courses" /\ (sent' = sent \/ sent' = UnmountedWrites(sent))
    BY <1>4 DEF CoursesRead, Answered, Show
  <2>2. \A n \in 1 .. Len(userBox') : userBox'[n].user = Last(userBox).user
    <3>1. c.course \in Course
      BY <1>b, <2>1, CallShape DEF CourseCall
    <3>2. \A n \in 1 .. Len(userBox') :
            userBox'[n] \in {Last(userBox), [user |-> Last(userBox).user, data |-> c.course]}
      BY <1>4, <1>b, <3>1, DataSaved DEF CoursesRead
    <3> QED
      BY <3>2
  <2>3. HereQuiet(i)
    BY <1>b, <1>e, <2>1, <2>2, LastIs, HereSame DEF InSession
  <2> QED
    BY <1>b, <1>d, <2>1, <2>3, Queues
<1>5. CASE QueryFails(c)
  <2>1. calls' = calls \ {c} /\ UNCHANGED <<screen, user, userBox, sent>>
    BY <1>5 DEF QueryFails, Answered, cloud
  <2>2. HereQuiet(i)
    BY <1>e, <2>1, HereSame DEF InSession
  <2> QED
    BY <1>b, <1>d, <2>1, <2>2, Queues
<1>6. CASE PasswordRead(c)
  <2>1. c.id \in Id /\ stored[c.id] # None
    BY <1>6, <1>b, CallShape DEF PasswordRead, ReadCall
  <2>2. PICK u \in Member : u = UserOf(c.id, stored[c.id]) /\ u.id = c.id
    BY <1>f, <2>1
  <2>3. user' = u /\ userBox' = saveUser(Box, u) /\ calls' = calls \ {c} /\ UNCHANGED sent
    BY <1>6, <2>2 DEF PasswordRead, Answered, cloud
  <2>4. u.id = i => Known(i)
    BY <2>1, <2>2 DEF Known
  <2>5. \A n \in 1 .. Len(userBox') : userBox'[n].user \in {Last(userBox).user, u}
    <3>1. \A n \in 1 .. Len(userBox') :
            userBox'[n] \in {Last(userBox), [user |-> u, data |-> Last(userBox).data]}
      BY <1>b, <2>3, UserSaved
    <3> QED
      BY <3>1
  <2>6. HereQuiet(i)
    BY <1>b, <1>e, <1>g, <2>3, <2>4, <2>5, LastIs, HereOther
  <2> QED
    BY <1>b, <1>d, <2>3, <2>6, Queues
<1>7. CASE Cleared(c)
  <2>1. c.at = "clear" /\ c.user \in Member
    BY <1>7, <1>b, CallShape DEF Cleared, ClearCall
  <2>2. PICK u \in Member : u = c.user
    BY <2>1
  <2>3. user' = u /\ userBox' = saveUser(Box, u) /\ calls' = calls \ {c}
    BY <1>7, <2>2 DEF Cleared, Answered
  <2>4. u.id = i => Known(i)
    BY <2>1, <2>2 DEF Known
  <2>5. \A n \in 1 .. Len(userBox') : userBox'[n].user \in {Last(userBox).user, u}
    <3>1. \A n \in 1 .. Len(userBox') :
            userBox'[n] \in {Last(userBox), [user |-> u, data |-> Last(userBox).data]}
      BY <1>b, <2>3, UserSaved
    <3> QED
      BY <3>1
  <2>6. HereQuiet(i)
    BY <1>b, <1>e, <1>g, <2>3, <2>4, <2>5, LastIs, HereOther
  <2>7. Follows
    <3>1. PICK w : w = [op |-> "update", id |-> c.user.id, doc |-> Document(c.user),
                        kind |-> "edit", here |-> c.here]
      OBVIOUS
    <3>2. sent' = Append(sent, w)
      BY <1>7, <3>1 DEF Cleared, Send
    <3>3. c.here \in BOOLEAN
      BY <1>b, CallShape
    <3>4. w \in GoodWrite
      BY <2>1, <3>1, <3>3 DEF GoodWrite, Member, Filled, Document
    <3> QED
      BY <1>b, <3>1, <3>2, <3>4, Queues
  <2> QED
    BY <1>d, <2>6, <2>7
<1> QED
  BY <1>1, <1>2, <1>3, <1>4, <1>5, <1>6, <1>7 DEF Born

LEMMA QuietRest ==
  ASSUME IInv, NEW i \in Id, Restore \/ Kill \/ OtherDevice
  PROVE  Quiet(i)
<1>b. Types /\ Single /\ Mounted /\ Sessions
  BY DEF IInv
<1>0. ids' = ids
  BY DEF Restore, Kill, OtherDevice, OtherSession, OtherRecord, OtherChange, OtherEdit, OtherDelete, made
<1>d. ASSUME CloudQuiet(i), HereQuiet(i), Follows
      PROVE  Quiet(i)
  BY <1>0, <1>d, QuietIf, IdsNat
<1>e. \A e \in calls : e.at = "clear" /\ e.user.id = i => Known(i)
  BY DEF Known
<1>1. CASE Restore
  <2>1. PICK u \in Member \cup {None} : u = Last(userBox).user
    BY <1>b, BoxIs DEF Image
  <2>2. /\ user' = u /\ screen' \in {"auth", "stuck", "main"} /\ (screen' = "main" => u # None)
        /\ UNCHANGED <<userBox, calls, sent, stored, other, history>> /\ screen = "splash"
    BY <1>1, <2>1 DEF Restore, cloud
  <2>3. calls = {}
    BY <1>b, <2>2 DEF Sessions
  <2>4. u # None /\ u.id = i => Known(i)
    BY <1>b, <2>1, LastImage DEF Known
  <2>5. HereQuiet(i)
    BY <2>2, <2>3, <2>4, HereOther DEF InSession
  <2>6. CloudQuiet(i)
    BY <2>2, CloudSame DEF Deleted, Happened
  <2> QED
    BY <1>b, <1>d, <2>2, <2>5, <2>6, Queues
<1>2. CASE Kill
  <2>1. PICK n \in 1 .. Len(userBox) : userBox' = <<userBox[n]>>
    BY <1>2 DEF Kill
  <2>2. calls' = {} /\ user' = None /\ screen' = "splash" /\ UNCHANGED <<stored, other>>
    BY <1>2 DEF Kill
  <2>3. \E k \in 0 .. Len(sent) : sent' = Orphans(sent, k)
    BY <1>2 DEF Kill, Orphans
  <2>4. Deleted(i)' => Deleted(i)
    BY <1>2 DEF Kill, Note, Deleted, Happened
  <2>5. \A m \in 1 .. Len(userBox') : userBox'[m].user = userBox[n].user
    BY <2>1
  <2>6. HereQuiet(i)
    BY <2>2, <2>5, HereOther DEF InSession
  <2>7. CloudQuiet(i)
    BY <2>2, <2>4, CloudSame
  <2> QED
    BY <1>b, <1>d, <2>3, <2>6, <2>7, Queues
<1>3. CASE OtherDevice
  <2>1. UNCHANGED <<screen, user, userBox, calls, sent>>
    BY <1>3 DEF OtherDevice, OtherSession, OtherRecord, OtherChange, OtherEdit, OtherDelete, local
  <2>2. HereQuiet(i)
    BY <1>e, <2>1, HereSame DEF InSession
  <2>3. CloudQuiet(i)
    <3>0. /\ other # None => other \in Member /\ other.id \in Id
          /\ stored \in [Id -> Filled \cup {None}] /\ None \notin Filled
      BY <1>b, NoneApart DEF Types, Member
    <3>1. ASSUME NEW j \in Id, OtherSession(j)
          PROVE  CloudQuiet(i)
      <4>1. other' = None \/ (stored[j] # None /\ other' = UserOf(j, stored[j]))
        BY <3>1 DEF OtherSession
      <4>2. other' # None /\ other'.id = i => stored[i] # None
        BY <4>1 DEF UserOf
      <4>3. UNCHANGED <<stored, history>>
        BY <3>1 DEF OtherSession
      <4> QED
        BY <4>2, <4>3 DEF CloudQuiet, Known, Deleted, Happened
    <3>2. ASSUME NEW doc, stored' = [stored EXCEPT ![other.id] = doc], OtherFinds,
                 other' # None => other'.id = other.id,
                 Deleted(i)' => Deleted(i)
          PROVE  CloudQuiet(i)
      <4>1. stored'[i] # None => stored[i] # None
        BY <3>0, <3>2 DEF OtherFinds
      <4> QED
        BY <3>2, <4>1 DEF CloudQuiet, Known, OtherFinds
    <3>3. \A j : NoteShared(j) => (Deleted(i)' => Deleted(i))
      BY SameDeleted DEF NoteShared
    <3>4. CASE OtherRecord
      BY <3>2, <3>3, <3>4 DEF OtherRecord
    <3>5. ASSUME NEW w \in Word, OtherChange(w) PROVE CloudQuiet(i)
      <4>1. PICK doc : doc = [stored[other.id] EXCEPT !.pw = hashPassword(<<w, 0>>)]
        OBVIOUS
      <4>2. stored' = [stored EXCEPT ![other.id] = doc] /\ other'.id = other.id /\ OtherFinds
        BY <3>5, <4>1 DEF OtherChange, UserOf
      <4>3. Deleted(i)' => Deleted(i)
        BY <3>3, <3>5 DEF OtherChange
      <4> QED
        BY <3>2, <4>2, <4>3
    <3>6. ASSUME NEW course \in Course, OtherEdit(course) PROVE CloudQuiet(i)
      <4>1. OtherFinds /\ other' = [other EXCEPT !.course = course]
            /\ stored' = [stored EXCEPT ![other.id] = Document(other')]
        BY <3>6 DEF OtherEdit
      <4>2. other'.id = other.id
        BY <3>0, <4>1 DEF OtherFinds, Member
      <4>3. Deleted(i)' => Deleted(i)
        BY <3>3, <3>6 DEF OtherEdit
      <4> QED
        BY <3>2, <4>1, <4>2, <4>3
    <3>7. CASE OtherDelete
      <4>1. other # None /\ stored' = [stored EXCEPT ![other.id] = None] /\ other' = None
        BY <3>7 DEF OtherDelete
      <4>2. i # other.id => (Deleted(i)' => Deleted(i))
        BY <3>7 DEF OtherDelete, Note, Deleted, Happened
      <4>3. i = other.id => stored'[i] = None /\ Known(i)
        BY <3>0, <4>1 DEF Known
      <4>4. i # other.id => stored'[i] = stored[i]
        BY <3>0, <4>1
      <4> QED
        BY <4>1, <4>2, <4>3, <4>4 DEF CloudQuiet, Known
    <3> QED
      BY <1>3, <3>1, <3>4, <3>5, <3>6, <3>7 DEF OtherDevice
  <2> QED
    BY <1>b, <1>d, <2>1, <2>2, <2>3, Queues
<1> QED
  BY <1>1, <1>2, <1>3

LEMMA QuietAcknowledgement ==
  ASSUME IInv, NEW i \in Id, Acknowledgement,
         Refused \/ (Head(sent).op = "set" => Head(sent).id # i)
  PROVE  Quiet(i)
<1>b. Types /\ Single /\ Mounted /\ Sessions
  BY DEF IInv
<1>0. sent # <<>> /\ ids' = ids /\ other' = other
  BY DEF Acknowledgement, ProfileStored, RecordStored, PasswordStored, EditStored, AccountDeleted,
         Refused, OrphanApplied, Front, made, local
<1> DEFINE w == Head(sent)
           NotSet == w.op = "set" => w.id # i
<1>c. /\ w = sent[1] /\ 1 \in 1 .. Len(sent) /\ w \in GoodWrite
      /\ w.id \in Id /\ w.doc \in Filled /\ None \notin Member
      /\ stored \in [Id -> Filled \cup {None}]
  BY <1>b, <1>0, FrontOf, NoneApart DEF Types, GoodWrite
<1>d. ASSUME CloudQuiet(i), HereQuiet(i), Follows
      PROVE  Quiet(i)
  BY <1>0, <1>d, QuietIf, IdsNat
<1>e. \A e \in calls : e.at = "clear" /\ e.user.id = i => Known(i)
  BY DEF Known
\* What a write does to the documents.
<1>f. ASSUME Applied(w), w.op # "delete", Deleted(i)' => Deleted(i), w.op = "set" => w.id # i
      PROVE  CloudQuiet(i)
  <2>1. stored'[i] # None => stored[i] # None
    BY <1>b, <1>c, <1>f, AppliedIs DEF Applied, GoodWrite
  <2> QED
    BY <1>0, <1>f, <2>1 DEF CloudQuiet, Known
<1>g. ASSUME Applied(w), w.op = "delete", i # w.id => (Deleted(i)' => Deleted(i))
      PROVE  CloudQuiet(i)
  <2>1. stored'[w.id] = None /\ \A j \in Id \ {w.id} : stored'[j] = stored[j]
    BY <1>b, <1>c, <1>g, AppliedIs
  <2>2. i = w.id => Known(i)
    BY <1>c, <1>g DEF Known
  <2> QED
    BY <1>0, <1>g, <2>1, <2>2 DEF CloudQuiet, Known
<1>1. CASE ProfileStored /\ NotSet
  <2>1. PICK u \in Member : u = UserOf(w.id, w.doc) /\ u.id = w.id
    BY <1>c, UserOfIs
  <2>2. w.op = "set" /\ w.id # i
    BY <1>1, <1>c DEF ProfileStored, GoodWrite
  <2>3. stored'[i] = stored[i] /\ UNCHANGED <<history, calls>> /\ sent' = Tail(sent) /\ user' = u
        /\ userBox' = saveCourseData(saveUser(Box, u), u.course)
    BY <1>1, <1>c, <2>1, <2>2 DEF ProfileStored
  <2>4. \A n \in 1 .. Len(userBox') : userBox'[n].user \in {Last(userBox).user, u}
    <3>1. u.course \in Course
      BY <2>1 DEF Member
    <3>2. \A n \in 1 .. Len(userBox') :
            userBox'[n] \in {Last(userBox), [user |-> u, data |-> Last(userBox).data], [user |-> u, data |-> u.course]}
      BY <1>b, <2>3, <3>1, BothSaved
    <3> QED
      BY <3>2
  <2>5. HereQuiet(i)
    <3>1. u # None /\ user' = u /\ u.id # i
      BY <2>1, <2>2, <2>3, NoneApart
    <3>2. \A c \in calls' : c.at = "clear" /\ c.user.id = i => Known(i)
      BY <1>e, <2>3
    <3>3. \E m \in 1 .. Len(userBox) : Last(userBox) = userBox[m]
      BY <1>b, LastIs
    <3>4. \A n \in 1 .. Len(userBox') : \/ userBox'[n].user \in {None, u}
                                         \/ \E m \in 1 .. Len(userBox) : userBox'[n].user = userBox[m].user
      BY <2>4, <3>3
    <3> QED
      BY <2>1, <3>1, <3>2, <3>4, HereOther
  <2>6. CloudQuiet(i)
    BY <1>0, <2>3 DEF CloudQuiet, Known, Deleted, Happened
  <2> QED
    BY <1>b, <1>d, <1>0, <2>3, <2>5, <2>6, Queues
<1>h. ASSUME UNCHANGED <<screen, user, userBox>>, sent' = Tail(sent),
             calls' = calls \/ \E e : /\ calls' = calls \cup {e} /\ e.at # "clear"
                                      /\ e.here /\ e.at = "courses" => InSession
      PROVE  HereQuiet(i) /\ Follows
  <2>1. HereQuiet(i)
    BY <1>e, <1>h, HereSame DEF InSession
  <2> QED
    BY <1>b, <1>h, <1>0, <2>1, Queues
<1>2. CASE RecordStored
  <2>1. Applied(w) /\ w.op = "update" /\ UNCHANGED <<history, screen, user, userBox, calls>> /\ sent' = Tail(sent)
    BY <1>2, <1>c DEF RecordStored, Front, GoodWrite, local
  <2> QED
    BY <1>d, <1>f, <1>h, <2>1 DEF Deleted, Happened
<1>3. CASE PasswordStored
  <2>1. PICK e : e = [kind |-> "change", at |-> "read", id |-> w.id, here |-> w.here]
    OBVIOUS
  <2>2. /\ Applied(w) /\ w.op = "password" /\ UNCHANGED <<screen, user, userBox>> /\ sent' = Tail(sent)
        /\ calls' = calls \cup {e} /\ e.at = "read"
    BY <1>3, <1>c, <2>1 DEF PasswordStored, Front, GoodWrite, Call
  <2>3. Deleted(i)' => Deleted(i)
    BY <1>3, SameDeleted DEF PasswordStored
  <2> QED
    BY <1>d, <1>f, <1>h, <2>2, <2>3
<1>4. CASE EditStored
  <2>1. PICK e : e = [kind |-> "edit", at |-> "courses", course |-> w.doc.course, here |-> w.here]
    OBVIOUS
  <2>2. /\ Applied(w) /\ w.op = "update" /\ UNCHANGED <<screen, user, userBox, history>> /\ sent' = Tail(sent)
        /\ calls' = calls \cup {e} /\ e.at = "courses" /\ e.here = w.here /\ w.kind = "edit"
    BY <1>4, <1>c, <2>1 DEF EditStored, Front, GoodWrite, Call
  <2>3. e.here => InSession
    BY <1>b, <1>c, <2>2 DEF Mounted, InSession
  <2> QED
    BY <1>d, <1>f, <1>h, <2>2, <2>3 DEF Deleted, Happened
<1>5. CASE AccountDeleted
  <2>1. w.op = "delete" /\ Applied(w)
    BY <1>5, <1>c DEF AccountDeleted, Front, GoodWrite
  <2>2. i # w.id => (Deleted(i)' => Deleted(i))
    BY <1>5 DEF AccountDeleted, Note, Deleted, Happened
  <2>3. CloudQuiet(i)
    BY <1>g, <2>1, <2>2
  <2>4. CASE w.here
    <3>1. /\ user' = None /\ screen' = "auth" /\ calls' = Unmounted(calls) /\ userBox' = deleteKeys(Box)
          /\ sent' = UnmountedWrites(Tail(sent))
      BY <1>5, <2>4 DEF AccountDeleted, clearData
    <3>2. \A n \in 1 .. Len(userBox') : userBox'[n] = Last(userBox) \/ userBox'[n].user = None
      BY <1>b, <3>1, BothDeleted
    <3>3. \A e \in calls' : ~e.here /\ \E c \in calls : e = [c EXCEPT !.here = FALSE] /\ e.at = c.at
      BY <1>b, <3>1, LeftCalls DEF Types
    <3>4. \A e \in calls' : e.at = "clear" /\ e.user.id = i => Known(i)
      <4> SUFFICES ASSUME NEW e \in calls', e.at = "clear", e.user.id = i
                   PROVE  Known(i)
        OBVIOUS
      <4>1. PICK c \in calls : e = [c EXCEPT !.here = FALSE] /\ e.at = c.at
        BY <3>3
      <4>2. c.user = e.user
        BY <4>1, Facts, CallShape DEF ClearCall
      <4> QED
        BY <1>e, <4>1, <4>2
    <3>5. HereQuiet(i)
      BY <1>b, <3>1, <3>2, <3>3, <3>4, LastIs, HereOther DEF InSession
    <3> QED
      BY <1>b, <1>d, <1>0, <2>3, <3>1, <3>5, Queues
  <2>5. CASE ~w.here
    BY <1>5, <1>d, <1>h, <2>3, <2>5 DEF AccountDeleted
  <2> QED
    BY <2>4, <2>5
<1>6. CASE Refused
  <2>1. PICK e : e = [kind |-> "edit", at |-> "threw", here |-> TRUE]
    OBVIOUS
  <2>2. /\ UNCHANGED <<screen, user, userBox, stored>> /\ sent' = Tail(sent)
        /\ calls' = calls \/ calls' = calls \cup {e}
        /\ e.at = "threw"
    BY <1>6, <2>1 DEF Refused
  <2>3. Deleted(i)' => Deleted(i)
    BY <1>6, SameDeleted DEF Refused
  <2>4. CloudQuiet(i)
    BY <1>0, <2>2, <2>3, CloudSame
  <2> QED
    BY <1>d, <1>h, <2>1, <2>2, <2>4
<1>7. CASE OrphanApplied /\ NotSet
  <2>1. Applied(w) /\ UNCHANGED <<screen, user, userBox, calls>> /\ sent' = Tail(sent)
    BY <1>7 DEF OrphanApplied, local
  <2>2. CASE w.op = "delete"
    <3>1. i # w.id => (Deleted(i)' => Deleted(i))
      BY <1>7 DEF OrphanApplied, Note, Deleted, Happened
    <3> QED
      BY <1>d, <1>g, <1>h, <2>1, <2>2, <3>1
  <2>3. CASE w.op # "delete"
    <3>1. Deleted(i)' => Deleted(i)
      BY <1>7, <2>3 DEF OrphanApplied, Note, Deleted, Happened
    <3>2. w.op = "set" => w.id # i
      BY <1>7
    <3> QED
      BY <1>d, <1>f, <1>h, <2>1, <2>3, <3>1, <3>2
  <2> QED
    BY <2>2, <2>3
<1> QED
  BY <1>1, <1>2, <1>3, <1>4, <1>5, <1>6, <1>7 DEF Acknowledgement

\* The three steps that are not quiet: an account is made, its profile is submitted, and
\* stored.
LEMMA BornStep ==
  ASSUME IInv, Next, NEW c \in calls, Born(c), NEW i \in Id, i = ids + 1, Brief(i)
  PROVE  Brief(i)'
<1>a. Types /\ Single /\ Sessions
  BY DEF IInv
<1>1. /\ calls' = calls \ {c} /\ UNCHANGED <<userBox, sent, stored, other, history>> /\ screen' = "fill"
      /\ user' = [id |-> ids + 1, pw |-> <<c.word, 0>>, course |-> None] /\ ids' = ids + 1
  BY DEF LookedUp, Born, Answered, cloud
<1>2. ids \in Nat /\ ~(i <= ids) /\ i <= ids'
  BY <1>1, IdsNat
<1>3. ~Known(i) /\ Sets(i) = {}
  BY <1>2 DEF Brief, Given
<1>4. \A e \in calls' : ~e.here
  BY <1>a, <1>1 DEF Born, Single
<1>5. ~Known(i)'
  BY <1>1, <1>3, <1>4 DEF Known, InSession, Deleted, Happened
<1>6. Sets(i)' = {}
  BY <1>1, <1>3 DEF Sets
<1>7. ~Deleted(i)'
  BY <1>5 DEF Known
<1> QED
  BY <1>2, <1>5, <1>6, <1>7 DEF Brief, Given, Once

LEMMA SubmitStep ==
  ASSUME IInv, Next, NEW course \in Course, SubmitProfile(course), NEW i \in Id, Brief(i)
  PROVE  Brief(i)'
<1>a. Types /\ Single /\ Mounted /\ Sessions
  BY DEF IInv
<1>1. screen = "fill" /\ user \in User /\ user.pw \in Password /\ user # None
  BY <1>a, NoneApart DEF SubmitProfile, Sessions, User
<1>2. PICK u : u = [user EXCEPT !.pw = hashPassword(@), !.course = course]
  OBVIOUS
<1>3. u \in Member /\ u.id = user.id /\ Document(u) \in Filled /\ u # None
  <2>1. hashPassword(user.pw) \in Hashed
    BY <1>1, HashIs DEF SubmitProfile
  <2>2. u \in Member /\ u.id = user.id
    BY <1>1, <1>2, <2>1 DEF User, Member
  <2> QED
    BY <2>2, NoneApart DEF Document, Filled, Member
<1>4. PICK w : w = [op |-> "set", id |-> u.id, doc |-> Document(u), kind |-> "fill", here |-> TRUE]
  OBVIOUS
<1>5. w \in GoodWrite /\ w.op = "set" /\ w.id = user.id
  BY <1>3, <1>4 DEF GoodWrite, Member
<1>6. /\ sent' = Append(sent, w) /\ user' = u
      /\ UNCHANGED <<screen, userBox, lists, calls, stored, other, account, ids>>
      /\ NoteIf(user.pw[2] > 0, "again", u.id)
  BY <1>2, <1>4 DEF SubmitProfile, Send, made
<1>7. /\ Len(sent) \in Nat /\ Len(sent') = Len(sent) + 1
      /\ (\A n \in 1 .. Len(sent) : sent'[n] = sent[n])
      /\ sent'[Len(sent) + 1] = w
  BY <1>a, <1>5, <1>6, SentOne DEF Types
<1>8. \A n \in 1 .. Len(sent') : n \in 1 .. Len(sent) \/ n = Len(sent) + 1
  BY <1>7
<1>9. \A n \in 1 .. Len(sent) : n \in 1 .. Len(sent')
  BY <1>7
<1>10. Sets(i)' = IF user.id = i THEN Sets(i) \cup {Len(sent) + 1} ELSE Sets(i)
  <2>1. \A n : n \in Sets(i)' => n \in Sets(i) \/ (n = Len(sent) + 1 /\ user.id = i)
    BY <1>5, <1>7, <1>8 DEF Sets
  <2>2. \A n \in Sets(i) : n \in Sets(i)'
    BY <1>7, <1>9 DEF Sets
  <2>3. user.id = i => Len(sent) + 1 \in Sets(i)'
    <3>1. Len(sent) + 1 \in 1 .. Len(sent')
      BY <1>7
    <3> QED
      BY <1>5, <1>7, <3>1 DEF Sets
  <2> QED
    BY <2>1, <2>2, <2>3
<1>11. Deleted(i)' => Deleted(i)
  BY <1>6, SameDeleted
<1>12. Known(i)' => Known(i)
  <2>1. (\E n \in 1 .. Len(sent') : sent'[n].op = "delete" /\ sent'[n].id = i) =>
           \E n \in 1 .. Len(sent) : sent[n].op = "delete" /\ sent[n].id = i
    BY <1>5, <1>7, <1>8
  <2>2. ~InSession' /\ \A c \in calls' : ~c.here
    BY <1>1, <1>6, Facts DEF InSession
  <2> QED
    BY <1>6, <1>11, <2>1, <2>2 DEF Known
<1>13. Given(i)'
  BY <1>1, <1>3, <1>6, <1>10, <1>12 DEF Brief, Given, UserIs
<1>14. ~Fresh(i)'
  BY <1>3, <1>6 DEF Fresh, Member, Hashed
<1>15. Again(i)' \/ Once(i)'
  <2> SUFFICES ASSUME ~Again(i)' PROVE Once(i)'
    OBVIOUS
  <2>1. Once(i)
    BY AgainStays DEF Brief
  <2>2. user.id = i => user.pw[2] = 0
    <3>1. user.id = i => ~(user.pw[2] > 0)
      BY <1>3, <1>6 DEF NoteIf, Note, Again, Happened
    <3> QED
      BY <1>1, <3>1 DEF Password
  <2>3. user.id = i => Fresh(i) /\ ~Known(i) /\ Sets(i) = {}
    BY <1>1, <2>1, <2>2 DEF Fresh, Once
  <2>4. (\A n, m \in Sets(i) : n = m)' /\ (Sets(i)' # {} => ~Known(i)')
    BY <1>10, <1>12, <2>1, <2>3 DEF Once
  <2> QED
    BY <1>6, <1>11, <1>14, <2>1, <2>4 DEF Once
<1> QED
  BY <1>13, <1>15 DEF Brief

LEMMA SetStep ==
  ASSUME IInv, Next, NEW i \in Id, Brief(i), ProfileStored \/ OrphanApplied,
         Head(sent).op = "set", Head(sent).id = i
  PROVE  Brief(i)'
<1> DEFINE w == Head(sent)
<1>a. Types /\ Single /\ Mounted /\ Sessions
  BY DEF IInv
<1>0. sent # <<>> /\ sent' = Tail(sent) /\ ids' = ids
  BY DEF ProfileStored, OrphanApplied, Front, made
<1>1. /\ w = sent[1] /\ 1 \in 1 .. Len(sent) /\ w \in GoodWrite
      /\ \A n \in 1 .. Len(Tail(sent)) : Tail(sent)[n] = sent[n + 1] /\ n + 1 \in 1 .. Len(sent) /\ n \in Nat
  BY <1>a, <1>0, FrontOf DEF Types
<1>2. 1 \in Sets(i) /\ i <= ids
  BY <1>1 DEF Sets, Brief, Given
<1>3. Given(i)'
  BY <1>0, <1>2 DEF Given
<1>4. ASSUME Once(i) PROVE Once(i)'
  <2>1. \A n \in Sets(i) : n = 1
    BY <1>2, <1>4 DEF Once
  <2>2. Sets(i)' = {}
    <3> SUFFICES ASSUME NEW n \in Sets(i)' PROVE FALSE
      OBVIOUS
    <3>1. n \in 1 .. Len(Tail(sent)) /\ Tail(sent)[n].op = "set" /\ Tail(sent)[n].id = i
      BY <1>0 DEF Sets
    <3>2. n + 1 \in Sets(i) /\ n \in Nat /\ n \in 1 .. Len(Tail(sent))
      BY <1>1, <3>1 DEF Sets
    <3>3. n + 1 = 1
      BY <2>1, <3>2
    <3> QED
      BY <3>2, <3>3
  <2>3. ~Fresh(i) /\ ~Known(i) /\ ~Deleted(i)
    BY <1>2, <1>4 DEF Once, Known
  <2>4. ~Deleted(i)'
    BY <2>3 DEF ProfileStored, OrphanApplied, Note, Deleted, Happened
  <2>5. ~Fresh(i)'
    <3>1. CASE ProfileStored
      <4>1. w.doc \in Filled /\ w.id \in Id
        BY <1>1 DEF GoodWrite
      <4>2. user' \in Member
        BY <3>1, <4>1, UserOfIs DEF ProfileStored
      <4> QED
        BY <4>2 DEF Fresh, Member, Hashed
    <3>2. CASE OrphanApplied
      BY <2>3, <3>2 DEF OrphanApplied, local, Fresh
    <3> QED
      BY <3>1, <3>2
  <2> QED
    BY <2>2, <2>4, <2>5 DEF Once
<1> QED
  BY <1>3, <1>4, AgainStays DEF Brief

LEMMA QuietSync ==
  ASSUME IInv, NEW i \in Id, Sync
  PROVE  Quiet(i)
<1>1. Types
  BY DEF IInv
<1>2. CloudQuiet(i)
  BY SyncIs, CloudSame DEF Deleted, Happened
<1>3. HereQuiet(i)
  <2>1. \A c \in calls' : c.at = "clear" /\ c.user.id = i => Known(i)
    BY SyncIs DEF Known
  <2>2. \A n \in 1 .. Len(userBox') : \E m \in 1 .. Len(userBox) : userBox'[n].user = userBox[m].user
    BY <1>1, SyncBox
  <2> QED
    BY <2>1, <2>2, SyncIs, HereSame DEF InSession
<1>4. Follows
  BY <1>1, SyncIs, Queues
<1> QED
  BY <1>2, <1>3, <1>4, SyncIs, IdsNat, QuietIf

LEMMA BriefStep ==
  ASSUME IInv, Next, NEW i \in Id, Brief(i)
  PROVE  Brief(i)'
<1>1. CASE Restore \/ Kill \/ OtherDevice
  BY <1>1, QuietRest, QuietStep
<1>2. CASE Student
  <2>1. CASE \E course \in Course : SubmitProfile(course)
    BY <2>1, SubmitStep
  <2>2. CASE ~\E course \in Course : SubmitProfile(course)
    BY <1>2, <2>2, QuietStudent, QuietStep
  <2> QED
    BY <2>1, <2>2
<1>3. CASE Answer
  <2>1. PICK c \in calls : \/ LookedUp(c) \/ UserRead(c) \/ CoursesRead(c)
                           \/ QueryFails(c) \/ PasswordRead(c) \/ Cleared(c)
    BY <1>3 DEF Answer
  <2>2. CASE Born(c) /\ i = ids + 1
    BY <2>2, BornStep
  <2>3. CASE ~(Born(c) /\ i = ids + 1)
    BY <2>1, <2>3, QuietAnswer, QuietStep
  <2> QED
    BY <2>2, <2>3
<1>4. CASE Acknowledgement
  <2>1. CASE Refused \/ (Head(sent).op = "set" => Head(sent).id # i)
    BY <1>4, <2>1, QuietAcknowledgement, QuietStep
  <2>2. CASE ~(Refused \/ (Head(sent).op = "set" => Head(sent).id # i))
    <3>1. sent # <<>>
      BY <1>4 DEF Acknowledgement, ProfileStored, RecordStored, PasswordStored, EditStored, AccountDeleted,
             Refused, OrphanApplied, Front
    <3>2. Head(sent) \in GoodWrite
      BY <3>1, FrontOf DEF IInv, Types
    <3>3. ProfileStored \/ OrphanApplied
      BY <1>4, <2>2, <3>2 DEF Acknowledgement, RecordStored, PasswordStored, EditStored, AccountDeleted,
             Front, GoodWrite
    <3> QED
      BY <2>2, <3>3, SetStep
  <2> QED
    BY <2>1, <2>2
<1>5. CASE Sync
  BY <1>5, QuietSync, QuietStep
<1> QED
  BY <1>1, <1>2, <1>3, <1>4, <1>5 DEF Next

AllBrief == \A i \in Id : Brief(i)

\* No write that is still under way, late or from another device brings a deleted
\* account back, unless a profile is submitted for an account there was already
\* (delete_function.dart:15, fill_profile.dart:370).
THEOREM DeletionIsLasting == Spec => []DeletedStaysDeleted
<1>1. Init => IInv /\ AllBrief
  <2> SUFFICES ASSUME Init, NEW i \in Id PROVE Brief(i)
    BY InvInit DEF AllBrief
  <2>1. ~Known(i)
    BY DEF Init, Known, InSession, Deleted, Happened
  <2>2. Sets(i) = {} /\ ~UserIs(i) /\ ~Fresh(i) /\ ~Deleted(i)
    BY DEF Init, Sets, UserIs, Fresh, Deleted, Happened
  <2> QED
    BY <2>1, <2>2 DEF Brief, Given, Once
<1>2. IInv /\ AllBrief /\ [Next]_vars => (IInv /\ AllBrief)'
  <2> SUFFICES ASSUME IInv, AllBrief, [Next]_vars PROVE IInv' /\ AllBrief'
    OBVIOUS
  <2>1. CASE Next
    <3>1. \A i \in Id : Brief(i)'
      BY <2>1, BriefStep DEF AllBrief
    <3> QED
      BY <2>1, <3>1, InvStep DEF AllBrief
  <2>2. CASE UNCHANGED vars
    <3>1. UNCHANGED <<screen, user, userBox, lists, calls, sent, stored, other, ids, history>>
      BY <2>2 DEF vars, local, cloud, made
    <3>2. \A i \in Id : Known(i)' = Known(i) /\ Sets(i)' = Sets(i) /\ Fresh(i)' = Fresh(i)
                       /\ UserIs(i)' = UserIs(i)
      BY <3>1 DEF Known, Sets, Fresh, UserIs, InSession, Deleted, Happened
    <3> QED
      BY <2>2, <3>1, <3>2, InvStep DEF AllBrief, Brief, Given, Once, Again, Deleted, Happened
  <2> QED
    BY <2>1, <2>2
<1>3. AllBrief => DeletedStaysDeleted
  BY DEF AllBrief, Brief, Once, DeletedStaysDeleted, Deleted, Again
<1> QED
  BY <1>1, <1>2, <1>3, PTL DEF Spec

-----------------------------------------------------------------------------
(* The app starts again.                                                   *)

Cut == Happened("cut", 0)

HasData(image) == image.user = None \/ image.data # None

\* The box has course data with its user, but for a sign-in that waits for them; what
\* is left of a log-out has them too.
Whole ==
  ~Left /\ ~Cut =>
    /\ screen # "stuck"
    /\ HasData(Last(userBox)) \/ \E c \in calls : c.at = "courses"
    /\ Last(userBox).user = None => \A n \in 1 .. Len(userBox) : HasData(userBox[n])

LEMMA WholeStep ==
  ASSUME IInv, Own, Whole, Next
  PROVE  Whole'
<1> SUFFICES ASSUME ~Left', ~Cut'
             PROVE  /\ screen' # "stuck"
                    /\ HasData(Last(userBox')) \/ \E c \in calls' : c.at = "courses"
                    /\ Last(userBox').user = None => \A n \in 1 .. Len(userBox') : HasData(userBox'[n])
  BY DEF Whole, HasData
<1>a. ~Left /\ ~Cut
  BY LeftStays, HistoryGrows DEF Cut, Happened
<1>b. Types /\ Single /\ Mounted /\ Sessions
  BY DEF IInv
<1>c. /\ screen # "stuck"
      /\ HasData(Last(userBox)) \/ \E c \in calls : c.at = "courses"
      /\ Last(userBox).user = None => \A n \in 1 .. Len(userBox) : HasData(userBox[n])
  BY <1>a DEF Whole
<1>d. StayHere /\ OfSession /\ SameUser
  BY <1>a DEF Own
<1>e. InSession => Last(userBox).user # None /\ (Last(userBox).data # None \/ \E c \in calls : c.at = "courses")
  BY <1>c, <1>d DEF SameUser, HasData
\* The box stays.
<1>1. ASSUME UNCHANGED userBox, screen' # "stuck",
             \A c \in calls : c.at = "courses" => \E e \in calls' : e.at = "courses"
      PROVE  /\ screen' # "stuck"
             /\ HasData(Last(userBox')) \/ \E c \in calls' : c.at = "courses"
             /\ Last(userBox').user = None => \A n \in 1 .. Len(userBox') : HasData(userBox'[n])
  BY <1>c, <1>1
\* A user of a session replaces that of the box.
<1>2. ASSUME NEW u \in Member, userBox' = saveUser(Box, u), screen' # "stuck",
             (InSession /\ \A c \in calls : c.at = "courses" => c \in calls')
               \/ \E c \in calls' : c.at = "courses"
      PROVE  /\ screen' # "stuck"
             /\ HasData(Last(userBox')) \/ \E c \in calls' : c.at = "courses"
             /\ Last(userBox').user = None => \A n \in 1 .. Len(userBox') : HasData(userBox'[n])
  <2>1. Last(userBox') = [user |-> u, data |-> Last(userBox).data] /\ u # None
    BY <1>b, <1>2, UserSaved, NoneApart
  <2>2. Last(userBox').user = u /\ Last(userBox').data = Last(userBox).data
    BY <2>1
  <2> QED
    BY <1>2, <1>e, <2>1, <2>2 DEF HasData
\* The box is cleared when nobody waits for the courses.
<1>3. ASSUME userBox' = deleteKeys(Box), ~\E c \in calls : c.at = "courses", screen' # "stuck"
      PROVE  /\ screen' # "stuck"
             /\ HasData(Last(userBox')) \/ \E c \in calls' : c.at = "courses"
             /\ Last(userBox').user = None => \A n \in 1 .. Len(userBox') : HasData(userBox'[n])
  <2>1. /\ Last(userBox') = [user |-> None, data |-> None]
        /\ \A n \in 1 .. Len(userBox') : userBox'[n] = Last(userBox) \/ userBox'[n].user = None
    BY <1>b, <1>3, BothDeleted
  <2> QED
    BY <1>3, <1>c, <2>1 DEF HasData
<1>4. CASE Restore
  <2>1. calls = {}
    BY <1>4, <1>b DEF Restore, Sessions
  <2>2. screen' # "stuck"
    BY <1>4, <1>c, <2>1 DEF Restore, HasData
  <2> QED
    BY <1>1, <1>4, <2>2 DEF Restore
<1>5. CASE Student
  <2>1. CASE Record
    <3>1. user \in Member /\ InSession
      BY <1>b, <2>1 DEF Record, InSession, Sessions
    <3> QED
      BY <1>2, <1>c, <2>1, <3>1 DEF Record
  <2>2. CASE Logout
    <3>1. ~\E c \in calls : c.at = "courses"
      <4>1. ~Handlers
        BY <2>2, OverlapNoted DEF Logout
      <4> QED
        BY <4>1 DEF Handlers
    <3> QED
      BY <1>3, <2>2, <3>1 DEF Logout, clearData
  <2>3. CASE Leave
    <3>1. \A c \in calls : c.at = "courses" => \E e \in calls' : e.at = "courses"
      <4> SUFFICES ASSUME NEW c \in calls, c.at = "courses" PROVE \E e \in calls' : e.at = "courses"
        OBVIOUS
      <4>1. [c EXCEPT !.here = FALSE] \in calls'
        BY <2>3 DEF Leave, Unmounted
      <4>2. [c EXCEPT !.here = FALSE].at = "courses"
        BY Facts, LeftCall
      <4> QED
        BY <4>1, <4>2
    <3> QED
      BY <1>1, <2>3, <3>1 DEF Leave
  <2>4. CASE ~Record /\ ~Logout /\ ~Leave
    <3>1. UNCHANGED userBox /\ screen' # "stuck" /\ \A c \in calls : c \in calls'
      BY <1>5, <1>c, <2>4 DEF Student, StartSignUp, SubmitProfile, StartLogin, Open, StartChange,
             StartEdit, StartDelete, Call
    <3> QED
      BY <1>1, <3>1
  <2> QED
    BY <2>1, <2>2, <2>3, <2>4
<1>6. CASE Answer
  <2>0. PICK c \in calls : \/ LookedUp(c) \/ UserRead(c) \/ CoursesRead(c)
                           \/ QueryFails(c) \/ PasswordRead(c) \/ Cleared(c)
    BY <1>6 DEF Answer
  <2>c. c \in GoodCall
    BY Facts
  <2>1. CASE LookedUp(c) \/ QueryFails(c)
    <3>1. UNCHANGED userBox /\ screen' # "stuck" /\ calls' = calls \ {c} /\ c.at # "courses"
      BY <1>c, <2>1 DEF LookedUp, QueryFails, Answered
    <3>2. \A e \in calls : e.at = "courses" => e \in calls'
      BY <3>1
    <3> QED
      BY <1>1, <3>1, <3>2
  <2>2. CASE UserRead(c)
    <3>1. screen' # "stuck" /\ c.at = "user"
      BY <1>c, <2>2 DEF UserRead
    <3>2. CASE Answered(c) /\ UNCHANGED <<user, userBox>>
      <4>1. \A e \in calls : e.at = "courses" => e \in calls'
        BY <3>1, <3>2 DEF Answered
      <4> QED
        BY <1>1, <3>1, <3>2, <4>1
    <3>3. ASSUME NEW i \in Having(c.address),
                 userBox' = saveUser(Box, UserOf(i, stored[i])),
                 calls' = (calls \ {c}) \cup
                   {[kind |-> "login", at |-> "courses", course |-> stored[i].course, here |-> c.here]}
          PROVE  /\ screen' # "stuck"
                 /\ HasData(Last(userBox')) \/ \E e \in calls' : e.at = "courses"
                 /\ Last(userBox').user = None => \A n \in 1 .. Len(userBox') : HasData(userBox'[n])
      <4>1. UserOf(i, stored[i]) \in Member
        BY <1>b, StoredIs DEF Having
      <4>2. \E e \in calls' : e.at = "courses"
        <5>1. PICK e : e = [kind |-> "login", at |-> "courses", course |-> stored[i].course, here |-> c.here]
          OBVIOUS
        <5>2. e.at = "courses" /\ e \in calls'
          BY <3>3, <5>1
        <5> QED
          BY <5>2
      <4> QED
        BY <1>2, <3>1, <3>3, <4>1, <4>2
    <3> QED
      BY <2>2, <3>2, <3>3 DEF UserRead
  <2>3. CASE CoursesRead(c)
    <3>1. c.course \in Course /\ userBox' = saveCourseData(Box, c.course) /\ screen' # "stuck"
      BY <1>c, <2>3, <2>c, CallShape DEF CoursesRead, CourseCall, Show
    <3>2. /\ Last(userBox') = [user |-> Last(userBox).user, data |-> c.course]
          /\ \A n \in 1 .. Len(userBox') :
               userBox'[n] \in {Last(userBox), [user |-> Last(userBox).user, data |-> c.course]}
      BY <1>b, <3>1, DataSaved
    <3>3. Last(userBox').data # None
      BY <3>1, <3>2, NoneApart
    <3>4. Last(userBox').user = Last(userBox).user /\ \A n \in 1 .. Len(userBox') : userBox'[n].user = Last(userBox).user
      BY <3>2
    <3> QED
      BY <3>1, <3>3, <3>4 DEF HasData
  <2>4. CASE PasswordRead(c)
    <3>1. c.id \in Id /\ InSession /\ c.at = "read"
      BY <1>d, <2>4, <2>c, CallShape DEF PasswordRead, ReadCall, OfSession
    <3>2. UserOf(c.id, stored[c.id]) \in Member
      BY <1>b, <2>4, <3>1, StoredIs DEF PasswordRead
    <3>3. \A e \in calls : e.at = "courses" => e \in calls'
      BY <2>4, <3>1 DEF PasswordRead, Answered
    <3>4. screen' # "stuck" /\ userBox' = saveUser(Box, UserOf(c.id, stored[c.id]))
      BY <1>c, <2>4 DEF PasswordRead, Show
    <3> QED
      BY <1>2, <3>1, <3>2, <3>3, <3>4
  <2>5. CASE Cleared(c)
    <3>1. c.user \in Member /\ InSession /\ c.at = "clear"
      BY <1>d, <2>5, <2>c, CallShape DEF Cleared, ClearCall, OfSession
    <3>2. \A e \in calls : e.at = "courses" => e \in calls'
      BY <2>5, <3>1 DEF Cleared, Answered
    <3>3. screen' # "stuck" /\ userBox' = saveUser(Box, c.user)
      BY <1>c, <2>5 DEF Cleared
    <3> QED
      BY <1>2, <3>1, <3>2, <3>3
  <2> QED
    BY <2>0, <2>1, <2>2, <2>3, <2>4, <2>5
<1>7. CASE Acknowledgement
  <2>0. sent # <<>>
    BY <1>7 DEF Acknowledgement, ProfileStored, RecordStored, PasswordStored, EditStored, AccountDeleted,
           Refused, OrphanApplied, Front
  <2>c. Head(sent) \in GoodWrite
    BY <1>b, <2>0, FrontOf DEF Types
  <2>1. CASE ProfileStored
    <3>1. PICK u \in Member : u = UserOf(Head(sent).id, Head(sent).doc)
      BY <2>c, UserOfIs DEF GoodWrite
    <3>2. userBox' = saveCourseData(saveUser(Box, u), u.course) /\ screen' # "stuck" /\ u.course \in Course
      BY <1>c, <2>1, <3>1 DEF ProfileStored, Show, Member
    <3>3. Last(userBox') = [user |-> u, data |-> u.course]
      BY <1>b, <3>2, BothSaved
    <3>4. Last(userBox').user # None /\ Last(userBox').data # None
      BY <3>2, <3>3, NoneApart
    <3> QED
      BY <3>2, <3>4 DEF HasData
  <2>2. CASE AccountDeleted /\ Head(sent).here
    <3>1. calls = {} /\ clearData
      BY <2>2 DEF AccountDeleted, Note, Left, Happened
    <3> QED
      BY <1>3, <3>1 DEF clearData
  <2>3. CASE ~ProfileStored /\ ~(AccountDeleted /\ Head(sent).here)
    <3>1. UNCHANGED <<screen, userBox>> /\ \A c \in calls : c \in calls'
      BY <1>7, <2>3 DEF Acknowledgement, RecordStored, PasswordStored, EditStored, AccountDeleted,
             Refused, OrphanApplied, local, Call
    <3> QED
      BY <1>1, <1>c, <3>1
  <2> QED
    BY <2>1, <2>2, <2>3
<1>8. CASE Kill
  <2>1. PICK n \in 1 .. Len(userBox) :
          /\ userBox' = <<userBox[n]>>
          /\ Handlers \/ (n < Len(userBox) /\ Last(userBox).user # None) => Cut'
    BY <1>8 DEF Kill, Note, Cut, Happened
  <2>2. ~\E c \in calls : c.at = "courses"
    BY <2>1 DEF Handlers
  <2>3. HasData(userBox[n])
    <3>1. CASE Last(userBox).user = None
      BY <1>c, <3>1
    <3>2. CASE Last(userBox).user # None
      <4>1. Len(userBox) \in Nat /\ ~(n < Len(userBox))
        BY <1>b, <2>1, <3>2 DEF Types
      <4>2. n = Len(userBox)
        BY <4>1
      <4> QED
        BY <1>c, <2>2, <4>2 DEF Last
    <3> QED
      BY <3>1, <3>2
  <2>4. Last(userBox') = userBox[n] /\ \A m \in 1 .. Len(userBox') : userBox'[m] = userBox[n]
    BY <2>1 DEF Last
  <2> QED
    BY <1>8, <2>3, <2>4 DEF Kill
<1>9. CASE OtherDevice
  <2>1. UNCHANGED <<screen, userBox, calls>>
    BY <1>9 DEF OtherDevice, OtherSession, OtherRecord, OtherChange, OtherEdit, OtherDelete, local
  <2> QED
    BY <1>1, <1>c, <2>1
<1>10. CASE Sync
  BY <1>10, <1>b, <1>c, SyncIs, SyncBox DEF HasData
<1> QED
  BY <1>4, <1>5, <1>6, <1>7, <1>8, <1>9, <1>10 DEF Next

\* The app only hangs on its splash screen, with a user and no course data
\* (splash_screen.dart:36), after a handler was cut by a kill or ended after the
\* log-out; a log-out that is cut never does it (authProvider.dart:126-127).
THEOREM StartIsNeverStuck == Spec => []NeverStuck
<1>1. Init => IInv /\ Own /\ Whole
  BY InvInit DEF Init, Own, StayHere, OfSession, SameUser, Owned, InSession, Last, Whole, HasData
<1>2. IInv /\ Own /\ Whole /\ [Next]_vars => (IInv /\ Own /\ Whole)'
  <2> SUFFICES ASSUME IInv, Own, Whole, [Next]_vars PROVE IInv' /\ Own' /\ Whole'
    OBVIOUS
  <2>1. CASE Next
    BY <2>1, InvStep, OwnStep, WholeStep
  <2>2. CASE UNCHANGED vars
    <3>1. UNCHANGED <<screen, user, userBox, lists, calls, sent, history, mixed>>
      BY <2>2 DEF vars, local, syncing, cloud
    <3>2. Own' /\ Whole'
      BY <3>1 DEF Own, StayHere, OfSession, SameUser, Owned, InSession, Whole, HasData,
                  Left, Foreign, Out, Cut, Happened
    <3> QED
      BY <2>2, <3>2, InvStep
  <2> QED
    BY <2>1, <2>2
<1>3. Whole => NeverStuck
  BY DEF Whole, NeverStuck, Left, Cut
<1> QED
  BY <1>1, <1>2, <1>3, PTL DEF Spec

=============================================================================
